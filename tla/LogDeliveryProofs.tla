------------------------- MODULE LogDeliveryProofs -------------------------
(***************************************************************************)
(* Proofs about LogDelivery for any number of records, connections and     *)
(* faults: a stale unregistration never closes the hierarchy of a live     *)
(* connection; a retired buffer stays empty, and the last id is on its way *)
(* to the checkpoint or there, but for the failures that are reported; and *)
(* the resume point that the server keeps passes over no record that has   *)
(* reached no handler.                                                     *)
(***************************************************************************)
EXTENDS LogDelivery, SequenceTheorems, WellFoundedInduction, TLAPS

-----------------------------------------------------------------------------
(* The server's side. *)

ReaderStates == {"none", "new", "acked", "streaming", "done"}

(* Connections are numbered as they are made. *)
ReadersOk ==
  /\ reader \in [Conns -> ReaderStates] /\ opened \in Nat
  /\ \A c \in Conns : c > opened => reader[c] = "none"

(* What waits in the writer's queue: a connection is registered once its    *)
(* reader streams, and its one unregistration comes after the reader ended. *)
QueueOk ==
  /\ queue \in Seq(Range(queue))
  /\ \A i \in 1..Len(queue) :
       /\ queue[i] = <<queue[i][1], queue[i][2]>>
       /\ queue[i][1] = "register" =>
            queue[i][2] \in Conns /\ reader[queue[i][2]] \in {"streaming", "done"}
       /\ queue[i][1] = "unregister" =>
            /\ queue[i][2] \in Conns /\ reader[queue[i][2]] = "done"
            /\ \A j \in 1..Len(queue) : queue[j] = queue[i] => j = i

AppliedOk ==
  /\ applied \in Seq(Conns)
  /\ \A i \in 1..Len(applied) : reader[applied[i]] \in {"streaming", "done"}

ServerInv == ReadersOk /\ QueueOk /\ AppliedOk /\ LiveHierarchyKept

-----------------------------------------------------------------------------
(* The client's side. *)

StoreTypes ==
  /\ next \in Nat \ {0} /\ first \in Nat \ {0} /\ first <= next
  /\ ckpt \in Nat /\ held \in Nat /\ jobs \in Seq(Nat) /\ scheduled \in Nat
  /\ worker \in {"run", "last", "ended", "failed", "none"}
  /\ emit \in {"idle", "persist", "put", "recorded", "raised"}
  /\ histShut \in BOOLEAN /\ flushed \in BOOLEAN /\ ckptShut \in BOOLEAN /\ takenOver \in BOOLEAN
  /\ emit \in {"persist", "put"} => first < next

(* The buffer is retired in a shutdown only, and stays empty. *)
Retired == flushed => histShut /\ entries = <<>>

(* No record is between its id and its checkpoint, and the last id got there. *)
Settled == emit \notin {"persist", "put"} /\ LastId \notin unwritten

(* With a worker that lives and nobody who took over, the last id is the last *)
(* one queued, or the one taken, or the one written.                          *)
LastQueued(i) == i \in 1..Len(jobs) /\ jobs[i] = LastId /\ \A j \in (i + 1)..Len(jobs) : jobs[j] = 0
Tracked ==
  ~OnLoop /\ ~takenOver /\ worker # "failed" /\ Settled =>
    \/ (\A i \in 1..Len(jobs) : jobs[i] = 0) /\ LastId = IF held # 0 THEN held ELSE ckpt
    \/ LastId # 0 /\ \E i \in 1..Len(jobs) : LastQueued(i)

(* What close() of the checkpoint on the loop would write. *)
ScheduledOk == emit # "persist" => scheduled \in {0, LastId} \/ LastId \in unwritten

(* Who took over wrote the last id, or it is scheduled and nobody writes it. *)
TakenOverOk ==
  takenOver =>
    /\ ~OnLoop => ckptShut /\ emit # "put"
    /\ Settled => ckpt = LastId \/ (OnLoop /\ \E i \in 1..Len(jobs) : jobs[i] = LastId)

(* Only a worker that runs holds an id. *)
HeldOk == worker \in {"ended", "failed", "none"} => held = 0

StoreInv == StoreTypes /\ Retired /\ Tracked /\ ScheduledOk /\ TakenOverOk /\ HeldOk

-----------------------------------------------------------------------------
(* Sequences. *)

LEMMA Appended ==
  ASSUME NEW s, s \in Seq(Range(s)), NEW e
  PROVE  /\ Append(s, e) \in Seq(Range(Append(s, e)))
         /\ Len(s) \in Nat /\ Len(Append(s, e)) = Len(s) + 1
         /\ \A i \in 1..Len(s) : Append(s, e)[i] = s[i]
         /\ Append(s, e)[Len(s) + 1] = e
         /\ Range(Append(s, e)) = Range(s) \cup {e}
<1> DEFINE S == Range(s) \cup {e}
           t == Append(s, e)
<1>1. s \in Seq(S)
  BY SeqMonotonic
<1>2. /\ t \in Seq(S) /\ Len(t) = Len(s) + 1 /\ Len(s) \in Nat
      /\ \A i \in 1..Len(s) : t[i] = s[i]
      /\ t[Len(s) + 1] = e
  BY <1>1, AppendProperties, LenProperties
<1>3. t \in Seq(Range(t))
  BY <1>2, SeqOfRange
<1>4. Range(t) = {t[i] : i \in 1..Len(t)} /\ Range(s) = {s[i] : i \in 1..Len(s)}
  BY <1>1, <1>2, RangeEquality
<1>5. 1..Len(t) = 1..Len(s) \cup {Len(s) + 1}
  BY <1>2
<1> HIDE DEF t
<1>6. Range(t) = Range(s) \cup {e}
  <2>1. ASSUME NEW x \in Range(t) PROVE x \in Range(s) \cup {e}
    <3>1. PICK i \in 1..Len(t) : x = t[i]
      BY <1>4
    <3> QED
      BY <3>1, <1>2, <1>4, <1>5
  <2>2. ASSUME NEW x \in Range(s) PROVE x \in Range(t)
    <3>1. PICK i \in 1..Len(s) : x = s[i]
      BY <1>4
    <3>2. i \in 1..Len(t) /\ t[i] = x
      BY <3>1, <1>2
    <3> QED
      BY <3>2, <1>4
  <2>3. e \in Range(t)
    BY <1>2, <1>4, <1>5
  <2> QED
    BY <2>1, <2>2, <2>3
<1> QED
  BY <1>2, <1>3, <1>6 DEF t

LEMMA Taken ==
  ASSUME NEW s, s \in Seq(Range(s)), s # <<>>
  PROVE  /\ Tail(s) \in Seq(Range(Tail(s)))
         /\ Len(s) \in Nat \ {0} /\ Len(Tail(s)) = Len(s) - 1
         /\ \A i \in 1..Len(Tail(s)) : Tail(s)[i] = s[i + 1]
         /\ Head(s) = s[1]
         /\ Range(Tail(s)) \subseteq Range(s)
<1> DEFINE t == Tail(s)
<1>1. /\ t \in Seq(Range(s)) /\ Len(t) = Len(s) - 1 /\ Len(s) \in Nat \ {0}
      /\ \A i \in 1..Len(t) : t[i] = s[i + 1]
  BY HeadTailProperties, EmptySeq
<1>2. t \in Seq(Range(t)) /\ Range(t) \subseteq Range(s)
  BY <1>1, SeqOfRange, RangeOfSeq
<1>3. Head(s) = s[1]
  OBVIOUS
<1> QED
  BY <1>1, <1>2, <1>3

LEMMA EmptyQueue == <<>> \in Seq(Range(<<>>)) /\ Len(<<>>) = 0
BY EmptySeq

\* What is in a queue is at some place of it.
LEMMA InRange ==
  ASSUME NEW s, s \in Seq(Range(s)), NEW e
  PROVE  e \in Range(s) <=> \E i \in 1..Len(s) : s[i] = e
BY RangeEquality

-----------------------------------------------------------------------------
(* The server: each kind of step. *)

serverPart == <<reader, opened, queue, hier, applied>>

LEMMA ServerIdle == ServerInv /\ UNCHANGED serverPart => ServerInv'
BY DEF ServerInv, ReadersOk, QueueOk, AppliedOk, LiveHierarchyKept, serverPart, Last, Conns,
       UnregisterClient

LEMMA ServerStarts == ServerInit /\ opened = 0 => ServerInv
BY EmptyQueue, EmptySeq
   DEF ServerInit, ServerInv, ReadersOk, QueueOk, AppliedOk, LiveHierarchyKept, Conns, ReaderStates

\* The connection whose config was applied last is on the list.
LEMMA LastApplied ==
  ASSUME AppliedOk, applied # <<>>
  PROVE  /\ Last(applied) \in Conns /\ reader[Last(applied)] \in {"streaming", "done"}
         /\ Len(applied) \in Nat \ {0} /\ Last(applied) = applied[Len(applied)]
BY EmptySeq, ElementOfSeq DEF AppliedOk, Last

\* A connection that does not stream yet is in nobody's books.
LEMMA BeforeStreaming ==
  ASSUME ServerInv, NEW c \in Conns, reader[c] \in {"none", "new", "acked"},
         NEW to \in ReaderStates, reader' = [reader EXCEPT ![c] = to],
         opened' \in Nat, opened <= opened', c <= opened', UNCHANGED <<queue, hier, applied>>
  PROVE  ServerInv'
<1> USE DEF ServerInv
<1>1. ReadersOk'
  BY DEF ReadersOk, ReaderStates, Conns
<1>2. \A d \in Conns : reader[d] \in {"streaming", "done"} => reader'[d] = reader[d]
  BY DEF ReadersOk
<1>3. QueueOk'
  BY <1>2 DEF QueueOk
<1>4. AppliedOk'
  BY <1>2, ElementOfSeq DEF AppliedOk
<1>5. LiveHierarchyKept'
  BY <1>2, LastApplied DEF LiveHierarchyKept, Last, UnregisterClient
<1> QED
  BY <1>1, <1>3, <1>4, <1>5

\* An item is queued: what is said of the others goes on to hold, provided no
\* connection that streamed starts over; an unregistration is queued once.
LEMMA QueueGrows ==
  ASSUME QueueOk, NEW item, item = <<item[1], item[2]>>, queue' = Append(queue, item),
         \A d \in Conns : /\ reader[d] = "streaming" => reader'[d] \in {"streaming", "done"}
                          /\ reader[d] = "done" => reader'[d] = "done",
         item[1] = "register" =>
           item[2] \in Conns /\ reader'[item[2]] \in {"streaming", "done"},
         item[1] = "unregister" =>
           item[2] \in Conns /\ reader'[item[2]] = "done" /\ item \notin Range(queue)
  PROVE  QueueOk'
<1>1. /\ queue' \in Seq(Range(queue')) /\ Len(queue) \in Nat /\ Len(queue') = Len(queue) + 1
      /\ \A i \in 1..Len(queue) : queue'[i] = queue[i]
      /\ queue'[Len(queue) + 1] = item
  BY Appended DEF QueueOk
<1>2. SUFFICES ASSUME NEW i \in 1..Len(queue')
             PROVE  /\ queue'[i] = <<queue'[i][1], queue'[i][2]>>
                    /\ queue'[i][1] = "register" =>
                         queue'[i][2] \in Conns /\ reader'[queue'[i][2]] \in {"streaming", "done"}
                    /\ queue'[i][1] = "unregister" =>
                         /\ queue'[i][2] \in Conns /\ reader'[queue'[i][2]] = "done"
                         /\ \A j \in 1..Len(queue') : queue'[j] = queue'[i] => j = i
  BY <1>1 DEF QueueOk
<1>3. item[1] = "unregister" => \A j \in 1..Len(queue) : queue[j] # item
  BY InRange DEF QueueOk
<1>4. CASE i = Len(queue) + 1
  <2>1. queue'[i] = item
    BY <1>4, <1>1
  <2>2. item[1] = "unregister" => \A j \in 1..Len(queue') : queue'[j] = item => j = i
    BY <1>4, <1>1, <1>3
  <2> QED
    BY <2>1, <2>2
<1>5. CASE i \in 1..Len(queue)
  <2>1. queue'[i] = queue[i]
    BY <1>5, <1>1
  <2>2. /\ queue[i] = <<queue[i][1], queue[i][2]>>
        /\ queue[i][1] = "register" =>
             queue[i][2] \in Conns /\ reader'[queue[i][2]] \in {"streaming", "done"}
        /\ queue[i][1] = "unregister" => queue[i][2] \in Conns /\ reader'[queue[i][2]] = "done"
    BY <1>5 DEF QueueOk
  <2>3. queue[i][1] = "unregister" => \A j \in 1..Len(queue) : queue[j] = queue[i] => j = i
    BY <1>5 DEF QueueOk
  <2>4. queue[i][1] = "unregister" => item # queue[i]
    BY <1>5, <1>3
  <2>5. queue[i][1] = "unregister" => \A j \in 1..Len(queue') : queue'[j] = queue[i] => j = i
    BY <1>1, <2>3, <2>4
  <2> QED
    BY <2>1, <2>2, <2>5
<1> QED
  BY <1>1, <1>4, <1>5

LEMMA EnrolKeeps ==
  ASSUME ServerInv, NEW c \in Conns, Enrol(c), opened' = opened
  PROVE  ServerInv'
<1> DEFINE item == RegisterClient(c)
<1> USE DEF ServerInv
<1>1. /\ reader[c] = "acked" /\ reader' = [reader EXCEPT ![c] = "streaming"]
      /\ queue' = Append(queue, item) /\ hier' = hier /\ applied' = applied
  BY DEF Enrol, ReaderGoes
<1>2. ReadersOk'
  BY <1>1 DEF ReadersOk, ReaderStates, Conns
<1>3. /\ \A d \in Conns : d # c => reader'[d] = reader[d]
      /\ reader'[c] = "streaming" /\ reader[c] = "acked"
  BY <1>1 DEF ReadersOk
<1>4. /\ queue' \in Seq(Range(queue')) /\ Len(queue) \in Nat /\ Len(queue') = Len(queue) + 1
      /\ \A i \in 1..Len(queue) : queue'[i] = queue[i]
      /\ queue'[Len(queue) + 1] = item
      /\ Range(queue') = Range(queue) \cup {item}
  BY <1>1, Appended DEF QueueOk
<1>5. QueueOk'
  BY <1>1, <1>3, QueueGrows DEF RegisterClient
<1>6. AppliedOk'
  BY <1>1, <1>3, ElementOfSeq DEF AppliedOk
<1>7. LiveHierarchyKept'
  BY <1>1, <1>3, <1>4, LastApplied DEF LiveHierarchyKept, Last, UnregisterClient, RegisterClient
<1> QED
  BY <1>2, <1>5, <1>6, <1>7

LEMMA IngestKeeps ==
  ASSUME ServerInv, NEW c \in Conns, Ingest(c), opened' = opened
  PROVE  ServerInv'
<1> DEFINE item == Dispatched(Head(wire[c])[2])
<1> USE DEF ServerInv
<1>1. /\ reader' = reader /\ hier' = hier /\ applied' = applied /\ queue' = Append(queue, item)
  BY DEF Ingest
<1>2. ReadersOk' /\ AppliedOk'
  BY <1>1 DEF ReadersOk, AppliedOk
<1>4. /\ queue' \in Seq(Range(queue')) /\ Len(queue) \in Nat /\ Len(queue') = Len(queue) + 1
      /\ \A i \in 1..Len(queue) : queue'[i] = queue[i]
      /\ queue'[Len(queue) + 1] = item
      /\ Range(queue') = Range(queue) \cup {item}
  BY <1>1, Appended DEF QueueOk
<1>5. QueueOk'
  BY <1>1, QueueGrows DEF Dispatched
<1>7. LiveHierarchyKept'
  BY <1>1, <1>4 DEF LiveHierarchyKept, Last, UnregisterClient, Dispatched
<1> QED
  BY <1>2, <1>5, <1>7

\* One unregistration per connection: its reader ends once.
LEMMA HangUpKeeps ==
  ASSUME ServerInv, NEW c \in Conns, HangUp(c), opened' = opened
  PROVE  ServerInv'
<1> DEFINE item == UnregisterClient(c)
<1> USE DEF ServerInv
<1>1. /\ reader[c] = "streaming" /\ reader' = [reader EXCEPT ![c] = "done"]
      /\ queue' = Append(queue, item) /\ hier' = hier /\ applied' = applied
  BY DEF HangUp, ReaderGoes
<1>2. ReadersOk'
  BY <1>1 DEF ReadersOk, ReaderStates, Conns
<1>3. /\ \A d \in Conns : d # c => reader'[d] = reader[d]
      /\ reader'[c] = "done" /\ reader[c] = "streaming"
  BY <1>1 DEF ReadersOk
<1>4. /\ queue' \in Seq(Range(queue')) /\ Len(queue) \in Nat /\ Len(queue') = Len(queue) + 1
      /\ \A i \in 1..Len(queue) : queue'[i] = queue[i]
      /\ queue'[Len(queue) + 1] = item
      /\ Range(queue') = Range(queue) \cup {item}
  BY <1>1, Appended DEF QueueOk
<1>5. item \notin Range(queue)
  BY <1>3, InRange DEF QueueOk, UnregisterClient
<1>6. QueueOk'
  BY <1>1, <1>3, <1>5, QueueGrows DEF UnregisterClient
<1>7. AppliedOk'
  BY <1>1, <1>3, ElementOfSeq DEF AppliedOk
<1>8. LiveHierarchyKept'
  BY <1>1, <1>3, <1>4, LastApplied DEF LiveHierarchyKept, Last, UnregisterClient
<1> QED
  BY <1>2, <1>6, <1>7, <1>8

\* The writer takes the first item.
LEMMA QueueShrinks ==
  ASSUME QueueOk, queue # <<>>, queue' = Tail(queue), reader' = reader
  PROVE  /\ QueueOk' /\ Range(queue') \subseteq Range(queue)
         /\ Head(queue) = <<Head(queue)[1], Head(queue)[2]>>
         /\ Head(queue)[1] = "register" =>
              Head(queue)[2] \in Conns /\ reader[Head(queue)[2]] \in {"streaming", "done"}
         /\ Head(queue)[1] = "unregister" =>
              /\ Head(queue)[2] \in Conns /\ reader[Head(queue)[2]] = "done"
              /\ Head(queue) \notin Range(queue')
<1>1. /\ queue' \in Seq(Range(queue')) /\ Len(queue) \in Nat \ {0} /\ Len(queue') = Len(queue) - 1
      /\ \A i \in 1..Len(queue') : queue'[i] = queue[i + 1]
      /\ Head(queue) = queue[1] /\ Range(queue') \subseteq Range(queue)
  BY Taken DEF QueueOk
<1>2. QueueOk'
  <2> SUFFICES ASSUME NEW i \in 1..Len(queue')
               PROVE  /\ queue'[i] = <<queue'[i][1], queue'[i][2]>>
                      /\ queue'[i][1] = "register" =>
                           queue'[i][2] \in Conns /\ reader'[queue'[i][2]] \in {"streaming", "done"}
                      /\ queue'[i][1] = "unregister" =>
                           /\ queue'[i][2] \in Conns /\ reader'[queue'[i][2]] = "done"
                           /\ \A j \in 1..Len(queue') : queue'[j] = queue'[i] => j = i
    BY <1>1 DEF QueueOk
  <2>1. i + 1 \in 1..Len(queue) /\ queue'[i] = queue[i + 1]
    BY <1>1
  <2>2. /\ queue[i + 1] = <<queue[i + 1][1], queue[i + 1][2]>>
        /\ queue[i + 1][1] = "register" =>
             queue[i + 1][2] \in Conns /\ reader[queue[i + 1][2]] \in {"streaming", "done"}
        /\ queue[i + 1][1] = "unregister" =>
             queue[i + 1][2] \in Conns /\ reader[queue[i + 1][2]] = "done"
    BY <2>1 DEF QueueOk
  <2>3. ASSUME queue[i + 1][1] = "unregister", NEW j \in 1..Len(queue'), queue'[j] = queue[i + 1]
        PROVE  j = i
    <3>1. j + 1 \in 1..Len(queue) /\ queue[j + 1] = queue[i + 1]
      BY <1>1, <2>3
    <3>2. j + 1 = i + 1
      BY <3>1, <2>1, <2>3 DEF QueueOk
    <3> QED
      BY <3>2, <1>1
  <2> QED
    BY <2>1, <2>2, <2>3
<1>3. 1 \in 1..Len(queue)
  BY <1>1
<1>4. ASSUME Head(queue)[1] = "unregister", Head(queue) \in Range(queue')
      PROVE  FALSE
  <2> DEFINE rest == queue'
  <2>0. rest \in Seq(Range(rest)) /\ Head(queue) \in Range(rest)
    BY <1>1, <1>4
  <2> HIDE DEF rest
  <2>3. \E j \in 1..Len(rest) : rest[j] = Head(queue)
    BY <2>0, InRange
  <2>1. PICK j \in 1..Len(queue') : queue'[j] = Head(queue)
    BY <2>3 DEF rest
  <2>2. j + 1 \in 1..Len(queue) /\ queue[j + 1] = queue[1]
    BY <1>1, <2>1
  <2>4. j + 1 = 1
    BY <1>1, <1>3, <1>4, <2>2 DEF QueueOk
  <2> QED
    BY <2>4
<1>5. /\ Head(queue) = <<Head(queue)[1], Head(queue)[2]>>
      /\ Head(queue)[1] = "register" =>
           Head(queue)[2] \in Conns /\ reader[Head(queue)[2]] \in {"streaming", "done"}
      /\ Head(queue)[1] = "unregister" =>
           Head(queue)[2] \in Conns /\ reader[Head(queue)[2]] = "done"
  BY <1>1, <1>3 DEF QueueOk
<1> QED
  BY <1>1, <1>2, <1>4, <1>5

LEMMA RegisterKeeps ==
  ASSUME ServerInv, NEW succeeds \in BOOLEAN, Register(succeeds), opened' = opened
  PROVE  ServerInv'
<1> DEFINE c == Head(queue)[2]
<1> USE DEF ServerInv
<1>1. /\ queue # <<>> /\ Head(queue)[1] = "register" /\ queue' = Tail(queue) /\ reader' = reader
      /\ \/ hier' = c /\ applied' = Append(applied, c)
         \/ hier' = hier /\ applied' = applied
  BY DEF Register, NextItem
<1>2. QueueOk' /\ Range(queue') \subseteq Range(queue)
  BY <1>1, QueueShrinks
<1>3. c \in Conns /\ reader[c] \in {"streaming", "done"}
  BY <1>1, QueueShrinks
<1>4. ReadersOk'
  BY <1>1 DEF ReadersOk
<1>5. CASE hier' = hier /\ applied' = applied
  BY <1>1, <1>2, <1>4, <1>5 DEF AppliedOk, LiveHierarchyKept, Last, UnregisterClient
<1>6. CASE hier' = c /\ applied' = Append(applied, c)
  <2>1. /\ applied' \in Seq(Conns) /\ Len(applied) \in Nat /\ Len(applied') = Len(applied) + 1
        /\ \A i \in 1..Len(applied) : applied'[i] = applied[i]
        /\ applied'[Len(applied) + 1] = c
    BY <1>3, <1>6, AppendProperties, LenProperties DEF AppliedOk
  <2>2. AppliedOk'
    BY <1>1, <1>3, <2>1 DEF AppliedOk
  <2>3. LiveHierarchyKept'
    BY <1>6, <2>1 DEF LiveHierarchyKept, Last
  <2> QED
    BY <1>2, <1>4, <2>2, <2>3
<1> QED
  BY <1>1, <1>5, <1>6

\* The one unregistration of a connection is what ends its own hierarchy only.
LEMMA UnregisterKeeps ==
  ASSUME ServerInv, Unregister, opened' = opened
  PROVE  ServerInv'
<1> DEFINE c == Head(queue)[2]
<1> USE DEF ServerInv
<1>1. /\ queue # <<>> /\ Head(queue)[1] = "unregister" /\ queue' = Tail(queue)
      /\ reader' = reader /\ applied' = applied
      /\ hier' = IF hier = c THEN 0 ELSE hier
  BY DEF Unregister, NextItem, Unregisters
<1>2. /\ QueueOk' /\ Range(queue') \subseteq Range(queue)
      /\ Head(queue) = <<Head(queue)[1], c>>
      /\ c \in Conns /\ reader[c] = "done" /\ Head(queue) \notin Range(queue')
  BY <1>1, QueueShrinks
<1>3. ReadersOk' /\ AppliedOk'
  BY <1>1 DEF ReadersOk, AppliedOk
<1>4. UnregisterClient(c) \notin Range(queue')
  BY <1>1, <1>2 DEF UnregisterClient
<1>5. LiveHierarchyKept'
  BY <1>1, <1>2, <1>4, LastApplied DEF LiveHierarchyKept, Last, UnregisterClient
<1> QED
  BY <1>2, <1>3, <1>5

LEMMA DispatchKeeps ==
  ASSUME ServerInv, NEW id, Dispatch(id), opened' = opened
  PROVE  ServerInv'
<1> USE DEF ServerInv
<1>1. /\ queue # <<>> /\ queue' = Tail(queue)
      /\ reader' = reader /\ applied' = applied /\ hier' = hier
  BY DEF Dispatch, NextItem
<1>2. QueueOk' /\ Range(queue') \subseteq Range(queue)
  BY <1>1, QueueShrinks
<1>3. ReadersOk' /\ AppliedOk' /\ LiveHierarchyKept'
  BY <1>1, <1>2 DEF ReadersOk, AppliedOk, LiveHierarchyKept, Last, UnregisterClient
<1> QED
  BY <1>2, <1>3

LEMMA HandleSparesServer == Handle /\ opened' = opened => UNCHANGED serverPart
BY DEF Handle, serverPart

LEMMA GoneKeeps ==
  ASSUME ServerInv, NEW saved, NEW lost, Gone(saved, lost), opened' = opened
  PROVE  ServerInv'
<1>1. /\ reader' = [c \in Conns |-> IF reader[c] = "none" THEN "none" ELSE "done"]
      /\ queue' = <<>> /\ hier' = 0 /\ applied' = <<>>
  BY DEF Gone
<1>2. ReadersOk'
  BY <1>1 DEF ServerInv, ReadersOk, ReaderStates
<1>3. QueueOk' /\ AppliedOk' /\ LiveHierarchyKept'
  BY <1>1, EmptyQueue, EmptySeq DEF QueueOk, AppliedOk, LiveHierarchyKept
<1> QED
  BY <1>2, <1>3 DEF ServerInv

-----------------------------------------------------------------------------
(* The server: every step of the system. *)

LEMMA StoreStepsSpareServer == StoreSteps => UNCHANGED serverPart
BY DEF StoreSteps, EmitRecord, StoreStep, Recorded, serverVars, writerVars, clientVars, serverPart

LEMMA ConnectKeeps == ServerInv /\ Connect => ServerInv'
<1> SUFFICES ASSUME ServerInv, Connect PROVE ServerInv'
  OBVIOUS
<1>1. /\ opened < MaxConns /\ opened' = opened + 1
      /\ reader' = [reader EXCEPT ![opened + 1] = "new"]
      /\ UNCHANGED <<queue, hier, applied>>
  BY DEF Connect, writerVars
<1>2. opened \in Nat /\ opened + 1 \in Conns /\ reader[opened + 1] = "none"
  BY <1>1, ConnsAssumption DEF ServerInv, ReadersOk, Conns
<1>3. opened' \in Nat /\ opened <= opened' /\ opened + 1 <= opened'
  BY <1>1, <1>2
<1>4. "new" \in ReaderStates /\ reader[opened + 1] \in {"none", "new", "acked"}
  BY <1>2 DEF ReaderStates
<1> QED
  BY <1>1, <1>2, <1>3, <1>4, BeforeStreaming

LEMMA ClientStepsKeep == ServerInv /\ ClientSteps => ServerInv'
<1> SUFFICES ASSUME ServerInv, ClientSteps PROVE ServerInv'
  OBVIOUS
<1>1. CASE Connect
  BY <1>1, ConnectKeeps
<1>2. CASE EnterEmergency \/ ReadAck \/ MissAck \/ Rejected \/ ReadDisk
  BY <1>2, ServerIdle
     DEF EnterEmergency, ReadAck, MissAck, Rejected, ReadDisk, serverVars, writerVars, clientVars,
         serverPart
<1>3. CASE SendEntry \/ SkipEntry \/ SendFails \/ SendsDone \/ Pass \/ EndSender
  BY <1>3, ServerIdle
     DEF SendEntry, SkipEntry, SendFails, SendsDone, Pass, EndSender, serverVars, writerVars,
         clientVars, serverPart
<1>4. CASE EncodeRaises \/ RecordRaised
  BY <1>4, ServerIdle
     DEF EncodeRaises, RecordRaised, DrainerEnds, serverVars, writerVars, clientVars, serverPart
<1> QED
  BY <1>1, <1>2, <1>3, <1>4 DEF ClientSteps

LEMMA LifeStepsSpareServer == LifeSteps => UNCHANGED serverPart
BY DEF LifeSteps, CloseFlush, CloseCheckpoint, CloseRest, Restart, serverVars, writerVars, serverPart

LEMMA ReadByKeeps ==
  ASSUME ServerInv, NEW c \in Conns, ReadBy(c)
  PROVE  ServerInv'
<1>1. opened' = opened
  BY DEF ReadBy, clientVars
<1>2. opened \in Nat /\ (reader[c] # "none" => c <= opened)
  BY DEF ServerInv, ReadersOk, Conns
<1>3. CASE (\E valid \in BOOLEAN : Handshake(c, valid)) \/ NoHandshake(c) \/ AckFails(c)
  <2>1. /\ reader[c] \in {"new", "acked"}
        /\ UNCHANGED <<queue, hier, applied>>
        /\ \/ reader' = [reader EXCEPT ![c] = "acked"]
           \/ reader' = [reader EXCEPT ![c] = "done"]
    BY <1>3 DEF Handshake, NoHandshake, AckFails, ReaderGoes, writerVars
  <2> QED
    BY <1>1, <1>2, <2>1, BeforeStreaming DEF ReaderStates
<1>4. CASE Enrol(c)
  BY <1>1, <1>4, EnrolKeeps
<1>5. CASE Ingest(c)
  BY <1>1, <1>5, IngestKeeps
<1>6. CASE HangUp(c)
  BY <1>1, <1>6, HangUpKeeps
<1> QED
  BY <1>3, <1>4, <1>5, <1>6 DEF ReadBy

LEMMA ServerStepsKeep == ServerInv /\ ServerSteps => ServerInv'
<1> SUFFICES ASSUME ServerInv, ServerSteps PROVE ServerInv'
  OBVIOUS
<1>1. CASE \E c \in Conns : ReadBy(c)
  BY <1>1, ReadByKeeps
<1>2. CASE \E succeeds \in BOOLEAN : Register(succeeds) /\ Spend(~succeeds) /\ UNCHANGED clientVars
  BY <1>2, RegisterKeeps DEF clientVars
<1>3. CASE (Unregister \/ Dispatch(Id(Head(queue)[2])) \/ Handle) /\ UNCHANGED <<clientVars, faults>>
  BY <1>3, UnregisterKeeps, DispatchKeeps, HandleSparesServer, ServerIdle DEF clientVars
<1>4. CASE opened' = opened /\ \E saved, lost : Gone(saved, lost)
  BY <1>4, GoneKeeps
<1> QED
  BY <1>1, <1>2, <1>3, <1>4 DEF ServerSteps, ServerCrashes, ServerStops

LEMMA BreakSparesServer == \A c \in Conns : Break(c) => UNCHANGED serverPart
BY DEF Break, writerVars, serverPart

LEMMA ServerStepKeeps == ServerInv /\ [Next]_vars => ServerInv'
<1> SUFFICES ASSUME ServerInv, [Next]_vars PROVE ServerInv'
  OBVIOUS
<1>1. CASE StoreSteps
  BY <1>1, StoreStepsSpareServer, ServerIdle
<1>2. CASE ClientSteps
  BY <1>2, ClientStepsKeep
<1>3. CASE LifeSteps
  BY <1>3, LifeStepsSpareServer, ServerIdle
<1>4. CASE \E c \in Conns : Break(c)
  BY <1>4, BreakSparesServer, ServerIdle
<1>5. CASE ServerSteps
  BY <1>5, ServerStepsKeep
<1>6. CASE UNCHANGED vars
  BY <1>6, ServerIdle DEF vars, serverVars, writerVars, clientVars, serverPart
<1> QED
  BY <1>1, <1>2, <1>3, <1>4, <1>5, <1>6 DEF Next

\* The hierarchy of the newest connection outlives every stale unregistration:
\* a reader queues one unregistration for its own connection, after the
\* registration, and unregister() compares the connection before it closes.
THEOREM NewestHierarchyLives == Spec => []LiveHierarchyKept
<1>1. Init => ServerInv
  BY ServerStarts DEF Init
<1>2. ServerInv => LiveHierarchyKept
  BY DEF ServerInv
<1> QED
  BY <1>1, <1>2, ServerStepKeeps, PTL DEF Spec

-----------------------------------------------------------------------------
(* The client: each kind of step. *)

storePart == <<first, next, entries, flushed, ckpt, jobs, held, worker, takenOver, scheduled,
               unwritten, histShut, ckptShut, emit>>

LEMMA StoreIdle == StoreInv /\ UNCHANGED storePart => StoreInv'
BY DEF StoreInv, StoreTypes, Retired, Tracked, ScheduledOk, TakenOverOk, HeldOk, Settled,
       LastQueued, LastId, OnLoop, storePart

LEMMA StoreStarts == Init => StoreInv
<1> SUFFICES ASSUME Init PROVE StoreInv
  OBVIOUS
<1>1. /\ first = 1 /\ next = 1 /\ ~flushed /\ ~histShut /\ ~ckptShut /\ ~takenOver
      /\ {flushed, histShut, ckptShut, takenOver} \subseteq BOOLEAN
      /\ ckpt = 0 /\ jobs = <<>> /\ held = 0 /\ worker \in {"run", "none"}
      /\ emit = "idle" /\ scheduled = 0
  BY DEF Init, StoreInit
<1>2. jobs \in Seq(Nat) /\ Len(jobs) = 0
  BY <1>1, EmptySeq
<1>3. StoreTypes
  BY <1>1, <1>2 DEF StoreTypes
<1>4. Retired /\ Tracked /\ ScheduledOk /\ TakenOverOk /\ HeldOk
  BY <1>1, <1>2 DEF Retired, Tracked, ScheduledOk, TakenOverOk, HeldOk, LastId
<1> QED
  BY <1>3, <1>4 DEF StoreInv

\* A record gets its id: nothing more is claimed until it is scheduled, unless
\* that raised.
LEMMA EmitKeeps == StoreInv /\ EmitRecord => StoreInv'
<1> SUFFICES ASSUME StoreInv, EmitRecord PROVE StoreInv'
  OBVIOUS
<1>1. PICK failed, aged : Record(failed, aged)
  BY DEF EmitRecord
<1>2. /\ emit = "idle" /\ next' = next + 1 /\ next \in Nat \ {0} /\ first \in Nat \ {0}
      /\ first <= next
      /\ UNCHANGED <<first, ckpt, jobs, held, worker, takenOver, scheduled, histShut, ckptShut>>
  BY <1>1 DEF EmitRecord, Record, StoreInv, StoreTypes
<1>3. emit' = "persist" \/ (emit' = "raised" /\ next \in unwritten')
  BY <1>1 DEF Record
<1>4. LastId' = next
  BY <1>2 DEF LastId
<1>5. ~Settled'
  BY <1>3, <1>4 DEF Settled
<1>6. /\ Retired' /\ flushed' \in BOOLEAN
  BY <1>1, <1>2
     DEF StoreInv, StoreTypes, Retired, Record, AppendEntry, Spill, WriteThrough, Retires
<1>7. StoreTypes'
  BY <1>2, <1>3, <1>6 DEF StoreInv, StoreTypes
<1>8. Tracked' /\ ScheduledOk'
  BY <1>3, <1>4, <1>5 DEF Tracked, ScheduledOk
<1>9. TakenOverOk' /\ HeldOk'
  BY <1>2, <1>3, <1>5 DEF StoreInv, TakenOverOk, HeldOk, OnLoop
<1> QED
  BY <1>6, <1>7, <1>8, <1>9 DEF StoreInv

\* The recording is over, in order or not.
LEMMA RecordedKeeps == StoreInv /\ (Recorded \/ RecordRaised) => StoreInv'
<1> SUFFICES ASSUME StoreInv, Recorded \/ RecordRaised PROVE StoreInv'
  OBVIOUS
<1>1. /\ emit \in {"recorded", "raised"} /\ emit' = "idle"
      /\ UNCHANGED <<first, next, entries, flushed, ckpt, jobs, held, worker, takenOver,
                     scheduled, unwritten, histShut, ckptShut>>
  BY DEF Recorded, RecordRaised, historyVars, checkpointVars
<1>2. StoreTypes' /\ Retired'
  BY <1>1 DEF StoreInv, StoreTypes, Retired
<1>3. Settled' <=> Settled
  BY <1>1 DEF Settled, LastId
<1>4. Tracked' /\ ScheduledOk'
  BY <1>1, <1>3 DEF StoreInv, Tracked, ScheduledOk, LastQueued, LastId, OnLoop
<1>5. TakenOverOk' /\ HeldOk'
  BY <1>1, <1>3 DEF StoreInv, TakenOverOk, HeldOk, LastId, OnLoop
<1> QED
  BY <1>2, <1>4, <1>5 DEF StoreInv

\* A caller that takes over writes the last id itself, or raises.
LEMMA PersistKeeps ==
  ASSUME StoreInv, NEW fails \in BOOLEAN, Persist(fails)
  PROVE  StoreInv'
<1>1. /\ emit = "persist" /\ first < next /\ next \in Nat \ {0} /\ first \in Nat \ {0}
      /\ scheduled' = LastId
      /\ UNCHANGED <<first, next, entries, flushed, held, worker, histShut, ckptShut>>
  BY DEF StoreInv, StoreTypes, Persist, historyVars
<1>2. LastId \in Nat /\ LastId' = LastId
  BY <1>1 DEF LastId
<1>3. CASE ckptShut
  <2>1. /\ takenOver' = TRUE /\ jobs' = <<>> /\ emit' \in {"recorded", "raised"}
        /\ ckpt' = IF fails THEN ckpt ELSE LastId
        /\ fails => LastId \in unwritten'
    BY <1>3 DEF Persist
  <2>2. StoreTypes' /\ Retired'
    BY <1>1, <1>2, <2>1, EmptySeq DEF StoreInv, StoreTypes, Retired
  <2>3. Settled' => ckpt' = LastId'
    BY <1>2, <2>1 DEF Settled
  <2>4. Tracked' /\ ScheduledOk' /\ TakenOverOk' /\ HeldOk'
    BY <1>1, <1>2, <1>3, <2>1, <2>3 DEF StoreInv, Tracked, ScheduledOk, TakenOverOk, HeldOk, OnLoop
  <2> QED
    BY <2>2, <2>4 DEF StoreInv
<1>4. CASE ~ckptShut
  <2>1. emit' = "put" /\ UNCHANGED <<ckpt, jobs, takenOver, unwritten>>
    BY <1>4 DEF Persist
  <2>2. StoreTypes' /\ Retired'
    BY <1>1, <1>2, <2>1 DEF StoreInv, StoreTypes, Retired
  <2>3. ~Settled'
    BY <2>1 DEF Settled
  <2>4. Tracked' /\ ScheduledOk' /\ TakenOverOk' /\ HeldOk'
    BY <1>1, <1>2, <1>4, <2>1, <2>3 DEF StoreInv, Tracked, ScheduledOk, TakenOverOk, HeldOk, OnLoop
  <2> QED
    BY <2>2, <2>4 DEF StoreInv
<1> QED
  BY <1>3, <1>4

LEMMA PutKeeps == StoreInv /\ Put => StoreInv'
<1> SUFFICES ASSUME StoreInv, Put PROVE StoreInv'
  OBVIOUS
<1>1. /\ emit = "put" /\ emit' = "recorded" /\ jobs' = Append(jobs, LastId)
      /\ first < next /\ next \in Nat \ {0} /\ first \in Nat \ {0} /\ jobs \in Seq(Nat)
      /\ UNCHANGED <<first, next, entries, flushed, ckpt, held, worker, takenOver, scheduled,
                     unwritten, histShut, ckptShut>>
  BY DEF StoreInv, StoreTypes, Put, historyVars
<1>2. LastId \in Nat \ {0} /\ LastId' = LastId
  BY <1>1 DEF LastId
<1>3. /\ jobs' \in Seq(Nat) /\ Len(jobs) \in Nat /\ Len(jobs') = Len(jobs) + 1
      /\ jobs'[Len(jobs) + 1] = LastId
  BY <1>1, <1>2, AppendProperties, LenProperties
<1>4. StoreTypes' /\ Retired'
  BY <1>1, <1>3 DEF StoreInv, StoreTypes, Retired
<1>5. PICK k : k = Len(jobs) + 1
  OBVIOUS
<1>6. k \in 1..Len(jobs') /\ jobs'[k] = LastId' /\ \A j \in (k + 1)..Len(jobs') : jobs'[j] = 0
  BY <1>2, <1>3, <1>5
<1>7. Tracked'
  BY <1>2, <1>6 DEF Tracked, LastQueued
<1>8. ScheduledOk' /\ HeldOk'
  BY <1>1, <1>2 DEF StoreInv, ScheduledOk, HeldOk
<1>9. TakenOverOk'
  BY <1>1, <1>6 DEF StoreInv, TakenOverOk, OnLoop
<1> QED
  BY <1>4, <1>7, <1>8, <1>9 DEF StoreInv

LEMMA LeastPlace ==
  ASSUME NEW S \in SUBSET Nat, S # {}
  PROVE  Min(S) \in S /\ \A y \in S : Min(S) <= y
<1>1. \E x \in S : \A y \in S : <<y, x>> \notin OpToRel(<, Nat)
  BY NatLessThanWellFounded, WFMin
<1>2. \A x, y \in S : <<y, x>> \notin OpToRel(<, Nat) => x <= y
  BY DEF OpToRel
<1> QED
  BY <1>1, <1>2 DEF Min

\* The place of the first sentinel, or 0.
LEMMA FirstStop ==
  ASSUME jobs \in Seq(Nat), NEW n, n = SelectInSeq(jobs, LAMBDA j : j = 0)
  PROVE  \/ n = 0 /\ \A i \in 1..Len(jobs) : jobs[i] # 0
         \/ /\ n \in 1..Len(jobs) /\ jobs[n] = 0
            /\ \A i \in 1..(n - 1) : jobs[i] # 0
<1> DEFINE I == {i \in 1..Len(jobs) : jobs[i] = 0}
<1>1. n = IF I # {} THEN Min(I) ELSE 0
  BY DEF SelectInSeq
<1>2. CASE I = {}
  BY <1>1, <1>2
<1>3. CASE I # {}
  <2>1. Len(jobs) \in Nat /\ I \in SUBSET Nat
    BY LenProperties
  <2>2. n \in I /\ \A y \in I : n <= y
    BY <1>1, <1>3, <2>1, LeastPlace
  <2>3. ASSUME NEW i \in 1..(n - 1), jobs[i] = 0 PROVE FALSE
    <3>1. i \in I
      BY <2>1, <2>2, <2>3
    <3> QED
      BY <2>1, <2>2, <3>1
  <2> QED
    BY <2>2, <2>3
<1> QED
  BY <1>2, <1>3

\* The worker takes what is queued up to the sentinel, and keeps the last id.
LEMMA TakesKeeps == StoreInv /\ WorkerTakes => StoreInv'
<1> SUFFICES ASSUME StoreInv, WorkerTakes PROVE StoreInv'
  OBVIOUS
<1> DEFINE n == SelectInSeq(jobs, LAMBDA j : j = 0)
           taken == IF n = 0 THEN jobs ELSE SubSeq(jobs, 1, n - 1)
           len == Len(jobs)
<1>1. /\ worker = "run" /\ held = 0 /\ jobs # <<>> /\ jobs \in Seq(Nat)
      /\ held' = IF taken = <<>> THEN 0 ELSE Last(taken)
      /\ worker' = CASE n = 0 -> "run" [] n = 1 -> "ended" [] OTHER -> "last"
      /\ jobs' = IF n = 0 THEN <<>> ELSE SubSeq(jobs, n + 1, len)
      /\ UNCHANGED <<first, next, entries, flushed, ckpt, takenOver, scheduled, unwritten,
                     histShut, ckptShut, emit>>
  BY DEF WorkerTakes, historyVars, StoreInv, StoreTypes
<1>2. \/ n = 0 /\ \A i \in 1..len : jobs[i] # 0
      \/ n \in 1..len /\ jobs[n] = 0 /\ \A i \in 1..(n - 1) : jobs[i] # 0
  BY <1>1, FirstStop
<1>3. len \in Nat \ {0} /\ \A i \in 1..len : jobs[i] \in Nat
  BY <1>1, EmptySeq, ElementOfSeq
<1> HIDE DEF n, len
<1>4. /\ n = 0 => /\ jobs' = <<>> /\ worker' = "run" /\ held' = jobs[len]
      /\ n = 1 => worker' = "ended" /\ held' = 0
      /\ n > 1 => worker' = "last" /\ held' = jobs[n - 1] /\ held' # 0
      /\ n # 0 => /\ jobs' \in Seq(Nat) /\ Len(jobs') = len - n
                  /\ \A i \in 1..Len(jobs') : jobs'[i] = jobs[n + i]
  <2>1. ASSUME n = 0 PROVE jobs' = <<>> /\ worker' = "run" /\ held' = jobs[len]
    BY <1>1, <2>1 DEF Last, len
  <2>2. ASSUME n = 1 PROVE worker' = "ended" /\ held' = 0
    <3>1. SubSeq(jobs, 1, n - 1) = <<>>
      BY <2>2, SubSeqEmpty
    <3> QED
      BY <1>1, <2>2, <3>1
  <2>3. ASSUME n > 1 PROVE worker' = "last" /\ held' = jobs[n - 1] /\ held' # 0
    <3>1. n \in 1..len /\ n - 1 \in 1..(n - 1) /\ n - 1 \in Int
      BY <1>2, <1>3, <2>3
    <3>2. \A i \in 1..(n - 1) : jobs[i] \in Nat
      BY <1>3, <3>1
    <3>3. /\ SubSeq(jobs, 1, n - 1) \in Seq(Nat) /\ Len(SubSeq(jobs, 1, n - 1)) = n - 1
          /\ SubSeq(jobs, 1, n - 1)[n - 1] = jobs[n - 1]
      BY <2>3, <3>1, <3>2, SubSeqProperties
    <3>4. n \in Nat /\ n # 0 /\ n # 1 /\ n - 1 # 0
      BY <1>3, <2>3, <3>1
    <3>5. taken = SubSeq(jobs, 1, n - 1)
      BY <3>4
    <3> HIDE DEF taken
    <3>6. Len(taken) = n - 1 /\ taken[n - 1] = jobs[n - 1]
      BY <3>3, <3>5
    <3>7. taken # <<>> /\ Last(taken) = jobs[n - 1]
      BY <3>4, <3>6 DEF Last
    <3>8. jobs[n - 1] # 0
      BY <1>2, <3>1, <3>4
    <3> QED
      BY <1>1, <3>4, <3>7, <3>8
  <2>4. ASSUME n # 0
        PROVE  /\ jobs' \in Seq(Nat) /\ Len(jobs') = len - n
               /\ \A i \in 1..Len(jobs') : jobs'[i] = jobs[n + i]
    <3>0. jobs' = SubSeq(jobs, n + 1, len)
      BY <1>1, <2>4
    <3>1. n \in 1..len /\ n + 1 \in Int /\ len \in Int
      BY <1>2, <1>3, <2>4
    <3>2. \A i \in (n + 1)..len : jobs[i] \in Nat
      BY <1>3, <3>1
    <3>3. /\ jobs' \in Seq(Nat)
          /\ Len(jobs') = IF n + 1 <= len THEN len - (n + 1) + 1 ELSE 0
          /\ \A i \in 1..(len - (n + 1) + 1) : jobs'[i] = jobs[(n + 1) + i - 1]
      BY <3>0, <3>1, <3>2, SubSeqProperties
    <3>4. Len(jobs') = len - n
      BY <3>1, <3>3
    <3>5. ASSUME NEW i \in 1..Len(jobs') PROVE jobs'[i] = jobs[n + i]
      <4>1. i \in 1..(len - (n + 1) + 1) /\ (n + 1) + i - 1 = n + i
        BY <3>1, <3>4
      <4> QED
        BY <3>3, <4>1
    <3> QED
      BY <3>3, <3>4, <3>5
  <2> QED
    BY <2>1, <2>2, <2>3, <2>4
<1> HIDE DEF taken
<1>5. StoreTypes'
  <2>1. held' \in Nat /\ worker' \in {"run", "last", "ended", "failed", "none"}
    BY <1>2, <1>3, <1>4
  <2>2. jobs' \in Seq(Nat)
    BY <1>2, <1>4, EmptySeq
  <2> QED
    BY <1>1, <2>1, <2>2 DEF StoreInv, StoreTypes
<1>6. Retired'
  BY <1>1 DEF StoreInv, Retired
<1>7. ~OnLoop /\ worker' \in {"run", "ended", "last"} /\ ~OnLoop'
  BY <1>1, <1>2, <1>3, <1>4 DEF OnLoop
<1>8. Tracked'
  <2> SUFFICES ASSUME ~takenOver, Settled
               PROVE  \/ /\ \A i \in 1..Len(jobs') : jobs'[i] = 0
                         /\ LastId = IF held' # 0 THEN held' ELSE ckpt
                      \/ LastId # 0 /\ \E i \in 1..Len(jobs') : LastQueued(i)'
    BY <1>1 DEF Tracked, Settled, LastId
  <2>1. \/ (\A i \in 1..len : jobs[i] = 0) /\ LastId = ckpt
        \/ LastId # 0 /\ \E i \in 1..len : LastQueued(i)
    BY <1>1, <1>7 DEF StoreInv, Tracked, len
  <2>2. CASE (\A i \in 1..len : jobs[i] = 0) /\ LastId = ckpt
    <3>1. n # 0 /\ ~(n > 1)
      BY <1>2, <1>3, <2>2
    <3>2. n = 1
      BY <1>2, <1>3, <3>1
    <3>3. \A i \in 1..Len(jobs') : jobs'[i] = 0
      <4>1. SUFFICES ASSUME NEW i \in 1..Len(jobs') PROVE jobs'[i] = 0
        OBVIOUS
      <4>2. n + i \in 1..len /\ jobs'[i] = jobs[n + i]
        BY <1>3, <1>4, <3>2, <4>1
      <4> QED
        BY <2>2, <4>2
    <3> QED
      BY <1>4, <2>2, <3>2, <3>3
  <2>3. ASSUME LastId # 0, NEW i \in 1..len, LastQueued(i)
        PROVE  \/ /\ \A j \in 1..Len(jobs') : jobs'[j] = 0
                  /\ LastId = IF held' # 0 THEN held' ELSE ckpt
               \/ LastId # 0 /\ \E j \in 1..Len(jobs') : LastQueued(j)'
    <3>1. jobs[i] = LastId /\ \A j \in (i + 1)..len : jobs[j] = 0
      BY <2>3 DEF LastQueued, len
    <3>2. CASE n = 0
      <4>1. i = len
        BY <1>2, <1>3, <3>1, <3>2
      <4> QED
        BY <1>4, <2>3, <3>1, <3>2, <4>1, EmptySeq
    <3>3. CASE n # 0
      <4>1. n \in 1..len /\ jobs[n] = 0 /\ Len(jobs') = len - n /\ i # n
        BY <1>2, <1>4, <2>3, <3>1, <3>3
      <4>2. CASE i < n
        <5>1. i = n - 1 /\ n > 1
          BY <1>2, <1>3, <2>3, <3>1, <4>1, <4>2
        <5>2. \A j \in 1..Len(jobs') : jobs'[j] = 0
          <6>1. SUFFICES ASSUME NEW j \in 1..Len(jobs') PROVE jobs'[j] = 0
            OBVIOUS
          <6>2. n + j \in (i + 1)..len /\ jobs'[j] = jobs[n + j]
            BY <1>3, <1>4, <3>3, <4>1, <5>1, <6>1
          <6> QED
            BY <3>1, <6>2
        <5> QED
          BY <1>4, <3>1, <5>1, <5>2
      <4>3. CASE i > n
        <5>1. PICK k : k = i - n
          OBVIOUS
        <5>2. k \in 1..Len(jobs') /\ n + k = i /\ jobs'[k] = LastId
          BY <1>3, <1>4, <3>1, <3>3, <4>1, <4>3, <5>1
        <5>3. ASSUME NEW j \in (k + 1)..Len(jobs') PROVE jobs'[j] = 0
          <6>1. n + j \in (i + 1)..len /\ jobs'[j] = jobs[n + j]
            BY <1>3, <1>4, <3>3, <4>1, <5>2, <5>3
          <6> QED
            BY <3>1, <6>1
        <5>4. LastQueued(k)'
          BY <1>1, <5>2, <5>3 DEF LastQueued, LastId
        <5> QED
          BY <2>3, <5>2, <5>4
      <4> QED
        BY <1>3, <4>1, <4>2, <4>3
    <3> QED
      BY <3>2, <3>3
  <2> QED
    BY <2>1, <2>2, <2>3
<1>9. TakenOverOk' /\ ScheduledOk'
  BY <1>1, <1>7 DEF StoreInv, TakenOverOk, ScheduledOk, Settled, LastId
<1>10. HeldOk'
  BY <1>2, <1>4 DEF HeldOk
<1> QED
  BY <1>5, <1>6, <1>8, <1>9, <1>10 DEF StoreInv

\* The write of what the worker took; a caller that took over bars it.
LEMMA CommitKeeps ==
  ASSUME StoreInv, NEW fails \in BOOLEAN, Commit(fails)
  PROVE  StoreInv'
<1>1. /\ held # 0 /\ held \in Nat /\ held' = 0
      /\ ckpt' = IF takenOver \/ fails THEN ckpt ELSE held
      /\ worker' = IF fails /\ ~takenOver THEN "failed"
                   ELSE IF takenOver \/ worker = "last" THEN "ended" ELSE "run"
      /\ UNCHANGED <<first, next, entries, flushed, jobs, takenOver, scheduled, unwritten,
                     histShut, ckptShut, emit>>
  BY DEF Commit, Barred, historyVars, StoreInv, StoreTypes
<1>2. worker \in {"run", "last"} /\ ~OnLoop /\ ~OnLoop'
  BY <1>1 DEF StoreInv, StoreTypes, HeldOk, OnLoop
<1>3. StoreTypes' /\ Retired'
  BY <1>1 DEF StoreInv, StoreTypes, Retired
<1>4. LastId' = LastId /\ Settled' = Settled /\ \A i \in 1..Len(jobs) : LastQueued(i)' = LastQueued(i)
  BY <1>1 DEF LastId, Settled, LastQueued
<1>5. Tracked'
  <2> SUFFICES ASSUME ~takenOver, worker' # "failed", Settled
               PROVE  \/ (\A i \in 1..Len(jobs) : jobs[i] = 0) /\ LastId = ckpt'
                      \/ LastId # 0 /\ \E i \in 1..Len(jobs) : LastQueued(i)
    BY <1>1, <1>4 DEF Tracked
  <2>1. \/ (\A i \in 1..Len(jobs) : jobs[i] = 0) /\ LastId = held
        \/ LastId # 0 /\ \E i \in 1..Len(jobs) : LastQueued(i)
    BY <1>1, <1>2 DEF StoreInv, Tracked
  <2>2. ckpt' = held
    BY <1>1
  <2> QED
    BY <2>1, <2>2
<1>6. TakenOverOk' /\ ScheduledOk'
  BY <1>1, <1>2, <1>4 DEF StoreInv, TakenOverOk, ScheduledOk
<1>7. HeldOk'
  BY <1>1 DEF HeldOk
<1> QED
  BY <1>3, <1>5, <1>6, <1>7 DEF StoreInv

LEMMA OneRemoved ==
  ASSUME NEW S, jobs \in Seq(S), NEW i \in DOMAIN jobs
  PROVE  RemoveAt(jobs, i) \in Seq(S) /\ jobs[i] \in S
<1>1. Len(jobs) \in Nat /\ i \in 1..Len(jobs)
  BY LenProperties
<1>2. \A k \in 1..Len(jobs) : jobs[k] \in S
  BY ElementOfSeq
<1>3. SubSeq(jobs, 1, i - 1) \in Seq(S)
  <2>1. \A k \in 1..(i - 1) : jobs[k] \in S
    BY <1>1, <1>2
  <2>2. 1 \in Int /\ i - 1 \in Int
    BY <1>1
  <2> QED
    BY <2>1, <2>2, SubSeqProperties
<1>4. SubSeq(jobs, i + 1, Len(jobs)) \in Seq(S)
  <2>1. \A k \in (i + 1)..Len(jobs) : jobs[k] \in S
    BY <1>1, <1>2
  <2>2. i + 1 \in Int /\ Len(jobs) \in Int
    BY <1>1
  <2> QED
    BY <2>1, <2>2, SubSeqProperties
<1>5. SubSeq(jobs, 1, i - 1) \o SubSeq(jobs, i + 1, Len(jobs)) \in Seq(S)
  BY <1>3, <1>4, ConcatProperties
<1> QED
  BY <1>1, <1>2, <1>5 DEF RemoveAt

LEMMA LoopCommitsKeeps ==
  ASSUME StoreInv, NEW fails \in BOOLEAN, LoopCommits(fails)
  PROVE  StoreInv'
<1>1. PICK i \in DOMAIN jobs :
        jobs' = RemoveAt(jobs, i) /\ ckpt' = IF fails THEN ckpt ELSE jobs[i]
  BY DEF LoopCommits
<1>2. /\ OnLoop /\ ~takenOver
      /\ UNCHANGED <<first, next, entries, flushed, held, worker, takenOver, scheduled, unwritten,
                     histShut, ckptShut, emit>>
  BY DEF LoopCommits, Barred, historyVars
<1>3. jobs' \in Seq(Nat) /\ ckpt' \in Nat
  BY <1>1, OneRemoved DEF StoreInv, StoreTypes
<1>4. StoreTypes' /\ Retired'
  BY <1>2, <1>3 DEF StoreInv, StoreTypes, Retired
<1>5. Tracked' /\ ScheduledOk' /\ TakenOverOk' /\ HeldOk'
  BY <1>2 DEF StoreInv, Tracked, ScheduledOk, TakenOverOk, HeldOk, OnLoop, LastId
<1> QED
  BY <1>4, <1>5 DEF StoreInv

\* Steps that only arm the shutdown, or touch nothing of this.
LEMMA ArmKeeps == StoreInv /\ (ArmHistory \/ ArmCheckpoint) => StoreInv'
<1> SUFFICES ASSUME StoreInv, ArmHistory \/ ArmCheckpoint PROVE StoreInv'
  OBVIOUS
<1>1. /\ histShut' \in BOOLEAN /\ ckptShut' \in BOOLEAN
      /\ (histShut => histShut') /\ (ckptShut => ckptShut')
      /\ UNCHANGED <<first, next, entries, flushed, ckpt, jobs, held, worker, takenOver,
                     scheduled, unwritten, emit>>
  BY DEF ArmHistory, ArmCheckpoint, historyVars, checkpointVars, StoreInv, StoreTypes
<1>2. StoreTypes' /\ Retired'
  BY <1>1 DEF StoreInv, StoreTypes, Retired
<1>3. Tracked' /\ ScheduledOk'
  BY <1>1 DEF StoreInv, Tracked, ScheduledOk, Settled, LastQueued, LastId, OnLoop
<1>4. TakenOverOk' /\ HeldOk'
  BY <1>1 DEF StoreInv, TakenOverOk, HeldOk, Settled, OnLoop, LastId
<1> QED
  BY <1>2, <1>3, <1>4 DEF StoreInv

LEMMA StoreStepsKeepStore == StoreInv /\ StoreSteps => StoreInv'
<1> SUFFICES ASSUME StoreInv, StoreSteps PROVE StoreInv'
  OBVIOUS
<1>1. CASE EmitRecord
  BY <1>1, EmitKeeps
<1>2. CASE Recorded
  BY <1>2, RecordedKeeps
<1>3. CASE (Put \/ WorkerTakes) /\ StoreStep(FALSE)
  BY <1>3, PutKeeps, TakesKeeps
<1>4. CASE \E fails \in BOOLEAN :
             /\ Persist(fails) \/ Commit(fails) \/ LoopCommits(fails) \/ EmergencyWrites(fails)
             /\ StoreStep(fails)
  <2>1. PICK fails \in BOOLEAN :
          Persist(fails) \/ Commit(fails) \/ LoopCommits(fails) \/ EmergencyWrites(fails)
    BY <1>4
  <2>2. CASE EmergencyWrites(fails)
    BY <2>2, StoreIdle DEF EmergencyWrites, checkpointVars, storePart
  <2> QED
    BY <2>1, <2>2, PersistKeeps, CommitKeeps, LoopCommitsKeeps
<1>5. CASE (ArmHistory /\ StoreStep(TRUE)) \/ (ArmCheckpoint /\ StoreStep(FALSE))
  BY <1>5, ArmKeeps
<1> QED
  BY <1>1, <1>2, <1>3, <1>4, <1>5 DEF StoreSteps

LEMMA ClientStepsKeepStore == StoreInv /\ ClientSteps => StoreInv'
<1> SUFFICES ASSUME StoreInv, ClientSteps PROVE StoreInv'
  OBVIOUS
<1>1. CASE Connect \/ EnterEmergency \/ ReadAck \/ MissAck \/ Rejected \/ ReadDisk
  BY <1>1, StoreIdle
     DEF Connect, EnterEmergency, ReadAck, MissAck, Rejected, ReadDisk, EndEmergency, storeVars,
         historyVars, checkpointVars, storePart
<1>2. CASE SendEntry \/ SkipEntry \/ EncodeRaises \/ SendFails \/ SendsDone \/ Pass \/ EndSender
  BY <1>2, StoreIdle
     DEF SendEntry, SkipEntry, EncodeRaises, SendFails, SendsDone, Pass, EndSender, EndEmergency,
         storeVars, historyVars, checkpointVars, storePart
<1>3. CASE RecordRaised
  BY <1>3, RecordedKeeps
<1> QED
  BY <1>1, <1>2, <1>3 DEF ClientSteps

-----------------------------------------------------------------------------
(* The client: the teardown. *)

LEMMA CloseFlushKeeps == StoreInv /\ CloseFlush => StoreInv'
<1> SUFFICES ASSUME StoreInv, CloseFlush PROVE StoreInv'
  OBVIOUS
<1>1. PICK failed, aged : Flush(failed, aged)
  BY DEF CloseFlush
<1>2. UNCHANGED <<first, next, ckpt, jobs, held, worker, takenOver, scheduled, unwritten, histShut,
                  ckptShut, emit>>
  BY <1>1 DEF Flush, checkpointVars
<1>3. Retired' /\ flushed' \in BOOLEAN
  BY <1>1, <1>2 DEF StoreInv, StoreTypes, Retired, Flush, Spill, Retires, historyVars
<1>4. StoreTypes'
  BY <1>2, <1>3 DEF StoreInv, StoreTypes
<1>5. Tracked' /\ ScheduledOk'
  BY <1>2 DEF StoreInv, Tracked, ScheduledOk, Settled, LastQueued, LastId, OnLoop
<1>6. TakenOverOk' /\ HeldOk'
  BY <1>2 DEF StoreInv, TakenOverOk, HeldOk, Settled, OnLoop, LastId
<1> QED
  BY <1>3, <1>4, <1>5, <1>6 DEF StoreInv

LEMMA SendStopKeeps ==
  ASSUME StoreInv, SendStop
  PROVE  StoreInv'
<1>1. /\ ~OnLoop /\ jobs' = Append(jobs, 0) /\ jobs \in Seq(Nat)
      /\ UNCHANGED <<first, next, entries, flushed, ckpt, held, worker, takenOver, scheduled,
                     unwritten, histShut, ckptShut, emit>>
  BY DEF SendStop, historyVars, StoreInv, StoreTypes
<1>2. /\ jobs' \in Seq(Nat) /\ Len(jobs) \in Nat /\ Len(jobs') = Len(jobs) + 1
      /\ \A i \in 1..Len(jobs) : jobs'[i] = jobs[i]
      /\ jobs'[Len(jobs) + 1] = 0
  BY <1>1, AppendProperties, LenProperties
<1>3. StoreTypes' /\ Retired'
  BY <1>1, <1>2 DEF StoreInv, StoreTypes, Retired
<1>4. LastId' = LastId /\ Settled' = Settled /\ OnLoop' = OnLoop
  BY <1>1 DEF LastId, Settled, OnLoop
<1>5. \A i \in 1..Len(jobs) : LastQueued(i) => i \in 1..Len(jobs') /\ LastQueued(i)'
  <2> SUFFICES ASSUME NEW i \in 1..Len(jobs), LastQueued(i)
               PROVE  i \in 1..Len(jobs') /\ LastQueued(i)'
    OBVIOUS
  <2>1. i \in 1..Len(jobs') /\ jobs'[i] = LastId
    BY <1>2 DEF LastQueued
  <2>2. \A j \in (i + 1)..Len(jobs') : jobs'[j] = 0
    BY <1>2 DEF LastQueued
  <2> QED
    BY <1>4, <2>1, <2>2 DEF LastQueued
<1>6. (\A i \in 1..Len(jobs) : jobs[i] = 0) => \A i \in 1..Len(jobs') : jobs'[i] = 0
  BY <1>2
<1>7. Tracked'
  BY <1>1, <1>4, <1>5, <1>6 DEF StoreInv, Tracked
<1>8. TakenOverOk' /\ ScheduledOk' /\ HeldOk'
  BY <1>1, <1>4 DEF StoreInv, TakenOverOk, ScheduledOk, HeldOk
<1> QED
  BY <1>3, <1>7, <1>8 DEF StoreInv

\* close() on the loop takes over and writes the last id scheduled, or fails to.
LEMMA CloseLoopKeeps ==
  ASSUME StoreInv, NEW fails \in BOOLEAN, CloseLoop(fails)
  PROVE  StoreInv'
<1>1. CASE scheduled = 0
  BY <1>1, StoreIdle DEF CloseLoop, checkpointVars, historyVars, storePart
<1>2. CASE scheduled # 0
  <2>1. /\ OnLoop /\ OnLoop' /\ takenOver' = TRUE /\ jobs' = <<>>
        /\ ckpt' = IF fails THEN ckpt ELSE scheduled
        /\ unwritten' = IF fails THEN unwritten \cup {scheduled} ELSE unwritten
        /\ UNCHANGED <<first, next, entries, flushed, held, worker, scheduled, histShut,
                       ckptShut, emit>>
    BY <1>2 DEF CloseLoop, historyVars, OnLoop
  <2>2. StoreTypes' /\ Retired'
    BY <2>1, EmptySeq DEF StoreInv, StoreTypes, Retired
  <2>3. LastId' = LastId
    BY <2>1 DEF LastId
  <2>4. Settled' => ckpt' = LastId
    <3> SUFFICES ASSUME Settled' PROVE ckpt' = LastId
      OBVIOUS
    <3>1. emit # "persist" /\ LastId \notin unwritten'
      BY <2>1, <2>3 DEF Settled
    <3>2. LastId \notin unwritten
      BY <2>1, <3>1
    <3>3. scheduled = LastId
      BY <1>2, <3>1, <3>2 DEF StoreInv, ScheduledOk
    <3> QED
      BY <2>1, <3>1, <3>3
  <2>5. Tracked' /\ TakenOverOk' /\ HeldOk'
    BY <2>1, <2>3, <2>4 DEF StoreInv, Tracked, TakenOverOk, HeldOk
  <2>6. ScheduledOk'
    BY <2>1, <2>3 DEF StoreInv, ScheduledOk
  <2> QED
    BY <2>2, <2>5, <2>6 DEF StoreInv
<1> QED
  BY <1>1, <1>2

LEMMA RestartKeeps ==
  ASSUME StoreInv, NEW crash \in BOOLEAN, Restart(crash)
  PROVE  StoreInv'
<1>1. /\ ckpt \in Nat /\ ckpt' = ckpt /\ first' = ckpt + 1 /\ next' = ckpt + 1
      /\ flushed' = FALSE /\ histShut' = FALSE /\ ckptShut' = FALSE /\ takenOver' = FALSE
      /\ jobs' = <<>> /\ held' = 0 /\ worker' \in {"run", "none"} /\ scheduled' = 0
      /\ emit' = "idle"
  BY DEF Restart, Resume, StoreInv, StoreTypes
<1>2. jobs' \in Seq(Nat) /\ Len(jobs') = 0
  BY <1>1, EmptySeq
<1>3. StoreTypes'
  <2>1. /\ next' \in Nat \ {0} /\ first' \in Nat \ {0} /\ first' <= next' /\ ckpt' \in Nat
        /\ scheduled' \in Nat
    BY <1>1
  <2>2. /\ histShut' \in BOOLEAN /\ flushed' \in BOOLEAN
        /\ ckptShut' \in BOOLEAN /\ takenOver' \in BOOLEAN
    BY <1>1
  <2>3. /\ held' \in Nat /\ emit' \in {"idle", "persist", "put", "recorded", "raised"}
        /\ worker' \in {"run", "last", "ended", "failed", "none"}
        /\ ~(emit' \in {"persist", "put"})
    BY <1>1
  <2> QED
    BY <1>2, <2>1, <2>2, <2>3 DEF StoreTypes
<1>4. LastId' = ckpt'
  BY <1>1 DEF LastId
<1>5. Retired' /\ Tracked' /\ ScheduledOk' /\ TakenOverOk' /\ HeldOk'
  BY <1>1, <1>2, <1>4 DEF Retired, Tracked, ScheduledOk, TakenOverOk, HeldOk
<1> QED
  BY <1>3, <1>5 DEF StoreInv

LEMMA LifeStepsKeep == StoreInv /\ LifeSteps => StoreInv'
<1> SUFFICES ASSUME StoreInv, LifeSteps PROVE StoreInv'
  OBVIOUS
<1>1. CASE CloseFlush
  BY <1>1, CloseFlushKeeps
<1>2. CASE CloseCheckpoint
  BY <1>2, SendStopKeeps, CloseLoopKeeps DEF CloseCheckpoint
<1>3. CASE CloseRest
  BY <1>3, StoreIdle DEF CloseRest, EndEmergency, historyVars, checkpointVars, storePart
<1>4. CASE \E crash \in BOOLEAN : Restart(crash)
  BY <1>4, RestartKeeps
<1> QED
  BY <1>1, <1>2, <1>3, <1>4 DEF LifeSteps

LEMMA ServerSparesStore ==
  (\E c \in Conns : Break(c)) \/ ServerSteps => UNCHANGED storePart
BY DEF Break, ServerSteps, storeVars, historyVars, checkpointVars, storePart

LEMMA StoreStepKeeps == StoreInv /\ [Next]_vars => StoreInv'
<1> SUFFICES ASSUME StoreInv, [Next]_vars PROVE StoreInv'
  OBVIOUS
<1>1. CASE StoreSteps
  BY <1>1, StoreStepsKeepStore
<1>2. CASE ClientSteps
  BY <1>2, ClientStepsKeepStore
<1>3. CASE LifeSteps
  BY <1>3, LifeStepsKeep
<1>4. CASE (\E c \in Conns : Break(c)) \/ ServerSteps
  BY <1>4, ServerSparesStore, StoreIdle
<1>5. CASE UNCHANGED vars
  BY <1>5, StoreIdle DEF vars, storeVars, historyVars, checkpointVars, storePart
<1> QED
  BY <1>1, <1>2, <1>3, <1>4, <1>5 DEF Next

\* Every case in which the checkpoint does not hold the last id is one of those
\* that LastIdKept names.
LEMMA StoreInvSuffices == StoreInv => OrderlyStopKeepsAll
<1> SUFFICES ASSUME StoreInv PROVE OrderlyStopKeepsAll
  OBVIOUS
<1>1. flushed => entries = <<>>
  BY DEF StoreInv, Retired
<1>2. ASSUME NEW i \in 1..Len(jobs), jobs[i] = LastId PROVE LastId \in Range(jobs)
  BY <1>2, RangeEquality DEF StoreInv, StoreTypes
<1>3. ASSUME emit = "idle", LastId \notin unwritten, worker # "failed", ~(OnLoop /\ ~takenOver)
      PROVE  ckpt = LastId \/ LastId \in Range(jobs) \/ (held = LastId /\ ~takenOver)
  <2>1. Settled
    BY <1>3 DEF Settled
  <2>2. CASE takenOver
    BY <1>2, <2>1, <2>2 DEF StoreInv, TakenOverOk
  <2>3. CASE ~takenOver
    BY <1>2, <1>3, <2>1, <2>3 DEF StoreInv, Tracked, LastQueued
  <2> QED
    BY <2>2, <2>3
<1> QED
  BY <1>1, <1>3 DEF OrderlyStopKeepsAll, LastIdKept

\* A retired buffer stays empty, and the last id that was recorded is in the
\* checkpoint, queued or taken, but for the failures that LastIdKept names: for
\* either checkpoint, whatever is recorded before, during and behind a teardown.
THEOREM OrderlyStopLosesNothing == Spec => []OrderlyStopKeepsAll
<1> QED
  BY StoreStarts, StoreStepKeeps, StoreInvSuffices, PTL DEF Spec

-----------------------------------------------------------------------------
(* The resume point.  Where the records are. *)

(* An id is reached once a record has it, or a later one. *)
Reached(x) == x = 0 \/ \E r \in Records : x <= Id(r)

(* Memory holds the newest records without a hole, with contiguous ids. *)
Buffered ==
  /\ entries \in Seq(Nat) /\ Len(entries) <= Newest
  /\ \A i \in 1..Len(entries) :
       /\ entries[i] = Newest - Len(entries) + i
       /\ Id(entries[i]) = LastId - Len(entries) + i

(* A record is in memory or on disk until it is given up. *)
Remembered ==
  /\ Records \subseteq gone \cup disk \cup Range(entries)
  /\ disk \subseteq Records /\ submitted \subseteq Records
  /\ submitted # {} => first < next

(* Whatever the program resumes after is an id that was assigned. *)
IdsReached ==
  /\ ids \in Seq(Nat \ {0})
  /\ first < next => Newest > 0 /\ Id(Newest) = LastId
  /\ emit # "idle" => first < next
  /\ Reached(LastId) /\ Reached(first - 1) /\ Reached(ckpt) /\ Reached(held) /\ Reached(scheduled)
  /\ \A i \in 1..Len(jobs) : Reached(jobs[i])

HistoryOk == Buffered /\ Remembered /\ IdsReached

\* What memory holds, by number.
LEMMA InMemory ==
  ASSUME Buffered, IdsReached
  PROVE  /\ Newest \in Nat /\ Len(entries) \in Nat
         /\ Range(entries) = (Newest - Len(entries) + 1)..Newest
         /\ Range(entries) \subseteq Records
         /\ entries # <<>> <=> Len(entries) > 0
         /\ entries # <<>> =>
              entries[1] = Newest - Len(entries) + 1 /\ entries[1] \in Range(entries)
<1>1. /\ Newest \in Nat /\ Len(entries) \in Nat
      /\ Range(entries) = {entries[i] : i \in 1..Len(entries)}
  BY LenProperties, RangeEquality DEF Buffered, IdsReached, Newest
<1>2. ASSUME NEW r \in (Newest - Len(entries) + 1)..Newest
      PROVE  r \in Range(entries)
  <2>1. r - (Newest - Len(entries)) \in 1..Len(entries)
    BY <1>1, <1>2 DEF Buffered
  <2>2. entries[r - (Newest - Len(entries))] = r
    BY <1>1, <1>2, <2>1 DEF Buffered
  <2> QED
    BY <1>1, <2>1, <2>2
<1>3. ASSUME NEW r \in Range(entries)
      PROVE  r \in (Newest - Len(entries) + 1)..Newest
  <2>1. PICK i \in 1..Len(entries) : r = entries[i]
    BY <1>1
  <2> QED
    BY <1>1, <2>1 DEF Buffered
<1>4. Range(entries) = (Newest - Len(entries) + 1)..Newest
  BY <1>2, <1>3
<1>5. Range(entries) \subseteq Records
  BY <1>1, <1>4 DEF Records, Newest, Buffered
<1>6. entries # <<>> <=> Len(entries) > 0
  BY <1>1, EmptySeq DEF Buffered
<1>7. Len(entries) > 0 => entries[1] = Newest - Len(entries) + 1 /\ entries[1] \in Range(entries)
  BY <1>1, <1>4 DEF Buffered
<1> QED
  BY <1>1, <1>4, <1>5, <1>6, <1>7

\* Their ids, too.
LEMMA IdsInMemory ==
  ASSUME Buffered, IdsReached, next \in Nat, NEW r \in Range(entries)
  PROVE  Id(r) = LastId - (Newest - r)
<1>1. /\ Newest \in Nat /\ Len(entries) \in Nat /\ LastId \in Int
      /\ Range(entries) = {entries[i] : i \in 1..Len(entries)}
  BY InMemory, RangeEquality DEF LastId, Buffered
<1>2. PICK i \in 1..Len(entries) : r = entries[i]
  BY <1>1
<1>3. r = Newest - Len(entries) + i /\ Id(r) = LastId - Len(entries) + i
  BY <1>2 DEF Buffered
<1> HIDE DEF LastId
<1> QED
  BY <1>1, <1>3

\* An id stays reached: ids are only added.
LEMMA StaysReached ==
  ASSUME ids \in Seq(Nat \ {0}), NEW x, Reached(x),
         ids' = ids \/ \E id : ids' = Append(ids, id)
  PROVE  Reached(x)'
<1>1. Len(ids) \in Nat
  BY LenProperties
<1>2. CASE ids' = ids
  BY <1>2 DEF Reached, Records, Id
<1>3. ASSUME NEW id, ids' = Append(ids, id) PROVE Reached(x)'
  <2>1. Len(ids') = Len(ids) + 1 /\ \A r \in 1..Len(ids) : ids'[r] = ids[r]
    BY <1>1, <1>3, Appended, SeqOfRange
  <2> QED
    BY <1>1, <2>1 DEF Reached, Records, Id
<1> QED
  BY <1>2, <1>3
-----------------------------------------------------------------------------
(* The history: each kind of step. *)

\* Memory is left alone, or emptied.
LEMMA BufferStays ==
  ASSUME Buffered, UNCHANGED <<ids, next>>, entries' = entries \/ entries' = <<>>, Newest \in Nat
  PROVE  Buffered'
<1>1. CASE entries' = entries
  BY <1>1 DEF Buffered, Newest, Id, LastId
<1>2. CASE entries' = <<>>
  <2>1. entries' \in Seq(Nat) /\ Len(entries') = 0 /\ Newest' = Newest
    BY <1>2, EmptySeq DEF Newest
  <2> QED
    BY <2>1 DEF Buffered
<1> QED
  BY <1>1, <1>2

\* Nothing is emitted: what the checkpoint's side holds is still reached.
LEMMA IdsStay ==
  ASSUME IdsReached, UNCHANGED <<ids, first, next>>, emit' # "idle" => first < next,
         Reached(ckpt'), Reached(held'), Reached(scheduled'), \A i \in 1..Len(jobs') : Reached(jobs'[i])
  PROVE  IdsReached'
BY DEF IdsReached, Reached, Records, Id, Newest, LastId

LEMMA ReachedBelow ==
  ASSUME ids \in Seq(Nat \ {0}), NEW x \in Nat, NEW y \in Nat, y <= x, Reached(x)
  PROVE  Reached(y)
<1>1. CASE x = 0
  BY <1>1 DEF Reached
<1>2. CASE x # 0
  <2>1. PICK r \in Records : x <= Id(r)
    BY <1>2 DEF Reached
  <2>2. Id(r) \in Nat
    BY <2>1, LenProperties, ElementOfSeq DEF Records, Id
  <2> QED
    BY <2>1, <2>2 DEF Reached
<1> QED
  BY <1>1, <1>2

\* A record is emitted: it is in memory, or on disk, or given up.
LEMMA EmitKeepsHistory ==
  ASSUME HistoryOk, StoreInv, EmitRecord
  PROVE  HistoryOk' /\ ids' = Append(ids, next)
<1> USE DEF HistoryOk
<1>1. PICK failed, aged : Record(failed, aged)
  BY DEF EmitRecord
<1>2. /\ ids' = Append(ids, next) /\ next' = next + 1
      /\ UNCHANGED <<first, ckpt, jobs, held, scheduled>>
      /\ AppendEntry(Newest + 1, failed, aged)
      /\ submitted' \subseteq submitted \cup {Newest + 1}
  BY <1>1 DEF Record, checkpointVars
<1>3. /\ Newest \in Nat /\ next \in Nat \ {0} /\ first \in Nat \ {0} /\ first <= next
      /\ ids' \in Seq(Nat \ {0}) /\ Newest' = Newest + 1
      /\ \A r \in Records : ids'[r] = ids[r]
      /\ ids'[Newest + 1] = next
  BY <1>2, LenProperties, AppendProperties DEF IdsReached, Newest, Records, StoreInv, StoreTypes
<1>4. Records' = Records \cup {Newest + 1}
  BY <1>3 DEF Records, Newest
<1>5. IdsReached'
  <2>1. Newest' > 0 /\ Id(Newest)' = LastId'
    BY <1>2, <1>3 DEF Id, LastId
  <2>2. Reached(LastId)'
    BY <1>2, <1>3, <1>4, <2>1 DEF Reached, LastId
  <2>3. Reached(first - 1)' /\ Reached(ckpt)' /\ Reached(held)' /\ Reached(scheduled)'
    BY <1>2, StaysReached DEF IdsReached
  <2>4. \A i \in 1..Len(jobs) : Reached(jobs[i])'
    <3>1. SUFFICES ASSUME NEW i \in 1..Len(jobs) PROVE Reached(jobs[i])'
      OBVIOUS
    <3>2. jobs'[i] = jobs[i] /\ Reached(jobs[i])
      BY <1>2 DEF IdsReached
    <3> QED
      BY <1>2, <3>2 DEF Reached, Records, Id
  <2>6. first' < next'
    BY <1>2, <1>3
  <2> QED
    BY <1>2, <1>3, <2>1, <2>2, <2>3, <2>4, <2>6 DEF IdsReached
<1>6. Buffered'
  <2>1. CASE entries' = Append(entries, Newest + 1)
    <3>1. /\ entries \in Seq(Nat) /\ Len(entries) \in Nat /\ Len(entries) <= Newest
          /\ entries' \in Seq(Nat) /\ Len(entries') = Len(entries) + 1
          /\ \A i \in 1..Len(entries) : entries'[i] = entries[i]
          /\ entries'[Len(entries) + 1] = Newest + 1
      BY <1>3, <2>1, LenProperties, AppendProperties DEF Buffered
    <3>2. ASSUME NEW i \in 1..Len(entries')
          PROVE  /\ entries'[i] = Newest' - Len(entries') + i
                 /\ Id(entries[i])' = LastId' - Len(entries') + i
      <4>1. CASE i = Len(entries) + 1
        <5>1. entries'[i] = Newest + 1
          BY <3>1, <4>1
        <5>2. ids'[entries'[i]] = next
          BY <5>1, <1>3
        <5>3. LastId' = next /\ Newest' - Len(entries') + i = Newest + 1
          BY <1>2, <1>3, <3>1, <4>1 DEF LastId
        <5>4. LastId' - Len(entries') + i = next
          BY <1>3, <3>1, <4>1, <5>3
        <5> QED
          BY <5>1, <5>2, <5>3, <5>4 DEF Id
      <4>2. CASE i \in 1..Len(entries)
        <5>1. entries'[i] = entries[i] /\ entries[i] = Newest - Len(entries) + i
          BY <3>1, <4>2 DEF Buffered
        <5>2. entries[i] \in Records
          BY <1>3, <3>1, <4>2, <5>1 DEF Records, Newest
        <5>3. ids'[entries'[i]] = LastId - Len(entries) + i
          BY <1>3, <4>2, <5>1, <5>2 DEF Buffered, Id
        <5>4. LastId' = LastId + 1 /\ LastId \in Nat
          BY <1>2, <1>3 DEF LastId
        <5>5. /\ Newest' - Len(entries') + i = Newest - Len(entries) + i
              /\ LastId' - Len(entries') + i = LastId - Len(entries) + i
          BY <1>3, <3>1, <5>4
        <5> QED
          BY <5>1, <5>3, <5>5 DEF Id
      <4> QED
        BY <3>1, <3>2, <4>1, <4>2
    <3> QED
      BY <1>3, <3>1, <3>2 DEF Buffered
  <2>2. CASE entries' = <<>>
    <3>1. entries' \in Seq(Nat) /\ Len(entries') = 0
      BY <2>2, EmptySeq
    <3> QED
      BY <1>3, <3>1 DEF Buffered
  <2>3. CASE histShut /\ flushed /\ WriteThrough(Newest + 1, failed)
    <3>1. entries' = <<>>
      BY <2>3 DEF WriteThrough, StoreInv, Retired
    <3> QED
      BY <2>2, <3>1
  <2> QED
    BY <1>2, <2>1, <2>2, <2>3 DEF AppendEntry, Spill
<1>7. Remembered'
  <2>1. /\ Range(Append(entries, Newest + 1)) = Range(entries) \cup {Newest + 1}
        /\ Records' = Records \cup {Newest + 1}
        /\ Range(entries) \subseteq Records
    BY <1>4, InMemory, Appended, SeqOfRange DEF Buffered
  <2>2. first' < next'
    BY <1>2, <1>3
  <2>3. CASE Spill(Append(entries, Newest + 1), failed, aged)
    BY <1>2, <2>1, <2>2, <2>3 DEF Spill, Remembered
  <2>4. CASE entries' = Append(entries, Newest + 1) /\ UNCHANGED <<disk, gone>>
    BY <1>2, <2>1, <2>2, <2>4 DEF Remembered
  <2>5. CASE WriteThrough(Newest + 1, failed)
    BY <1>2, <2>1, <2>2, <2>5 DEF WriteThrough, Remembered
  <2> QED
    BY <1>2, <2>3, <2>4, <2>5 DEF AppendEntry
<1> QED
  BY <1>2, <1>5, <1>6, <1>7

\* Records move, none is emitted, and the checkpoint takes an id that it may.
LEMMA HistoryStays ==
  ASSUME HistoryOk, UNCHANGED <<ids, first, next>>, entries' = entries \/ entries' = <<>>,
         Records \subseteq gone' \cup disk' \cup Range(entries'),
         disk' \subseteq Records, submitted' \subseteq submitted,
         emit' # "idle" => first < next,
         Reached(ckpt'), Reached(held'), Reached(scheduled'), \A i \in 1..Len(jobs') : Reached(jobs'[i])
  PROVE  HistoryOk'
<1>1. Newest \in Nat
  BY InMemory DEF HistoryOk
<1>2. Buffered'
  BY <1>1, BufferStays DEF HistoryOk
<1>3. IdsReached'
  BY IdsStay DEF HistoryOk
<1>4. Remembered'
  BY DEF HistoryOk, Remembered, Records
<1> QED
  BY <1>2, <1>3, <1>4 DEF HistoryOk

\* The checkpoint's side and emit alone.
LEMMA CheckpointMoves ==
  ASSUME HistoryOk, UNCHANGED <<ids, first, next, entries, disk, gone, submitted>>,
         emit' # "idle" => first < next,
         Reached(ckpt'), Reached(held'), Reached(scheduled'), \A i \in 1..Len(jobs') : Reached(jobs'[i])
  PROVE  HistoryOk'
BY HistoryStays DEF HistoryOk, Remembered

\* Records alone.
LEMMA RecordsMove ==
  ASSUME HistoryOk, UNCHANGED <<ids, first, next, ckpt, held, scheduled, jobs, emit>>,
         entries' = entries \/ entries' = <<>>,
         Records \subseteq gone' \cup disk' \cup Range(entries'),
         disk' \subseteq Records, submitted' \subseteq submitted
  PROVE  HistoryOk'
BY HistoryStays DEF HistoryOk, IdsReached

LEMMA HistoryIdle ==
  HistoryOk /\ UNCHANGED <<ids, first, next, ckpt, held, scheduled, jobs, emit, entries, disk,
                           gone, submitted>> => HistoryOk'
BY RecordsMove DEF HistoryOk, Remembered

\* A record of the emergency writer's is on disk.
LEMMA EmergencyKeepsHistory ==
  ASSUME HistoryOk, UNCHANGED <<ids, first, next, ckpt, held, scheduled, jobs, emit, entries, gone>>,
         disk \subseteq disk', disk' \subseteq disk \cup submitted, submitted' \subseteq submitted
  PROVE  HistoryOk'
BY RecordsMove DEF HistoryOk, Remembered

LEMMA PersistKeepsHistory ==
  ASSUME HistoryOk, StoreTypes,
         Put \/ Recorded \/ RecordRaised \/ \E fails \in BOOLEAN : Persist(fails)
  PROVE  HistoryOk'
<1>1. /\ UNCHANGED <<ids, first, next, entries, disk, gone, submitted>>
      /\ emit' # "idle" => emit # "idle"
      /\ held' = held
  BY DEF Persist, Put, Recorded, RecordRaised, historyVars, checkpointVars
<1>2. emit # "idle" => first < next
  BY DEF HistoryOk, IdsReached
<1>3. Reached(ckpt') /\ Reached(scheduled')
  <2>1. ckpt' \in {ckpt, LastId} /\ scheduled' \in {scheduled, LastId}
    BY DEF Persist, Put, Recorded, RecordRaised, checkpointVars
  <2>2. Reached(ckpt) /\ Reached(scheduled) /\ Reached(LastId)
    BY DEF HistoryOk, IdsReached
  <2> QED
    BY <2>1, <2>2
<1>4. \A i \in 1..Len(jobs') : Reached(jobs'[i])
  <2>1. CASE jobs' = jobs
    BY <2>1 DEF HistoryOk, IdsReached
  <2>2. CASE jobs' = <<>>
    BY <2>2, EmptySeq
  <2>3. CASE jobs' = Append(jobs, LastId)
    <3>1. /\ Len(jobs) \in Nat /\ Len(jobs') = Len(jobs) + 1
          /\ \A i \in 1..Len(jobs) : jobs'[i] = jobs[i]
          /\ jobs'[Len(jobs) + 1] = LastId
      BY <2>3, LenProperties, AppendProperties DEF StoreTypes, LastId
    <3>2. Reached(LastId) /\ \A i \in 1..Len(jobs) : Reached(jobs[i])
      BY DEF HistoryOk, IdsReached
    <3> QED
      BY <3>1, <3>2
  <2> QED
    BY <2>1, <2>2, <2>3 DEF Persist, Put, Recorded, RecordRaised, checkpointVars
<1> QED
  BY <1>1, <1>2, <1>3, <1>4, CheckpointMoves DEF HistoryOk, IdsReached

LEMMA TakesKeepsHistory ==
  ASSUME HistoryOk, StoreTypes, WorkerTakes
  PROVE  HistoryOk'
<1> DEFINE n == SelectInSeq(jobs, LAMBDA j : j = 0)
           taken == IF n = 0 THEN jobs ELSE SubSeq(jobs, 1, n - 1)
           len == Len(jobs)
<1>1. /\ UNCHANGED <<ids, first, next, entries, disk, gone, submitted, emit, ckpt, scheduled>>
      /\ jobs \in Seq(Nat) /\ jobs # <<>>
      /\ held' = IF taken = <<>> THEN 0 ELSE Last(taken)
      /\ jobs' = IF n = 0 THEN <<>> ELSE SubSeq(jobs, n + 1, len)
  BY DEF WorkerTakes, historyVars, StoreTypes
<1>2. len \in Nat /\ n \in 0..len /\ \A i \in 1..len : Reached(jobs[i])
  BY <1>1, FirstStop, LenProperties DEF HistoryOk, IdsReached
<1> HIDE DEF n
<1>3. \A i \in 1..Len(jobs') : Reached(jobs'[i])
  <2>1. CASE n = 0
    BY <1>1, <2>1, EmptySeq
  <2>2. CASE n # 0
    <3>1. Len(jobs') = len - n /\ \A i \in 1..(len - n) : jobs'[i] = jobs[n + i]
      BY <1>1, <1>2, <2>2, SubSeqProperties
    <3> QED
      BY <1>2, <2>2, <3>1
  <2> QED
    BY <2>1, <2>2
<1>4. Reached(held')
  <2>1. CASE taken = <<>>
    BY <1>1, <2>1 DEF Reached
  <2>2. CASE taken # <<>>
    <3>1. taken \in Seq(Nat) /\ Len(taken) \in 1..len /\ \A i \in 1..Len(taken) : taken[i] = jobs[i]
      BY <1>1, <1>2, <2>2, SubSeqProperties, EmptySeq
    <3>2. held' = jobs[Len(taken)]
      BY <1>1, <2>2, <3>1 DEF Last
    <3> QED
      BY <1>2, <3>1, <3>2
  <2> QED
    BY <2>1, <2>2
<1> QED
  BY <1>1, <1>3, <1>4, CheckpointMoves DEF HistoryOk, IdsReached

LEMMA CommitKeepsHistory ==
  ASSUME HistoryOk, StoreTypes, NEW fails \in BOOLEAN, Commit(fails) \/ LoopCommits(fails)
  PROVE  HistoryOk'
<1>1. UNCHANGED <<ids, first, next, entries, disk, gone, submitted, emit, scheduled>>
  BY DEF Commit, LoopCommits, historyVars
<1>2. \A i \in 1..Len(jobs) : Reached(jobs[i])
  BY DEF HistoryOk, IdsReached
<1>3. CASE Commit(fails)
  BY <1>1, <1>2, <1>3, CheckpointMoves DEF Commit, HistoryOk, IdsReached, Reached
<1>4. CASE LoopCommits(fails)
  <2>1. PICK i \in DOMAIN jobs :
          jobs' = RemoveAt(jobs, i) /\ ckpt' = IF fails THEN ckpt ELSE jobs[i]
    BY <1>4 DEF LoopCommits
  <2>2. i \in 1..Len(jobs) /\ held' = held
    BY <1>4, <2>1, LenProperties DEF LoopCommits, StoreTypes
  <2> DEFINE S == {x \in Nat : Reached(x)}
  <2>3. jobs \in Seq(S)
    <3>1. Range(jobs) = {jobs[k] : k \in 1..Len(jobs)} /\ jobs \in Seq(Range(jobs))
      BY RangeEquality, SeqOfRange DEF StoreTypes
    <3>2. \A k \in 1..Len(jobs) : jobs[k] \in S
      BY <1>2, ElementOfSeq DEF StoreTypes
    <3>3. Range(jobs) \subseteq S
      BY <3>1, <3>2
    <3> QED
      BY <3>1, <3>3, SeqMonotonic
  <2>4. jobs' \in Seq(S) /\ jobs[i] \in S
    BY <2>1, <2>3, OneRemoved
  <2>5. \A k \in 1..Len(jobs') : jobs'[k] \in S
    BY <2>4, ElementOfSeq
  <2>6. Reached(ckpt') /\ \A k \in 1..Len(jobs') : Reached(jobs'[k])
    BY <2>1, <2>4, <2>5 DEF HistoryOk, IdsReached
  <2> QED
    BY <1>1, <2>2, <2>6, CheckpointMoves DEF HistoryOk, IdsReached
<1> QED
  BY <1>3, <1>4

LEMMA FlushKeepsHistory == HistoryOk /\ CloseFlush => HistoryOk'
<1> SUFFICES ASSUME HistoryOk, CloseFlush PROVE HistoryOk'
  OBVIOUS
<1>1. PICK failed, aged : Flush(failed, aged)
  BY DEF CloseFlush
<1>2. UNCHANGED <<ids, first, next, ckpt, held, scheduled, jobs, emit, submitted>>
  BY <1>1 DEF Flush, checkpointVars
<1>3. CASE UNCHANGED historyVars
  BY <1>2, <1>3, HistoryIdle DEF historyVars
<1>4. CASE Spill(entries, failed, aged)
  <2>1. Range(entries) \subseteq Records
    BY InMemory DEF HistoryOk
  <2> QED
    BY <1>2, <1>4, <2>1, RecordsMove DEF Spill, HistoryOk, Remembered
<1> QED
  BY <1>1, <1>3, <1>4 DEF Flush

LEMMA CloseCheckpointKeepsHistory ==
  ASSUME HistoryOk, StoreTypes, CloseCheckpoint
  PROVE  HistoryOk'
<1>1. \A i \in 1..Len(jobs) : Reached(jobs[i])
  BY DEF HistoryOk, IdsReached
<1>2. CASE SendStop
  <2>1. /\ UNCHANGED <<ids, first, next, entries, disk, gone, submitted, emit, ckpt, held, scheduled>>
        /\ Len(jobs) \in Nat /\ Len(jobs') = Len(jobs) + 1
        /\ \A i \in 1..Len(jobs) : jobs'[i] = jobs[i]
        /\ jobs'[Len(jobs) + 1] = 0
    BY <1>2, LenProperties, AppendProperties DEF SendStop, historyVars, StoreTypes
  <2>2. \A i \in 1..Len(jobs') : Reached(jobs'[i])
    BY <1>1, <2>1 DEF Reached
  <2> QED
    BY <2>1, <2>2, CheckpointMoves DEF HistoryOk, IdsReached
<1>3. ASSUME NEW fails \in BOOLEAN, CloseLoop(fails) PROVE HistoryOk'
  <2>1. /\ UNCHANGED <<ids, first, next, entries, disk, gone, submitted, emit, held, scheduled>>
        /\ jobs' \in {jobs, <<>>} /\ ckpt' \in {ckpt, scheduled}
    BY <1>3 DEF CloseLoop, historyVars, checkpointVars
  <2>2. \A i \in 1..Len(jobs') : Reached(jobs'[i])
    BY <1>1, <2>1, EmptySeq
  <2>3. Reached(ckpt')
    BY <2>1 DEF HistoryOk, IdsReached
  <2> QED
    BY <2>1, <2>2, <2>3, CheckpointMoves DEF HistoryOk, IdsReached
<1> QED
  BY <1>2, <1>3 DEF CloseCheckpoint

\* The constructor resumes after the checkpoint; memory without a line is lost,
\* and so are the lines that retention deletes.
LEMMA RestartKeepsHistory ==
  ASSUME HistoryOk, StoreTypes, NEW crash \in BOOLEAN, Restart(crash)
  PROVE  HistoryOk'
<1>1. /\ ids' = ids /\ first' = ckpt + 1 /\ next' = ckpt + 1 /\ ckpt' = ckpt /\ ckpt \in Nat
      /\ entries' = <<>> /\ submitted' = {}
      /\ jobs' = <<>> /\ held' = 0 /\ scheduled' = 0 /\ emit' = "idle"
      /\ disk' \subseteq disk /\ gone' \cup disk' = gone \cup disk \cup Range(entries)
  BY DEF Restart, Resume, StoreTypes
<1>2. entries' \in Seq(Nat) /\ Len(entries') = 0 /\ Len(jobs') = 0 /\ Newest \in Nat
      /\ Newest' = Newest
  BY <1>1, EmptySeq, InMemory DEF HistoryOk, Newest
<1>3. Buffered'
  BY <1>2 DEF Buffered
<1>4. Remembered'
  BY <1>1 DEF HistoryOk, Remembered, Records
<1>5. IdsReached'
  <2>1. LastId' = ckpt /\ first' - 1 = ckpt /\ ~(first' < next')
    BY <1>1 DEF LastId
  <2>2. Reached(ckpt)'
    BY <1>1 DEF HistoryOk, IdsReached, Reached, Records, Id
  <2>3. Reached(LastId)' /\ Reached(first - 1)' /\ Reached(held)' /\ Reached(scheduled)'
    BY <1>1, <2>1, <2>2 DEF Reached
  <2> QED
    BY <1>1, <1>2, <2>1, <2>2, <2>3 DEF HistoryOk, IdsReached
<1> QED
  BY <1>3, <1>4, <1>5 DEF HistoryOk

LEMMA StoreStepsKeepHistory ==
  ASSUME HistoryOk, StoreInv, StoreSteps
  PROVE  HistoryOk'
<1>1. CASE EmitRecord
  BY <1>1, EmitKeepsHistory
<1>2. CASE Recorded \/ Put \/ \E fails \in BOOLEAN : Persist(fails)
  BY <1>2, PersistKeepsHistory DEF StoreInv
<1>3. CASE WorkerTakes
  BY <1>3, TakesKeepsHistory DEF StoreInv
<1>4. ASSUME NEW fails \in BOOLEAN, Commit(fails) \/ LoopCommits(fails) PROVE HistoryOk'
  BY <1>4, CommitKeepsHistory DEF StoreInv
<1>5. ASSUME NEW fails \in BOOLEAN, EmergencyWrites(fails) PROVE HistoryOk'
  BY <1>5, EmergencyKeepsHistory DEF EmergencyWrites, checkpointVars
<1>6. CASE ArmHistory \/ ArmCheckpoint
  BY <1>6, HistoryIdle DEF ArmHistory, ArmCheckpoint, historyVars, checkpointVars
<1> QED
  BY <1>1, <1>2, <1>3, <1>4, <1>5, <1>6 DEF StoreSteps

LEMMA EndEmergencyKeepsHistory == HistoryOk /\ EndEmergency => HistoryOk'
BY EmergencyKeepsHistory DEF EndEmergency, historyVars, checkpointVars

storeRest == <<ids, first, next, ckpt, held, scheduled, jobs, emit, entries, disk, gone, submitted>>

LEMMA ClientStepsKeepHistory == HistoryOk /\ StoreTypes /\ ClientSteps => HistoryOk'
<1> SUFFICES ASSUME HistoryOk, StoreTypes, ClientSteps PROVE HistoryOk'
  OBVIOUS
<1>1. EndEmergency \/ RecordRaised \/ UNCHANGED storeRest
  BY DEF ClientSteps, Connect, EnterEmergency, ReadAck, MissAck, Rejected, ReadDisk, SendEntry,
         SkipEntry, EncodeRaises, SendFails, SendsDone, Pass, EndSender, storeVars, historyVars,
         checkpointVars, storeRest
<1> QED
  BY <1>1, HistoryIdle, EndEmergencyKeepsHistory, PersistKeepsHistory DEF storeRest

LEMMA HistoryStepKeeps == HistoryOk /\ StoreInv /\ [Next]_vars => HistoryOk'
<1> SUFFICES ASSUME HistoryOk, StoreInv, [Next]_vars PROVE HistoryOk'
  OBVIOUS
<1>1. CASE StoreSteps
  BY <1>1, StoreStepsKeepHistory
<1>2. CASE ClientSteps
  BY <1>2, ClientStepsKeepHistory DEF StoreInv
<1>3. CASE LifeSteps
  BY <1>3, FlushKeepsHistory, CloseCheckpointKeepsHistory, RestartKeepsHistory,
     EndEmergencyKeepsHistory DEF LifeSteps, CloseRest, StoreInv
<1>4. CASE (\E c \in Conns : Break(c)) \/ ServerSteps \/ UNCHANGED vars
  <2>1. UNCHANGED storeVars
    BY <1>4 DEF Break, ServerSteps, vars
  <2> QED
    BY <2>1, HistoryIdle DEF storeVars, historyVars, checkpointVars
<1> QED
  BY <1>1, <1>2, <1>3, <1>4 DEF Next

LEMMA HistoryStarts == Init => HistoryOk
<1> SUFFICES ASSUME Init PROVE HistoryOk
  OBVIOUS
<1>1. /\ ids = <<>> /\ first = 1 /\ next = 1 /\ entries = <<>> /\ disk = {} /\ submitted = {}
      /\ ckpt = 0 /\ jobs = <<>> /\ held = 0 /\ scheduled = 0 /\ emit = "idle"
  BY DEF Init, StoreInit
<1>2. /\ ids \in Seq(Nat \ {0}) /\ Len(ids) = 0 /\ Len(jobs) = 0 /\ Records = {}
      /\ entries \in Seq(Nat) /\ Len(entries) = 0
  BY <1>1, EmptySeq DEF Records
<1> QED
  BY <1>1, <1>2 DEF HistoryOk, Buffered, Remembered, IdsReached, Reached, LastId, Newest

-----------------------------------------------------------------------------
(* What the server is owed. *)

Covered == gone \cup served \cup hand \cup blind \cup skipped \cup dropped \cup unhandled
Owed == {r \in Records \ Covered : Unique(r)}

(* What a step does to it: only a record with a new highest id comes in. *)
OwedMoves ==
  /\ Records \subseteq Records' /\ \A r \in Records' : ids'[r] \in Nat
  /\ \A r \in Records : ids'[r] = ids[r]
  /\ \A r \in Owed' : r \in Owed \/ \A s \in Records : ids[s] < ids'[r]

\* An owed record's place among the ids is its place among the records.
LEMMA OwedOrder ==
  ASSUME NEW r \in Owed, NEW s \in Records, ids \in Seq(Nat \ {0})
  PROVE  /\ r \in Records /\ r \in Nat /\ s \in Nat /\ Id(r) \in Nat /\ Id(s) \in Nat
         /\ r < s <=> Id(r) < Id(s)
         /\ Id(r) = Id(s) => r = s
<1>1. /\ Len(ids) \in Nat /\ r \in Records /\ r \in Nat /\ s \in Nat
      /\ Id(r) \in Nat /\ Id(s) \in Nat /\ Unique(r)
  BY LenProperties, ElementOfSeq DEF Owed, Records, Id
<1>2. s # r => IF s < r THEN Id(s) < Id(r) ELSE Id(r) < Id(s)
  BY <1>1 DEF Unique
<1> QED
  BY <1>1, <1>2

\* The server goes: the record in the writer's hand is lost if the saved registry
\* counts it, and owed again if it does not.
ServerGoes ==
  /\ \E saved, lost :
       /\ saved \in regFile..registry \/ saved = registry
       /\ lost = {r \in hand : Id(r) <= saved} /\ Gone(saved, lost)
  /\ opened > 0 /\ broken' = 1..opened
  /\ UNCHANGED <<kind, conn, opened, sender, lastSent, look, replaying, outbox, seed, blind,
                 skipped>>
  /\ UNCHANGED storeVars

LEMMA ServerStepKinds ==
  ASSUME ServerSteps
  PROVE  \/ ServerGoes
         \/ (\E c \in Conns : ReadBy(c)) /\ UNCHANGED storeVars
         \/ /\ Unregister \/ Dispatch(Id(Head(queue)[2])) \/ Handle
               \/ \E succeeds \in BOOLEAN : Register(succeeds)
            /\ UNCHANGED clientVars /\ UNCHANGED storeVars
<1>1. CASE \E saved \in {regFile} \cup {Id(r) : r \in served \cup hand} :
             /\ ServerCrashes(saved, {r \in hand : Id(r) <= saved})
             /\ Spend(TRUE) /\ opened > 0 /\ broken' = 1..opened
             /\ UNCHANGED <<kind, conn, opened, sender, lastSent, look, replaying, outbox, seed,
                            bell, closer, blind, skipped>>
             /\ UNCHANGED storeVars
  BY <1>1 DEF ServerGoes, ServerCrashes
<1>2. CASE /\ ServerStops /\ opened > 0 /\ broken' = 1..opened
           /\ UNCHANGED <<kind, conn, opened, sender, lastSent, look, replaying, outbox, seed,
                          bell, closer, blind, skipped>>
           /\ UNCHANGED storeVars
  <2>1. {r \in hand : Id(r) <= registry} = {} /\ Gone(registry, {})
    BY <1>2 DEF ServerStops
  <2> QED
    BY <1>2, <2>1 DEF ServerGoes
<1> QED
  BY <1>1, <1>2 DEF ServerSteps

\* Else nothing that is covered becomes owed again.
LEMMA CoveredGrows == [Next]_vars => Covered \subseteq Covered' \/ ServerGoes
<1> SUFFICES ASSUME [Next]_vars, ~ServerGoes PROVE Covered \subseteq Covered'
  OBVIOUS
<1>1. gone \subseteq gone'
  <2>1. CASE StoreSteps
    BY <2>1
       DEF StoreSteps, EmitRecord, Recorded, Record, AppendEntry, Spill, WriteThrough, Persist, Put,
           WorkerTakes, Commit, LoopCommits, EmergencyWrites, ArmHistory, ArmCheckpoint, historyVars
  <2>2. CASE ClientSteps
    BY <2>2
       DEF ClientSteps, Connect, EnterEmergency, ReadAck, MissAck, Rejected, ReadDisk, SendEntry,
           SkipEntry, EncodeRaises, RecordRaised, SendFails, SendsDone, Pass, EndSender,
           EndEmergency, storeVars, historyVars
  <2>3. CASE LifeSteps
    BY <2>3
       DEF LifeSteps, CloseFlush, Flush, Spill, CloseCheckpoint, SendStop, CloseLoop, CloseRest,
           EndEmergency, Restart, Resume, historyVars
  <2>4. CASE (\E c \in Conns : Break(c)) \/ ServerSteps \/ UNCHANGED vars
    BY <2>4 DEF Break, ServerSteps, vars, storeVars, historyVars
  <2> QED
    BY <2>1, <2>2, <2>3, <2>4 DEF Next
<1>2. blind \subseteq blind' /\ skipped \subseteq skipped'
  <2>1. CASE StoreSteps
    BY <2>1 DEF StoreSteps, EmitRecord, Recorded, StoreStep, clientVars
  <2>2. CASE ClientSteps
    BY <2>2
       DEF ClientSteps, Connect, EnterEmergency, ReadAck, MissAck, Rejected, ReadDisk, SendEntry,
           SkipEntry, EncodeRaises, RecordRaised, DrainerEnds, SendFails, SendsDone, Pass,
           EndSender, clientVars
  <2>3. CASE LifeSteps
    BY <2>3 DEF LifeSteps, CloseFlush, CloseCheckpoint, CloseRest, Restart
  <2>4. CASE (\E c \in Conns : Break(c)) \/ ServerSteps \/ UNCHANGED vars
    BY <2>4, ServerStepKinds DEF Break, ReadBy, vars, clientVars
  <2> QED
    BY <2>1, <2>2, <2>3, <2>4 DEF Next
<1>3. served \cup hand \cup dropped \cup unhandled
        \subseteq served' \cup hand' \cup dropped' \cup unhandled'
  <2>1. CASE StoreSteps
    BY <2>1 DEF StoreSteps, EmitRecord, Recorded, StoreStep, serverVars, writerVars
  <2>2. CASE ClientSteps
    BY <2>2
       DEF ClientSteps, Connect, EnterEmergency, ReadAck, MissAck, Rejected, ReadDisk, SendEntry,
           SkipEntry, EncodeRaises, RecordRaised, DrainerEnds, SendFails, SendsDone, Pass,
           EndSender, serverVars, writerVars
  <2>3. CASE LifeSteps
    BY <2>3 DEF LifeSteps, CloseFlush, CloseCheckpoint, CloseRest, Restart, serverVars, writerVars
  <2>4. CASE (\E c \in Conns : Break(c)) \/ UNCHANGED vars
    BY <2>4 DEF Break, vars, serverVars, writerVars
  <2>5. CASE ServerSteps
    <3>1. ASSUME NEW c \in Conns, ReadBy(c)
          PROVE  UNCHANGED <<served, hand, dropped, unhandled>>
      BY <3>1
         DEF ReadBy, Handshake, NoHandshake, Enrol, AckFails, Ingest, HangUp, writerVars
    <3>2. CASE Dispatch(Id(Head(queue)[2]))
      BY <3>2 DEF Dispatch, NextItem
    <3>3. CASE Handle \/ Unregister \/ \E succeeds \in BOOLEAN : Register(succeeds)
      BY <3>3 DEF Handle, Unregister, Register
    <3> QED
      BY <2>5, <3>1, <3>2, <3>3, ServerStepKinds
  <2> QED
    BY <2>1, <2>2, <2>3, <2>4, <2>5 DEF Next
<1> QED
  BY <1>1, <1>2, <1>3 DEF Covered

\* Ids are assigned by record() alone.
LEMMA IdsGrow ==
  ASSUME [Next]_vars
  PROVE  ids' = ids \/ (EmitRecord /\ ids' = Append(ids, next))
<1>1. CASE StoreSteps
  BY <1>1
     DEF StoreSteps, EmitRecord, Recorded, Record, Persist, Put, WorkerTakes, Commit, LoopCommits,
         EmergencyWrites, ArmHistory, ArmCheckpoint
<1>2. CASE ClientSteps
  BY <1>2
     DEF ClientSteps, Connect, EnterEmergency, ReadAck, MissAck, Rejected, ReadDisk, SendEntry,
         SkipEntry, EncodeRaises, RecordRaised, SendFails, SendsDone, Pass, EndSender,
         EndEmergency, storeVars
<1>3. CASE LifeSteps
  BY <1>3
     DEF LifeSteps, CloseFlush, Flush, CloseCheckpoint, SendStop, CloseLoop, CloseRest,
         EndEmergency, Restart, Resume
<1>4. CASE (\E c \in Conns : Break(c)) \/ ServerSteps \/ UNCHANGED vars
  BY <1>4 DEF Break, ServerSteps, vars, storeVars
<1> QED
  BY <1>1, <1>2, <1>3, <1>4 DEF Next

LEMMA OwedStep ==
  ASSUME HistoryOk, HistoryOk', [Next]_vars, ~ServerGoes
  PROVE  OwedMoves
<1>0. \A r \in Records' : ids'[r] \in Nat
  BY LenProperties, ElementOfSeq DEF HistoryOk, IdsReached, Records
<1>1. Covered \subseteq Covered' /\ Len(ids) \in Nat
  BY CoveredGrows, LenProperties DEF HistoryOk, IdsReached
<1>2. CASE ids' = ids
  BY <1>0, <1>1, <1>2 DEF OwedMoves, Owed, Unique, Records, Id
<1>3. CASE ids' = Append(ids, next)
  <2>1. /\ Len(ids') = Len(ids) + 1 /\ ids'[Len(ids) + 1] = next
        /\ \A r \in 1..Len(ids) : ids'[r] = ids[r]
    BY <1>1, <1>3, Appended, SeqOfRange DEF HistoryOk, IdsReached
  <2>2. Records \subseteq Records' /\ Records' = Records \cup {Len(ids) + 1}
    BY <1>1, <2>1 DEF Records
  <2>3. ASSUME NEW r \in Owed', r \in Records PROVE r \in Owed
    <3>1. r \notin Covered /\ Unique(r)'
      BY <1>1, <2>3 DEF Owed
    <3>2. Unique(r)
      BY <2>1, <2>2, <2>3, <3>1 DEF Unique, Records, Id
    <3> QED
      BY <2>3, <3>1, <3>2 DEF Owed
  <2>4. ASSUME NEW r \in Owed', r = Len(ids) + 1 PROVE \A s \in Records : ids[s] < ids'[r]
    <3>1. Unique(r)' /\ \A s \in Records : s \in Records' \ {r} /\ s < r
      BY <1>1, <2>2, <2>4 DEF Owed, Records
    <3> QED
      BY <2>1, <3>1 DEF Unique, Records, Id
  <2>5. \A r \in Owed' : r \in Records \/ r = Len(ids) + 1
    BY <2>2 DEF Owed
  <2> QED
    BY <1>0, <2>1, <2>2, <2>3, <2>4, <2>5 DEF OwedMoves, Records
<1> QED
  BY <1>2, <1>3, IdsGrow

-----------------------------------------------------------------------------
(* The server receives what it is owed in order. *)

InTransit(r) == Dispatched(r) \in Range(queue)
(* An owed record is ahead of the later ones in the writer's queue, *)
QueueInOrder ==
  \A i \in 1..Len(queue) : queue[i][1] = "record" =>
    /\ queue[i][2] \in Records
    /\ \A r \in Owed : Id(r) < Id(queue[i][2]) => \E j \in 1..(i - 1) : queue[j] = Dispatched(r)

(* and ahead of them on every wire, unless it waits in the queue. *)
SoundWire(w) ==
  /\ w \in Seq(Range(w))
  /\ \A i \in 1..Len(w) : w[i] \in {Hello, Eof} \cup {Rec(s) : s \in Records}
  /\ \A i \in 1..Len(w), s \in Records : w[i] = Rec(s) =>
       \A r \in Owed : Id(r) < Id(s) => InTransit(r) \/ \E j \in 1..(i - 1) : w[j] = Rec(r)
WiresInOrder == wire = [c \in Conns |-> wire[c]] /\ \A c \in Conns : SoundWire(wire[c])

(* The resume point has not passed it, and no connection that still carries *)
(* something was given a later one.                                         *)
RegistryOk ==
  /\ registry \in Nat /\ regFile \in Nat /\ regFile <= registry /\ Reached(registry)
  /\ \A r \in Owed : registry < Id(r)
  /\ reply \in [Conns -> {<<>>} \cup (BOOLEAN \X Nat)]
  /\ \A c \in Conns : reply[c] # <<>> /\ reply[c][1] =>
       c <= opened /\ Reached(reply[c][2]) /\ (c \in broken \/ reply[c][2] <= registry)

ServerOrder == QueueInOrder /\ WiresInOrder /\ RegistryOk

\* What is owed after a step, and comes before a record there was, was owed.
LEMMA OwedBefore ==
  ASSUME OwedMoves, NEW r \in Owed', NEW s \in Records, ids'[r] < ids'[s]
  PROVE  r \in Owed /\ r \in Records /\ ids'[r] = ids[r] /\ ids'[s] = ids[s] /\ Id(r) < Id(s)
<1>1. r \in Records' /\ ids'[r] \in Nat /\ ids'[s] \in Nat /\ ids'[s] = ids[s]
  BY DEF OwedMoves, Owed
<1>2. r \in Owed
  BY <1>1 DEF OwedMoves
<1> QED
  BY <1>1, <1>2 DEF OwedMoves, Owed, Id

\* The queue is left alone.
LEMMA QueueStays ==
  ASSUME QueueInOrder, OwedMoves, queue' = queue
  PROVE  QueueInOrder'
<1> SUFFICES ASSUME NEW i \in 1..Len(queue), queue[i][1] = "record"
             PROVE  /\ queue[i][2] \in Records'
                    /\ \A r \in Owed' : ids'[r] < ids'[queue[i][2]] =>
                         \E j \in 1..(i - 1) : queue[j] = Dispatched(r)
  BY DEF QueueInOrder, Id, Dispatched
<1>1. /\ queue[i][2] \in Records
      /\ \A r \in Owed : Id(r) < Id(queue[i][2]) => \E j \in 1..(i - 1) : queue[j] = Dispatched(r)
  BY DEF QueueInOrder
<1>2. ASSUME NEW r \in Owed', ids'[r] < ids'[queue[i][2]]
      PROVE  r \in Owed /\ Id(r) < Id(queue[i][2])
  BY <1>1, <1>2, OwedBefore
<1> QED
  BY <1>1, <1>2 DEF OwedMoves

\* An item is queued behind every owed record that comes before it.
LEMMA QueueTakes ==
  ASSUME QueueOk, QueueInOrder, OwedMoves, NEW item, queue' = Append(queue, item),
         item[1] = "record" =>
           item[2] \in Records /\ \A r \in Owed : Id(r) < Id(item[2]) => InTransit(r)
  PROVE  QueueInOrder' /\ Range(queue') = Range(queue) \cup {item}
<1>1. /\ Len(queue) \in Nat /\ Len(queue') = Len(queue) + 1
      /\ \A i \in 1..Len(queue) : queue'[i] = queue[i]
      /\ queue'[Len(queue) + 1] = item
      /\ Range(queue') = Range(queue) \cup {item}
  BY Appended DEF QueueOk
<1>2. SUFFICES ASSUME NEW i \in 1..Len(queue'), queue'[i][1] = "record"
               PROVE  /\ queue'[i][2] \in Records'
                      /\ \A r \in Owed' : ids'[r] < ids'[queue'[i][2]] =>
                           \E j \in 1..(i - 1) : queue'[j] = Dispatched(r)
  BY <1>1 DEF QueueInOrder, Id, Dispatched
<1>3. CASE i \in 1..Len(queue)
  <2>1. /\ queue'[i] = queue[i] /\ queue[i][2] \in Records
        /\ \A r \in Owed : Id(r) < Id(queue[i][2]) => \E j \in 1..(i - 1) : queue[j] = Dispatched(r)
    BY <1>1, <1>2, <1>3 DEF QueueInOrder
  <2>2. ASSUME NEW r \in Owed', ids'[r] < ids'[queue'[i][2]]
        PROVE  \E j \in 1..(i - 1) : queue'[j] = Dispatched(r)
    <3>1. r \in Owed /\ Id(r) < Id(queue[i][2])
      BY <2>1, <2>2, OwedBefore
    <3>2. PICK j \in 1..(i - 1) : queue[j] = Dispatched(r)
      BY <2>1, <3>1
    <3> QED
      BY <1>1, <1>3, <3>2
  <2> QED
    BY <2>1, <2>2 DEF OwedMoves
<1>4. CASE i = Len(queue) + 1
  <2>1. queue'[i] = item /\ item[2] \in Records
    BY <1>1, <1>2, <1>4
  <2>2. ASSUME NEW r \in Owed', ids'[r] < ids'[queue'[i][2]]
        PROVE  \E j \in 1..(i - 1) : queue'[j] = Dispatched(r)
    <3>1. InTransit(r)
      BY <1>2, <2>1, <2>2, OwedBefore
    <3>2. PICK j \in 1..Len(queue) : queue[j] = Dispatched(r)
      BY <3>1, InRange DEF InTransit, QueueOk
    <3> QED
      BY <1>1, <1>4, <3>2
  <2> QED
    BY <2>1, <2>2 DEF OwedMoves
<1> QED
  BY <1>1, <1>2, <1>3, <1>4

\* The writer takes an item, which is no record that is still owed.
LEMMA QueueYields ==
  ASSUME QueueOk, QueueInOrder, OwedMoves, queue # <<>>, queue' = Tail(queue),
         \A r \in Owed' : queue[1] # Dispatched(r)
  PROVE  QueueInOrder' /\ \A r \in Owed' : InTransit(r) => InTransit(r)'
<1>1. /\ queue \in Seq(Range(queue)) /\ queue' \in Seq(Range(queue'))
      /\ Len(queue) \in Nat \ {0} /\ Len(queue') = Len(queue) - 1
      /\ \A i \in 1..Len(queue') : queue'[i] = queue[i + 1]
  BY Taken DEF QueueOk
<1>2. ASSUME NEW i \in 1..Len(queue'), queue'[i][1] = "record"
      PROVE  /\ queue'[i][2] \in Records'
             /\ \A r \in Owed' : ids'[r] < ids'[queue'[i][2]] =>
                  \E j \in 1..(i - 1) : queue'[j] = Dispatched(r)
  <2>1. /\ i + 1 \in 1..Len(queue) /\ queue'[i] = queue[i + 1] /\ queue[i + 1][2] \in Records
        /\ \A r \in Owed : Id(r) < Id(queue[i + 1][2]) =>
             \E j \in 1..i : queue[j] = Dispatched(r)
    BY <1>1, <1>2 DEF QueueInOrder
  <2>2. ASSUME NEW r \in Owed', ids'[r] < ids'[queue'[i][2]]
        PROVE  \E j \in 1..(i - 1) : queue'[j] = Dispatched(r)
    <3>1. r \in Owed /\ Id(r) < Id(queue[i + 1][2])
      BY <2>1, <2>2, OwedBefore
    <3>2. PICK j \in 1..i : queue[j] = Dispatched(r)
      BY <2>1, <3>1
    <3>3. j - 1 \in 1..(i - 1) /\ queue'[j - 1] = queue[j]
      BY <1>1, <2>1, <3>2
    <3> QED
      BY <3>2, <3>3
  <2> QED
    BY <2>1, <2>2 DEF OwedMoves
<1>3. QueueInOrder'
  BY <1>2 DEF QueueInOrder, Id, Dispatched
<1>4. ASSUME NEW r \in Owed', InTransit(r) PROVE Dispatched(r) \in Range(queue')
  <2>1. PICK j \in 1..Len(queue) : queue[j] = Dispatched(r)
    BY <1>1, <1>4, InRange DEF InTransit
  <2>2. j - 1 \in 1..Len(queue') /\ queue'[j - 1] = queue[j]
    BY <1>1, <2>1
  <2> QED
    BY <1>1, <2>1, <2>2, InRange
<1> QED
  BY <1>3, <1>4 DEF InTransit, Dispatched

\* A wire is left alone.
StaysInTransit == \A r \in Owed' : InTransit(r) => InTransit(r)'

LEMMA WireStays ==
  ASSUME NEW w, SoundWire(w), OwedMoves, StaysInTransit
  PROVE  SoundWire(w)'
<1>1. /\ w \in Seq(Range(w))
      /\ \A i \in 1..Len(w) : w[i] \in {Hello, Eof} \cup {Rec(s) : s \in Records'}
  BY DEF SoundWire, OwedMoves
<1>2. ASSUME NEW i \in 1..Len(w), NEW s \in Records', w[i] = Rec(s),
             NEW r \in Owed', ids'[r] < ids'[s]
      PROVE  InTransit(r)' \/ \E j \in 1..(i - 1) : w[j] = Rec(r)
  <2>1. s \in Records
    BY <1>2 DEF SoundWire, Hello, Eof, Rec
  <2>2. r \in Owed /\ Id(r) < Id(s)
    BY <1>2, <2>1, OwedBefore
  <2> QED
    BY <1>2, <2>1, <2>2 DEF SoundWire, StaysInTransit
<1> QED
  BY <1>1, <1>2 DEF SoundWire, Id, Hello, Eof, Rec

\* The items of a wire are distinct.
LEMMA ItemsDiffer ==
  /\ \A r, s : Rec(r) = Rec(s) => r = s
  /\ \A r : Rec(r) # Eof /\ Rec(r) # Hello /\ Rec(r)[1] = "rec" /\ Rec(r)[2] = r
  /\ Hello # Eof /\ Hello[1] # "rec" /\ Eof[1] # "rec"
BY DEF Rec, Eof, Hello

\* A wire holds what it held, or the first of it, and one item more.
LEMMA WireTakes ==
  ASSUME NEW w, SoundWire(w), NEW n \in 0..Len(w), NEW item,
         NEW t, t \in Seq(Range(t)), Len(t) = n + 1,
         \A i \in 1..n : t[i] = w[i], t[n + 1] = item,
         \/ item = Eof
         \/ \E s \in Records : /\ item = Rec(s)
                               /\ \A r \in Owed : Id(r) < Id(s) =>
                                    InTransit(r) \/ \E j \in 1..n : w[j] = Rec(r)
  PROVE  SoundWire(t)
<1>1. n \in Nat /\ \A i \in 1..(n + 1) : i = n + 1 \/ i \in 1..n
  OBVIOUS
<1>2. Len(w) \in Nat /\ 1..n \subseteq 1..Len(w)
  BY LenProperties DEF SoundWire
<1>3. ASSUME NEW i \in 1..Len(t) PROVE t[i] \in {Hello, Eof} \cup {Rec(s) : s \in Records}
  BY <1>1, <1>2, <1>3 DEF SoundWire
<1>4. ASSUME NEW i \in 1..Len(t), NEW s \in Records, t[i] = Rec(s),
             NEW r \in Owed, Id(r) < Id(s)
      PROVE  InTransit(r) \/ \E j \in 1..(i - 1) : t[j] = Rec(r)
  <2>1. CASE i \in 1..n
    <3>1. i \in 1..Len(w) /\ w[i] = Rec(s) /\ 1..(i - 1) \subseteq 1..n
      BY <1>2, <1>4, <2>1
    <3>2. InTransit(r) \/ \E j \in 1..(i - 1) : w[j] = Rec(r)
      BY <1>4, <3>1 DEF SoundWire
    <3> QED
      BY <3>1, <3>2
  <2>2. CASE i = n + 1
    <3>1. item = Rec(s)
      BY <1>4, <2>2
    <3>2. InTransit(r) \/ \E j \in 1..n : w[j] = Rec(r)
      BY <1>4, <3>1, ItemsDiffer
    <3>3. i - 1 = n
      BY <2>2, <1>1
    <3> QED
      BY <3>2, <3>3
  <2> QED
    BY <1>1, <1>4, <2>1, <2>2
<1> QED
  BY <1>3, <1>4 DEF SoundWire

LEMMA WireAppends ==
  ASSUME NEW w, SoundWire(w), NEW item,
         \/ item = Eof
         \/ \E s \in Records : /\ item = Rec(s)
                               /\ \A r \in Owed : Id(r) < Id(s) =>
                                    InTransit(r) \/ \E j \in 1..Len(w) : w[j] = Rec(r)
  PROVE  SoundWire(Append(w, item))
<1> DEFINE t == Append(w, item)
<1>1. /\ Len(w) \in Nat /\ t \in Seq(Range(t)) /\ Len(t) = Len(w) + 1
      /\ \A i \in 1..Len(w) : t[i] = w[i]
      /\ t[Len(w) + 1] = item
  BY Appended DEF SoundWire
<1>2. Len(w) \in 0..Len(w)
  BY <1>1
<1> HIDE DEF t
<1>3. SoundWire(t)
  BY <1>1, <1>2, WireTakes
<1> QED
  BY <1>3 DEF t

\* Some of it still arrives, and then the end of the connection.
LEMMA WireBreaks ==
  ASSUME NEW w, SoundWire(w), NEW n \in 0..Len(w)
  PROVE  SoundWire(SubSeq(w, 1, n) \o <<Eof>>)
<1> DEFINE h == SubSeq(w, 1, n)
           t == h \o <<Eof>>
           S == Range(w) \cup {Eof}
<1>1. /\ w \in Seq(S) /\ Len(w) \in Nat /\ n \in Nat /\ n <= Len(w)
  BY LenProperties, SeqMonotonic DEF SoundWire
<1>2. h \in Seq(S) /\ Len(h) = n /\ \A i \in 1..n : h[i] = w[i]
  <2>1. \A i \in 1..n : w[i] \in S
    BY <1>1, ElementOfSeq
  <2> QED
    BY <1>1, <2>1, SubSeqProperties
<1>3. <<Eof>> \in Seq(S) /\ Len(<<Eof>>) = 1 /\ <<Eof>>[1] = Eof
  OBVIOUS
<1> HIDE DEF h
<1>4. /\ t \in Seq(S) /\ Len(t) = n + 1 /\ t[n + 1] = Eof
      /\ \A i \in 1..n : t[i] = w[i]
  BY <1>1, <1>2, <1>3, ConcatProperties
<1>5. t \in Seq(Range(t))
  BY <1>4, SeqOfRange
<1> HIDE DEF t
<1>6. SoundWire(t)
  BY <1>4, <1>5, WireTakes
<1> QED
  BY <1>6 DEF t, h

LEMMA WireStarts == SoundWire(<<>>) /\ SoundWire(<<Hello>>)
<1>1. <<>> \in Seq(Range(<<>>)) /\ Len(<<>>) = 0
  BY EmptyQueue
<1> DEFINE t == <<Hello>>
<1>2. t \in Seq({Hello}) /\ Len(t) = 1 /\ t[1] = Hello
  OBVIOUS
<1>3. t \in Seq(Range(t))
  BY <1>2, SeqOfRange
<1> HIDE DEF t
<1>4. SoundWire(t)
  BY <1>2, <1>3 DEF SoundWire, Hello, Rec
<1>5. SoundWire(<<>>)
  BY <1>1 DEF SoundWire
<1> QED
  BY <1>4, <1>5 DEF t

\* The reader takes an item; an owed record goes on to the writer's queue.
LEMMA WireYields ==
  ASSUME NEW w, SoundWire(w), OwedMoves, StaysInTransit, w # <<>>,
         \A r \in Owed' : w[1] = Rec(r) => InTransit(r)'
  PROVE  SoundWire(Tail(w))'
<1> DEFINE t == Tail(w)
<1>1. /\ t \in Seq(Range(t)) /\ Len(w) \in Nat \ {0} /\ Len(t) = Len(w) - 1
      /\ \A i \in 1..Len(t) : t[i] = w[i + 1]
  BY Taken DEF SoundWire
<1> HIDE DEF t
<1>2. SoundWire(w)'
  BY WireStays
<1>3. ASSUME NEW i \in 1..Len(t)
      PROVE  /\ t[i] \in {Hello, Eof} \cup {Rec(s) : s \in Records'}
             /\ \A s \in Records', r \in Owed' : t[i] = Rec(s) /\ ids'[r] < ids'[s] =>
                  InTransit(r)' \/ \E j \in 1..(i - 1) : t[j] = Rec(r)
  <2>1. i + 1 \in 1..Len(w) /\ t[i] = w[i + 1] /\ i \in Nat
    BY <1>1, <1>3
  <2>2. ASSUME NEW s \in Records', NEW r \in Owed', t[i] = Rec(s), ids'[r] < ids'[s]
        PROVE  InTransit(r)' \/ \E j \in 1..(i - 1) : t[j] = Rec(r)
    <3>1. InTransit(r)' \/ \E j \in 1..i : w[j] = Rec(r)
      <4>1. w[i + 1] = Rec(s) /\ (i + 1) - 1 = i
        BY <2>1, <2>2
      <4>2. \A x \in Records', y \in Owed' : w[i + 1] = Rec(x) /\ ids'[y] < ids'[x] =>
              InTransit(y)' \/ \E j \in 1..((i + 1) - 1) : w[j] = Rec(y)
        BY <1>2, <2>1 DEF SoundWire, Id, Rec
      <4> QED
        BY <2>2, <4>1, <4>2
    <3>2. ASSUME NEW j \in 1..i, w[j] = Rec(r), j # 1
          PROVE  j - 1 \in 1..(i - 1) /\ t[j - 1] = Rec(r)
      BY <1>1, <1>3, <2>1, <3>2
    <3> QED
      BY <3>1, <3>2
  <2> QED
    BY <1>2, <2>1, <2>2 DEF SoundWire, Hello, Eof, Rec
<1>4. SoundWire(t)'
  BY <1>1, <1>3 DEF SoundWire, Id, Hello, Eof, Rec
<1> QED
  BY <1>4 DEF t

-----------------------------------------------------------------------------
(* The order in which the server receives: each kind of step. *)

(* What every step does to the records. *)
Moving ==
  /\ HistoryOk /\ HistoryOk' /\ OwedMoves
  /\ ids' = ids \/ \E id : ids' = Append(ids, id)

LEMMA StepMoves == HistoryOk /\ StoreInv /\ [Next]_vars => Moving \/ ServerGoes
BY HistoryStepKeeps, OwedStep, IdsGrow DEF Moving

\* An id that is reached, and below every owed record's, stays so.
LEMMA NotPassed ==
  ASSUME Moving, NEW x \in Nat, Reached(x), \A r \in Owed : r \in Owed' => x < Id(r)
  PROVE  Reached(x)' /\ \A r \in Owed' : x < ids'[r]
<1>1. /\ ids \in Seq(Nat \ {0}) /\ ids' \in Seq(Nat \ {0}) /\ Len(ids) \in Nat
      /\ \A r \in Records' : ids'[r] \in Nat \ {0}
      /\ \A r \in Records : ids[r] \in Nat /\ ids'[r] = ids[r]
      /\ Records \subseteq Records'
  BY LenProperties, ElementOfSeq DEF Moving, HistoryOk, IdsReached, OwedMoves, Records
<1>2. Reached(x)'
  BY <1>1, StaysReached DEF Moving
<1>3. ASSUME NEW r \in Owed' PROVE x < ids'[r]
  <2>1. r \in Records'
    BY DEF Owed
  <2>2. CASE r \in Owed
    <3>1. x < Id(r) /\ r \in Records
      BY <2>2, <1>3 DEF Owed
    <3> QED
      BY <1>1, <3>1 DEF Id
  <2>3. CASE \A s \in Records : ids[s] < ids'[r]
    <3>1. CASE x = 0
      BY <1>1, <2>1, <3>1
    <3>2. ASSUME NEW s \in Records, x <= Id(s) PROVE x < ids'[r]
      <4>1. ids[s] < ids'[r] /\ ids[s] \in Nat /\ ids'[r] \in Nat /\ x <= ids[s]
        BY <1>1, <2>1, <2>3, <3>2 DEF Id
      <4> QED
        BY <4>1
    <3> QED
      BY <3>1, <3>2 DEF Reached
  <2> QED
    BY <2>2, <2>3 DEF Moving, OwedMoves
<1> QED
  BY <1>2, <1>3

LEMMA ResumeStays ==
  ASSUME RegistryOk, Moving, UNCHANGED <<registry, regFile, reply>>,
         broken \subseteq broken', opened \in Nat, opened' \in Nat, opened <= opened'
  PROVE  RegistryOk'
<1>1. Reached(registry)' /\ \A r \in Owed' : registry' < ids'[r]
  <2>1. PICK x : x = registry
    OBVIOUS
  <2>2. Reached(x)' /\ \A r \in Owed' : x < ids'[r]
    BY <2>1, NotPassed DEF RegistryOk
  <2> QED
    BY <2>1, <2>2 DEF Reached
<1>2. ASSUME NEW c \in Conns, reply[c] # <<>>, reply[c][1]
      PROVE  c <= opened' /\ Reached(reply[c][2])' /\ (c \in broken' \/ reply[c][2] <= registry)
  <2>1. PICK x : x = reply[c][2]
    OBVIOUS
  <2>2. c <= opened /\ Reached(x) /\ (c \in broken \/ reply[c][2] <= registry) /\ c \in Nat
    BY <1>2, <2>1 DEF RegistryOk, Conns
  <2>3. Reached(x)'
    BY <2>2, StaysReached DEF Moving, HistoryOk, IdsReached
  <2>4. Reached(reply[c][2])'
    BY <2>1, <2>3 DEF Reached
  <2> QED
    BY <2>2, <2>4
<1> QED
  BY <1>1, <1>2 DEF RegistryOk, Id, Reached, Records

LEMMA WiresStay ==
  ASSUME WiresInOrder, OwedMoves, StaysInTransit, wire' = wire
  PROVE  WiresInOrder'
<1>1. ASSUME NEW c \in Conns PROVE SoundWire(wire[c])'
  <2>1. PICK w : w = wire[c]
    OBVIOUS
  <2>2. SoundWire(w)'
    BY <2>1, WireStays DEF WiresInOrder
  <2> QED
    BY <2>1, <2>2 DEF SoundWire
<1> QED
  BY <1>1 DEF WiresInOrder, Conns

LEMMA WireChanges ==
  ASSUME WiresInOrder, OwedMoves, StaysInTransit, NEW c \in Conns, NEW w,
         wire' = [wire EXCEPT ![c] = w], SoundWire(w)'
  PROVE  WiresInOrder'
<1>1. /\ wire' = [d \in Conns |-> wire'[d]] /\ wire'[c] = w
      /\ \A d \in Conns : d # c => wire'[d] = wire[d]
  BY DEF WiresInOrder
<1>2. ASSUME NEW d \in Conns PROVE SoundWire(wire[d])'
  <2>1. CASE d = c
    <3>1. wire'[d] = w
      BY <1>1, <2>1
    <3> QED
      BY <3>1 DEF SoundWire
  <2>2. CASE d # c
    <3>1. PICK u : u = wire[d]
      OBVIOUS
    <3>2. SoundWire(u)'
      BY <3>1, WireStays DEF WiresInOrder
    <3> QED
      BY <1>1, <2>2, <3>1, <3>2 DEF SoundWire
  <2> QED
    BY <2>1, <2>2
<1> QED
  BY <1>1, <1>2 DEF WiresInOrder, Conns

\* Steps that neither send nor receive.
serverRest == <<queue, registry, regFile, reply>>

LEMMA OrderIdle ==
  ASSUME ServerOrder, Moving, UNCHANGED <<serverRest, wire>>,
         broken \subseteq broken', opened \in Nat, opened' \in Nat, opened <= opened'
  PROVE  ServerOrder'
<1>1. StaysInTransit
  BY DEF StaysInTransit, InTransit, serverRest, Dispatched
<1> QED
  BY <1>1, QueueStays, WiresStay, ResumeStays DEF ServerOrder, Moving, serverRest

\* Steps that send.
LEMMA WireOnly ==
  ASSUME ServerOrder, Moving, UNCHANGED serverRest,
         broken \subseteq broken', opened \in Nat, opened' \in Nat, opened <= opened',
         NEW c \in Conns, NEW w, wire' = [wire EXCEPT ![c] = w], SoundWire(w)
  PROVE  ServerOrder'
<1>1. StaysInTransit
  BY DEF StaysInTransit, InTransit, serverRest, Dispatched
<1>2. SoundWire(w)'
  BY <1>1, WireStays DEF Moving
<1> QED
  BY <1>1, <1>2, QueueStays, WireChanges, ResumeStays DEF ServerOrder, Moving, serverRest

LEMMA DropKeepsOrder ==
  ASSUME ServerOrder, Moving, UNCHANGED serverRest, opened \in Nat, opened' = opened,
         conn \in Conns, Drop
  PROVE  ServerOrder'
<1>1. PICK w : w = IF conn \in broken THEN wire[conn] ELSE Append(wire[conn], Eof)
  OBVIOUS
<1>2. wire' = [wire EXCEPT ![conn] = w] /\ broken \subseteq broken'
  BY <1>1 DEF Drop, Send
<1>3. PICK u : u = wire[conn]
  OBVIOUS
<1>4. SoundWire(u)
  BY <1>3 DEF ServerOrder, WiresInOrder
<1>5. SoundWire(Append(u, Eof))
  BY <1>4, WireAppends
<1>6. SoundWire(w)
  BY <1>1, <1>3, <1>4, <1>5
<1>7. opened' \in Nat /\ opened <= opened'
  OBVIOUS
<1> QED
  BY <1>2, <1>6, <1>7, WireOnly

LEMMA BreakKeepsOrder ==
  ASSUME ServerOrder, Moving, opened \in Nat, NEW c \in Conns, Break(c)
  PROVE  ServerOrder'
<1>1. PICK n \in 0..Len(wire[c]) : wire' = [wire EXCEPT ![c] = SubSeq(@, 1, n) \o <<Eof>>]
  BY DEF Break
<1>2. PICK u : u = wire[c]
  OBVIOUS
<1>3. PICK w : w = SubSeq(u, 1, n) \o <<Eof>>
  OBVIOUS
<1>4. SoundWire(u)
  BY <1>2 DEF ServerOrder, WiresInOrder
<1>5. SoundWire(w)
  BY <1>1, <1>2, <1>3, <1>4, WireBreaks
<1>6. /\ wire' = [wire EXCEPT ![c] = w] /\ UNCHANGED serverRest
      /\ broken \subseteq broken' /\ opened' = opened
  BY <1>1, <1>2, <1>3 DEF Break, serverRest, writerVars
<1>7. opened' \in Nat /\ opened <= opened'
  BY <1>6
<1> QED
  BY <1>5, <1>6, <1>7, WireOnly

LEMMA ConnectKeepsOrder ==
  ASSUME ServerOrder, Moving, opened \in Nat, Connect
  PROVE  ServerOrder'
<1>1. PICK c : c = opened + 1
  OBVIOUS
<1>2. PICK w : w = <<Hello>>
  OBVIOUS
<1>3. /\ c \in Conns /\ opened' = c /\ wire' = [wire EXCEPT ![c] = w]
      /\ UNCHANGED serverRest /\ broken' = broken
  BY <1>1, <1>2, ConnsAssumption DEF Connect, serverRest, Conns, writerVars
<1>4. SoundWire(w)
  BY <1>2, WireStarts
<1>5. opened' \in Nat /\ opened <= opened' /\ broken \subseteq broken'
  BY <1>1, <1>3
<1> QED
  BY <1>3, <1>4, <1>5, WireOnly

\* The reader takes something other than a record.
LEMMA ConsumeKeeps ==
  ASSUME ServerOrder, Moving, UNCHANGED queue, NEW c \in Conns, Consume(c),
         \A r : Head(wire[c]) # Rec(r), wire[c] # <<>>
  PROVE  QueueInOrder' /\ WiresInOrder'
<1>1. StaysInTransit
  BY DEF StaysInTransit, InTransit, Dispatched
<1>2. PICK u : u = wire[c]
  OBVIOUS
<1>3. PICK w : w = Tail(u)
  OBVIOUS
<1>4. SoundWire(u) /\ wire' = [wire EXCEPT ![c] = w]
  BY <1>2, <1>3 DEF ServerOrder, WiresInOrder, Consume
<1>5. \A r : u[1] # Rec(r)
  BY <1>2, <1>4, Taken DEF SoundWire
<1>6. SoundWire(Tail(u))'
  BY <1>1, <1>2, <1>4, <1>5, WireYields DEF Moving
<1>7. SoundWire(w)'
  BY <1>3, <1>6
<1> QED
  BY <1>1, <1>4, <1>7, QueueStays, WireChanges DEF ServerOrder, Moving

LEMMA HandshakeKeepsOrder ==
  ASSUME ServerOrder, ServerInv, Moving, NEW c \in Conns, NEW valid \in BOOLEAN,
         Handshake(c, valid), UNCHANGED <<opened, broken>>
  PROVE  ServerOrder'
<1>1. QueueInOrder' /\ WiresInOrder'
  BY ConsumeKeeps, ItemsDiffer DEF Handshake, Received, writerVars
<1>2. reader[c] = "new" /\ c <= opened /\ opened \in Nat
  BY DEF Handshake, ServerInv, ReadersOk, Conns
<1>3. /\ UNCHANGED <<registry, regFile>>
      /\ reply' = [reply EXCEPT ![c] = IF valid THEN <<TRUE, registry>> ELSE <<FALSE, 0>>]
  BY DEF Handshake, AckPoint, writerVars
<1>4. Reached(registry)' /\ \A r \in Owed' : registry' < ids'[r]
  <2>1. PICK x : x = registry
    OBVIOUS
  <2>2. Reached(x)' /\ \A r \in Owed' : x < ids'[r]
    BY <2>1, NotPassed DEF ServerOrder, RegistryOk
  <2> QED
    BY <1>3, <2>1, <2>2 DEF Reached
<1>5. reply' \in [Conns -> {<<>>} \cup (BOOLEAN \X Nat)]
  <2>1. reply \in [Conns -> {<<>>} \cup (BOOLEAN \X Nat)] /\ registry \in Nat
    BY DEF ServerOrder, RegistryOk
  <2>2. (IF valid THEN <<TRUE, registry>> ELSE <<FALSE, 0>>) \in BOOLEAN \X Nat
    BY <2>1
  <2> QED
    BY <1>3, <2>1, <2>2
<1>6. ASSUME NEW d \in Conns, reply'[d] # <<>>, reply'[d][1]
      PROVE  d <= opened' /\ Reached(reply[d][2])' /\ (d \in broken' \/ reply'[d][2] <= registry')
  <2>1. CASE d = c
    <3>1. reply \in [Conns -> {<<>>} \cup (BOOLEAN \X Nat)] /\ registry \in Nat
      BY DEF ServerOrder, RegistryOk
    <3>2. reply'[d] = IF valid THEN <<TRUE, registry>> ELSE <<FALSE, 0>>
      BY <1>3, <2>1, <3>1
    <3>3. valid
      BY <1>6, <3>2
    <3>4. reply'[d][2] = registry
      BY <3>2, <3>3
    <3>5. Reached(reply[d][2])'
      BY <1>3, <1>4, <3>4 DEF Reached
    <3> QED
      BY <1>2, <1>3, <2>1, <3>1, <3>4, <3>5
  <2>2. CASE d # c
    <3>1. reply'[d] = reply[d]
      BY <1>3, <2>2 DEF ServerOrder, RegistryOk
    <3>2. PICK x : x = reply[d][2]
      OBVIOUS
    <3>3. d <= opened /\ Reached(x) /\ (d \in broken \/ x <= registry)
      BY <1>6, <3>1, <3>2 DEF ServerOrder, RegistryOk
    <3>4. Reached(x)'
      BY <3>3, StaysReached DEF Moving, HistoryOk, IdsReached
    <3>5. Reached(reply[d][2])'
      BY <3>1, <3>2, <3>4 DEF Reached
    <3> QED
      BY <1>3, <3>1, <3>2, <3>3, <3>5
  <2> QED
    BY <2>1, <2>2
<1>7. registry' \in Nat /\ regFile' \in Nat /\ regFile' <= registry'
  BY <1>3 DEF ServerOrder, RegistryOk
<1>8. RegistryOk'
  BY <1>4, <1>5, <1>6, <1>7 DEF RegistryOk, Id
<1> QED
  BY <1>1, <1>8 DEF ServerOrder

LEMMA NoHandshakeKeepsOrder ==
  ASSUME ServerOrder, Moving, NEW c \in Conns, NoHandshake(c), UNCHANGED <<opened, broken>>,
         opened \in Nat
  PROVE  ServerOrder'
<1>1. QueueInOrder' /\ WiresInOrder'
  BY ConsumeKeeps, ItemsDiffer DEF NoHandshake, Received, writerVars
<1>2. UNCHANGED <<registry, regFile, reply>> /\ opened' \in Nat /\ opened <= opened'
  BY DEF NoHandshake, writerVars
<1> QED
  BY <1>1, <1>2, ResumeStays DEF ServerOrder

\* An item other than a record is queued.
LEMMA QueueTakesOther ==
  ASSUME ServerOrder, ServerInv, Moving, NEW item, item[1] # "record",
         queue' = Append(queue, item)
  PROVE  QueueInOrder' /\ StaysInTransit
<1>1. QueueInOrder' /\ Range(queue') = Range(queue) \cup {item}
  BY QueueTakes DEF ServerOrder, ServerInv, Moving
<1>2. StaysInTransit
  BY <1>1 DEF StaysInTransit, InTransit, Dispatched
<1> QED
  BY <1>1, <1>2

LEMMA EnrolKeepsOrder ==
  ASSUME ServerOrder, ServerInv, Moving, NEW c \in Conns, Enrol(c), UNCHANGED <<opened, broken>>
  PROVE  ServerOrder'
<1>1. PICK item : item = RegisterClient(c)
  OBVIOUS
<1>2. /\ queue' = Append(queue, item) /\ UNCHANGED <<wire, reply, registry, regFile>>
      /\ opened \in Nat /\ opened' \in Nat /\ opened <= opened' /\ item[1] # "record"
  BY <1>1 DEF Enrol, ServerInv, ReadersOk, RegisterClient
<1>3. QueueInOrder' /\ StaysInTransit
  BY <1>2, QueueTakesOther
<1> QED
  BY <1>2, <1>3, WiresStay, ResumeStays DEF ServerOrder, Moving

LEMMA IngestKeepsOrder ==
  ASSUME ServerOrder, ServerInv, Moving, NEW c \in Conns, Ingest(c), UNCHANGED <<opened, broken>>
  PROVE  ServerOrder' /\ StaysInTransit
<1>1. PICK u : u = wire[c]
  OBVIOUS
<1>2. PICK w : w = Tail(u)
  OBVIOUS
<1>3. PICK r : r = u[1][2]
  OBVIOUS
<1>4. PICK item : item = Dispatched(r)
  OBVIOUS
<1>5. SoundWire(u) /\ u # <<>>
  BY <1>1 DEF ServerOrder, WiresInOrder, Ingest
<1>6. Len(u) \in Nat \ {0} /\ Head(u) = u[1]
  BY <1>5, Taken DEF SoundWire
<1>7. u[1] = Rec(r) /\ r \in Records
  <2>1. u[1] \in {Hello, Eof} \cup {Rec(s) : s \in Records}
    BY <1>5, <1>6 DEF SoundWire
  <2>2. u[1][1] = "rec"
    BY <1>1, <1>6 DEF Ingest
  <2> QED
    BY <1>3, <2>1, <2>2, ItemsDiffer
<1>8. /\ wire' = [wire EXCEPT ![c] = w] /\ queue' = Append(queue, item)
      /\ UNCHANGED <<reply, registry, regFile>>
  BY <1>1, <1>2, <1>3, <1>4, <1>6 DEF Ingest, Consume
<1>9. ASSUME NEW x \in Owed, Id(x) < Id(r) PROVE InTransit(x)
  <2>1. InTransit(x) \/ \E j \in 1..(1 - 1) : u[j] = Rec(x)
    BY <1>5, <1>6, <1>7, <1>9 DEF SoundWire
  <2> QED
    BY <2>1
<1>10. QueueInOrder' /\ Range(queue') = Range(queue) \cup {item}
  <2>1. item[1] = "record" =>
          item[2] \in Records /\ \A x \in Owed : Id(x) < Id(item[2]) => InTransit(x)
    BY <1>4, <1>7, <1>9 DEF Dispatched
  <2> QED
    BY <1>8, <2>1, QueueTakes DEF ServerOrder, ServerInv, Moving
<1>11. StaysInTransit
  BY <1>10 DEF StaysInTransit, InTransit, Dispatched
<1>12. \A x \in Owed' : u[1] = Rec(x) => InTransit(x)'
  BY <1>4, <1>7, <1>10, ItemsDiffer DEF InTransit, Dispatched
<1>13. SoundWire(Tail(u))'
  BY <1>5, <1>11, <1>12, WireYields DEF Moving
<1>14. SoundWire(w)'
  BY <1>2, <1>13
<1>15. WiresInOrder'
  BY <1>8, <1>11, <1>14, WireChanges DEF ServerOrder, Moving
<1>16. opened \in Nat /\ opened' \in Nat /\ opened <= opened' /\ broken \subseteq broken'
  BY DEF ServerInv, ReadersOk
<1>17. RegistryOk'
  BY <1>8, <1>16, ResumeStays DEF ServerOrder
<1> QED
  BY <1>10, <1>11, <1>15, <1>17 DEF ServerOrder

LEMMA HangUpKeepsOrder ==
  ASSUME ServerOrder, ServerInv, Moving, NEW c \in Conns, HangUp(c), opened' = opened,
         broken \subseteq broken'
  PROVE  ServerOrder' /\ StaysInTransit
<1>1. PICK item : item = UnregisterClient(c)
  OBVIOUS
<1>2. /\ queue' = Append(queue, item) /\ UNCHANGED <<reply, registry, regFile>>
      /\ opened \in Nat /\ opened' \in Nat /\ opened <= opened' /\ item[1] # "record"
  BY <1>1 DEF HangUp, ServerInv, ReadersOk, UnregisterClient
<1>3. QueueInOrder' /\ StaysInTransit
  BY <1>2, QueueTakesOther
<1>4. PICK w : w = <<>>
  OBVIOUS
<1>5. SoundWire(w) /\ wire' = [wire EXCEPT ![c] = w]
  BY <1>4, WireStarts DEF HangUp
<1>6. SoundWire(w)'
  BY <1>3, <1>5, WireStays DEF Moving
<1>7. WiresInOrder'
  BY <1>3, <1>5, <1>6, WireChanges DEF ServerOrder, Moving
<1> QED
  BY <1>2, <1>3, <1>7, ResumeStays DEF ServerOrder

\* The writer takes an item, which is no record that is still owed.
LEMMA WriterKeepsOrder ==
  ASSUME ServerOrder, ServerInv, Moving, queue # <<>>, queue' = Tail(queue), wire' = wire,
         \A r \in Owed' : queue[1] # Dispatched(r)
  PROVE  QueueInOrder' /\ WiresInOrder' /\ StaysInTransit
<1>1. QueueInOrder' /\ StaysInTransit
  BY QueueYields DEF ServerOrder, ServerInv, Moving, StaysInTransit
<1> QED
  BY <1>1, WiresStay DEF ServerOrder, Moving

LEMMA RegisterKeepsOrder ==
  ASSUME ServerOrder, ServerInv, Moving, UNCHANGED <<opened, broken>>,
         Unregister \/ \E succeeds \in BOOLEAN : Register(succeeds)
  PROVE  ServerOrder' /\ StaysInTransit
<1>1. /\ queue # <<>> /\ queue' = Tail(queue) /\ Head(queue)[1] \in {"register", "unregister"}
      /\ UNCHANGED <<wire, reply, registry, regFile>>
  BY DEF Register, Unregister, NextItem
<1>2. Head(queue) = queue[1]
  BY <1>1, Taken DEF ServerInv, QueueOk
<1>3. \A r \in Owed' : queue[1] # Dispatched(r)
  BY <1>1, <1>2 DEF Dispatched
<1>4. QueueInOrder' /\ WiresInOrder' /\ StaysInTransit
  BY <1>1, <1>3, WriterKeepsOrder
<1>5. opened \in Nat /\ opened' \in Nat /\ opened <= opened'
  BY DEF ServerInv, ReadersOk
<1> QED
  BY <1>1, <1>4, <1>5, ResumeStays DEF ServerOrder

\* A record is dispatched: the ones before it were, as far as they are owed.
LEMMA DispatchKeepsOrder ==
  ASSUME ServerOrder, ServerInv, Moving, UNCHANGED <<opened, broken, ids>>,
         Dispatch(Id(Head(queue)[2]))
  PROVE  ServerOrder' /\ StaysInTransit
<1>1. PICK r : r = Head(queue)[2]
  OBVIOUS
<1>2. /\ queue # <<>> /\ queue' = Tail(queue) /\ Head(queue)[1] = "record"
      /\ UNCHANGED <<wire, reply, regFile>>
  BY DEF Dispatch, NextItem
<1>3. /\ Head(queue) = queue[1] /\ Len(queue) \in Nat \ {0} /\ queue[1] = <<queue[1][1], queue[1][2]>>
  BY <1>2, Taken DEF ServerInv, QueueOk
<1>4. r \in Records /\ \A x \in Owed : ~(Id(x) < Id(r))
  <2>1. /\ queue[1][2] \in Records
        /\ \A x \in Owed : Id(x) < Id(queue[1][2]) => \E j \in 1..(1 - 1) : queue[j] = Dispatched(x)
    BY <1>2, <1>3 DEF ServerOrder, QueueInOrder
  <2> QED
    BY <1>1, <1>3, <2>1
<1>5. \/ dropped' = dropped \cup {r} /\ registry' = registry
      \/ hand' = {r} /\ registry' = IF Id(r) > registry THEN Id(r) ELSE registry
  BY <1>1 DEF Dispatch
<1>6. r \notin Owed'
  BY <1>5 DEF Owed, Covered
<1>7. \A x \in Owed' : queue[1] # Dispatched(x)
  BY <1>1, <1>3, <1>6 DEF Dispatched
<1>8. QueueInOrder' /\ WiresInOrder' /\ StaysInTransit
  BY <1>2, <1>7, WriterKeepsOrder
<1>9. /\ registry \in Nat /\ regFile \in Nat /\ regFile <= registry /\ Reached(registry)
      /\ \A x \in Owed : registry < Id(x)
      /\ ids \in Seq(Nat \ {0})
  BY DEF ServerOrder, RegistryOk, Moving, HistoryOk, IdsReached
<1>10. Id(r) \in Nat /\ Reached(Id(r))
  BY <1>4, <1>9, LenProperties, ElementOfSeq DEF Reached, Records, Id
<1>11. \A x \in Owed : x \in Owed' => Id(r) < Id(x)
  <2>1. SUFFICES ASSUME NEW x \in Owed, x \in Owed' PROVE Id(r) < Id(x)
    OBVIOUS
  <2>2. x # r /\ ~(Id(x) < Id(r)) /\ Id(x) \in Nat /\ Id(x) # Id(r)
    BY <1>4, <1>6, <1>9, <2>1, OwedOrder
  <2> QED
    BY <1>10, <2>2
<1>12. PICK y : y = registry'
  OBVIOUS
<1>13. y \in {registry, Id(r)} /\ registry <= y
  BY <1>5, <1>9, <1>10, <1>12
<1>14. y \in Nat /\ Reached(y) /\ \A x \in Owed : x \in Owed' => y < Id(x)
  BY <1>9, <1>10, <1>11, <1>13
<1>15. Reached(y)' /\ \A x \in Owed' : y < ids'[x]
  BY <1>14, NotPassed
<1>16. Reached(registry)'
  BY <1>12, <1>15 DEF Reached
<1>17. regFile <= y
  BY <1>9, <1>13, <1>14
<1>18. ASSUME NEW c \in Conns, reply[c] # <<>>, reply[c][1]
       PROVE  c <= opened' /\ Reached(reply[c][2])' /\ (c \in broken' \/ reply[c][2] <= y)
  <2>1. /\ c <= opened /\ Reached(reply[c][2]) /\ (c \in broken \/ reply[c][2] <= registry)
        /\ reply[c] \in BOOLEAN \X Nat
    BY <1>18 DEF ServerOrder, RegistryOk
  <2>2. Reached(reply[c][2])'
    BY <1>2, <2>1 DEF Reached, Records, Id
  <2>3. reply[c][2] \in Nat
    BY <2>1
  <2> QED
    BY <1>9, <1>13, <1>14, <2>1, <2>2, <2>3
<1>19. reply' \in [Conns -> {<<>>} \cup (BOOLEAN \X Nat)]
  BY <1>2 DEF ServerOrder, RegistryOk
<1>20. RegistryOk'
  BY <1>2, <1>9, <1>12, <1>14, <1>15, <1>16, <1>17, <1>18, <1>19 DEF RegistryOk, Id
<1> QED
  BY <1>8, <1>20 DEF ServerOrder

\* The server restarts with an id that it had reached; what the writer had in
\* hand comes after it, or is lost.
LEMMA GoneKeepsOrder ==
  ASSUME ServerOrder, ServerInv, HistoryOk, ServerGoes
  PROVE  ServerOrder'
<1>0. PICK saved : /\ saved \in regFile..registry \/ saved = registry
                  /\ Gone(saved, {r \in hand : Id(r) <= saved})
  BY DEF ServerGoes
<1>1. queue' = <<>> /\ Len(queue') = 0 /\ wire' = [c \in Conns |-> <<>>]
  BY <1>0, EmptySeq DEF Gone
<1>2. QueueInOrder'
  BY <1>1 DEF QueueInOrder
<1>3. PICK w : w = <<>>
  OBVIOUS
<1>4. w \in Seq(Range(w)) /\ Len(w) = 0
  BY <1>3, EmptyQueue
<1>5. \A c \in Conns : wire'[c] = w
  BY <1>1, <1>3
<1>6. WiresInOrder'
  <2>1. wire' = [c \in Conns |-> wire'[c]]
    BY <1>1
  <2>2. \A c \in Conns : SoundWire(wire[c])'
    <3>1. SUFFICES ASSUME NEW c \in Conns' PROVE SoundWire(wire[c])'
      OBVIOUS
    <3>2. wire'[c] = w
      BY <1>5, <3>1 DEF Conns
    <3>3. SoundWire(w)'
      BY <1>4 DEF SoundWire
    <3> QED
      BY <3>2, <3>3 DEF SoundWire
  <2> QED
    BY <2>1, <2>2 DEF WiresInOrder, Conns
<1>7. /\ registry \in Nat /\ regFile \in Nat /\ regFile <= registry /\ Reached(registry)
      /\ \A x \in Owed : registry < Id(x)
      /\ ids \in Seq(Nat \ {0})
  BY DEF ServerOrder, RegistryOk, HistoryOk, IdsReached
<1>8. saved \in Nat /\ regFile <= saved /\ saved <= registry
  BY <1>0, <1>7
<1>9. ids' = ids /\ UNCHANGED <<opened, gone, blind, skipped>> /\ broken' = 1..opened
  BY DEF ServerGoes, storeVars, historyVars
<1>10. ASSUME NEW x \in Owed' PROVE saved < Id(x)
  <2>1. x \in Records /\ Unique(x) /\ x \notin Covered'
    BY <1>9, <1>10 DEF Owed, Unique, Records, Id
  <2>2. Id(x) \in Nat
    BY <1>7, <2>1, LenProperties, ElementOfSeq DEF Records, Id
  <2>3. x \in Owed \/ (x \in hand /\ ~(Id(x) <= saved))
    BY <1>0, <1>9, <2>1 DEF Owed, Covered, Gone
  <2> QED
    BY <1>7, <1>8, <2>2, <2>3
<1>11. registry' = saved /\ regFile' = saved /\ reply' = reply
  BY <1>0 DEF Gone
<1>12. Reached(registry)'
  <2>1. Reached(saved)
    BY <1>7, <1>8, ReachedBelow
  <2> QED
    BY <1>9, <1>11, <2>1 DEF Reached, Records, Id
<1>13. ASSUME NEW c \in Conns, reply[c] # <<>>, reply[c][1]
       PROVE  c <= opened' /\ Reached(reply[c][2])' /\ c \in broken'
  <2>1. c <= opened /\ Reached(reply[c][2]) /\ c \in Nat \ {0} /\ opened \in Nat
    BY <1>13 DEF ServerOrder, RegistryOk, Conns, ServerInv, ReadersOk
  <2>2. Reached(reply[c][2])'
    BY <1>9, <1>11, <2>1 DEF Reached, Records, Id
  <2> QED
    BY <1>9, <2>1, <2>2
<1>14. reply' \in [Conns -> {<<>>} \cup (BOOLEAN \X Nat)]
  BY <1>11 DEF ServerOrder, RegistryOk
<1>15. RegistryOk'
  BY <1>8, <1>9, <1>10, <1>11, <1>12, <1>13, <1>14 DEF RegistryOk, Id
<1> QED
  BY <1>2, <1>6, <1>15 DEF ServerOrder

-----------------------------------------------------------------------------
(* The client: what it has sent, has in hand, or will still look up. *)

Live == conn # 0 /\ conn \notin broken
OnItsWay(r) == InTransit(r) \/ Rec(r) \in Range(wire[conn])

(* A record that the client's next pass, or its next record, will not look at. *)
Behind(r) ==
  IF Handler THEN Id(r) <= lastSent ELSE Id(r) <= LastId /\ (r = Newest => emit = "idle")

Finding == sender = "find"
Sending == sender = "send"

ClientTypes ==
  /\ opened \in 0..MaxConns /\ conn \in 0..opened
  /\ sender \in {"idle", "ack", "find", "send", "ended"}
  /\ lastSent \in Nat /\ seed \in Nat /\ Reached(lastSent) /\ Reached(seed)
  /\ outbox \subseteq Records

Phases ==
  /\ sender \in {"idle", "ack", "ended"} => ~replaying
  /\ ~Sending => outbox = {}
  /\ sender = "ended" => conn = 0
  /\ ~Handler => /\ sender \in {"ack", "find", "send"} => emit = "idle"
                 /\ Finding => replaying
  /\ Handler /\ (Finding \/ Sending \/ (conn # 0 /\ sender # "ack")) => ~emergency
  /\ Live /\ replaying => seed <= registry

(* The lookup in progress: memory's copy starts at the bound, and what the   *)
(* answer leaves out is neither behind nor owed.  Without a bound this       *)
(* process had recorded nothing yet.                                         *)
LookSound(last, bound, copy) ==
  /\ last \in Nat /\ Reached(last) /\ bound \in Nat /\ bound <= next
  /\ copy \in Seq(Nat) /\ Range(copy) \subseteq Records
  /\ \A i \in 1..Len(copy) : copy[i] = copy[1] + (i - 1)
  /\ copy # <<>> => bound = Id(copy[1])
  /\ copy # <<>> /\ entries # <<>> => copy[1] <= entries[1]
  /\ \A e \in Range(entries) : bound <= Id(e)
  /\ bound = 0 => entries = <<>> \/ (Handler /\ Range(entries) \cap disk = {})
  /\ bound = 0 /\ Handler => submitted = {}
  /\ Live => \A r \in Owed :
       /\ \/ r \in Range(copy)
          \/ bound # 0 /\ Id(r) < bound
          \/ bound = 0 /\ r \notin Range(entries)
          \/ ~Behind(r)
       /\ last < Id(r) \/ OnItsWay(r)
LookOk == Finding => LookSound(look[1], look[2], look[3])

(* Nothing owed is left out before a record in hand. *)
OutboxInOrder ==
  Live /\ Sending => \A s \in outbox, r \in Owed : Id(r) < Id(s) => r \in outbox \/ OnItsWay(r)

(* What is behind and owed is on its way, in hand, or about to be replayed. *)
BehindIsSent ==
  Live /\ sender # "ack" =>
    \A r \in Owed : Behind(r) => OnItsWay(r) \/ (Finding /\ replaying) \/ r \in outbox

ClientInv == ClientTypes /\ Phases /\ LookOk /\ OutboxInOrder /\ BehindIsSent

\* Nothing was emitted: what is owed was owed.
LEMMA OwedShrinks ==
  ASSUME Moving, ids' = ids
  PROVE  \A r \in Owed' : r \in Owed /\ r \in Records /\ Id(r) \in Nat \ {0}
<1> SUFFICES ASSUME NEW r \in Owed' PROVE r \in Owed /\ r \in Records /\ Id(r) \in Nat \ {0}
  OBVIOUS
<1>1. r \in Records /\ Id(r) \in Nat \ {0}
  BY LenProperties, ElementOfSeq DEF Moving, HistoryOk, IdsReached, Owed, Records, Id
<1> QED
  BY <1>1 DEF Moving, OwedMoves, Id

\* A record was: it is the newest, and all the others that are owed were owed.
LEMMA OwedGrows ==
  ASSUME Moving, next \in Nat, ids' = Append(ids, next)
  PROVE  /\ Newest \in Nat /\ Newest' = Newest + 1 /\ ids'[Newest'] = next
         /\ Newest' \notin Records /\ Records' = Records \cup {Newest'}
         /\ \A r \in Records : ids'[r] = ids[r]
         /\ \A r \in Owed' : /\ ids'[r] \in Nat \ {0}
                             /\ r = Newest' \/ (r \in Owed /\ r \in Records /\ Id(r) < next)
<1>1. /\ Newest \in Nat /\ Newest' = Newest + 1 /\ ids'[Newest'] = next
      /\ \A r \in Records : ids'[r] = ids[r]
      /\ ids' \in Seq(Nat \ {0}) /\ ids \in Seq(Nat \ {0}) /\ Records = 1..Newest
  BY Appended, SeqOfRange, LenProperties DEF Moving, HistoryOk, IdsReached, Records, Newest
<1>2. Newest' \notin Records /\ Records' = Records \cup {Newest'}
  BY <1>1 DEF Records, Newest
<1>3. ASSUME NEW r \in Owed'
      PROVE  /\ ids'[r] \in Nat \ {0}
             /\ r = Newest' \/ (r \in Owed /\ r \in Records /\ Id(r) < next)
  <2>1. r \in Records' /\ ids'[r] \in Nat \ {0} /\ Unique(r)'
    BY <1>1, LenProperties, ElementOfSeq DEF Owed, Records
  <2>2. CASE r # Newest'
    <3>1. r \in Records /\ Newest' \in Records' \ {r}
      BY <1>2, <2>1, <2>2
    <3>2. r \in Nat /\ ~(Newest' < r)
      BY <1>1, <3>1
    <3>3. ids'[r] < ids'[Newest']
      BY <2>1, <3>1, <3>2 DEF Unique, Id
    <3>4. r \in Owed
      <4>1. r \in Owed \/ \A s \in Records : ids[s] < ids'[r]
        BY <1>3 DEF Moving, OwedMoves
      <4>2. ids'[r] = ids[r]
        BY <1>1, <3>1
      <4>3. ids'[r] \in Nat
        BY <2>1
      <4> QED
        BY <3>1, <4>1, <4>2, <4>3
    <3> QED
      BY <1>1, <2>1, <3>1, <3>3, <3>4 DEF Id
  <2> QED
    BY <2>1, <2>2
<1> QED
  BY <1>1, <1>2, <1>3

\* A new record that is owed has a higher id than any that is reached.
LEMMA NewIsBeyond ==
  ASSUME Moving, NEW x \in Nat, Reached(x), NEW r \in Owed', r \notin Owed
  PROVE  x < ids'[r]
<1>1. /\ \A s \in Records : ids[s] < ids'[r] /\ ids[s] \in Nat
      /\ ids'[r] \in Nat \ {0}
  BY LenProperties, ElementOfSeq
     DEF Moving, OwedMoves, HistoryOk, IdsReached, Owed, Records
<1> QED
  BY <1>1 DEF Reached, Id

\* Memory holds every owed record from its first on,
LEMMA OwedInMemory ==
  ASSUME HistoryOk, NEW r \in Owed, entries # <<>>, Id(entries[1]) <= Id(r)
  PROVE  r \in Range(entries)
<1>1. /\ Newest \in Nat /\ Len(entries) \in Nat
      /\ entries[1] = Newest - Len(entries) + 1 /\ entries[1] \in Records
      /\ Range(entries) = (Newest - Len(entries) + 1)..Newest
  BY InMemory DEF HistoryOk
<1>2. r \in Nat /\ r \in Records /\ entries[1] \in Nat /\ ~(r < entries[1])
  <2>1. /\ r \in Nat /\ r \in Records /\ Id(r) \in Nat /\ entries[1] \in Nat
        /\ Id(entries[1]) \in Nat /\ (r < entries[1] <=> Id(r) < Id(entries[1]))
    BY <1>1, OwedOrder DEF HistoryOk, IdsReached
  <2> QED
    BY <2>1
<1> QED
  BY <1>1, <1>2 DEF Records, Newest

\* and what comes after one of its records.
LEMMA LaterInMemory ==
  ASSUME HistoryOk, NEW r \in Range(entries), NEW s \in Records, r < s
  PROVE  s \in Range(entries)
BY InMemory DEF HistoryOk, Records, Newest

\* No owed record has a higher id than the last one assigned.
LEMMA OwedAssigned ==
  ASSUME HistoryOk, next \in Nat, first < next, NEW r \in Owed
  PROVE  Id(r) <= LastId
<1>1. Newest \in Nat /\ Newest > 0 /\ Id(Newest) = LastId /\ Newest \in Records
  BY InMemory DEF HistoryOk, IdsReached, Records, Newest
<1>2. /\ r \in Nat /\ r \in Records /\ Id(r) \in Nat /\ Id(Newest) \in Nat
      /\ (r < Newest <=> Id(r) < Id(Newest))
  BY <1>1, OwedOrder DEF HistoryOk, IdsReached
<1>3. r < Newest \/ r = Newest
  BY <1>1, <1>2 DEF Records, Newest
<1> QED
  BY <1>1, <1>2, <1>3

\* An owed record is in memory or on disk.
LEMMA OwedSomewhere ==
  ASSUME HistoryOk, NEW r \in Owed
  PROVE  r \in disk \/ r \in Range(entries)
BY DEF HistoryOk, Remembered, Owed, Covered

-----------------------------------------------------------------------------
(* Steps that leave the client alone, or only take its connection away. *)

StoreQuiet ==
  /\ UNCHANGED <<ids, next>>
  /\ Handler \/ emit' = emit \/ (emit # "idle" /\ emit' # "idle")
  /\ entries' = <<>> \/ (entries' = entries /\ disk' \subseteq disk \cup submitted)
  /\ submitted' \subseteq submitted
  /\ emergency' = emergency \/ emergency' = FALSE \/ (sender = "idle" /\ conn = 0)

ClientRests ==
  /\ UNCHANGED <<kind, opened, sender, lastSent, look, replaying, outbox, seed>>
  /\ conn' \in {conn, 0}
  /\ StoreQuiet \/ EmitRecord
  /\ Live' => Live /\ registry <= registry' /\ \A r \in Owed' : OnItsWay(r) => OnItsWay(r)'

LEMMA EmitAppends ==
  ASSUME EmitRecord, StoreInv, HistoryOk
  PROVE  /\ ids' = Append(ids, next) /\ next' = next + 1 /\ emit = "idle" /\ emit' # "idle"
         /\ emergency' = emergency /\ (~emergency => submitted' = submitted)
         /\ Handler \/ sender = "idle"
         /\ entries' = <<>> \/ (entries' = Append(entries, Newest + 1) /\ disk' = disk)
<1>1. PICK failed, aged : Record(failed, aged)
  BY DEF EmitRecord
<1>2. AppendEntry(Newest + 1, failed, aged)
  BY <1>1 DEF Record
<1>3. entries' = <<>> \/ (entries' = Append(entries, Newest + 1) /\ disk' = disk)
  <2>1. CASE histShut /\ flushed /\ WriteThrough(Newest + 1, failed)
    BY <2>1 DEF WriteThrough, StoreInv, Retired
  <2> QED
    BY <1>2, <2>1 DEF AppendEntry, Spill
<1> QED
  BY <1>1, <1>3 DEF Record, EmitRecord, MayRecord

LEMMA TypesRest ==
  ASSUME ClientTypes, Moving, ClientRests
  PROVE  ClientTypes'
<1>1. Reached(lastSent)'
  <2>1. PICK x : x = lastSent
    OBVIOUS
  <2>2. Reached(x)'
    BY <2>1, StaysReached DEF ClientTypes, Moving, HistoryOk, IdsReached
  <2> QED
    BY <2>1, <2>2 DEF ClientRests, Reached
<1>2. Reached(seed)'
  <2>1. PICK x : x = seed
    OBVIOUS
  <2>2. Reached(x)'
    BY <2>1, StaysReached DEF ClientTypes, Moving, HistoryOk, IdsReached
  <2> QED
    BY <2>1, <2>2 DEF ClientRests, Reached
<1>3. outbox' \subseteq Records'
  BY DEF ClientTypes, ClientRests, Moving, OwedMoves
<1>4. opened' \in 0..MaxConns /\ conn' \in 0..opened'
  BY ConnsAssumption DEF ClientTypes, ClientRests
<1> QED
  BY <1>1, <1>2, <1>3, <1>4 DEF ClientTypes, ClientRests

LEMMA PhasesRest ==
  ASSUME Phases, ClientTypes, Moving, StoreInv, ClientRests, registry \in Nat, registry' \in Nat
  PROVE  Phases'
<1>1. /\ UNCHANGED <<kind, sender, replaying, outbox, seed>> /\ conn' \in {conn, 0}
      /\ Live' => registry <= registry' /\ conn' = conn /\ Live
  BY DEF ClientRests, Live
<1>2. ~Handler /\ sender \in {"ack", "find", "send"} => emit' = "idle"
  BY EmitAppends DEF ClientRests, StoreQuiet, Phases, Moving
<1>3. Handler /\ (Finding \/ Sending \/ (conn' # 0 /\ sender # "ack")) => ~emergency'
  <2>1. SUFFICES ASSUME Handler, Finding \/ Sending \/ (conn' # 0 /\ sender # "ack")
                 PROVE  ~emergency'
    OBVIOUS
  <2>2. ~emergency /\ ~(sender = "idle" /\ conn = 0)
    BY <1>1, <2>1 DEF Phases, Finding, Sending
  <2>3. emergency' = emergency \/ emergency' = FALSE
    BY <2>2, EmitAppends DEF ClientRests, StoreQuiet, Moving
  <2> QED
    BY <2>2, <2>3
<1>4. Live' /\ replaying => seed <= registry'
  <2>1. SUFFICES ASSUME Live', replaying PROVE seed <= registry'
    OBVIOUS
  <2>2. seed <= registry /\ registry <= registry' /\ seed \in Nat
    BY <1>1, <2>1 DEF Phases, ClientTypes
  <2> QED
    BY <2>2
<1> QED
  BY <1>1, <1>2, <1>3, <1>4 DEF Phases, Finding, Sending, Handler

LEMMA EmptyRange == Range(<<>>) = {}
<1>1. <<>> \in Seq(Nat) /\ Len(<<>>) = 0
  BY EmptySeq
<1>2. Range(<<>>) = {<<>>[i] : i \in 1..Len(<<>>)}
  BY <1>1, RangeEquality
<1> QED
  BY <1>1, <1>2

\* What a step adds to what is owed is not behind.
LEMMA NewIsAhead ==
  ASSUME ClientTypes, Moving, StoreInv, ClientRests, NEW r \in Owed', r \notin Owed
  PROVE  ~Behind(r)' /\ lastSent < ids'[r] /\ EmitRecord
<1>1. lastSent < ids'[r]
  <2>1. PICK x : x = lastSent
    OBVIOUS
  <2> QED
    BY <2>1, NewIsBeyond DEF ClientTypes
<1>2. EmitRecord
  BY OwedShrinks DEF ClientRests, StoreQuiet
<1>3. next \in Nat /\ ids' = Append(ids, next) /\ emit' # "idle"
  BY <1>2, EmitAppends DEF Moving, StoreInv, StoreTypes
<1>4. r = Newest' /\ ids'[r] \in Nat
  BY <1>3, OwedGrows
<1>5. lastSent \in Nat /\ lastSent' = lastSent
  BY DEF ClientTypes, ClientRests
<1>6. ~(ids'[r] <= lastSent)
  BY <1>1, <1>4, <1>5
<1> QED
  BY <1>1, <1>2, <1>3, <1>4, <1>5, <1>6 DEF Behind, Id

\* And what is behind was behind, and is owed under the same id.
LEMMA BehindWas ==
  ASSUME ClientTypes, Moving, StoreInv, ClientRests, NEW r \in Owed', r \in Owed
  PROVE  r \in Records /\ ids'[r] = Id(r) /\ Id(r) \in Nat /\ (Behind(r)' => Behind(r))
<1>1. r \in Records /\ ids'[r] = Id(r) /\ Id(r) \in Nat
  BY LenProperties, ElementOfSeq
     DEF Owed, Moving, OwedMoves, HistoryOk, IdsReached, Id, Records
<1>2. lastSent' = lastSent /\ Handler' = Handler /\ next \in Nat
  BY DEF ClientRests, Handler, StoreInv, StoreTypes
<1>3. CASE Handler
  BY <1>1, <1>2, <1>3 DEF Behind, Id
<1>4. ASSUME ~Handler, StoreQuiet PROVE Behind(r)' => Behind(r)
  <2>1. /\ Newest' = Newest /\ LastId' = LastId
        /\ emit' = emit \/ (emit # "idle" /\ emit' # "idle")
    BY <1>4 DEF StoreQuiet, Newest, LastId
  <2> QED
    BY <1>1, <1>2, <1>4, <2>1 DEF Behind, Id
<1>5. ASSUME ~Handler, EmitRecord PROVE Behind(r)
  <2>1. ids' = Append(ids, next) /\ emit = "idle"
    BY <1>5, EmitAppends DEF Moving
  <2>2. r # Newest' /\ Id(r) < next
    BY <1>1, <1>2, <2>1, OwedGrows
  <2>3. Id(r) <= LastId
    BY <1>1, <1>2, <2>2 DEF LastId
  <2> QED
    BY <1>5, <2>1, <2>3 DEF Behind
<1> QED
  BY <1>1, <1>3, <1>4, <1>5 DEF ClientRests

LEMMA OutboxRest ==
  ASSUME OutboxInOrder, ClientTypes, Moving, StoreInv, ClientRests
  PROVE  OutboxInOrder'
<1>1. SUFFICES ASSUME Live', Sending', NEW s \in outbox', NEW r \in Owed', ids'[r] < ids'[s]
               PROVE  r \in outbox' \/ OnItsWay(r)'
  BY DEF OutboxInOrder, Id
<1>2. Live /\ Sending /\ s \in outbox /\ outbox' = outbox /\ s \in Records
  BY <1>1 DEF Live, ClientRests, Sending, ClientTypes
<1>3. r \in Owed /\ Id(r) < Id(s)
  BY <1>1, <1>2, OwedBefore DEF Moving
<1> QED
  BY <1>1, <1>2, <1>3 DEF OutboxInOrder, ClientRests

LEMMA BehindRest ==
  ASSUME BehindIsSent, ClientTypes, Moving, StoreInv, ClientRests
  PROVE  BehindIsSent'
<1>1. SUFFICES ASSUME Live', sender # "ack", NEW r \in Owed', Behind(r)'
               PROVE  OnItsWay(r)' \/ (Finding' /\ replaying') \/ r \in outbox'
  BY DEF BehindIsSent, ClientRests
<1>2. r \in Owed /\ Behind(r)
  BY <1>1, NewIsAhead, BehindWas
<1>3. Live
  BY <1>1 DEF Live, ClientRests
<1> QED
  BY <1>1, <1>2, <1>3 DEF BehindIsSent, ClientRests, Finding

LEMMA LookRest ==
  ASSUME LookOk, Phases, ClientTypes, Moving, StoreInv, ClientRests
  PROVE  LookOk'
<1>1. SUFFICES ASSUME Finding' PROVE LookSound(look[1], look[2], look[3])'
  BY DEF LookOk
<1>2. PICK last, bound, copy : last = look[1] /\ bound = look[2] /\ copy = look[3]
  OBVIOUS
<1>3. Finding /\ LookSound(last, bound, copy) /\ sender = "find"
  BY <1>1, <1>2 DEF LookOk, ClientRests, Finding
<1>4. /\ last \in Nat /\ Reached(last) /\ bound \in Nat /\ bound <= next
      /\ copy \in Seq(Nat) /\ Range(copy) \subseteq Records
      /\ \A i \in 1..Len(copy) : copy[i] = copy[1] + (i - 1)
      /\ copy # <<>> => copy[1] \in Records /\ bound = Id(copy[1])
  <2>1. copy \in Seq(Nat) /\ copy # <<>> => copy[1] \in Range(copy)
    BY EmptySeq, LenProperties, RangeEquality
  <2> QED
    BY <1>3, <2>1 DEF LookSound
<1>5. /\ next \in Nat /\ next' \in Nat /\ next <= next'
      /\ Records \subseteq Records' /\ \A r \in Records : ids'[r] = ids[r]
      /\ Reached(last)'
  <2>1. next \in Nat /\ (next' = next \/ next' = next + 1)
    BY EmitAppends DEF StoreInv, StoreTypes, ClientRests, StoreQuiet, Moving
  <2>2. Records \subseteq Records' /\ \A r \in Records : ids'[r] = ids[r]
    BY DEF Moving, OwedMoves
  <2>3. Reached(last)'
    BY <1>4, StaysReached DEF Moving, HistoryOk, IdsReached
  <2> QED
    BY <2>1, <2>2, <2>3
<1>6. /\ Newest \in Nat /\ Records = 1..Newest
      /\ entries \in Seq(Nat) /\ Range(entries) \subseteq Records
      /\ \A e \in Range(entries) : bound <= Id(e) /\ ids'[e] = Id(e)
  <2>1. Newest \in Nat /\ Range(entries) \subseteq Records
    BY InMemory DEF Moving, HistoryOk
  <2> QED
    BY <1>3, <1>5, <2>1 DEF LookSound, Records, Newest, Moving, HistoryOk, Buffered, Id
<1>7. \/ entries' = entries \/ entries' = <<>>
      \/ /\ EmitRecord /\ entries' = Append(entries, Newest + 1) /\ disk' = disk
         /\ Handler /\ ids'[Newest + 1] = next
  <2>1. CASE EmitRecord
    <3>1. ids' = Append(ids, next) /\ (Handler \/ sender = "idle")
      BY <2>1, EmitAppends DEF Moving
    <3>2. ids'[Newest + 1] = next
      BY <1>5, <3>1, OwedGrows
    <3> QED
      BY <1>3, <2>1, <3>1, <3>2, EmitAppends DEF Moving
  <2> QED
    BY <2>1 DEF ClientRests, StoreQuiet
<1>8. /\ Range(entries') \subseteq Range(entries) \cup {Newest + 1}
      /\ entries' # <<>> => entries'[1] = Newest + 1 \/ (entries # <<>> /\ entries'[1] = entries[1])
      /\ \A e \in Range(entries') : bound <= ids'[e]
  <2>1. CASE entries' = entries
    BY <1>6, <2>1
  <2>2. CASE entries' = <<>>
    <3>1. Range(entries') = {}
      BY <2>2, EmptyRange
    <3> QED
      BY <2>2, <3>1
  <2>3. CASE entries' = Append(entries, Newest + 1) /\ ids'[Newest + 1] = next
    <3>1. /\ Range(entries') = Range(entries) \cup {Newest + 1}
          /\ Len(entries) \in Nat
          /\ \A i \in 1..Len(entries) : entries'[i] = entries[i]
          /\ entries'[Len(entries) + 1] = Newest + 1
      BY <1>6, <2>3, Appended, SeqOfRange
    <3>2. entries'[1] = Newest + 1 \/ (entries # <<>> /\ entries'[1] = entries[1])
      <4>1. CASE Len(entries) = 0
        BY <3>1, <4>1
      <4>2. CASE Len(entries) # 0
        BY <3>1, <4>2, EmptySeq
      <4> QED
        BY <4>1, <4>2
    <3> QED
      BY <1>4, <1>6, <2>3, <3>1, <3>2
  <2> QED
    BY <1>7, <2>1, <2>2, <2>3
<1>9. copy # <<>> /\ entries' # <<>> => copy[1] <= entries'[1]
  <2>1. SUFFICES ASSUME copy # <<>>, entries' # <<>> PROVE copy[1] <= entries'[1]
    OBVIOUS
  <2>2. copy[1] \in 1..Newest
    BY <1>4, <1>6, <2>1
  <2>3. entries # <<>> => copy[1] <= entries[1]
    BY <1>3, <2>1 DEF LookSound
  <2> QED
    BY <1>6, <1>8, <2>1, <2>2, <2>3
<1>10. bound = 0 => entries' = <<>> \/ (Handler' /\ Range(entries') \cap disk' = {})
  <2>1. SUFFICES ASSUME bound = 0, entries' # <<>> PROVE Handler /\ Range(entries') \cap disk' = {}
    BY DEF ClientRests, Handler
  <2>2. entries = <<>> \/ (Handler /\ Range(entries) \cap disk = {})
    BY <1>3, <2>1 DEF LookSound
  <2>3. Range(entries) \cap disk = {} /\ disk \subseteq Records
    <3>1. entries = <<>> => Range(entries) = {}
      BY EmptyRange
    <3> QED
      BY <2>2, <3>1 DEF Moving, HistoryOk, Remembered
  <2>4. CASE EmitRecord /\ entries' = Append(entries, Newest + 1) /\ disk' = disk /\ Handler
    BY <1>6, <1>8, <2>3, <2>4
  <2>5. CASE entries' = entries
    <3>1. Handler
      BY <2>1, <2>2, <2>5
    <3>2. submitted = {}
      BY <1>3, <2>1, <3>1 DEF LookSound
    <3>3. CASE EmitRecord
      <4>1. entries \in Seq(Nat) /\ Len(entries) \in Nat
            /\ (entries' = Append(entries, Newest + 1) => Len(entries') = Len(entries) + 1)
        BY <1>6, LenProperties, AppendProperties
      <4>2. FALSE
        BY <2>1, <2>5, <3>3, <4>1, EmitAppends DEF Moving
      <4> QED
        BY <4>2
    <3>4. CASE StoreQuiet
      BY <2>1, <2>3, <2>5, <3>1, <3>2, <3>4 DEF StoreQuiet
    <3> QED
      BY <3>3, <3>4 DEF ClientRests
  <2> QED
    BY <1>7, <2>1, <2>4, <2>5
<1>14. bound = 0 /\ Handler => submitted' = {}
  <2>1. SUFFICES ASSUME bound = 0, Handler PROVE submitted' = {}
    OBVIOUS
  <2>2. submitted = {} /\ ~emergency
    BY <1>3, <2>1 DEF LookSound, Phases
  <2> QED
    BY <2>2, EmitAppends DEF ClientRests, StoreQuiet, Moving
<1>11. ASSUME Live', NEW r \in Owed'
       PROVE  \/ r \in Range(copy)
              \/ bound # 0 /\ ids'[r] < bound
              \/ bound = 0 /\ r \notin Range(entries')
              \/ ~Behind(r)'
  <2>1. CASE r \notin Owed
    BY <2>1, NewIsAhead
  <2>2. CASE r \in Owed
    <3>1. /\ r \in Records /\ ids'[r] = Id(r) /\ (Behind(r)' => Behind(r))
          /\ r # Newest + 1
      BY <1>6, <2>2, BehindWas
    <3>2. r \in Range(entries') => r \in Range(entries)
      BY <1>8, <3>1
    <3>3. Live
      BY <1>11 DEF ClientRests
    <3> QED
      BY <1>3, <2>2, <3>1, <3>2, <3>3 DEF LookSound
  <2> QED
    BY <2>1, <2>2
<1>12. ASSUME Live', NEW r \in Owed'
       PROVE  last < ids'[r] \/ OnItsWay(r)'
  <2>1. CASE r \notin Owed
    BY <1>4, <2>1, NewIsBeyond
  <2>2. CASE r \in Owed
    <3>1. ids'[r] = Id(r) /\ Live
      BY <1>12, <2>2, BehindWas DEF ClientRests, Live
    <3>2. last < Id(r) \/ OnItsWay(r)
      BY <1>3, <2>2, <3>1 DEF LookSound
    <3> QED
      BY <1>12, <3>1, <3>2 DEF ClientRests
  <2> QED
    BY <2>1, <2>2
<1>13. LookSound(last, bound, copy)'
  <2>1. Handler' = Handler
    BY DEF ClientRests, Handler
  <2> QED
    BY <1>4, <1>5, <1>8, <1>9, <1>10, <1>11, <1>12, <1>14, <2>1 DEF LookSound, Id
<1> QED
  BY <1>2, <1>13 DEF ClientRests, LookSound

LEMMA ClientStays ==
  ASSUME ClientInv, Moving, StoreInv, ClientRests, registry \in Nat, registry' \in Nat
  PROVE  ClientInv'
BY TypesRest, PhasesRest, LookRest, OutboxRest, BehindRest DEF ClientInv

-----------------------------------------------------------------------------
(* Which steps leave the client alone. *)

LEMMA WayStays ==
  ASSUME UNCHANGED <<queue, wire>>, conn' = conn, NEW r, OnItsWay(r)
  PROVE  OnItsWay(r)'
BY DEF OnItsWay, InTransit, Dispatched, Rec

LEMMA RestWithoutServer ==
  ASSUME UNCHANGED <<kind, opened, sender, lastSent, look, replaying, outbox, seed, conn, broken>>,
         UNCHANGED serverVars, StoreQuiet \/ EmitRecord, registry \in Nat
  PROVE  ClientRests
BY WayStays DEF ClientRests, serverVars, writerVars, Live

LEMMA StoreStepsRest ==
  ASSUME StoreSteps, registry \in Nat, Recorded => Handler
  PROVE  ClientRests
<1>1. UNCHANGED <<kind, opened, sender, lastSent, look, replaying, outbox, seed, conn, broken>>
      /\ UNCHANGED serverVars
  BY DEF StoreSteps, EmitRecord, Recorded, StoreStep, clientVars
<1>2. CASE EmitRecord
  BY <1>1, <1>2, RestWithoutServer
<1>3. CASE ~EmitRecord
  <2>1. UNCHANGED <<ids, next>>
    BY <1>3
       DEF StoreSteps, Recorded, Persist, Put, WorkerTakes, Commit, LoopCommits,
           EmergencyWrites, ArmHistory, ArmCheckpoint
  <2>2. Handler \/ emit' = emit \/ (emit # "idle" /\ emit' # "idle")
    BY <1>3
       DEF StoreSteps, Recorded, Persist, Put, WorkerTakes, Commit, LoopCommits,
           EmergencyWrites, ArmHistory, ArmCheckpoint
  <2>3. entries' = entries /\ disk' \subseteq disk \cup submitted /\ submitted' \subseteq submitted
    BY <1>3
       DEF StoreSteps, Recorded, Persist, Put, WorkerTakes, Commit, LoopCommits,
           EmergencyWrites, ArmHistory, ArmCheckpoint, historyVars
  <2>4. emergency' = emergency
    BY <1>3
       DEF StoreSteps, Recorded, Persist, Put, WorkerTakes, Commit, LoopCommits,
           EmergencyWrites, ArmHistory, ArmCheckpoint
  <2> QED
    BY <1>1, <2>1, <2>2, <2>3, <2>4, RestWithoutServer DEF StoreQuiet
<1> QED
  BY <1>2, <1>3

LEMMA RaisedRests ==
  ASSUME RecordRaised, Handler, registry \in Nat
  PROVE  ClientRests
<1>1. /\ UNCHANGED <<kind, opened, sender, lastSent, look, replaying, outbox, seed, conn, broken>>
      /\ UNCHANGED serverVars
  BY DEF RecordRaised, clientVars
<1>2. StoreQuiet
  BY DEF RecordRaised, StoreQuiet, historyVars
<1> QED
  BY <1>1, <1>2, RestWithoutServer

LEMMA CloserRests ==
  ASSUME CloseFlush \/ CloseCheckpoint \/ EnterEmergency \/ UNCHANGED vars, registry \in Nat
  PROVE  ClientRests
<1>1. UNCHANGED <<kind, opened, sender, lastSent, look, replaying, outbox, seed, conn, broken>>
      /\ UNCHANGED serverVars
  BY DEF CloseFlush, CloseCheckpoint, EnterEmergency, vars, clientVars
<1>2. UNCHANGED <<ids, next, emit, submitted>> /\ (entries' = <<>> \/ UNCHANGED <<entries, disk>>)
  BY DEF CloseFlush, Flush, Spill, CloseCheckpoint, SendStop, CloseLoop, EnterEmergency, vars,
         storeVars, historyVars
<1>3. emergency' = emergency \/ (sender = "idle" /\ conn = 0)
  BY DEF CloseFlush, Flush, CloseCheckpoint, SendStop, CloseLoop, EnterEmergency, vars, storeVars
<1> QED
  BY <1>1, <1>2, <1>3, RestWithoutServer DEF StoreQuiet

LEMMA CloseRestRests ==
  ASSUME CloseRest, registry \in Nat
  PROVE  ClientRests
<1>1. /\ UNCHANGED <<kind, opened, sender, lastSent, look, replaying, outbox, seed, queue, registry>>
      /\ StoreQuiet
  BY DEF CloseRest, EndEmergency, StoreQuiet, writerVars, historyVars
<1>2. \/ conn' = 0 /\ broken \subseteq broken'
      \/ UNCHANGED <<conn, broken, wire>>
  BY DEF CloseRest, Drop
<1> QED
  BY <1>1, <1>2, WayStays DEF ClientRests, Live

LEMMA BreakRests ==
  ASSUME NEW c \in Conns, Break(c), registry \in Nat
  PROVE  ClientRests
<1>1. /\ UNCHANGED <<kind, opened, sender, lastSent, look, replaying, outbox, seed, conn>>
      /\ UNCHANGED storeVars /\ broken' = broken \cup {conn}
  BY DEF Break
<1>2. StoreQuiet
  BY <1>1 DEF StoreQuiet, storeVars, historyVars
<1>3. ~Live'
  BY <1>1 DEF Live
<1> QED
  BY <1>1, <1>2, <1>3 DEF ClientRests

\* What is left of a wire.
LEMMA TailKeeps ==
  ASSUME NEW w, w \in Seq(Range(w)), w # <<>>, NEW e \in Range(w), e # w[1]
  PROVE  e \in Range(Tail(w))
<1> DEFINE t == Tail(w)
<1>1. /\ t \in Seq(Range(t)) /\ Len(w) \in Nat \ {0} /\ Len(t) = Len(w) - 1
      /\ \A i \in 1..Len(t) : t[i] = w[i + 1]
  BY Taken
<1> HIDE DEF t
<1>2. PICK i \in 1..Len(w) : w[i] = e
  BY InRange
<1>3. i - 1 \in 1..Len(t) /\ t[i - 1] = e
  BY <1>1, <1>2
<1>4. e \in Range(t)
  BY <1>1, <1>3, InRange
<1> QED
  BY <1>4 DEF t

\* The reader took an item, which the queue has if it is a record.
LEMMA WayAfterReading ==
  ASSUME ServerOrder, NEW c \in Conns, Consume(c), wire[c] # <<>>, conn \in Conns, conn' = conn,
         NEW r \in Owed', OnItsWay(r), InTransit(r) => InTransit(r)',
         wire[c][1] = Rec(r) => InTransit(r)'
  PROVE  OnItsWay(r)'
<1>1. SUFFICES ASSUME ~InTransit(r)' PROVE Rec(r) \in Range(wire'[conn])
  BY DEF OnItsWay, Rec
<1>2. Rec(r) \in Range(wire[conn]) /\ wire[c][1] # Rec(r)
  BY <1>1 DEF OnItsWay
<1>3. \A d \in Conns : wire'[d] = IF d = c THEN Tail(wire[d]) ELSE wire[d]
  BY DEF Consume, ServerOrder, WiresInOrder
<1>4. CASE conn # c
  BY <1>2, <1>3, <1>4
<1>5. CASE conn = c
  <2>1. wire[c] \in Seq(Range(wire[c]))
    BY DEF ServerOrder, WiresInOrder, SoundWire
  <2>2. Rec(r) \in Range(Tail(wire[c]))
    BY <1>2, <1>5, <2>1, TailKeeps
  <2> QED
    BY <1>3, <1>5, <2>2
<1> QED
  BY <1>4, <1>5

LEMMA ServerRests ==
  ASSUME UNCHANGED <<kind, opened, sender, lastSent, look, replaying, outbox, seed, conn>>,
         UNCHANGED storeVars,
         Live' => Live /\ registry <= registry' /\ \A r \in Owed' : OnItsWay(r) => OnItsWay(r)'
  PROVE  ClientRests
BY DEF ClientRests, StoreQuiet, storeVars, historyVars

LEMMA ReadByRests ==
  ASSUME ServerOrder, ServerInv, ClientTypes, Moving, NEW c \in Conns, ReadBy(c),
         UNCHANGED storeVars
  PROVE  ClientRests
<1>1. /\ UNCHANGED <<kind, opened, sender, lastSent, look, replaying, outbox, seed, conn>>
      /\ broken \subseteq broken' /\ registry' = registry /\ registry \in Nat
  BY DEF ReadBy, clientVars, Handshake, NoHandshake, Enrol, AckFails, Ingest, HangUp, writerVars,
         ServerOrder, RegistryOk
<1>2. Live' => conn \in Conns
  BY <1>1, ConnsAssumption DEF Live, ClientTypes, Conns
<1>3. ASSUME Live', NEW r \in Owed', OnItsWay(r) PROVE OnItsWay(r)'
  <2>1. ASSUME NEW item \in {Hello, Eof}, Received(c, item), Consume(c), queue' = queue
        PROVE  OnItsWay(r)'
    <3>1. wire[c] # <<>> /\ wire[c][1] # Rec(r)
      <4>1. wire[c] # <<>> /\ Head(wire[c]) = item /\ wire[c] \in Seq(Range(wire[c]))
        BY <2>1 DEF Received, ServerOrder, WiresInOrder, SoundWire
      <4>2. wire[c][1] = item
        BY <4>1, Taken
      <4> QED
        BY <4>1, <4>2, ItemsDiffer
    <3>2. InTransit(r) => InTransit(r)'
      BY <2>1 DEF InTransit, Dispatched
    <3> QED
      BY <1>1, <1>2, <1>3, <2>1, <3>1, <3>2, WayAfterReading
  <2>2. CASE \E valid \in BOOLEAN : Handshake(c, valid)
    BY <2>1, <2>2 DEF Handshake, writerVars
  <2>3. CASE NoHandshake(c)
    BY <2>1, <2>3 DEF NoHandshake, writerVars
  <2>4. CASE Enrol(c) \/ AckFails(c)
    <3>1. wire' = wire /\ (queue' = queue \/ queue' = Append(queue, RegisterClient(c)))
      BY <2>4 DEF Enrol, AckFails, writerVars
    <3>2. CASE queue' = queue
      BY <1>1, <1>3, <3>1, <3>2, WayStays
    <3>3. CASE queue' = Append(queue, RegisterClient(c))
      <4>1. Range(queue') = Range(queue) \cup {RegisterClient(c)}
        BY <3>3, Appended DEF ServerInv, QueueOk
      <4> QED
        BY <1>1, <1>3, <3>1, <4>1 DEF OnItsWay, InTransit, Dispatched, Rec
    <3> QED
      BY <3>1, <3>2, <3>3
  <2>5. CASE Ingest(c) /\ UNCHANGED <<clientVars, faults>>
    <3>1. /\ wire[c] # <<>> /\ wire[c] \in Seq(Range(wire[c])) /\ Consume(c)
          /\ queue' = Append(queue, Dispatched(Head(wire[c])[2]))
      BY <2>5 DEF Ingest, ServerOrder, WiresInOrder, SoundWire
    <3>2. Head(wire[c]) = wire[c][1]
      BY <3>1, Taken
    <3>3. Range(queue') = Range(queue) \cup {Dispatched(wire[c][1][2])}
      BY <3>1, <3>2, Appended DEF ServerInv, QueueOk
    <3>4. InTransit(r) => InTransit(r)'
      BY <3>3 DEF InTransit, Dispatched
    <3>5. wire[c][1] = Rec(r) => InTransit(r)'
      BY <3>3, ItemsDiffer DEF InTransit, Dispatched
    <3> QED
      BY <1>1, <1>2, <1>3, <3>1, <3>4, <3>5, WayAfterReading
  <2>6. CASE HangUp(c) /\ broken' = broken \cup {c}
    <3>1. conn # c
      BY <1>1, <1>3, <2>6 DEF Live
    <3>2. wire'[conn] = wire[conn]
      BY <1>2, <1>3, <2>6, <3>1 DEF HangUp, ServerOrder, WiresInOrder
    <3>3. Range(queue) \subseteq Range(queue')
      BY <2>6, Appended DEF HangUp, ServerInv, QueueOk
    <3> QED
      BY <1>1, <1>3, <3>2, <3>3 DEF OnItsWay, InTransit, Dispatched, Rec
  <2> QED
    BY <2>2, <2>3, <2>4, <2>5, <2>6 DEF ReadBy
<1>4. Live' => Live
  BY <1>1 DEF Live
<1> QED
  BY <1>1, <1>3, <1>4, ServerRests

\* The writer.
LEMMA WriterRests ==
  ASSUME UNCHANGED storeVars, UNCHANGED clientVars, wire' = wire, StaysInTransit,
         registry <= registry'
  PROVE  ClientRests
<1>1. \A r \in Owed' : OnItsWay(r) => OnItsWay(r)'
  BY DEF StaysInTransit, OnItsWay, clientVars, Rec
<1> QED
  BY <1>1, ServerRests DEF clientVars, Live

\* After the server went no connection is left to be right about.
LEMMA GoneKeepsClient ==
  ASSUME ClientInv, ServerGoes
  PROVE  ClientInv'
<1>1. /\ UNCHANGED <<kind, conn, opened, sender, lastSent, look, replaying, outbox, seed>>
      /\ UNCHANGED <<ids, first, next, entries, disk, emit, emergency, submitted>>
      /\ Handler' = Handler /\ broken' = 1..opened
  BY DEF ServerGoes, storeVars, historyVars, Handler
<1>2. ~Live'
  BY <1>1, ConnsAssumption DEF Live, ClientInv, ClientTypes
<1>3. ClientTypes' /\ Phases'
  BY <1>1, <1>2 DEF ClientInv, ClientTypes, Phases, Finding, Sending, Reached, Records, Id
<1>4. LookOk'
  BY <1>1, <1>2 DEF ClientInv, LookOk, LookSound, Finding, Reached, Records, Id
<1> QED
  BY <1>2, <1>3, <1>4 DEF ClientInv, OutboxInOrder, BehindIsSent

-----------------------------------------------------------------------------
(* The client's own steps. *)

\* Without a connection only the phases are left.
LEMMA Disconnected ==
  ASSUME ClientTypes, ids' = ids, conn' = 0, sender' = "idle" \/ sender' = "ended", ~replaying',
         outbox' = {}, lastSent' \in Nat, seed' \in Nat, Reached(lastSent'), Reached(seed'),
         opened' = opened
  PROVE  ClientInv'
<1>1. ClientTypes'
  BY ConnsAssumption DEF ClientTypes, Reached, Records, Id
<1>2. ~Live' /\ ~Finding' /\ ~Sending'
  BY DEF Live, Finding, Sending
<1> QED
  BY <1>1, <1>2 DEF ClientInv, Phases, LookOk, OutboxInOrder, BehindIsSent, Finding, Sending, Live

LEMMA SeededReached ==
  ASSUME ClientTypes
  PROVE  Seeded \in Nat /\ Reached(Seeded)
BY DEF Seeded, ClientTypes

LEMMA DisconnectKeepsClient ==
  ASSUME ClientInv, Moving, ids' = ids,
         \/ Rejected \/ SendFails \/ EndSender \/ EncodeRaises \/ (RecordRaised /\ ~Handler)
         \/ \E crash \in BOOLEAN : Restart(crash)
  PROVE  ClientInv'
<1> USE DEF ClientInv
<1>1. Reached(0) /\ lastSent \in Nat /\ seed \in Nat /\ Reached(lastSent) /\ Reached(seed)
  BY DEF Reached, ClientTypes
<1>2. CASE Rejected
  <2>1. /\ conn' = 0 /\ UNCHANGED <<replaying, outbox, lastSent, seed, opened>>
        /\ sender' = "idle" \/ sender' = "ended"
    BY <1>2 DEF Rejected, Drop
  <2>2. ~replaying /\ outbox = {}
    BY <1>2 DEF Rejected, Phases, Sending
  <2> QED
    BY <1>1, <2>1, <2>2, Disconnected
<1>3. CASE SendFails
  <2>1. /\ conn' = 0 /\ sender' = "idle" /\ ~replaying' /\ outbox' = {} /\ opened' = opened
        /\ lastSent' = Seeded /\ seed' = 0
    BY <1>3 DEF SendFails
  <2> QED
    BY <1>1, <2>1, SeededReached, Disconnected
<1>4. CASE EndSender
  <2>1. /\ conn' = 0 /\ UNCHANGED <<replaying, outbox, lastSent, seed, opened>>
        /\ sender' = "ended" /\ sender = "idle"
    BY <1>4 DEF EndSender, HangUpIfOpen, Drop
  <2>2. ~replaying /\ outbox = {}
    BY <2>1 DEF Phases, Sending
  <2> QED
    BY <1>1, <2>1, <2>2, Disconnected
<1>5. ASSUME NEW crash \in BOOLEAN, Restart(crash) PROVE ClientInv'
  <2>1. /\ conn' = 0 /\ sender' = "idle" /\ ~replaying' /\ outbox' = {} /\ opened' = opened
        /\ lastSent' = 0 /\ seed' = 0
    BY <1>5 DEF Restart, HangUpIfOpen, Drop
  <2> QED
    BY <1>1, <2>1, Disconnected
<1>6. CASE EncodeRaises \/ (RecordRaised /\ ~Handler)
  <2>1. /\ conn' = 0 /\ sender' = "ended" /\ ~replaying' /\ outbox' = {}
        /\ UNCHANGED <<lastSent, seed, opened>>
    BY <1>6 DEF EncodeRaises, RecordRaised, DrainerEnds, HangUpIfOpen, Drop
  <2> QED
    BY <1>1, <2>1, Disconnected
<1> QED
  BY <1>2, <1>3, <1>4, <1>5, <1>6

LEMMA ConnectKeepsClient ==
  ASSUME ClientInv, Moving, Connect
  PROVE  ClientInv'
<1> USE DEF ClientInv
<1>1. /\ sender = "idle" /\ sender' = "ack" /\ opened' = opened + 1 /\ conn' = opened + 1
      /\ opened < MaxConns /\ (Handler \/ emit = "idle")
      /\ UNCHANGED <<kind, replaying, outbox, lastSent, seed, look>> /\ UNCHANGED storeVars
  BY DEF Connect
<1>2. ids' = ids /\ emit' = emit
  BY <1>1 DEF storeVars
<1>3. ClientTypes'
  BY <1>1, <1>2, ConnsAssumption DEF ClientTypes, Reached, Records, Id
<1>4. Phases'
  BY <1>1, <1>2 DEF Phases, Finding, Sending, Handler
<1> QED
  BY <1>1, <1>3, <1>4 DEF LookOk, OutboxInOrder, BehindIsSent, Finding, Sending

\* A record taken off the queue is sent at once.
LEMMA RecordedKeepsClient ==
  ASSUME ClientInv, Moving, StoreInv, Recorded, ~Handler
  PROVE  ClientInv'
<1> USE DEF ClientInv
<1>1. /\ emit = "recorded" /\ emit' = "idle"
      /\ UNCHANGED <<ids, next, kind, conn, opened, broken, lastSent, look, replaying, seed,
                     queue, wire, registry>>
      /\ IF conn # 0 THEN outbox' = {Newest} /\ sender' = "send"
                     ELSE UNCHANGED <<outbox, sender>>
  BY DEF Recorded, serverVars, writerVars
<1>2. sender \in {"idle", "ended"} /\ ~replaying /\ (conn # 0 => sender = "idle")
  BY <1>1 DEF Phases, ClientTypes
<1>3. Newest \in Records /\ Id(Newest) = LastId
  BY <1>1, InMemory DEF Moving, HistoryOk, IdsReached, Records, Newest
<1>4. ClientTypes'
  BY <1>1, <1>3 DEF ClientTypes, Reached, Records, Id
<1>5. Phases'
  BY <1>1, <1>2 DEF Phases, Finding, Sending, Handler, Live
<1>6. ASSUME Live', NEW r \in Owed', Id(r) <= LastId, r # Newest PROVE OnItsWay(r)'
  <2>1. r \in Owed /\ Live
    BY <1>1, <1>6, OwedShrinks DEF Live
  <2>2. Behind(r) /\ sender = "idle"
    BY <1>2, <1>6, <2>1 DEF Behind, Live
  <2>3. OnItsWay(r)
    BY <2>1, <2>2 DEF BehindIsSent, Finding, Phases, Sending
  <2> QED
    BY <1>1, <2>3, WayStays
<1>7. OutboxInOrder'
  <2>1. SUFFICES ASSUME Live', NEW s \in outbox', NEW r \in Owed', ids'[r] < ids'[s]
                 PROVE  OnItsWay(r)'
    BY DEF OutboxInOrder, Id
  <2>2. s = Newest
    BY <1>1, <2>1 DEF Live
  <2>3. Id(r) \in Nat /\ Id(r) < LastId /\ LastId \in Nat
    BY <1>1, <1>3, <2>1, <2>2, OwedShrinks DEF Id, StoreInv, StoreTypes, LastId
  <2>4. r # Newest
    BY <1>3, <2>3
  <2> QED
    BY <1>6, <2>1, <2>3, <2>4
<1>8. BehindIsSent'
  <2>1. SUFFICES ASSUME Live', NEW r \in Owed', Behind(r)' PROVE OnItsWay(r)' \/ r \in outbox'
    BY DEF BehindIsSent
  <2>2. Id(r) <= LastId
    BY <1>1, <2>1 DEF Behind, Handler, Id, LastId
  <2>3. CASE r = Newest
    BY <1>1, <2>1, <2>3 DEF Live
  <2>4. CASE r # Newest
    BY <1>6, <2>1, <2>2, <2>4
  <2> QED
    BY <2>3, <2>4
<1>9. ~Finding'
  BY <1>1, <1>2 DEF Finding
<1> QED
  BY <1>4, <1>5, <1>7, <1>8, <1>9 DEF LookOk

\* The answer is passed by: nothing that it could have told is owed.
LEMMA MissAckKeepsClient ==
  ASSUME ClientInv, Moving, StoreInv, MissAck
  PROVE  ClientInv'
<1> USE DEF ClientInv
<1>1. /\ sender = "ack" /\ sender' = "idle"
      /\ lastSent' = IF Handler THEN LastPassed ELSE lastSent
      /\ blind' = blind \cup {r \in Records : Id(r) <= LastPassed}
      /\ UNCHANGED <<kind, conn, opened, broken, look, replaying, outbox, seed, wire, queue, registry>>
      /\ IF Handler THEN EndEmergency ELSE UNCHANGED storeVars
  BY DEF MissAck, serverVars, writerVars
<1>2. UNCHANGED <<ids, first, next, emit>>
  BY <1>1 DEF EndEmergency, storeVars
<1>3. ~replaying /\ outbox = {}
  BY <1>1 DEF Phases, Sending
<1>4. Handler => LastPassed \in Nat /\ Reached(LastPassed)
  BY DEF LastPassed, StoreInv, StoreTypes, Moving, HistoryOk, IdsReached, ClientTypes
<1>5. ClientTypes'
  <2>1. lastSent' \in Nat /\ Reached(lastSent)'
    BY <1>1, <1>2, <1>4 DEF ClientTypes, Reached, Records, Id
  <2> QED
    BY <1>1, <1>2, <2>1 DEF ClientTypes, Reached, Records, Id
<1>6. Phases'
  BY <1>1, <1>2, <1>3 DEF Phases, EndEmergency, Finding, Sending, Handler
<1>7. ASSUME NEW r \in Owed' PROVE ~Behind(r)'
  <2>1. r \in Records /\ ~(Id(r) <= LastPassed)
    BY <1>1, <1>2, OwedShrinks DEF Owed, Covered
  <2>2. CASE Handler
    BY <1>1, <1>2, <2>1, <2>2 DEF Behind, Handler, Id
  <2>3. CASE ~Handler
    BY <1>1, <1>2, <2>1, <2>3 DEF Behind, Handler, Id, LastPassed, LastId
  <2> QED
    BY <2>2, <2>3
<1> QED
  BY <1>1, <1>5, <1>6, <1>7 DEF LookOk, OutboxInOrder, BehindIsSent, Finding, Sending

-----------------------------------------------------------------------------
(* Lookups. *)

\* Every owed record after an id that memory can answer for is in the answer.
LEMMA MemoryHasTheRest ==
  ASSUME HistoryOk, NEW last \in Nat, MemoryAnswers(last), NEW r \in Owed, last < Id(r)
  PROVE  r \in After(last, Range(entries))
<1>1. entries # <<>> /\ Id(entries[1]) <= last + 1 /\ entries[1] \in Records
  BY InMemory DEF MemoryAnswers, HistoryOk
<1>2. Id(entries[1]) \in Nat /\ Id(r) \in Nat
  BY <1>1, OwedOrder DEF HistoryOk, IdsReached
<1>3. Id(entries[1]) <= Id(r)
  BY <1>1, <1>2
<1> QED
  BY <1>1, <1>3, OwedInMemory DEF After

\* What the bound says of memory, and of what is owed.
LEMMA BoundOk ==
  ASSUME HistoryOk, StoreInv
  PROVE  /\ Bound \in Nat /\ Bound <= next
         /\ entries # <<>> => Bound = Id(entries[1]) /\ Bound > 0
         /\ \A e \in Range(entries) : Bound <= Id(e)
         /\ Bound = 0 => entries = <<>> /\ ~(first < next)
         /\ \A r \in Owed : r \in Range(entries) \/ Below(r, Bound)
<1>1. next \in Nat /\ first \in Nat /\ LastId \in Nat /\ LastId + 1 = next /\ first <= next
  BY DEF StoreInv, StoreTypes, LastId
<1>2. CASE entries # <<>>
  <2>1. /\ Bound = Id(entries[1]) /\ entries[1] \in Range(entries) /\ Range(entries) \subseteq Records
        /\ Newest \in Nat /\ Range(entries) = (Newest - Len(entries) + 1)..Newest
        /\ Len(entries) \in Nat /\ entries[1] = Newest - Len(entries) + 1
    BY <1>2, InMemory DEF Bound, HistoryOk
  <2>2. \A e \in Range(entries) : Id(e) = LastId - (Newest - e)
    BY <1>1, IdsInMemory DEF HistoryOk
  <2>3. \A e \in Range(entries) : Id(e) \in Nat \ {0}
    BY <2>1, LenProperties, ElementOfSeq DEF HistoryOk, IdsReached, Records, Id
  <2>4. \A e \in Range(entries) : Bound <= Id(e)
    <3>1. SUFFICES ASSUME NEW e \in Range(entries) PROVE Bound <= Id(e)
      OBVIOUS
    <3>2. Id(e) = LastId - (Newest - e) /\ Bound = LastId - (Newest - entries[1])
      BY <2>1, <2>2
    <3>3. entries[1] <= e /\ e \in Nat /\ entries[1] \in Nat
      BY <2>1 DEF Records, Newest
    <3> QED
      BY <1>1, <2>1, <3>2, <3>3
  <2>5. Bound \in Nat \ {0} /\ Bound <= next
    <3>1. Bound = LastId - (Newest - entries[1]) /\ entries[1] <= Newest /\ entries[1] \in Nat
      BY <2>1, <2>2 DEF Records, Newest
    <3>2. Bound \in Nat \ {0}
      BY <2>1, <2>3
    <3> QED
      BY <1>1, <2>1, <3>1, <3>2
  <2>6. ASSUME NEW r \in Owed, r \notin Range(entries) PROVE Id(r) < Bound
    <3>1. Id(r) \in Nat /\ ~(Id(entries[1]) <= Id(r))
      BY <1>2, <2>1, <2>6, OwedInMemory, OwedOrder DEF HistoryOk, IdsReached
    <3> QED
      BY <2>1, <2>5, <3>1
  <2> QED
    BY <1>2, <2>1, <2>4, <2>5, <2>6 DEF Below
<1>3. CASE entries = <<>>
  <2>1. Range(entries) = {}
    BY <1>3, EmptyRange
  <2>2. CASE next > first
    <3>1. Bound = next
      BY <1>1, <1>3, <2>2 DEF Bound
    <3>2. \A r \in Owed : Id(r) < Bound
      <4>1. SUFFICES ASSUME NEW r \in Owed PROVE Id(r) < Bound
        OBVIOUS
      <4>2. Id(r) <= LastId /\ Id(r) \in Nat
        <5>1. Id(r) <= LastId
          BY <1>1, <2>2, OwedAssigned
        <5>2. Id(r) \in Nat
          BY LenProperties, ElementOfSeq DEF HistoryOk, IdsReached, Owed, Records, Id
        <5> QED
          BY <5>1, <5>2
      <4> QED
        BY <1>1, <3>1, <4>2
    <3> QED
      BY <1>1, <1>3, <2>1, <2>2, <3>1, <3>2 DEF Below
  <2>3. CASE ~(next > first)
    <3>1. Bound = 0
      BY <1>3, <2>3 DEF Bound
    <3> QED
      BY <1>1, <1>3, <2>1, <2>3, <3>1 DEF Below
  <2> QED
    BY <2>2, <2>3
<1> QED
  BY <1>2, <1>3

LEMMA LookStarts ==
  ASSUME Moving, StoreInv, UNCHANGED <<ids, next, entries, submitted, kind>>,
         NEW last \in Nat, Reached(last), NEW bound, bound = Bound, NEW copy, copy = entries,
         Live' => \A r \in Owed' : last < Id(r) \/ OnItsWay(r)'
  PROVE  LookSound(last, bound, copy)'
<1>1. /\ bound \in Nat /\ bound <= next'
      /\ entries # <<>> => bound = Id(entries[1])
      /\ \A e \in Range(entries) : bound <= Id(e)
      /\ bound = 0 => entries = <<>> /\ submitted = {}
      /\ \A r \in Owed : r \in Range(entries) \/ Below(r, bound)
  <2>1. bound = 0 => submitted = {}
    BY BoundOk DEF Moving, HistoryOk, Remembered
  <2> QED
    BY <2>1, BoundOk DEF Moving
<1>2. /\ copy \in Seq(Nat) /\ Range(copy) \subseteq Records /\ Len(copy) \in Nat
      /\ copy # <<>> => entries[1] \in Nat
  <2>1. /\ entries \in Seq(Nat) /\ Range(entries) \subseteq Records /\ Len(entries) \in Nat
        /\ entries # <<>> => entries[1] \in Records
    BY InMemory DEF Moving, HistoryOk, Buffered
  <2>2. Records \subseteq Nat
    BY DEF Records
  <2> QED
    BY <2>1, <2>2
<1>3. \A i \in 1..Len(copy) : copy[i] = copy[1] + (i - 1)
  <2>1. Newest \in Nat /\ \A i \in 1..Len(entries) : entries[i] = Newest - Len(entries) + i
    BY InMemory DEF Moving, HistoryOk, Buffered
  <2>2. SUFFICES ASSUME NEW i \in 1..Len(entries) PROVE entries[i] = entries[1] + (i - 1)
    OBVIOUS
  <2>3. Len(entries) \in Nat /\ 1 \in 1..Len(entries)
    BY <1>2, <2>2
  <2>4. entries[i] = Newest - Len(entries) + i /\ entries[1] = Newest - Len(entries) + 1
    BY <2>1, <2>2, <2>3
  <2> QED
    BY <2>1, <2>2, <2>3, <2>4
<1>4. ASSUME NEW r \in Owed'
      PROVE  r \in Range(copy) \/ (bound # 0 /\ ids'[r] < bound) \/ (bound = 0 /\ r \notin Range(entries'))
  <2>1. r \in Owed
    BY OwedShrinks
  <2>2. r \in Range(entries) \/ (bound # 0 => Id(r) < bound)
    BY <1>1, <2>1 DEF Below
  <2> QED
    BY <2>2 DEF Id
<1>5. Reached(last)'
  BY DEF Reached, Records, Id
<1>6. Range(copy) \subseteq Records' /\ (copy # <<>> => copy[1] <= entries'[1])
  <2>1. copy # <<>> => copy[1] <= copy[1]
    BY <1>2
  <2> QED
    BY <1>2, <2>1 DEF Records
<1> QED
  BY <1>1, <1>2, <1>3, <1>4, <1>5, <1>6 DEF LookSound, Id

\* The two ways of a lookup.
LEMMA FindGoes ==
  ASSUME NEW last, Find(last)
  PROVE  \/ /\ MemoryAnswers(last) /\ sender' = "send" /\ outbox' = After(last, Range(entries))
         \/ /\ ~MemoryAnswers(last) /\ sender' = "find" /\ outbox' = {}
            /\ look' = <<last, Bound, entries>>
BY DEF Find

LEMMA FoundIsRecords ==
  ASSUME HistoryOk, NEW last
  PROVE  After(last, Range(entries)) \subseteq Records
BY InMemory DEF After, HistoryOk

\* After an ack that can be read everything owed is later than the acked id.
LEMMA ReadAckKeepsClient ==
  ASSUME ClientInv, Moving, StoreInv, RegistryOk, ReadAck
  PROVE  ClientInv'
<1> USE DEF ClientInv
<1>1. PICK acked : acked = reply[conn][2]
  OBVIOUS
<1>2. /\ sender = "ack" /\ conn # 0 /\ reply[conn] # <<>> /\ reply[conn][1]
      /\ Find(acked) /\ seed' = IF Handler /\ lastSent = 0 THEN SeedAfter(acked) ELSE 0
      /\ replaying' = TRUE
      /\ IF Handler THEN EndEmergency ELSE UNCHANGED storeVars
      /\ UNCHANGED <<kind, conn, opened, broken, lastSent, blind, wire, queue, registry>>
  BY <1>1 DEF ReadAck, Answered, ReplayFrom, serverVars, writerVars
<1>3. UNCHANGED <<ids, first, next, entries, emit, submitted>> /\ Handler' = Handler
  BY <1>2 DEF EndEmergency, storeVars, historyVars, Handler
<1>4. conn \in Conns
  BY <1>2, ConnsAssumption DEF ClientTypes, Conns
<1>5. acked \in Nat /\ Reached(acked) /\ (Live => acked <= registry) /\ registry \in Nat
  <2>1. reply[conn] \in BOOLEAN \X Nat /\ Reached(acked) /\ (conn \in broken \/ acked <= registry)
    BY <1>1, <1>2, <1>4 DEF RegistryOk
  <2> QED
    BY <1>1, <2>1 DEF Live, RegistryOk
<1>6. seed' \in Nat /\ Reached(seed') /\ seed' <= acked
  <2>1. first - 1 \in Nat /\ Reached(first - 1) /\ Reached(0)
    BY DEF StoreInv, StoreTypes, Moving, HistoryOk, IdsReached, Reached
  <2>2. SeedAfter(acked) \in {acked, first - 1} /\ SeedAfter(acked) <= acked
    <3>1. {acked, first - 1} \in SUBSET Nat /\ {acked, first - 1} # {}
      BY <1>5, <2>1
    <3>2. /\ Min({acked, first - 1}) \in {acked, first - 1}
          /\ \A y \in {acked, first - 1} : Min({acked, first - 1}) <= y
      BY <3>1, LeastPlace
    <3> QED
      BY <3>2 DEF SeedAfter
  <2>3. CASE Handler /\ lastSent = 0
    BY <1>2, <1>5, <2>1, <2>2, <2>3
  <2>4. CASE ~(Handler /\ lastSent = 0)
    BY <1>2, <1>5, <2>1, <2>4
  <2> QED
    BY <2>3, <2>4
<1>7. outbox' \subseteq Records /\ (sender' = "send" \/ (sender' = "find" /\ outbox' = {}))
  BY <1>2, FindGoes, FoundIsRecords DEF Moving
<1>8. ClientTypes'
  <2>1. Reached(seed)' /\ Reached(lastSent)'
    BY <1>2, <1>3, <1>6 DEF ClientTypes, Reached, Records, Id
  <2> QED
    BY <1>2, <1>3, <1>6, <1>7, <2>1 DEF ClientTypes, Records
<1>9. Phases'
  <2>1. Handler => ~emergency'
    BY <1>2 DEF EndEmergency
  <2>2. ~Handler => emit' = "idle"
    BY <1>2, <1>3 DEF Phases
  <2>3. Live' => seed' <= registry'
    BY <1>2, <1>5, <1>6 DEF Live
  <2> QED
    BY <1>2, <1>3, <1>7, <2>1, <2>2, <2>3 DEF Phases, Finding, Sending
<1>10. ASSUME Live', NEW r \in Owed' PROVE r \in Owed /\ acked < Id(r) /\ Id(r) \in Nat
  <2>1. r \in Owed /\ Id(r) \in Nat /\ registry < Id(r) /\ acked <= registry
    BY <1>2, <1>3, <1>5, <1>10, OwedShrinks DEF Live, RegistryOk
  <2> QED
    BY <1>5, <2>1
<1>11. CASE MemoryAnswers(acked) /\ sender' = "send" /\ outbox' = After(acked, Range(entries))
  <2>1. Live' => \A r \in Owed' : r \in outbox'
    BY <1>5, <1>10, <1>11, MemoryHasTheRest DEF Moving
  <2> QED
    BY <1>8, <1>9, <1>11, <2>1 DEF LookOk, OutboxInOrder, BehindIsSent, Finding, Sending
<1>12. CASE sender' = "find" /\ look' = <<acked, Bound, entries>>
  <2>1. PICK bound, copy : bound = Bound /\ copy = entries
    OBVIOUS
  <2>2. LookSound(acked, bound, copy)'
    BY <1>2, <1>3, <1>5, <1>10, <2>1, LookStarts
  <2>3. look'[1] = acked /\ look'[2] = bound /\ look'[3] = copy
    BY <1>12, <2>1
  <2>4. LookOk'
    BY <2>2, <2>3 DEF LookOk, LookSound
  <2> QED
    BY <1>2, <1>8, <1>9, <1>12, <2>4 DEF OutboxInOrder, BehindIsSent, Finding, Sending
<1> QED
  BY <1>2, <1>11, <1>12, FindGoes

\* A pass: what is behind is on its way, and the rest is looked up.
LEMMA PassKeepsClient ==
  ASSUME ClientInv, Moving, StoreInv, Pass
  PROVE  ClientInv'
<1> USE DEF ClientInv
<1>1. PICK last : last = lastSent
  OBVIOUS
<1>2. /\ Handler /\ sender = "idle" /\ conn # 0 /\ Find(last)
      /\ UNCHANGED storeVars
      /\ UNCHANGED <<kind, conn, opened, broken, lastSent, replaying, seed, blind, wire, queue, registry>>
  BY <1>1 DEF Pass, serverVars, writerVars
<1>3. UNCHANGED <<ids, first, next, entries, emit, emergency, submitted>> /\ Handler'
  BY <1>2 DEF storeVars, historyVars, Handler
<1>4. last \in Nat /\ Reached(last)
  BY <1>1 DEF ClientTypes
<1>5. outbox' \subseteq Records /\ (sender' = "send" \/ (sender' = "find" /\ outbox' = {}))
  BY <1>2, FindGoes, FoundIsRecords DEF Moving
<1>6. ClientTypes'
  BY <1>2, <1>3, <1>5 DEF ClientTypes, Reached, Records, Id
<1>7. Phases'
  BY <1>2, <1>3, <1>5 DEF Phases, Finding, Sending, Live
<1>8. ASSUME Live', NEW r \in Owed'
      PROVE  r \in Owed /\ Id(r) \in Nat /\ (last < Id(r) \/ OnItsWay(r)')
  <2>1. r \in Owed /\ Id(r) \in Nat /\ Live
    BY <1>2, <1>3, <1>8, OwedShrinks DEF Live
  <2>2. CASE Id(r) <= last
    <3>1. OnItsWay(r)
      BY <1>1, <1>2, <2>1, <2>2 DEF BehindIsSent, Behind, Phases, Finding, Sending
    <3> QED
      BY <1>2, <2>1, <3>1, WayStays
  <2> QED
    BY <1>4, <2>1, <2>2
<1>9. ASSUME Live', NEW r \in Owed', Behind(r)' PROVE OnItsWay(r)'
  <2>1. Id(r) <= last /\ Id(r) \in Nat
    BY <1>1, <1>2, <1>3, <1>8, <1>9 DEF Behind, Id
  <2> QED
    BY <1>4, <1>8, <1>9, <2>1
<1>10. BehindIsSent'
  BY <1>9 DEF BehindIsSent
<1>11. CASE MemoryAnswers(last) /\ sender' = "send" /\ outbox' = After(last, Range(entries))
  <2>1. Live' => \A r \in Owed' : r \in outbox' \/ OnItsWay(r)'
    BY <1>4, <1>8, <1>11, MemoryHasTheRest DEF Moving
  <2> QED
    BY <1>6, <1>7, <1>10, <1>11, <2>1 DEF LookOk, OutboxInOrder, Finding, Sending
<1>12. CASE sender' = "find" /\ look' = <<last, Bound, entries>>
  <2>1. PICK bound, copy : bound = Bound /\ copy = entries
    OBVIOUS
  <2>2. LookSound(last, bound, copy)'
    BY <1>2, <1>3, <1>4, <1>8, <2>1, LookStarts
  <2>3. look'[1] = last /\ look'[2] = bound /\ look'[3] = copy
    BY <1>12, <2>1
  <2>4. LookOk'
    BY <2>2, <2>3 DEF LookOk, LookSound
  <2> QED
    BY <1>6, <1>7, <1>10, <1>12, <2>4 DEF OutboxInOrder, Finding, Sending
<1> QED
  BY <1>2, <1>11, <1>12, FindGoes

\* Disk has every owed record below the bound, and every one that memory has not.
LEMMA OwedOnDisk ==
  ASSUME HistoryOk, NEW last, NEW bound, NEW r \in Owed, r \in disk, last < Id(r), Below(r, bound)
  PROVE  r \in OnDisk(last, bound)
<1>1. ASSUME NEW s \in disk, Id(s) = Id(r) PROVE s <= r
  <2>1. s \in Records
    BY DEF HistoryOk, Remembered
  <2>2. s = r /\ r \in Nat
    BY <1>1, <2>1, OwedOrder DEF HistoryOk, IdsReached
  <2> QED
    BY <2>2
<1> QED
  BY <1>1 DEF OnDisk

LEMMA BelowIsOnDisk ==
  ASSUME HistoryOk, NEW last, NEW bound, NEW copy, LookSound(last, bound, copy),
         NEW r \in Owed, last < Id(r), bound # 0, Id(r) < bound
  PROVE  r \in OnDisk(last, bound)
<1>1. Id(r) \in Nat /\ bound \in Nat
  BY LenProperties, ElementOfSeq DEF HistoryOk, IdsReached, Owed, Records, Id, LookSound
<1>2. r \notin Range(entries)
  <2>1. \A e \in Range(entries) : bound <= Id(e)
    BY DEF LookSound
  <2> QED
    BY <1>1, <2>1
<1>3. r \in disk
  BY <1>2, OwedSomewhere
<1> QED
  BY <1>3, OwedOnDisk DEF Below

\* So an answer that was found leaves nothing out that is owed and behind,
LEMMA AnswerHasBehind ==
  ASSUME HistoryOk, NEW last, NEW bound, NEW copy, LookSound(last, bound, copy),
         Live, NEW r \in Owed, Behind(r), last < Id(r)
  PROVE  r \in OnDisk(last, bound) \cup Range(copy)
<1>1. \/ r \in Range(copy)
      \/ bound # 0 /\ Id(r) < bound
      \/ bound = 0 /\ r \notin Range(entries)
  BY DEF LookSound
<1>2. CASE bound = 0 /\ r \notin Range(entries)
  BY <1>2, OwedSomewhere, OwedOnDisk DEF Below
<1> QED
  BY <1>1, <1>2, BelowIsOnDisk

\* and nothing that is owed before a record in it.
LEMMA AnswerInOrder ==
  ASSUME HistoryOk, NEW last, NEW bound, NEW copy, LookSound(last, bound, copy),
         NEW s \in OnDisk(last, bound) \cup Range(copy), NEW r \in Owed, last < Id(r), Id(r) < Id(s)
  PROVE  r \in OnDisk(last, bound) \cup Range(copy)
<1>1. /\ bound \in Nat /\ copy \in Seq(Nat) /\ Range(copy) \subseteq Records
      /\ \A i \in 1..Len(copy) : copy[i] = copy[1] + (i - 1)
      /\ copy # <<>> => bound = Id(copy[1])
      /\ bound = 0 => entries = <<>> \/ Range(entries) \cap disk = {}
      /\ disk \subseteq Records
  BY DEF LookSound, HistoryOk, Remembered
<1>2. s \in Records
  BY <1>1 DEF OnDisk
<1>3. /\ r \in Records /\ r \in Nat /\ s \in Nat /\ Id(r) \in Nat /\ Id(s) \in Nat /\ r < s
  BY <1>2, OwedOrder DEF HistoryOk, IdsReached
<1>4. CASE s \in Range(copy)
  <2>1. PICK k \in 1..Len(copy) : copy[k] = s
    BY <1>1, <1>4, RangeEquality
  <2>2. Len(copy) \in Nat /\ 1 \in 1..Len(copy) /\ copy # <<>>
    BY <1>1, <2>1, EmptySeq, LenProperties
  <2>3. copy[1] \in Range(copy) /\ copy[1] \in Nat /\ s = copy[1] + (k - 1)
    <3>1. copy[1] \in Range(copy)
      BY <1>1, <2>2, RangeEquality
    <3>2. copy[1] \in Nat
      BY <1>1, <2>2, ElementOfSeq
    <3> QED
      BY <1>1, <2>1, <3>1, <3>2
  <2>4. CASE r < copy[1]
    <3>1. copy[1] \in Records /\ bound = Id(copy[1])
      BY <1>1, <2>2, <2>3
    <3>2. Id(r) < bound /\ bound \in Nat
      BY <1>1, <2>4, <3>1, OwedOrder DEF HistoryOk, IdsReached
    <3> QED
      BY <1>3, <3>2, BelowIsOnDisk
  <2>5. CASE ~(r < copy[1])
    <3>1. r - copy[1] + 1 \in 1..Len(copy)
      BY <1>3, <2>1, <2>2, <2>3, <2>5
    <3>2. copy[r - copy[1] + 1] = r
      <4>1. copy[r - copy[1] + 1] = copy[1] + ((r - copy[1] + 1) - 1)
        BY <1>1, <3>1
      <4> QED
        BY <1>3, <2>3, <4>1
    <3> QED
      BY <1>1, <3>1, <3>2, RangeEquality
  <2> QED
    BY <2>4, <2>5
<1>5. CASE s \in OnDisk(last, bound)
  <2>1. s \in disk /\ (bound # 0 => Id(s) < bound)
    BY <1>5 DEF OnDisk, Below
  <2>2. CASE bound # 0
    <3>1. Id(r) < bound
      BY <1>1, <1>3, <2>1, <2>2
    <3> QED
      BY <2>2, <3>1, BelowIsOnDisk
  <2>3. CASE bound = 0
    <3>1. r \notin Range(entries)
      <4>1. SUFFICES ASSUME r \in Range(entries) PROVE FALSE
        OBVIOUS
      <4>2. entries # <<>>
        BY <4>1, EmptyRange
      <4>3. s \notin Range(entries)
        BY <1>1, <2>1, <2>3, <4>2
      <4> QED
        BY <1>2, <1>3, <4>1, <4>3, LaterInMemory
    <3> QED
      BY <2>3, <3>1, OwedSomewhere, OwedOnDisk DEF Below
  <2> QED
    BY <2>2, <2>3
<1> QED
  BY <1>4, <1>5

\* The whole history, as far as it is owed.
LEMMA EverythingIsRead ==
  ASSUME HistoryOk, StoreInv, NEW r \in Owed
  PROVE  r \in OnDisk(0, Bound) \cup Range(entries)
<1>1. 0 < Id(r)
  BY LenProperties, ElementOfSeq DEF HistoryOk, IdsReached, Owed, Records, Id
<1>2. r \in Range(entries) \/ (r \in disk /\ Below(r, Bound))
  BY BoundOk, OwedSomewhere
<1> QED
  BY <1>1, <1>2, OwedOnDisk

\* Disk completes a lookup.
LEMMA ReadDiskKeepsClient ==
  ASSUME ClientInv, Moving, StoreInv, ReadDisk
  PROVE  ClientInv'
<1> USE DEF ClientInv
<1>1. PICK last, bound, copy : last = look[1] /\ bound = look[2] /\ copy = look[3]
  OBVIOUS
<1> DEFINE found == SearchDisk(last, bound)[1]
           answer == OnDisk(last, bound) \cup Range(copy)
           all == OnDisk(0, Bound) \cup Range(entries)
<1>2. /\ sender = "find" /\ sender' = "send"
      /\ outbox' = CASE found -> answer
                     [] ~found /\ replaying -> {}
                     [] OTHER -> After(lastSent, all)
      /\ blind' = IF found \/ ~replaying THEN blind ELSE blind \cup PassedOver(last)
      /\ UNCHANGED storeVars
      /\ UNCHANGED <<kind, conn, opened, broken, lastSent, replaying, seed, wire, queue, registry>>
  BY <1>1 DEF ReadDisk, SearchDisk, serverVars, writerVars
<1> HIDE DEF found, answer, all
<1>3. UNCHANGED <<ids, first, next, entries, emit, emergency, submitted>> /\ Handler' = Handler
  BY <1>2 DEF storeVars, historyVars, Handler
<1>4. LookSound(last, bound, copy)
  BY <1>1, <1>2 DEF LookOk, Finding
<1>5. answer \subseteq Records /\ all \subseteq Records
  BY <1>4, InMemory DEF answer, all, OnDisk, LookSound, Moving, HistoryOk, Remembered
<1>6. \/ found /\ outbox' = answer /\ blind' = blind
      \/ ~found /\ replaying /\ outbox' = {} /\ blind' = blind \cup PassedOver(last)
      \/ ~found /\ ~replaying /\ outbox' = After(lastSent, all)
  BY <1>2
<1>7. outbox' \subseteq Records
  BY <1>5, <1>6 DEF After
<1>8. ClientTypes'
  BY <1>2, <1>3, <1>7 DEF ClientTypes, Reached, Records, Id
<1>9. Phases'
  BY <1>2, <1>3 DEF Phases, Finding, Sending, Live
<1>10. ASSUME Live', NEW r \in Owed'
       PROVE  /\ r \in Owed /\ Live /\ Id(r) \in Nat /\ (OnItsWay(r) => OnItsWay(r)')
              /\ (last < Id(r) \/ OnItsWay(r)') /\ (Behind(r)' => Behind(r))
  <2>1. r \in Owed /\ Id(r) \in Nat /\ Live
    BY <1>2, <1>3, <1>10, OwedShrinks DEF Live
  <2>2. OnItsWay(r) => OnItsWay(r)'
    BY <1>2, WayStays
  <2>3. last < Id(r) \/ OnItsWay(r)
    BY <1>4, <2>1 DEF LookSound
  <2>4. Behind(r)' => Behind(r)
    BY <1>2, <1>3 DEF Behind, Id, LastId, Newest
  <2> QED
    BY <2>1, <2>2, <2>3, <2>4
<1>11. ~Finding'
  BY <1>2 DEF Finding
<1>12. CASE found /\ outbox' = answer
  <2>1. ASSUME Live', NEW r \in Owed', Behind(r)' PROVE OnItsWay(r)' \/ r \in outbox'
    BY <1>4, <1>10, <1>12, <2>1, AnswerHasBehind DEF answer, Moving
  <2>2. ASSUME Live', NEW s \in outbox', NEW r \in Owed', ids'[r] < ids'[s]
        PROVE  r \in outbox' \/ OnItsWay(r)'
    <3>1. Id(r) < Id(s)
      BY <1>3, <2>2 DEF Id
    <3> QED
      BY <1>4, <1>10, <1>12, <2>2, <3>1, AnswerInOrder DEF answer, Moving
  <2> QED
    BY <1>8, <1>9, <1>11, <2>1, <2>2 DEF LookOk, OutboxInOrder, BehindIsSent, Id
<1>13. CASE ~found /\ replaying /\ outbox' = {} /\ blind' = blind \cup PassedOver(last)
  <2>1. ASSUME Live', NEW r \in Owed', Behind(r)' PROVE OnItsWay(r)'
    <3>1. r \in Records /\ r \notin PassedOver(last)
      BY <1>3, <1>13, <2>1 DEF Owed, Covered, Records
    <3>2. Behind(r) /\ (last < Id(r) \/ OnItsWay(r)')
      BY <1>10, <2>1
    <3> QED
      BY <3>1, <3>2 DEF PassedOver, Behind
  <2> QED
    BY <1>8, <1>9, <1>11, <1>13, <2>1 DEF LookOk, OutboxInOrder, BehindIsSent
<1>14. CASE ~found /\ ~replaying /\ outbox' = After(lastSent, all)
  <2>1. Handler
    BY <1>2, <1>14 DEF Phases, Finding
  <2>2. ASSUME Live', NEW r \in Owed', Behind(r)' PROVE OnItsWay(r)'
    <3>1. r \in Owed /\ Behind(r) /\ Live /\ outbox = {} /\ (OnItsWay(r) => OnItsWay(r)')
      BY <1>2, <1>10, <2>2 DEF Phases, Sending
    <3> QED
      BY <1>2, <1>14, <3>1 DEF BehindIsSent
  <2>3. ASSUME Live', NEW s \in outbox', NEW r \in Owed', ids'[r] < ids'[s]
        PROVE  r \in outbox' \/ OnItsWay(r)'
    <3>1. CASE Id(r) <= lastSent
      <4>1. Behind(r)'
        BY <1>2, <1>3, <2>1, <3>1 DEF Behind, Id
      <4> QED
        BY <2>2, <2>3, <4>1
    <3>2. CASE ~(Id(r) <= lastSent)
      <4>1. lastSent < Id(r) /\ r \in all
        BY <1>10, <2>3, <3>2, EverythingIsRead DEF ClientTypes, all, Moving
      <4> QED
        BY <1>14, <4>1 DEF After
    <3> QED
      BY <3>1, <3>2
  <2> QED
    BY <1>8, <1>9, <1>11, <2>2, <2>3 DEF LookOk, OutboxInOrder, BehindIsSent, Id
<1> QED
  BY <1>6, <1>12, <1>13, <1>14

-----------------------------------------------------------------------------
(* The sends. *)

LEMMA NextOutIsLeast ==
  ASSUME HistoryOk, outbox \subseteq Records, outbox # {}
  PROVE  NextOut \in outbox /\ \A s \in outbox : Id(NextOut) <= Id(s)
<1> DEFINE I == {Id(r) : r \in outbox}
<1>1. I \in SUBSET Nat /\ I # {}
  <2>1. \A r \in Records : Id(r) \in Nat
    BY LenProperties, ElementOfSeq DEF HistoryOk, IdsReached, Records, Id
  <2> QED
    BY <2>1
<1>2. Min(I) \in I /\ \A y \in I : Min(I) <= y
  BY <1>1, LeastPlace
<1>3. \E r \in outbox : \A s \in outbox : Id(r) <= Id(s)
  BY <1>2
<1> QED
  BY <1>3 DEF NextOut

\* The next record in hand comes behind every owed one before it.
LEMMA SendEntryKeepsOrder ==
  ASSUME ServerOrder, ServerInv, ClientInv, Moving, SendEntry
  PROVE  ServerOrder'
<1>1. PICK r : r = NextOut
  OBVIOUS
<1>2. PICK u : u = wire[conn]
  OBVIOUS
<1>3. /\ sender = "send" /\ outbox # {} /\ conn # 0
      /\ wire' = [wire EXCEPT ![conn] = IF conn \in broken THEN u ELSE Append(u, Rec(r))]
      /\ UNCHANGED serverRest /\ UNCHANGED <<opened, broken>>
  BY <1>1, <1>2 DEF SendEntry, Send, serverRest, writerVars
<1>4. PICK w : w = IF conn \in broken THEN u ELSE Append(u, Rec(r))
  OBVIOUS
<1>5. conn \in Conns
  BY <1>3, ConnsAssumption DEF ClientInv, ClientTypes, Conns
<1>6. SoundWire(u)
  BY <1>2, <1>5 DEF ServerOrder, WiresInOrder
<1>7. r \in outbox /\ r \in Records /\ \A s \in outbox : Id(r) <= Id(s)
  BY <1>1, <1>3, NextOutIsLeast DEF Moving, ClientInv, ClientTypes
<1>8. ASSUME conn \notin broken PROVE SoundWire(Append(u, Rec(r)))
  <2>1. ASSUME NEW x \in Owed, Id(x) < Id(r)
        PROVE  InTransit(x) \/ \E j \in 1..Len(u) : u[j] = Rec(x)
    <3>1. x \notin outbox
      <4>1. Id(x) \in Nat /\ Id(r) \in Nat
        BY <1>7, OwedOrder DEF Moving, HistoryOk, IdsReached
      <4> QED
        BY <1>7, <2>1, <4>1
    <3>2. OnItsWay(x)
      BY <1>3, <1>7, <1>8, <2>1, <3>1 DEF ClientInv, OutboxInOrder, Live, Sending
    <3>3. InTransit(x) \/ Rec(x) \in Range(u)
      BY <1>2, <3>2 DEF OnItsWay
    <3> QED
      BY <1>6, <3>3, InRange DEF SoundWire
  <2> QED
    BY <1>6, <1>7, <2>1, WireAppends
<1>9. SoundWire(w)
  BY <1>4, <1>6, <1>8
<1>10. opened \in Nat /\ opened' \in Nat /\ opened <= opened' /\ broken \subseteq broken'
  BY <1>3 DEF ServerInv, ReadersOk
<1>11. wire' = [wire EXCEPT ![conn] = w]
  BY <1>3, <1>4
<1> QED
  BY <1>3, <1>5, <1>9, <1>10, <1>11, WireOnly

LEMMA SendEntryKeepsClient ==
  ASSUME ServerOrder, ClientInv, Moving, SendEntry
  PROVE  ClientInv'
<1> USE DEF ClientInv
<1>1. PICK n : n = NextOut
  OBVIOUS
<1>2. /\ sender = "send" /\ outbox # {} /\ conn # 0
      /\ wire' = [wire EXCEPT ![conn] = IF conn \in broken THEN @ ELSE Append(@, Rec(n))]
      /\ lastSent' = IF Handler \/ replaying THEN Id(n) ELSE lastSent
      /\ outbox' = outbox \ {n}
      /\ UNCHANGED storeVars
      /\ UNCHANGED <<kind, conn, opened, broken, sender, look, replaying, seed, blind, queue, registry>>
  BY <1>1 DEF SendEntry, Send, MarksSent, writerVars
<1>3. UNCHANGED <<ids, first, next, entries, emit, emergency, submitted>> /\ Handler' = Handler
  BY <1>2 DEF storeVars, historyVars, Handler
<1>4. n \in outbox /\ n \in Records /\ \A s \in outbox : Id(n) <= Id(s)
  BY <1>1, <1>2, NextOutIsLeast DEF Moving, ClientTypes
<1>5. Id(n) \in Nat /\ Reached(Id(n))
  BY <1>4, LenProperties, ElementOfSeq DEF Moving, HistoryOk, IdsReached, Records, Id, Reached
<1>6. ClientTypes'
  <2>1. lastSent' \in Nat /\ Reached(lastSent')
    BY <1>2, <1>5 DEF ClientTypes
  <2>2. Reached(lastSent)' /\ Reached(seed)'
    BY <1>2, <1>3, <2>1 DEF ClientTypes, Reached, Records, Id
  <2> QED
    BY <1>2, <1>3, <2>1, <2>2 DEF ClientTypes, Records
<1>7. Phases'
  BY <1>2, <1>3 DEF Phases, Finding, Sending, Live
<1>8. ASSUME Live' PROVE /\ Live /\ Rec(n) \in Range(wire'[conn])
                         /\ Range(wire[conn]) \subseteq Range(wire'[conn])
  <2>1. conn \in Conns /\ conn \notin broken /\ Live
    BY <1>2, <1>8, ConnsAssumption DEF Live, ClientTypes, Conns
  <2>2. wire[conn] \in Seq(Range(wire[conn])) /\ wire'[conn] = Append(wire[conn], Rec(n))
    BY <1>2, <2>1 DEF ServerOrder, WiresInOrder, SoundWire
  <2> QED
    BY <2>1, <2>2, Appended
<1>9. ASSUME Live', NEW r \in Owed'
      PROVE  /\ r \in Owed /\ Live /\ Id(r) \in Nat /\ (OnItsWay(r) => OnItsWay(r)')
             /\ r \in outbox => r \in outbox' \/ OnItsWay(r)'
  <2>1. r \in Owed /\ Id(r) \in Nat /\ Live
    BY <1>3, <1>8, <1>9, OwedShrinks
  <2>2. OnItsWay(r) => OnItsWay(r)'
    BY <1>2, <1>8, <1>9 DEF OnItsWay, InTransit, Dispatched, Rec
  <2>3. r = n => OnItsWay(r)'
    BY <1>2, <1>8, <1>9 DEF OnItsWay, Rec
  <2> QED
    BY <1>2, <2>1, <2>2, <2>3
<1>10. ASSUME Live', NEW s \in outbox, NEW r \in Owed', Id(r) < Id(s)
       PROVE  r \in outbox' \/ OnItsWay(r)'
  BY <1>2, <1>9, <1>10 DEF OutboxInOrder, Sending
<1>11. OutboxInOrder'
  <2>1. SUFFICES ASSUME Live', NEW s \in outbox', NEW r \in Owed', ids'[r] < ids'[s]
                 PROVE  r \in outbox' \/ OnItsWay(r)'
    BY DEF OutboxInOrder, Id
  <2> QED
    BY <1>2, <1>3, <1>10, <2>1 DEF Id
<1>12. BehindIsSent'
  <2>1. SUFFICES ASSUME Live', NEW r \in Owed', Behind(r)' PROVE r \in outbox' \/ OnItsWay(r)'
    BY DEF BehindIsSent
  <2>2. CASE Handler
    <3>1. Id(r) <= Id(n) /\ Id(r) \in Nat /\ r \in Owed
      BY <1>2, <1>3, <1>9, <2>1, <2>2 DEF Behind, Id
    <3>2. CASE Id(r) < Id(n)
      BY <1>4, <1>10, <2>1, <3>2
    <3>3. CASE Id(r) = Id(n)
      BY <1>4, <1>9, <2>1, <3>1, <3>3, OwedOrder DEF Moving, HistoryOk, IdsReached
    <3> QED
      BY <1>5, <3>1, <3>2, <3>3
  <2>3. CASE ~Handler
    <3>1. Behind(r)
      BY <1>2, <1>3, <2>1, <2>3 DEF Behind, Id, LastId, Newest
    <3> QED
      BY <1>2, <1>9, <2>1, <3>1 DEF BehindIsSent, Finding
  <2> QED
    BY <2>2, <2>3
<1> QED
  BY <1>2, <1>6, <1>7, <1>11, <1>12 DEF LookOk, Finding

\* A record that is skipped is owed no more.
LEMMA SkipEntryKeepsClient ==
  ASSUME ClientInv, Moving, SkipEntry
  PROVE  ClientInv'
<1> USE DEF ClientInv
<1>1. PICK n : n = NextOut
  OBVIOUS
<1>2. /\ sender = "send" /\ outbox # {} /\ Handler
      /\ lastSent' = Id(n) /\ outbox' = outbox \ {n} /\ skipped' = skipped \cup {n}
      /\ UNCHANGED storeVars
      /\ UNCHANGED <<kind, conn, opened, broken, sender, look, replaying, seed, queue, wire, registry>>
  BY <1>1 DEF SkipEntry, MarksSent, serverVars, writerVars
<1>3. UNCHANGED <<ids, first, next, entries, emit, emergency, submitted>> /\ Handler' = Handler
  BY <1>2 DEF storeVars, historyVars, Handler
<1>4. n \in outbox /\ n \in Records /\ \A s \in outbox : Id(n) <= Id(s)
  BY <1>1, <1>2, NextOutIsLeast DEF Moving, ClientTypes
<1>5. Id(n) \in Nat /\ Reached(Id(n))
  BY <1>4, LenProperties, ElementOfSeq DEF Moving, HistoryOk, IdsReached, Records, Id, Reached
<1>6. ClientTypes'
  <2>1. Reached(lastSent)' /\ Reached(seed)'
    BY <1>2, <1>3, <1>5 DEF ClientTypes, Reached, Records, Id
  <2> QED
    BY <1>2, <1>3, <1>5, <2>1 DEF ClientTypes, Records
<1>7. Phases'
  BY <1>2, <1>3 DEF Phases, Finding, Sending, Live
<1>8. ASSUME Live', NEW r \in Owed'
      PROVE  /\ r \in Owed /\ r # n /\ Live /\ Id(r) \in Nat /\ (OnItsWay(r) => OnItsWay(r)')
             /\ r \in outbox => r \in outbox'
  <2>1. r \in Owed /\ Id(r) \in Nat /\ Live
    BY <1>2, <1>3, <1>8, OwedShrinks DEF Live
  <2>2. r # n
    BY <1>2, <1>8 DEF Owed, Covered
  <2> QED
    BY <1>2, <2>1, <2>2, WayStays
<1>9. ASSUME Live', NEW s \in outbox, NEW r \in Owed', Id(r) < Id(s)
      PROVE  r \in outbox' \/ OnItsWay(r)'
  BY <1>2, <1>8, <1>9 DEF OutboxInOrder, Sending
<1>10. OutboxInOrder'
  BY <1>2, <1>3, <1>9 DEF OutboxInOrder, Id
<1>11. BehindIsSent'
  <2>1. SUFFICES ASSUME Live', NEW r \in Owed', Behind(r)' PROVE r \in outbox' \/ OnItsWay(r)'
    BY DEF BehindIsSent
  <2>2. Id(r) <= Id(n) /\ Id(r) \in Nat /\ r \in Owed /\ r # n
    BY <1>2, <1>3, <1>8, <2>1 DEF Behind, Id
  <2>3. Id(r) < Id(n)
    BY <1>4, <1>5, <2>2, OwedOrder DEF Moving, HistoryOk, IdsReached
  <2> QED
    BY <1>4, <1>9, <2>1, <2>3
<1> QED
  BY <1>2, <1>6, <1>7, <1>10, <1>11 DEF LookOk, Finding

\* A complete pass.  A replay of nothing seeds an id that the server has passed.
LEMMA SendsDoneKeepsClient ==
  ASSUME ClientInv, Moving, RegistryOk, SendsDone
  PROVE  ClientInv'
<1> USE DEF ClientInv
<1>1. /\ sender = "send" /\ outbox = {} /\ sender' = "idle" /\ outbox' = {}
      /\ lastSent' = Seeded /\ seed' = 0 /\ replaying' = FALSE
      /\ EndEmergency \/ UNCHANGED storeVars
      /\ UNCHANGED <<kind, conn, opened, broken, look, blind, wire, queue, registry>>
  BY DEF SendsDone, serverVars, writerVars
<1>2. UNCHANGED <<ids, first, next, entries, emit>> /\ Handler' = Handler
  BY <1>1 DEF EndEmergency, storeVars, historyVars, Handler
<1>3. ClientTypes'
  <2>1. Reached(lastSent)' /\ Reached(seed)' /\ lastSent' \in Nat
    BY <1>1, <1>2, SeededReached DEF Reached, Records, Id
  <2> QED
    BY <1>1, <1>2, <2>1 DEF ClientTypes
<1>4. Phases'
  <2>1. Handler => ~emergency'
    BY <1>1 DEF Phases, Sending, EndEmergency, storeVars
  <2> QED
    BY <1>1, <1>2, <2>1 DEF Phases, Finding, Sending
<1>5. ASSUME Live', NEW r \in Owed', Behind(r)' PROVE OnItsWay(r)'
  <2>1. r \in Owed /\ Live /\ Id(r) \in Nat
    BY <1>1, <1>2, <1>5, OwedShrinks DEF Live
  <2>2. Behind(r)
    <3>1. CASE Handler
      <4>1. Id(r) <= Seeded
        BY <1>1, <1>2, <1>5, <3>1 DEF Behind, Id
      <4>2. CASE replaying /\ seed > lastSent
        <5>1. seed <= registry /\ registry < Id(r) /\ Id(r) <= seed
          BY <2>1, <4>1, <4>2 DEF Phases, RegistryOk, Seeded
        <5> QED
          BY <2>1, <5>1 DEF RegistryOk, ClientTypes
      <4>3. CASE ~(replaying /\ seed > lastSent)
        BY <3>1, <4>1, <4>3 DEF Seeded, Behind
      <4> QED
        BY <4>2, <4>3
    <3>2. CASE ~Handler
      BY <1>1, <1>2, <1>5, <3>2 DEF Behind, Id, LastId, Newest
    <3> QED
      BY <3>1, <3>2
  <2>3. OnItsWay(r)
    BY <1>1, <2>1, <2>2 DEF BehindIsSent, Finding
  <2> QED
    BY <1>1, <2>3, WayStays
<1> QED
  BY <1>1, <1>3, <1>4, <1>5 DEF LookOk, OutboxInOrder, BehindIsSent, Finding, Sending

-----------------------------------------------------------------------------
(* Every step. *)

ResumeInv == ServerInv /\ StoreInv /\ HistoryOk /\ ServerOrder /\ ClientInv

LEMMA ClientStepsKeepResume ==
  ASSUME ResumeInv, Moving, ClientSteps
  PROVE  ServerOrder' /\ ClientInv'
<1> USE DEF ResumeInv
<1>1. /\ opened \in Nat /\ (conn # 0 => conn \in Conns)
      /\ registry \in Nat /\ RegistryOk
  BY ConnsAssumption DEF ClientInv, ClientTypes, Conns, ServerOrder, RegistryOk
<1>2. CASE Connect
  BY <1>1, <1>2, ConnectKeepsOrder, ConnectKeepsClient
<1>3. CASE EnterEmergency
  <2>1. UNCHANGED <<serverRest, wire, broken, opened, registry>>
    BY <1>3 DEF EnterEmergency, serverVars, writerVars, clientVars, serverRest
  <2> QED
    BY <1>1, <1>3, <2>1, OrderIdle, CloserRests, ClientStays
<1>4. ASSUME UNCHANGED <<serverVars, broken, opened>> PROVE ServerOrder'
  BY <1>1, <1>4, OrderIdle DEF serverVars, writerVars, serverRest
<1>5. CASE ReadAck
  BY <1>1, <1>4, <1>5, ReadAckKeepsClient DEF ReadAck
<1>6. CASE MissAck
  BY <1>4, <1>6, MissAckKeepsClient DEF MissAck
<1>7. CASE ReadDisk
  BY <1>4, <1>7, ReadDiskKeepsClient DEF ReadDisk
<1>8. CASE SendEntry
  BY <1>8, SendEntryKeepsOrder, SendEntryKeepsClient
<1>9. CASE SendsDone
  BY <1>1, <1>4, <1>9, SendsDoneKeepsClient DEF SendsDone
<1>10. CASE Pass
  BY <1>4, <1>10, PassKeepsClient DEF Pass
<1>11. CASE SkipEntry
  BY <1>4, <1>11, SkipEntryKeepsClient DEF SkipEntry
<1>12. CASE RecordRaised /\ Handler
  <2>1. UNCHANGED <<serverVars, clientVars>>
    BY <1>12 DEF RecordRaised
  <2>2. ClientRests
    BY <1>1, <1>12, <2>1, RaisedRests
  <2> QED
    BY <1>1, <1>4, <2>1, <2>2, ClientStays DEF serverVars, writerVars, clientVars
<1>13. CASE Rejected \/ SendFails \/ EndSender \/ EncodeRaises \/ (RecordRaised /\ ~Handler)
  <2>1. ids' = ids
    BY <1>13 DEF Rejected, SendFails, EndSender, EncodeRaises, RecordRaised, storeVars
  <2>2. ClientInv'
    BY <1>13, <2>1, DisconnectKeepsClient
  <2>3. CASE SendFails
    BY <1>4, <2>2, <2>3 DEF SendFails
  <2>4. ASSUME UNCHANGED serverRest, opened' = opened,
               (conn # 0 /\ Drop) \/ UNCHANGED <<wire, broken>>
        PROVE  ServerOrder'
    <3>1. CASE conn # 0 /\ Drop
      BY <1>1, <2>4, <3>1, DropKeepsOrder
    <3>2. CASE UNCHANGED <<wire, broken>>
      BY <1>1, <2>4, <3>2, OrderIdle
    <3> QED
      BY <2>4, <3>1, <3>2
  <2>5. CASE Rejected \/ EndSender \/ EncodeRaises \/ (RecordRaised /\ ~Handler)
    <3>1. UNCHANGED serverRest /\ opened' = opened
          /\ ((conn # 0 /\ Drop) \/ UNCHANGED <<wire, broken>>)
      BY <2>5 DEF Rejected, Answered, EndSender, EncodeRaises, RecordRaised, DrainerEnds,
                  HangUpIfOpen, serverRest, writerVars
    <3> QED
      BY <2>2, <2>4, <3>1
  <2> QED
    BY <1>13, <2>3, <2>5
<1> QED
  BY <1>2, <1>3, <1>5, <1>6, <1>7, <1>8, <1>9, <1>10, <1>11, <1>12, <1>13 DEF ClientSteps

LEMMA StoreStepsKeepResume ==
  ASSUME ResumeInv, Moving, StoreSteps
  PROVE  ServerOrder' /\ ClientInv'
<1> USE DEF ResumeInv
<1>1. UNCHANGED <<serverVars, broken, opened>>
  BY DEF StoreSteps, EmitRecord, Recorded, StoreStep, clientVars
<1>2. opened \in Nat /\ registry \in Nat /\ registry' \in Nat
  BY <1>1 DEF ServerInv, ReadersOk, ServerOrder, RegistryOk, serverVars, writerVars
<1>3. ServerOrder'
  BY <1>1, <1>2, OrderIdle DEF serverVars, writerVars, serverRest
<1>4. CASE Recorded /\ ~Handler
  BY <1>3, <1>4, RecordedKeepsClient
<1>5. CASE Recorded => Handler
  BY <1>2, <1>3, <1>5, StoreStepsRest, ClientStays
<1> QED
  BY <1>4, <1>5

LEMMA LifeStepsKeepResume ==
  ASSUME ResumeInv, Moving, LifeSteps
  PROVE  ServerOrder' /\ ClientInv'
<1> USE DEF ResumeInv
<1>1. /\ opened \in Nat /\ (conn # 0 => conn \in Conns) /\ registry \in Nat
  BY ConnsAssumption DEF ClientInv, ClientTypes, Conns, ServerOrder, RegistryOk
<1>2. UNCHANGED serverRest /\ opened' = opened
      /\ ((conn \in Conns /\ Drop) \/ UNCHANGED <<wire, broken>>)
  BY <1>1 DEF LifeSteps, CloseFlush, CloseCheckpoint, CloseRest, Restart, HangUpIfOpen, serverVars,
              writerVars, serverRest
<1>3. registry' \in Nat
  BY <1>1, <1>2 DEF serverRest
<1>4. ServerOrder'
  <2>1. CASE conn \in Conns /\ Drop
    BY <1>1, <1>2, <2>1, DropKeepsOrder
  <2>2. CASE UNCHANGED <<wire, broken>>
    BY <1>1, <1>2, <2>2, OrderIdle
  <2> QED
    BY <1>2, <2>1, <2>2
<1>5. CASE CloseFlush \/ CloseCheckpoint
  BY <1>1, <1>3, <1>4, <1>5, CloserRests, ClientStays
<1>6. CASE CloseRest
  BY <1>1, <1>3, <1>4, <1>6, CloseRestRests, ClientStays
<1>7. CASE \E crash \in BOOLEAN : Restart(crash)
  <2>1. ids' = ids
    BY <1>7 DEF Restart, Resume
  <2> QED
    BY <1>4, <1>7, <2>1, DisconnectKeepsClient
<1> QED
  BY <1>5, <1>6, <1>7 DEF LifeSteps

LEMMA ServerStepsKeepResume ==
  ASSUME ResumeInv, Moving, ServerSteps, ~ServerGoes
  PROVE  ServerOrder' /\ ClientInv'
<1> USE DEF ResumeInv
<1>1. UNCHANGED storeVars /\ ids' = ids /\ opened' = opened /\ opened \in Nat /\ registry \in Nat
  BY ServerStepKinds
     DEF ReadBy, clientVars, storeVars, ServerInv, ReadersOk, ServerOrder, RegistryOk
<1>2. ASSUME ServerOrder', ClientRests PROVE ServerOrder' /\ ClientInv'
  BY <1>1, <1>2, ClientStays DEF ServerOrder, RegistryOk
<1>3. ASSUME NEW c \in Conns, ReadBy(c) PROVE ServerOrder'
  <2>1. CASE HangUp(c) /\ broken' = broken \cup {c}
    BY <1>1, <2>1, HangUpKeepsOrder
  <2>2. CASE UNCHANGED clientVars
    <3>1. UNCHANGED <<opened, broken>>
      BY <2>2 DEF clientVars
    <3>2. CASE AckFails(c)
      BY <1>1, <3>1, <3>2, OrderIdle DEF AckFails, serverRest, writerVars
    <3> QED
      BY <1>1, <1>3, <3>1, <3>2, HandshakeKeepsOrder, NoHandshakeKeepsOrder, EnrolKeepsOrder,
         IngestKeepsOrder, HangUpKeepsOrder DEF ReadBy
  <2> QED
    BY <1>3, <2>1, <2>2 DEF ReadBy
<1>4. ASSUME NEW c \in Conns, ReadBy(c) PROVE ServerOrder' /\ ClientInv'
  <2>1. ServerOrder'
    BY <1>3, <1>4
  <2>2. ClientRests
    BY <1>1, <1>4, ReadByRests DEF ClientInv
  <2> QED
    BY <1>2, <2>1, <2>2
<1>5. ASSUME UNCHANGED clientVars, Unregister \/ \E succeeds \in BOOLEAN : Register(succeeds)
      PROVE  ServerOrder' /\ ClientInv'
  <2>1. UNCHANGED <<opened, broken>> /\ wire' = wire /\ registry <= registry'
    BY <1>1, <1>5 DEF clientVars, Register, Unregister
  <2>2. ServerOrder' /\ StaysInTransit
    BY <1>5, <2>1, RegisterKeepsOrder
  <2> QED
    BY <1>1, <1>2, <1>5, <2>1, <2>2, WriterRests
<1>6. ASSUME UNCHANGED clientVars, Dispatch(Id(Head(queue)[2]))
      PROVE  ServerOrder' /\ ClientInv'
  <2>1. UNCHANGED <<opened, broken>> /\ wire' = wire
    BY <1>1, <1>6 DEF clientVars, Dispatch
  <2>2. ServerOrder' /\ StaysInTransit
    BY <1>1, <1>6, <2>1, DispatchKeepsOrder
  <2>3. registry <= registry'
    <3>1. registry' \in Nat /\ (registry' = registry \/ registry' > registry)
      BY <1>6, <2>2 DEF Dispatch, ServerOrder, RegistryOk
    <3> QED
      BY <1>1, <3>1
  <2> QED
    BY <1>1, <1>2, <1>6, <2>1, <2>2, <2>3, WriterRests
<1>7. ASSUME UNCHANGED clientVars, Handle
      PROVE  ServerOrder' /\ ClientInv'
  <2>1. UNCHANGED <<opened, broken, serverRest, wire>>
    BY <1>7 DEF clientVars, Handle, serverRest
  <2>2. ServerOrder'
    BY <1>1, <2>1, OrderIdle
  <2>3. StaysInTransit /\ registry <= registry'
    BY <1>1, <2>1 DEF StaysInTransit, InTransit, serverRest, Dispatched
  <2> QED
    BY <1>1, <1>2, <1>7, <2>1, <2>2, <2>3, WriterRests
<1> QED
  BY <1>4, <1>5, <1>6, <1>7, ServerStepKinds

LEMMA ResumeStepKeeps == ResumeInv /\ [Next]_vars => ResumeInv'
<1> SUFFICES ASSUME ResumeInv, [Next]_vars PROVE ResumeInv'
  OBVIOUS
<1>1. ServerInv' /\ StoreInv' /\ HistoryOk' /\ (Moving \/ ServerGoes)
  BY ServerStepKeeps, StoreStepKeeps, HistoryStepKeeps, StepMoves DEF ResumeInv
<1>2. CASE ServerGoes
  BY <1>1, <1>2, GoneKeepsOrder, GoneKeepsClient DEF ResumeInv
<1>3. ASSUME ~ServerGoes PROVE ServerOrder' /\ ClientInv'
  <2>0. Moving
    BY <1>1, <1>3
  <2>1. CASE StoreSteps
    BY <2>0, <2>1, StoreStepsKeepResume
  <2>2. CASE ClientSteps
    BY <2>0, <2>2, ClientStepsKeepResume
  <2>3. CASE LifeSteps
    BY <2>0, <2>3, LifeStepsKeepResume
  <2>4. CASE ServerSteps
    BY <1>3, <2>0, <2>4, ServerStepsKeepResume
  <2>5. opened \in Nat /\ registry \in Nat
    BY DEF ResumeInv, ServerInv, ReadersOk, ServerOrder, RegistryOk
  <2>6. ASSUME NEW c \in Conns, Break(c) PROVE ServerOrder' /\ ClientInv'
    <3>1. ServerOrder' /\ registry' \in Nat
      BY <2>0, <2>5, <2>6, BreakKeepsOrder DEF ResumeInv, Break, writerVars
    <3> QED
      BY <2>0, <2>5, <2>6, <3>1, BreakRests, ClientStays DEF ResumeInv
  <2>7. CASE UNCHANGED vars
    <3>1. UNCHANGED <<serverRest, wire, broken, opened, registry>>
      BY <2>7 DEF vars, serverVars, writerVars, clientVars, serverRest
    <3>2. ServerOrder' /\ registry' \in Nat
      BY <2>0, <2>5, <3>1, OrderIdle DEF ResumeInv
    <3> QED
      BY <2>0, <2>5, <2>7, <3>2, CloserRests, ClientStays DEF ResumeInv
  <2> QED
    BY <2>1, <2>2, <2>3, <2>4, <2>6, <2>7 DEF Next
<1> QED
  BY <1>1, <1>2, <1>3 DEF ResumeInv

LEMMA ResumeStarts == Init => ResumeInv
<1> SUFFICES ASSUME Init PROVE ResumeInv
  OBVIOUS
<1>1. ServerInv /\ StoreInv /\ HistoryOk
  BY ServerStarts, StoreStarts, HistoryStarts DEF Init
<1>2. /\ ids = <<>> /\ Len(ids) = 0 /\ Records = {} /\ Owed = {}
      /\ queue = <<>> /\ Len(queue) = 0
  BY EmptySeq DEF Init, StoreInit, ServerInit, Records, Owed
<1>3. QueueInOrder
  BY <1>2 DEF QueueInOrder
<1>4. WiresInOrder
  BY WireStarts DEF WiresInOrder, Init, ServerInit
<1>5. RegistryOk
  BY <1>2 DEF RegistryOk, Init, ServerInit, Reached
<1>6. ClientInv
  BY <1>2, ConnsAssumption
     DEF Init, ClientInv, ClientTypes, Phases, LookOk, OutboxInOrder, BehindIsSent, Live, Finding,
         Sending, Reached
<1> QED
  BY <1>1, <1>3, <1>4, <1>5, <1>6 DEF ResumeInv, ServerOrder

(* The server's resume point never passes a record that the client still     *)
(* has and no handler has or is about to get, but for those that one of the  *)
(* two reports or that have no id of their own: a replay after the next      *)
(* handshake starts at or before it (id_registry.py, writer_thread.py's      *)
(* dispatch, reader_server.py's ack and find_after() of history.py).         *)
THEOREM ResumePointPassesNothing == Spec => []ResumePointCovers
<1>1. ResumeInv => ResumePointCovers
  <2>1. SUFFICES ASSUME ResumeInv, NEW r \in Records \ gone, Id(r) <= registry, Unique(r),
                        r \notin served \cup hand \cup Excused
                 PROVE  FALSE
    BY DEF ResumePointCovers
  <2>2. r \in Owed
    BY <2>1 DEF Owed, Covered, Excused
  <2>3. registry < Id(r) /\ registry \in Nat
    BY <2>1, <2>2 DEF ResumeInv, ServerOrder, RegistryOk
  <2>4. Id(r) \in Nat
    BY <2>1, LenProperties, ElementOfSeq DEF ResumeInv, HistoryOk, IdsReached, Records, Id
  <2> QED
    BY <2>1, <2>3, <2>4
<1> QED
  BY <1>1, ResumeStarts, ResumeStepKeeps, PTL DEF Spec
=============================================================================
