---------------------------- MODULE LogDelivery ----------------------------
(***************************************************************************)
(* Delivery of one program's log records: a client transport               *)
(* (client/__init__.py) over a RecordStore, a network that breaks          *)
(* connections, and a LogServer.                                           *)
(*                                                                         *)
(* "handler" is HandshakeSocketHandler: any thread emits, a sender thread  *)
(* delivers from history.  "drainer" is ThreadedQueueDrainer or            *)
(* AsyncioQueueDrainer: one thread or task records, and sends what it has  *)
(* just recorded; history only serves the replay after an ack.             *)
(***************************************************************************)
EXTENDS RecordStore, LogServer

CONSTANTS Kinds,         \* the transports, a subset of {"handler", "drainer"}
                  MaxFaults      \* bound on failures, crashes and orderly stops

ASSUME DeliveryAssumption ==
  Kinds \subseteq {"handler", "drainer"} /\ MaxFaults \in Nat

VARIABLES
  kind,      \* the transport
  conn,      \* its connection, or 0
  opened,    \* connections made so far
  broken,    \* connections that no longer carry anything
  sender,    \* where the delivering thread is
  lastSent,  \* _last_sent_id
  look,      \* find_after() between memory and disk: <<last, bound, copy>>
  replaying, \* the lookup or the sends are the handshake's
  outbox,    \* the records left to send, which go in the order of their ids
  seed,      \* the id that a first handshake continues after, or 0
  bell,      \* the doorbell rang since the last complete pass
  closer,    \* the teardown: where it is
  blind,     \* records passed over because an ack could not be read or placed
  skipped,   \* records passed over because they cannot be encoded
  faults     \* failures so far

clientVars == <<kind, conn, opened, broken, sender, lastSent, look, replaying,
                outbox, seed, bell, closer, blind, skipped>>
vars == <<storeVars, serverVars, clientVars, faults>>

Handler == kind = "handler"
Stopping == closer # "no"

Spend(happens) ==
  /\ happens => faults < MaxFaults
  /\ faults' = IF happens THEN faults + 1 ELSE faults

Init ==
  /\ StoreInit /\ ServerInit
  /\ kind \in Kinds /\ (OnLoop => kind = "handler")
  /\ conn = 0 /\ opened = 0 /\ broken = {}
  /\ sender = "idle" /\ lastSent = 0 /\ look = <<>> /\ replaying = FALSE
  /\ outbox = {} /\ seed = 0 /\ bell = FALSE
  /\ closer = "no" /\ blind = {} /\ skipped = {} /\ faults = 0

-----------------------------------------------------------------------------
(* The store's steps.  The writes of one step fail or not, and retention      *)
(* deletes or not, each at the price of a fault; an orderly stop is one, with *)
(* all that fails after it.                                                   *)

StoreStep(happens) ==
  /\ Spend(happens /\ ~Stopping)
  /\ UNCHANGED <<serverVars, clientVars>>

\* A drainer takes a record off its queue when it is connected, or while it
\* waits to reconnect in emergency mode, until it meets its stop event, the
\* flush of a teardown behind it or not; a handler's callers emit when they like.
MayRecord == Handler \/ (sender = "idle" /\ (conn # 0 \/ emergency))

EmitRecord ==
  /\ MayRecord /\ emit = "idle" /\ Newest < MaxRecords
  /\ \E failed \in SUBSET (Range(entries) \cup {Newest + 1}), aged \in SUBSET disk :
       StoreStep(failed \cup aged # {}) /\ Record(failed, aged)

\* A handler rings the doorbell; a drainer sends the record itself, if it can.
Recorded ==
  /\ emit = "recorded"
  /\ emit' = "idle"
  /\ bell' = (bell \/ Handler)
  /\ IF ~Handler /\ conn # 0
     THEN outbox' = {Newest} /\ sender' = "send"
     ELSE UNCHANGED <<outbox, sender>>
  /\ UNCHANGED <<ids, first, next, historyVars, checkpointVars, histShut, ckptShut,
                 emergency, submitted, serverVars, kind, conn, opened, broken, lastSent,
                 look, replaying, seed, closer, blind, skipped, faults>>

StoreSteps ==
  \/ EmitRecord \/ Recorded
  \/ (Put \/ WorkerTakes) /\ StoreStep(FALSE)
  \/ \E fails \in BOOLEAN :
       /\ Persist(fails) \/ Commit(fails) \/ LoopCommits(fails) \/ EmergencyWrites(fails)
       /\ StoreStep(fails)
  \/ (ArmHistory /\ StoreStep(TRUE)) \/ (ArmCheckpoint /\ StoreStep(FALSE))

-----------------------------------------------------------------------------
(* The connection. *)

Send(c, item) == wire' = [wire EXCEPT ![c] = IF c \in broken THEN @ ELSE Append(@, item)]

\* _drop_socket(): what was sent arrives, then the end of it.
Drop == Send(conn, Eof) /\ conn' = 0 /\ broken' = broken \cup {conn}
HangUpIfOpen == IF conn # 0 THEN Drop ELSE UNCHANGED <<wire, conn, broken>>

\* An exception in a drainer's thread or task ends it, its socket closed; a
\* handler's emit() swallows it, and does not ring.
DrainerEnds ==
  /\ HangUpIfOpen
  /\ sender' = "ended" /\ outbox' = {} /\ replaying' = FALSE
  /\ UNCHANGED <<reply, reader, writerVars, kind, opened, lastSent, look, seed, bell,
                 closer, blind, skipped>>
RecordRaised ==
  /\ emit = "raised" /\ emit' = "idle"
  /\ IF Handler THEN UNCHANGED <<serverVars, clientVars>> ELSE DrainerEnds
  /\ UNCHANGED <<faults, ids, first, next, historyVars, checkpointVars, histShut, ckptShut,
                 emergency, submitted>>

Connect ==
  /\ sender = "idle" /\ conn = 0 /\ ~Stopping /\ opened < MaxConns
  /\ Handler \/ emit = "idle"
  /\ conn' = opened + 1 /\ opened' = opened + 1
  /\ wire' = [wire EXCEPT ![opened + 1] = <<Hello>>]
  /\ reader' = [reader EXCEPT ![opened + 1] = "new"]
  /\ sender' = "ack"
  /\ UNCHANGED <<storeVars, reply, writerVars, kind, broken, lastSent, look, replaying, outbox, seed,
                 bell, closer, blind, skipped, faults>>

\* maybe_enter(), once both thresholds have tripped.
EnterEmergency ==
  /\ sender = "idle" /\ conn = 0 /\ ~Stopping
  /\ ~emergency /\ (Handler => bell)
  /\ emergency' = TRUE /\ Spend(TRUE)
  /\ UNCHANGED <<ids, first, next, historyVars, checkpointVars, histShut, ckptShut, emit,
                 submitted, serverVars, clientVars>>

\* record_success() ends emergency mode.  close() of its writer waits a while for
\* what is queued to be written; the rest follows, or dies with the process.
EndEmergency ==
  /\ emergency' = FALSE
  /\ UNCHANGED <<ids, first, next, historyVars, checkpointVars, histShut, ckptShut, emit,
                 submitted>>

\* find_after(last): the answer, or a copy of memory to complete from disk.
Find(last) ==
  IF MemoryAnswers(last)
  THEN outbox' = After(last, Range(entries)) /\ sender' = "send" /\ look' = <<>>
  ELSE outbox' = {} /\ sender' = "find" /\ look' = <<last, Bound, entries>>

Answered == conn # 0 /\ reply[conn] # <<>>
ReplayFrom_LastSent(acked) == lastSent
ReplayFrom(acked) == acked

SeedAfter(acked) == Min({acked, first - 1})

\* A good ack.  A handler that sends for the first time will continue after the
\* acked id, if an earlier process assigned it.
ReadAck ==
  /\ sender = "ack" /\ Answered /\ reply[conn][1]
  /\ LET acked == reply[conn][2] IN
       /\ Find(ReplayFrom(acked))
       /\ seed' = IF Handler /\ lastSent = 0 THEN SeedAfter(acked) ELSE 0
  /\ replaying' = TRUE
  /\ IF Handler THEN EndEmergency ELSE UNCHANGED storeVars
  /\ UNCHANGED <<serverVars, kind, conn, opened, broken, lastSent, bell, closer, blind, skipped, faults>>

\* No ack in time, or none that can be read: whatever was sent before, or
\* recorded meanwhile by a drainer, is not asked about.
LastPassed == IF Handler THEN IF lastSent = 0 THEN first - 1 ELSE lastSent ELSE LastId
MissAck ==
  /\ sender = "ack"
  /\ Spend(conn # 0 /\ conn \notin broken)
  /\ lastSent' = IF Handler THEN LastPassed ELSE lastSent
  /\ blind' = blind \cup {r \in Records : Id(r) <= LastPassed}
  /\ sender' = "idle"
  /\ IF Handler THEN EndEmergency ELSE UNCHANGED storeVars
  /\ UNCHANGED <<serverVars, kind, conn, opened, broken, look, replaying, outbox, seed, bell,
                 closer, skipped>>

\* The config is rejected: the connection goes, and the process or a backoff follows.
Rejected ==
  /\ sender = "ack" /\ Answered /\ ~reply[conn][1]
  /\ Drop /\ sender' = IF Handler THEN "idle" ELSE "ended"
  /\ UNCHANGED <<storeVars, reply, reader, writerVars, kind, opened, lastSent, look, replaying, outbox, seed,
                 bell, closer, blind, skipped, faults>>

\* Disk completes a lookup.  What cannot be placed is an empty backlog for a
\* replay: a drainer resumes live, a handler after what it sent before.  A
\* handler's sender reads everything instead and resumes after the gap.
PassedOver(last) == {r \in Records : Id(r) > last /\ (Handler => Id(r) <= lastSent)}
ReadDisk ==
  /\ sender = "find"
  /\ LET last == look[1]
         search == SearchDisk(last, look[2])
         all == SearchDisk(0, Bound)[2] \cup Range(entries)
     IN /\ outbox' = CASE search[1] -> search[2] \cup Range(look[3])
                         [] ~search[1] /\ replaying -> {}
                         [] OTHER -> After(lastSent, all)
        /\ blind' = IF search[1] \/ ~replaying THEN blind ELSE blind \cup PassedOver(last)
  /\ look' = <<>> /\ sender' = "send"
  /\ UNCHANGED <<storeVars, serverVars, kind, conn, opened, broken, lastSent, replaying,
                 seed, bell, closer, skipped, faults>>

-----------------------------------------------------------------------------
(* The sends. *)

NextOut == CHOOSE r \in outbox : \A s \in outbox : Id(r) <= Id(s)
MarksSent(r) == IF Handler \/ replaying THEN Id(r) ELSE lastSent

SendEntry ==
  /\ sender = "send" /\ outbox # {} /\ conn # 0
  /\ Send(conn, Rec(NextOut))
  /\ lastSent' = MarksSent(NextOut)
  /\ outbox' = outbox \ {NextOut}
  /\ UNCHANGED <<storeVars, reply, reader, writerVars, kind, conn, opened, broken, sender, look, replaying, seed,
                 bell, closer, blind, skipped, faults>>

\* What cannot be encoded, so has no line on disk either: a handler skips it and
\* marks it sent; it is the end of a drainer.
SkipEntry ==
  /\ Handler /\ sender = "send" /\ outbox \ disk # {} /\ conn # 0
  /\ NextOut \notin disk /\ Spend(TRUE)
  /\ lastSent' = MarksSent(NextOut)
  /\ outbox' = outbox \ {NextOut} /\ skipped' = skipped \cup {NextOut}
  /\ UNCHANGED <<storeVars, serverVars, kind, conn, opened, broken, sender, look, replaying,
                 seed, bell, closer, blind>>
EncodeRaises ==
  /\ ~Handler /\ sender = "send" /\ outbox # {} /\ conn # 0
  /\ NextOut \notin disk /\ Spend(TRUE)
  /\ DrainerEnds /\ UNCHANGED storeVars

\* After the last one, or the failure of one, of a handshake's replay.
Seeded == IF replaying /\ seed > lastSent THEN seed ELSE lastSent
SendFails ==
  /\ sender = "send" /\ outbox # {} /\ conn \in broken \cup {0}
  /\ conn' = 0 /\ outbox' = {} /\ sender' = "idle"
  /\ lastSent' = Seeded /\ seed' = 0 /\ replaying' = FALSE
  /\ bell' = (bell \/ (Handler /\ ~replaying))
  /\ UNCHANGED <<storeVars, serverVars, kind, opened, broken, look, closer, blind, skipped, faults>>

\* A complete pass; a live send of a drainer, or a pass that sent, is a success.
SendsDone ==
  /\ sender = "send" /\ outbox = {}
  /\ sender' = "idle"
  /\ lastSent' = Seeded /\ seed' = 0 /\ replaying' = FALSE
  /\ IF replaying THEN UNCHANGED storeVars ELSE EndEmergency
  /\ UNCHANGED <<serverVars, kind, conn, opened, broken, look, outbox, bell, closer, blind, skipped, faults>>

\* The sender's pass: every entry after the last one sent.
Pass ==
  /\ Handler /\ sender = "idle" /\ conn # 0 /\ bell
  /\ bell' = FALSE
  /\ Find(lastSent)
  /\ UNCHANGED <<storeVars, serverVars, kind, conn, opened, broken, lastSent, replaying,
                 seed, closer, blind, skipped, faults>>

\* After the stop: a handler makes one last pass, a drainer none.
EndSender ==
  /\ sender = "idle" /\ Stopping /\ emit = "idle"
  /\ ~bell \/ conn = 0
  /\ sender' = "ended"
  /\ HangUpIfOpen
  /\ UNCHANGED <<storeVars, reply, reader, writerVars, kind, opened, lastSent, look, replaying, outbox, seed,
                 bell, closer, blind, skipped, faults>>

ClientSteps ==
  \/ Connect \/ EnterEmergency \/ ReadAck \/ MissAck \/ Rejected \/ ReadDisk
  \/ SendEntry \/ SkipEntry \/ EncodeRaises \/ RecordRaised \/ SendFails \/ SendsDone
  \/ Pass \/ EndSender

-----------------------------------------------------------------------------
(* The teardown: flush, stop the sender, join it for a while, then close the   *)
(* checkpoint, the emergency writer and the socket.                            *)

CloserGoes(from, to) == closer = from /\ closer' = to

CloseFlush ==
  /\ CloserGoes("no", "stopping")
  /\ \E failed \in SUBSET Range(entries), aged \in SUBSET disk :
       Flush(failed, aged)
  /\ Spend(TRUE)
  /\ bell' = (bell \/ Handler)
  /\ UNCHANGED <<serverVars, kind, conn, opened, broken, sender, lastSent, look, replaying,
                 outbox, seed, blind, skipped>>

\* The join is bounded, and so are those of the checkpoint's worker and of the
\* emergency writer: close() goes on whether or not they are done.
CloseCheckpoint ==
  /\ CloserGoes("stopping", "sentinel")
  /\ SendStop \/ \E fails \in BOOLEAN : CloseLoop(fails)
  /\ UNCHANGED <<serverVars, kind, conn, opened, broken, sender, lastSent, look, replaying,
                 outbox, seed, bell, blind, skipped, faults>>

CloseRest ==
  /\ CloserGoes("sentinel", "closed")
  /\ EndEmergency
  /\ IF Handler /\ conn # 0 THEN Drop ELSE UNCHANGED <<wire, conn, broken>>
  /\ UNCHANGED <<reply, reader, writerVars, kind, opened, sender, lastSent, look, replaying,
                 outbox, seed, bell, blind, skipped, faults>>

\* The process ends, in order or not, its connection with it, and is started
\* again.
Restart(crash) ==
  /\ Newest < MaxRecords
  /\ ~crash => closer = "closed"
  /\ Spend(crash)
  /\ \E aged \in SUBSET disk : Resume(aged)
  /\ HangUpIfOpen
  /\ closer' = "no" /\ sender' = "idle" /\ lastSent' = 0 /\ look' = <<>>
  /\ replaying' = FALSE /\ outbox' = {} /\ seed' = 0 /\ bell' = FALSE
  /\ UNCHANGED <<reply, reader, writerVars, kind, opened, blind, skipped>>

LifeSteps ==
  \/ CloseFlush \/ CloseCheckpoint \/ CloseRest
  \/ \E crash \in BOOLEAN : Restart(crash)

-----------------------------------------------------------------------------
(* The network and the server. *)

\* A connection breaks: some of what is on the wire still arrives.
Break(c) ==
  /\ c = conn /\ c \notin broken /\ Spend(TRUE)
  /\ broken' = broken \cup {c}
  /\ \E n \in 0..Len(wire[c]) : wire' = [wire EXCEPT ![c] = SubSeq(@, 1, n) \o <<Eof>>]
  /\ UNCHANGED <<storeVars, reply, reader, writerVars, kind, conn, opened, sender, lastSent, look, replaying,
                 outbox, seed, bell, closer, blind, skipped>>

ReadBy(c) ==
  \/ \E valid \in BOOLEAN : Handshake(c, valid) /\ Spend(~valid) /\ UNCHANGED clientVars
  \/ (NoHandshake(c) \/ Enrol(c) \/ AckFails(c) \/ Ingest(c)) /\ UNCHANGED <<clientVars, faults>>
  \/ /\ HangUp(c)
     /\ broken' = broken \cup {c}
     /\ UNCHANGED <<kind, conn, opened, sender, lastSent, look, replaying, outbox, seed,
                    bell, closer, blind, skipped, faults>>

ServerSteps ==
  /\ \/ \E c \in Conns : ReadBy(c)
     \/ \E succeeds \in BOOLEAN : Register(succeeds) /\ Spend(~succeeds) /\ UNCHANGED clientVars
     \/ (Unregister \/ Dispatch(Id(Head(queue)[2])) \/ Handle) /\ UNCHANGED <<clientVars, faults>>
     \/ /\ \/ \E saved \in {regFile} \cup {Id(r) : r \in served \cup hand} :
                ServerCrashes(saved, {r \in hand : Id(r) <= saved})
           \/ ServerStops
        /\ Spend(TRUE) /\ opened > 0
        /\ broken' = 1..opened
        /\ UNCHANGED <<kind, conn, opened, sender, lastSent, look, replaying, outbox, seed,
                       bell, closer, blind, skipped>>
  /\ UNCHANGED storeVars

Next ==
  \/ StoreSteps \/ ClientSteps \/ LifeSteps
  \/ (\E c \in Conns : Break(c)) \/ ServerSteps

Spec == Init /\ [][Next]_vars

-----------------------------------------------------------------------------

TypeOK ==
  /\ StoreTypeOK /\ ServerTypeOK
  /\ kind \in Kinds /\ conn \in 0..opened /\ opened \in 0..MaxConns
  /\ broken \subseteq 1..opened /\ faults \in 0..MaxFaults
  /\ sender \in {"idle", "ack", "find", "send", "ended"}
  /\ lastSent \in 0..MaxRecords /\ seed \in 0..LastId
  /\ outbox \subseteq Records /\ blind \cup skipped \subseteq Records
  /\ {replaying, bell} \subseteq BOOLEAN
  /\ closer \in {"no", "stopping", "sentinel", "closed"}
  /\ (sender = "find") = (look # <<>>)

\* Ids are only unique while no crash loses the checkpoint.
Unique(r) == \A s \in Records \ {r} : IF s < r THEN Id(s) < Id(r) ELSE Id(r) < Id(s)

\* The id that the server would acknowledge never passes a record that it has not
\* handed to its handlers, or is about to, and that the client still has: every
\* other one is replayed after the next handshake.  Left out, with a report by the
\* client or the server each: a record passed over because an ack could not be
\* read, or named an id that neither memory nor disk could place; one that cannot
\* be encoded; one dropped for want of a hierarchy; one whose handlers a crash of
\* the server forestalled after the registry was saved; and one whose id a crash
\* of the client gave twice.
Excused == blind \cup skipped \cup dropped \cup unhandled
ResumePointCovers ==
  \A r \in Records \ gone :
    (Id(r) <= registry /\ Unique(r)) => r \in served \cup hand \cup Excused

\* A stale unregistration closes nothing: while connections enrol in the order
\* in which they were made, the newest one whose config was applied keeps its
\* hierarchy until its own unregistration is processed.
LiveHierarchyKept ==
  \/ applied = <<>> \/ \E i, j \in DOMAIN applied : i < j /\ applied[i] > applied[j]
  \/ reader[Last(applied)] = "done" /\ UnregisterClient(Last(applied)) \notin Range(queue)
  \/ hier = Last(applied)

\* Once the buffer is retired nothing is left in it.  And whenever no record is
\* being recorded, at the end of a teardown too, the checkpoint holds the last id,
\* or it is queued, or taken by a worker that nobody bars from writing it; unless
\* recording it raised or the last write of close() failed, the worker died of a
\* failed write, or the checkpoint is on the loop, where ids are written in any
\* order until close() takes over.  What close() did not outwait, and what is
\* scheduled behind it, is queued.
LastIdKept ==
  \/ ckpt = LastId \/ LastId \in Range(jobs) \/ (held = LastId /\ ~takenOver)
  \/ LastId \in unwritten \/ worker = "failed" \/ (OnLoop /\ ~takenOver)
OrderlyStopKeepsAll ==
  /\ flushed => entries = <<>>
  /\ emit = "idle" => LastIdKept
=============================================================================
