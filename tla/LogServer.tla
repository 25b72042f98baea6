----------------------------- MODULE LogServer -----------------------------
(***************************************************************************)
(* The central log server as one program's client meets it: the reader     *)
(* (server/reader_server.py) with one coroutine per connection, the writer *)
(* thread with its queue (server/writer_thread.py) and the id registry     *)
(* (server/id_registry.py).  A connection is a number, in the order of     *)
(* connecting; a wire holds what the client sent and the server has not    *)
(* read, what is left of it once the connection is broken included.        *)
(***************************************************************************)
EXTENDS Naturals, Sequences, FiniteSets, SequencesExt

CONSTANT MaxConns        \* bound on the connections made

ASSUME ConnsAssumption == MaxConns \in Nat \ {0}

VARIABLES
  wire,      \* per connection, client to server
  reply,     \* per connection, the handshake's answer: <<>> or <<TRUE, id>> or <<FALSE, 0>>
  reader,    \* per connection, where its coroutine is
  queue,     \* the writer's queue
  hier,      \* the connection whose hierarchy is registered, or 0
  applied,   \* connections whose config was applied, in that order
  refused,   \* connections whose config could not be applied
  registry,  \* the id registry's last_record_id, 0 for none
  regFile,   \* and the one that its file held when it was loaded
  hand,      \* the record that the registry counts and no handler has yet, or none
  served,    \* records handled by a hierarchy
  dropped,   \* records dropped, with a warning, for want of a hierarchy
  unhandled  \* records that a saved registry counts and a crash kept from their handlers

writerVars == <<queue, hier, applied, refused, registry, regFile, hand, served, dropped,
                unhandled>>
serverVars == <<wire, reply, reader, writerVars>>

Conns == 1..MaxConns
Hello == <<"hello">>
Eof == <<"eof">>
Rec(r) == <<"rec", r>>

RegisterClient(c) == <<"register", c>>
UnregisterClient(c) == <<"unregister", c>>
Dispatched(r) == <<"record", r>>

ServerInit ==
  /\ wire = [c \in Conns |-> <<>>] /\ reply = [c \in Conns |-> <<>>]
  /\ reader = [c \in Conns |-> "none"]
  /\ queue = <<>> /\ hier = 0 /\ applied = <<>> /\ refused = {}
  /\ registry = 0 /\ regFile = 0
  /\ hand = {} /\ served = {} /\ dropped = {} /\ unhandled = {}

Received(c, item) == wire[c] # <<>> /\ Head(wire[c]) = item
Consume(c) == wire' = [wire EXCEPT ![c] = Tail(@)]
ReaderGoes(c, to) == reader' = [reader EXCEPT ![c] = to]

-----------------------------------------------------------------------------
(* The reader. *)

\* The config is validated, then the ack tells where to resume.
AckPoint == registry
Handshake(c, valid) ==
  /\ reader[c] = "new" /\ Received(c, Hello)
  /\ Consume(c)
  /\ reply' = [reply EXCEPT ![c] = IF valid THEN <<TRUE, AckPoint>> ELSE <<FALSE, 0>>]
  /\ ReaderGoes(c, IF valid THEN "acked" ELSE "done")
  /\ UNCHANGED writerVars

\* The client hung up before it said who it is.
NoHandshake(c) ==
  /\ reader[c] = "new" /\ Received(c, Eof)
  /\ Consume(c) /\ ReaderGoes(c, "done")
  /\ UNCHANGED <<reply, writerVars>>

Enrol(c) ==
  /\ reader[c] = "acked"
  /\ queue' = Append(queue, RegisterClient(c))
  /\ ReaderGoes(c, "streaming")
  /\ UNCHANGED <<wire, reply, hier, applied, refused, registry, regFile, hand, served, dropped,
                 unhandled>>

\* The ack could not be sent.
AckFails(c) ==
  /\ reader[c] = "acked" /\ Eof \in Range(wire[c])
  /\ ReaderGoes(c, "done")
  /\ UNCHANGED <<wire, reply, writerVars>>

Ingest(c) ==
  /\ reader[c] = "streaming" /\ c \notin refused
  /\ wire[c] # <<>> /\ Head(wire[c])[1] = "rec"
  /\ Consume(c)
  /\ queue' = Append(queue, Dispatched(Head(wire[c])[2]))
  /\ UNCHANGED <<reply, reader, hier, applied, refused, registry, regFile, hand, served, dropped,
                 unhandled>>

\* The client hung up, or its config failed to apply: whatever is unread is
\* lost, and the unregistration queues behind what was read.
HangUp(c) ==
  /\ reader[c] = "streaming"
  /\ Received(c, Eof) \/ c \in refused
  /\ wire' = [wire EXCEPT ![c] = <<>>]
  /\ queue' = Append(queue, UnregisterClient(c))
  /\ ReaderGoes(c, "done")
  /\ UNCHANGED <<reply, hier, applied, refused, registry, regFile, hand, served, dropped,
                 unhandled>>

-----------------------------------------------------------------------------
(* The writer: one item after the other. *)

NextItem(kind) ==
  /\ hand = {} /\ queue # <<>> /\ Head(queue)[1] = kind
  /\ queue' = Tail(queue)

\* A hierarchy of an earlier connection is closed and replaced; a failed apply
\* leaves it.
Register(succeeds) ==
  /\ NextItem("register")
  /\ LET c == Head(queue)[2] IN
       IF succeeds
       THEN hier' = c /\ applied' = Append(applied, c) /\ UNCHANGED refused
       ELSE refused' = refused \cup {c} /\ UNCHANGED <<hier, applied>>
  /\ UNCHANGED <<wire, reply, reader, registry, regFile, hand, served, dropped,
                 unhandled>>

Unregisters_Anyone(c) == TRUE
Unregisters(c) == hier = c
Unregister ==
  /\ NextItem("unregister")
  /\ hier' = IF Unregisters(Head(queue)[2]) THEN 0 ELSE hier
  /\ UNCHANGED <<wire, reply, reader, applied, refused, registry, regFile, hand, served, dropped,
                 unhandled>>

\* The registry moves first, to the record's id and never back; it may be
\* saved before the handlers, awaited, have the record.
Dispatch(id) ==
  /\ NextItem("record")
  /\ LET r == Head(queue)[2] IN
       IF hier = 0
       THEN dropped' = dropped \cup {r} /\ UNCHANGED <<registry, hand>>
       ELSE /\ registry' = IF id > registry THEN id ELSE registry
            /\ hand' = {r}
            /\ UNCHANGED dropped
  /\ UNCHANGED <<wire, reply, reader, hier, applied, refused, regFile, served, unhandled>>

Handle ==
  /\ hand # {}
  /\ served' = served \cup hand /\ hand' = {}
  /\ UNCHANGED <<wire, reply, reader, queue, hier, applied, refused, registry, regFile,
                 dropped, unhandled>>

\* The server is gone and comes back; load() reads the file.
Gone(saved, lost) ==
  /\ wire' = [c \in Conns |-> <<>>]
  /\ reader' = [c \in Conns |-> IF reader[c] = "none" THEN "none" ELSE "done"]
  /\ queue' = <<>> /\ hier' = 0 /\ applied' = <<>> /\ refused' = {}
  /\ registry' = saved /\ regFile' = saved
  /\ hand' = {} /\ unhandled' = unhandled \cup lost
  /\ UNCHANGED <<reply, served, dropped>>

\* save() runs when the writer idles, or has advanced often enough, in the
\* middle of a dispatch then; a crash leaves whichever of the registry's values
\* it wrote last.
ServerCrashes(saved, lost) == saved \in regFile..registry /\ Gone(saved, lost)

\* An orderly end: the readers stop, the writer drains, then saves.
ServerStops == queue = <<>> /\ hand = {} /\ Gone(registry, {})

ServerTypeOK ==
  /\ DOMAIN wire = Conns /\ DOMAIN reply = Conns
  /\ reader \in [Conns -> {"none", "new", "acked", "streaming", "done"}]
  /\ hier \in {0} \cup Range(applied) /\ Range(applied) \subseteq Conns /\ refused \subseteq Conns
  /\ registry \in Nat /\ regFile <= registry
  /\ Cardinality(hand) <= 1 /\ hand \cup served \cup dropped \cup unhandled \subseteq Nat
=============================================================================
