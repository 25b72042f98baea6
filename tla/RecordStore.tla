---------------------------- MODULE RecordStore ----------------------------
(***************************************************************************)
(* What makes one program's log records durable: RecordDurability          *)
(* (client/durability.py) over RecordHistoryBuffer and                     *)
(* EmergencyHistoryWriter (client/history.py), an id checkpoint with its   *)
(* worker thread or on the program's event loop (client/id_checkpoint.py)  *)
(* and EmergencyModeTracker (client/emergency.py).                         *)
(*                                                                         *)
(* A record is its number in the order of emission; its id is assigned     *)
(* when it is recorded, and a crash may make a later record reuse one.     *)
(* Only one thread records at a time: emit() holds the handler's lock, a   *)
(* drainer has one drain thread.  History holds _lock across append() and  *)
(* flush(), so each is one step; _shutting_down is the only thing another  *)
(* thread changes meanwhile, and it is read once per step that matters.    *)
(***************************************************************************)
EXTENDS Naturals, Sequences, FiniteSets, SequencesExt, FiniteSetsExt

CONSTANT MaxRecords      \* bound on the records emitted

ASSUME RecordsAssumption == MaxRecords \in Nat \ {0}

VARIABLES
  ids,        \* the id of each record emitted so far
  first,      \* _first_id, what this process started from
  next,       \* _next_id
  entries,    \* the history's memory
  disk,       \* records with a line in a history file
  gone,       \* records that left memory without one, or whose line was deleted
  histShut,   \* RecordHistoryBuffer._shutting_down
  flushed,    \* _shutdown_flushed
  ckptShut,   \* ThreadedIdCheckpointBackend._shutting_down
  ckpt,       \* the id in the checkpoint file
  jobs,       \* the ids scheduled and not yet taken or written, 0 for _SHUTDOWN
  held,       \* the id that its worker took and has not written, or 0
  worker,     \* "run", "last": it met _SHUTDOWN, "ended", "failed"; "none": the
              \* checkpoint is on the event loop
  takenOver,  \* _worker_stopped
  scheduled,  \* the last id that reached schedule_persist(), or 0: _last_scheduled
  unwritten,  \* ids whose recording raised, or that close() could not write
  emit,       \* where the recording thread is
  emergency,  \* an emergency writer is active
  submitted   \* the records in its queue

historyVars == <<entries, disk, gone, flushed>>
checkpointVars == <<ckpt, jobs, held, worker, takenOver, scheduled, unwritten>>
storeVars == <<ids, first, next, historyVars, checkpointVars, histShut, ckptShut,
               emit, emergency, submitted>>

Records == 1..Len(ids)
Newest == Len(ids)                        \* the record emitted last
LastId == next - 1
Id(r) == ids[r]
OnLoop == worker = "none"

\* Retention deletes whole days, the oldest ones.
OldestOf(aged) == \A r \in aged, s \in disk \ aged : r < s

\* The constructor: retention runs, and ids resume after the checkpoint.
Resume(aged) ==
  /\ first' = ckpt + 1 /\ next' = ckpt + 1
  /\ entries' = <<>> /\ flushed' = FALSE
  /\ histShut' = FALSE /\ ckptShut' = FALSE
  /\ jobs' = <<>> /\ held' = 0 /\ takenOver' = FALSE
  /\ scheduled' = 0 /\ unwritten' = {}
  /\ worker' = IF OnLoop THEN "none" ELSE "run"
  /\ emit' = "idle" /\ emergency' = FALSE /\ submitted' = {}
  /\ aged \subseteq disk /\ OldestOf(aged)
  /\ disk' = disk \ aged
  /\ gone' = gone \cup aged \cup (Range(entries) \ disk)
  /\ UNCHANGED <<ids, ckpt>>

StoreInit ==
  /\ ids = <<>> /\ first = 1 /\ next = 1
  /\ entries = <<>> /\ disk = {} /\ gone = {} /\ flushed = FALSE
  /\ histShut = FALSE /\ ckptShut = FALSE
  /\ ckpt = 0 /\ jobs = <<>> /\ held = 0 /\ worker \in {"run", "none"}
  /\ takenOver = FALSE /\ scheduled = 0 /\ unwritten = {}
  /\ emit = "idle" /\ emergency = FALSE /\ submitted = {}

-----------------------------------------------------------------------------
(* History. *)

\* A drain of the buffer: an entry whose file does not open or take the line is
\* off the buffer all the same.  Housekeeping follows, but not in a shutdown.
Spill(buffer, failed, aged) ==
  /\ failed \subseteq Range(buffer)
  /\ aged \subseteq disk /\ OldestOf(aged) /\ (histShut => aged = {})
  /\ entries' = <<>>
  /\ disk' = (disk \ aged) \cup (Range(buffer) \ failed)
  /\ gone' = gone \cup aged \cup (failed \ disk)

WriteThrough(r, failed) ==
  /\ failed \subseteq {r}
  /\ disk' = disk \cup ({r} \ failed)
  /\ gone' = gone \cup failed
  /\ UNCHANGED entries

\* append(): the first one of a shutdown catches up and retires the buffer.
Retires == histShut
AppendEntry(r, failed, aged) ==
  \/ /\ ~histShut /\ failed = {} /\ aged = {}          \* under every threshold
     /\ entries' = Append(entries, r)
     /\ UNCHANGED <<disk, gone, flushed>>
  \/ /\ ~histShut                                      \* a threshold trips
     /\ Spill(Append(entries, r), failed, aged)
     /\ UNCHANGED flushed
  \/ /\ histShut /\ ~flushed
     /\ Spill(Append(entries, r), failed, aged)
     /\ flushed' = Retires
  \/ /\ histShut /\ flushed /\ aged = {}
     /\ WriteThrough(r, failed)
     /\ UNCHANGED flushed

Flush(failed, aged) ==
  /\ IF histShut /\ flushed
     THEN failed = {} /\ aged = {} /\ UNCHANGED historyVars
     ELSE Spill(entries, failed, aged) /\ flushed' = Retires
  /\ UNCHANGED <<ids, first, next, checkpointVars, histShut, ckptShut,
                 emit, emergency, submitted>>

\* find_after(last), last 0 for None.  Memory that starts at or before last + 1
\* holds the whole answer; else disk is read later, outside the lock, and only
\* below Bound, which is fixed with the copy of memory: 0, no bound, while this
\* process has appended nothing.  An answer is the set of the records in it: the
\* tail of memory, like the sorted lines of disk, is in the order of the ids.
MemoryAnswers(last) == last # 0 /\ entries # <<>> /\ Id(entries[1]) <= last + 1
After(last, answer) == {r \in answer : Id(r) > last}
Bound == CASE entries # <<>> -> Id(entries[1])
           [] entries = <<>> /\ next > first -> LastId + 1
           [] OTHER -> 0

\* _search_disk(): the newest line of an id wins; <<FALSE, _>> stands for None.
Below(r, bound) == bound # 0 => Id(r) < bound
OnDisk(last, bound) ==
  {r \in disk : /\ Id(r) > last /\ Below(r, bound)
                /\ \A s \in disk : Id(s) = Id(r) => s <= r}
SearchDisk(last, bound) ==
  << \/ last = 0 \/ OnDisk(last, bound) # {}
     \/ \E r \in disk : Id(r) = last /\ Below(r, bound),
     OnDisk(last, bound) >>

-----------------------------------------------------------------------------
(* record(): an id, the emergency writer, history, then the checkpoint. *)

\* What cannot be encoded raises where it is written through, and the id that it
\* took is not scheduled.
Raises(failed) == failed # {} /\ histShut /\ flushed

Record(failed, aged) ==
  /\ ids' = Append(ids, next) /\ next' = next + 1
  /\ submitted' = IF emergency THEN submitted \cup {Newest + 1} ELSE submitted
  /\ AppendEntry(Newest + 1, failed, aged)
  /\ \/ emit' = "persist" /\ UNCHANGED unwritten
     \/ Raises(failed) /\ emit' = "raised" /\ unwritten' = unwritten \cup {next}
  /\ UNCHANGED <<first, ckpt, jobs, held, worker, takenOver, scheduled, histShut, ckptShut,
                 emergency>>

\* schedule_persist(): the flag is read first; during a shutdown the caller
\* takes over, and what was scheduled before is discarded or barred, whether or
\* not the write that follows raises.
Persist(fails) ==
  /\ emit = "persist" /\ scheduled' = LastId
  /\ IF ckptShut
     THEN /\ takenOver' = TRUE /\ jobs' = <<>>
          /\ ckpt' = IF fails THEN ckpt ELSE LastId
          /\ unwritten' = IF fails THEN unwritten \cup {LastId} ELSE unwritten
          /\ emit' = IF fails THEN "raised" ELSE "recorded"
     ELSE ~fails /\ emit' = "put" /\ UNCHANGED <<ckpt, jobs, takenOver, unwritten>>
  /\ UNCHANGED <<ids, first, next, historyVars, held, worker, histShut, ckptShut, emergency,
                 submitted>>

Put ==
  /\ emit = "put"
  /\ jobs' = Append(jobs, LastId)
  /\ emit' = "recorded"
  /\ UNCHANGED <<ids, first, next, historyVars, ckpt, held, worker, takenOver, scheduled, unwritten,
                 histShut, ckptShut, emergency, submitted>>

\* The worker takes all that is queued, up to _SHUTDOWN, and keeps the last id.
WorkerTakes ==
  /\ worker = "run" /\ held = 0 /\ jobs # <<>>
  /\ LET n == SelectInSeq(jobs, LAMBDA j : j = 0)
         taken == IF n = 0 THEN jobs ELSE SubSeq(jobs, 1, n - 1)
     IN /\ held' = IF taken = <<>> THEN 0 ELSE Last(taken)
        /\ worker' = CASE n = 0 -> "run" [] n = 1 -> "ended" [] OTHER -> "last"
        /\ jobs' = IF n = 0 THEN <<>> ELSE SubSeq(jobs, n + 1, Len(jobs))
  /\ UNCHANGED <<ids, first, next, historyVars, ckpt, takenOver, scheduled, unwritten, histShut, ckptShut,
                 emit, emergency, submitted>>

\* A write that fails is fatal: the worker is gone.
Barred_Never == FALSE
Barred == takenOver
Commit(fails) ==
  /\ held # 0
  /\ ckpt' = IF Barred \/ fails THEN ckpt ELSE held
  /\ worker' = IF fails /\ ~Barred THEN "failed"
               ELSE IF Barred \/ worker = "last" THEN "ended" ELSE "run"
  /\ held' = 0
  /\ UNCHANGED <<ids, first, next, historyVars, jobs, takenOver, scheduled, unwritten, histShut,
                 ckptShut, emit, emergency, submitted>>

\* On the loop each id is written by a coroutine of its own, in any order, and
\* a failure concerns that id only.
LoopCommits(fails) ==
  /\ OnLoop /\ ~Barred
  /\ \E i \in DOMAIN jobs :
       /\ jobs' = RemoveAt(jobs, i)
       /\ ckpt' = IF fails THEN ckpt ELSE jobs[i]
  /\ UNCHANGED <<ids, first, next, historyVars, held, worker, takenOver, scheduled, unwritten, histShut,
                 ckptShut, emit, emergency, submitted>>

\* close() of the checkpoint on the loop takes over and writes the last id
\* scheduled, if there is one; it swallows a failed write.
CloseLoop(fails) ==
  /\ OnLoop
  /\ IF scheduled = 0
     THEN UNCHANGED checkpointVars
     ELSE /\ takenOver' = TRUE /\ jobs' = <<>>
          /\ ckpt' = IF fails THEN ckpt ELSE scheduled
          /\ unwritten' = IF fails THEN unwritten \cup {scheduled} ELSE unwritten
          /\ UNCHANGED <<held, worker, scheduled>>
  /\ UNCHANGED <<ids, first, next, historyVars, histShut, ckptShut, emit, emergency, submitted>>

\* close() of the threaded checkpoint; the join that follows is bounded.
SendStop ==
  /\ ~OnLoop
  /\ jobs' = Append(jobs, 0)
  /\ UNCHANGED <<ids, first, next, historyVars, ckpt, held, worker, takenOver, scheduled, unwritten,
                 histShut, ckptShut, emit, emergency, submitted>>

-----------------------------------------------------------------------------
(* arm_shutdown(): two atomic stores. *)

ArmHistory ==
  /\ ~histShut
  /\ histShut' = TRUE
  /\ UNCHANGED <<ids, first, next, historyVars, checkpointVars, ckptShut,
                 emit, emergency, submitted>>

ArmCheckpoint ==
  /\ histShut /\ ~ckptShut
  /\ ckptShut' = TRUE
  /\ UNCHANGED <<ids, first, next, historyVars, checkpointVars, histShut,
                 emit, emergency, submitted>>

-----------------------------------------------------------------------------
(* The emergency writer, between the thresholds and the next success; one that *)
(* outlives its close() goes on beside the next.                               *)

EmergencyWrites(fails) ==
  \E r \in submitted :
    /\ submitted' = submitted \ {r}
    /\ disk' = IF fails THEN disk ELSE disk \cup {r}
    /\ UNCHANGED <<ids, first, next, entries, gone, flushed, checkpointVars, histShut, ckptShut,
                   emit, emergency>>

StoreTypeOK ==
  /\ ids \in Seq(1..MaxRecords) /\ Len(ids) <= MaxRecords
  /\ first \in 1..next /\ next \in 1..(MaxRecords + 1)
  /\ Range(entries) \subseteq Records /\ disk \subseteq Records /\ {gone, submitted} \subseteq SUBSET Records
  /\ {histShut, flushed, ckptShut, takenOver, emergency} \subseteq BOOLEAN
  /\ ckpt \in 0..LastId /\ held \in 0..LastId /\ Range(jobs) \subseteq 0..LastId
  /\ {scheduled} \cup unwritten \subseteq 0..LastId
  /\ worker \in {"run", "last", "ended", "failed", "none"}
  /\ emit \in {"idle", "persist", "put", "recorded", "raised"}
=============================================================================
