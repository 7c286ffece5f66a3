------------------------------ MODULE EventLog ------------------------------
(***************************************************************************)
(* The attack event log of src/telemetry.rs: request workers put events on *)
(* a bounded channel without blocking; one writer thread takes them off,   *)
(* writes them through a BufWriter and rotates the file.                   *)
(*                                                                         *)
(* An event is its number in the order of the log calls.  A file and the   *)
(* buffer are sequences of lines and newlines; each counts as one byte.    *)
(* files[0] is the log, files[k] its backup with suffix .k; a missing file *)
(* and an empty one are the same, because a backup is renamed only onto a  *)
(* name that has just been vacated.  A faulty disk may fail at any         *)
(* operation, and the process may crash and be restarted at any step.      *)
(***************************************************************************)
EXTENDS Integers, Sequences, FiniteSets

CONSTANTS
  QueueCapacity,  \* event_log_queue_capacity
  BufCapacity,    \* capacity of the BufWriter
  MaxBytes,       \* event_log_max_bytes, 0 is unlimited
  BackupCount,    \* event_log_backup_count, positive by validate_adaptive_config
  MaxEvents,      \* bound on the log calls
  MaxCalls,       \* bound on the calls of flush
  MaxCrashes      \* bound on the restarts

ASSUME EventLogAssumption ==
  /\ QueueCapacity \in Nat \ {0} /\ BackupCount \in Nat \ {0}
  /\ BufCapacity \in Nat /\ BufCapacity >= 2
  /\ MaxBytes \in Nat /\ (MaxBytes > 0 => MaxBytes >= 2)
  /\ MaxEvents \in Nat /\ MaxCalls \in Nat /\ MaxCrashes \in Nat

VARIABLES
  logged,    \* the number of log calls so far
  queue,     \* the sync_channel of EventLogCommand
  worker,    \* where the writer thread is
  hand,      \* the event write_event is working on, 0 for none
  shift,     \* idx of rotate's loop
  open,      \* writer is Some
  buffer,    \* the BufWriter's buffer
  bytes,     \* bytes_written
  files,     \* the log and its backups
  dropped,   \* the AtomicU64 dropped_events
  caller,    \* the thread in flush or in Drop for EventLogger
  calls,     \* the number of those calls so far
  retired,   \* history: events removed with the oldest backup
  crashed,   \* history: events that were in memory at a crash
  crashes,
  disk       \* the environment: "sound", or "faulty" when I/O operations may fail

workerVars == <<queue, worker, hand, shift, open, buffer, bytes, files, dropped, retired>>
vars == <<logged, workerVars, caller, calls, crashed, crashes, disk>>

Newline == 0
Slots == 0..BackupCount

Event(n) == [kind |-> "event", id |-> n]
Control(kind, n) == [kind |-> kind, id |-> n]

EventsIn(q) == {q[i] : i \in DOMAIN q} \ {Newline}
Ids(q) == [i \in DOMAIN q |-> IF q[i].kind = "event" THEN q[i].id ELSE Newline]
Queued == EventsIn(Ids(queue))
OnDisk == UNION {EventsIn(files[k]) : k \in Slots}
InHand == {hand} \ {0}
InMemory == Queued \cup InHand \cup EventsIn(buffer)

----------------------------------------------------------------------------
(* Callers.                                                                *)

\* Mutant: an event the queue has no room for is not counted.
LogSilent ==
  /\ logged < MaxEvents
  /\ caller.kind # "shutdown"
  /\ logged' = logged + 1
  /\ queue' = IF Len(queue) < QueueCapacity THEN Append(queue, Event(logged + 1)) ELSE queue
  /\ UNCHANGED <<worker, hand, shift, open, buffer, bytes, files, dropped, retired,
                 caller, calls, crashed, crashes>>

(* log_at: try_send, and count the event when the queue is full.  Drop has *)
(* the logger to itself, so nothing is logged once it has begun.           *)
Log ==
  /\ logged < MaxEvents
  /\ caller.kind # "shutdown"
  /\ logged' = logged + 1
  /\ IF Len(queue) < QueueCapacity
     THEN queue' = Append(queue, Event(logged + 1)) /\ UNCHANGED dropped
     ELSE dropped' = dropped + 1 /\ UNCHANGED queue
  /\ UNCHANGED <<worker, hand, shift, open, buffer, bytes, files, retired, caller,
                 calls, crashed, crashes>>

NoCaller == [kind |-> "none", at |-> "done", id |-> 0, cover |-> 0]

(* flush, or Drop for EventLogger.  cover is the number of events logged   *)
(* before the call.                                                        *)
Call(kind) ==
  /\ caller.kind # "shutdown" /\ caller.at = "done"
  /\ calls < MaxCalls
  /\ calls' = calls + 1
  /\ caller' = [kind |-> kind, at |-> "send", id |-> calls + 1, cover |-> logged]
  /\ UNCHANGED <<logged, workerVars, crashed, crashes>>

(* send_control_with_retry, up to its try_send that succeeds.              *)
SendControl ==
  /\ caller.at = "send"
  /\ Len(queue) < QueueCapacity
  /\ queue' = Append(queue, Control(caller.kind, caller.id))
  /\ caller' = [caller EXCEPT !.at = "wait"]
  /\ UNCHANGED <<logged, worker, hand, shift, open, buffer, bytes, files, dropped,
                 retired, calls, crashed, crashes>>

(* The five seconds pass, while sending or while waiting for the answer.   *)
(* The command stays in the queue.                                         *)
GiveUp ==
  /\ caller.at \in {"send", "wait"}
  /\ caller.at = "send" => Len(queue) = QueueCapacity
  /\ caller' = IF caller.kind = "flush" THEN NoCaller ELSE [caller EXCEPT !.at = "gaveup"]
  /\ UNCHANGED <<logged, workerVars, calls, crashed, crashes>>

----------------------------------------------------------------------------
(* The BufWriter: n items of the buffer reach the log.                     *)

DiskMayFail == disk = "faulty"

CanWrite(b) == IF DiskMayFail THEN 0..Len(b) ELSE {Len(b)}

(* write_all of one item: the buffer is flushed first when the item does   *)
(* not fit, and a flush that fails keeps what it could not write.          *)
Put(log, b, item, n) ==
  IF Len(b) < BufCapacity
  THEN [log |-> log, buf |-> Append(b, item), ok |-> TRUE]
  ELSE [log |-> log \o SubSeq(b, 1, n),
        buf |-> IF n = Len(b) THEN <<item>> ELSE SubSeq(b, n + 1, Len(b)),
        ok  |-> n = Len(b)]

(* flush_writer, which only reports a failure.                             *)
FlushWriter ==
  \E n \in CanWrite(buffer) :
    /\ files' = IF open THEN [files EXCEPT ![0] = @ \o SubSeq(buffer, 1, n)] ELSE files
    /\ buffer' = IF open THEN SubSeq(buffer, n + 1, Len(buffer)) ELSE buffer

DropEvent ==
  /\ dropped' = dropped + 1
  /\ worker' = "recv"
  /\ hand' = 0

----------------------------------------------------------------------------
(* The writer thread.                                                      *)

ShouldRotate(b) == MaxBytes > 0 /\ b > 0 /\ b + 2 > MaxBytes

(* write_event up to the decision to rotate: ensure_writer, should_rotate. *)
TakeEvent ==
  /\ worker = "recv" /\ queue # << >> /\ Head(queue).kind = "event"
  /\ queue' = Tail(queue)
  /\ LET b == IF open THEN bytes ELSE Len(files[0])
     IN  \/ /\ worker' = IF ShouldRotate(b) THEN "flush" ELSE "write"
            /\ hand' = Head(queue).id
            /\ bytes' = b
            /\ open' = TRUE
            /\ UNCHANGED dropped
         \/ /\ ~open /\ DiskMayFail
            /\ DropEvent
            /\ UNCHANGED <<bytes, open>>
  /\ UNCHANGED <<logged, shift, buffer, files, retired, caller, calls, crashed, crashes>>

(* rotate takes the writer and flushes it.  When that fails the writer is  *)
(* dropped, and the BufWriter's own drop tries once more.                  *)
RotateFlush ==
  /\ worker = "flush"
  /\ open' = FALSE
  /\ buffer' = << >>
  /\ \/ /\ files' = [files EXCEPT ![0] = @ \o buffer]
        /\ worker' = "remove"
        /\ UNCHANGED <<dropped, hand>>
     \/ /\ DiskMayFail
        /\ \E n \in 0..Len(buffer) : files' = [files EXCEPT ![0] = @ \o SubSeq(buffer, 1, n)]
        /\ DropEvent
  /\ UNCHANGED <<logged, queue, shift, bytes, retired, caller, calls, crashed, crashes>>

(* The oldest backup goes.                                                 *)
RotateRemove ==
  /\ worker = "remove"
  /\ \/ /\ retired' = retired \cup EventsIn(files[BackupCount])
        /\ files' = [files EXCEPT ![BackupCount] = << >>]
        /\ worker' = "rename"
        /\ shift' = BackupCount - 1
        /\ UNCHANGED <<dropped, hand>>
     \/ /\ DiskMayFail
        /\ DropEvent
        /\ UNCHANGED <<files, retired, shift>>
  /\ UNCHANGED <<logged, queue, open, buffer, bytes, caller, calls, crashed, crashes>>

\* Mutant: the files are copied, and the log keeps its lines.
RotateCopy ==
  /\ worker = "rename"
  /\ files' = [files EXCEPT ![shift + 1] = files[shift]]
  /\ IF shift = 0 THEN worker' = "open" /\ UNCHANGED shift
     ELSE shift' = shift - 1 /\ UNCHANGED worker
  /\ UNCHANGED <<logged, queue, hand, open, buffer, bytes, dropped, retired, caller,
                 calls, crashed, crashes>>

(* One rename, from the oldest backup left down to the log itself.         *)
RotateRename ==
  /\ worker = "rename"
  /\ \/ /\ files' = [files EXCEPT ![shift + 1] = files[shift], ![shift] = << >>]
        /\ IF shift = 0 THEN worker' = "open" /\ UNCHANGED shift
           ELSE shift' = shift - 1 /\ UNCHANGED worker
        /\ UNCHANGED <<dropped, hand>>
     \/ /\ DiskMayFail /\ files[shift] # << >>
        /\ DropEvent
        /\ UNCHANGED <<files, shift>>
  /\ UNCHANGED <<logged, queue, open, buffer, bytes, retired, caller, calls, crashed,
                 crashes>>

RotateOpen ==
  /\ worker = "open"
  /\ \/ /\ open' = TRUE
        /\ bytes' = Len(files[0])
        /\ worker' = "write"
        /\ UNCHANGED <<dropped, hand>>
     \/ /\ DiskMayFail
        /\ DropEvent
        /\ UNCHANGED <<open, bytes>>
  /\ UNCHANGED <<logged, queue, shift, buffer, files, retired, caller, calls, crashed,
                 crashes>>

(* The rest of write_event: the line, its newline, and a flush when one is *)
(* due by next_flush_ms, which the model leaves open.                      *)
WriteEvent ==
  /\ worker = "write"
  /\ worker' = "recv" /\ hand' = 0
  /\ \E n \in CanWrite(buffer) :
       LET line == Put(files[0], buffer, hand, n)
       IN  \E m \in CanWrite(line.buf) :
             LET end == Put(line.log, line.buf, Newline, m)
             IN  \/ /\ ~line.ok
                    /\ files' = [files EXCEPT ![0] = line.log] /\ buffer' = line.buf
                    /\ dropped' = dropped + 1
                    /\ UNCHANGED bytes
                 \/ /\ line.ok /\ ~end.ok
                    /\ files' = [files EXCEPT ![0] = end.log] /\ buffer' = end.buf
                    /\ dropped' = dropped + 1
                    /\ bytes' = bytes + 1
                 \/ /\ line.ok /\ end.ok
                    /\ bytes' = bytes + 2
                    /\ \E k \in {0} \cup CanWrite(end.buf) :
                         /\ files' = [files EXCEPT ![0] = end.log \o SubSeq(end.buf, 1, k)]
                         /\ buffer' = SubSeq(end.buf, k + 1, Len(end.buf))
                    /\ UNCHANGED dropped
  /\ UNCHANGED <<logged, queue, shift, open, retired, caller, calls, crashed, crashes>>

\* Mutant: the caller is answered without the flush.
AnswerFirst ==
  /\ worker = "recv" /\ queue # << >> /\ Head(queue).kind \in {"flush", "shutdown"}
  /\ queue' = Tail(queue)
  /\ caller' = IF caller.at = "wait" /\ caller.id = Head(queue).id
               THEN [caller EXCEPT !.at = IF caller.kind = "flush" THEN "done" ELSE "acked"]
               ELSE caller
  /\ UNCHANGED <<logged, worker, hand, shift, open, buffer, bytes, files, dropped,
                 retired, calls, crashed, crashes>>

(* Flush and Shutdown: flush, then answer a caller that still waits.  A    *)
(* shutdown ends the thread.                                               *)
Answer ==
  /\ worker = "recv" /\ queue # << >> /\ Head(queue).kind \in {"flush", "shutdown"}
  /\ queue' = Tail(queue)
  /\ FlushWriter
  /\ worker' = IF Head(queue).kind = "shutdown" THEN "stopped" ELSE "recv"
  /\ caller' = IF caller.at = "wait" /\ caller.id = Head(queue).id
               THEN [caller EXCEPT !.at = IF caller.kind = "flush" THEN "done" ELSE "acked"]
               ELSE caller
  /\ UNCHANGED <<logged, hand, shift, open, bytes, dropped, retired, calls, crashed,
                 crashes>>

\* Mutant: an idle writer thread does not flush.
TimeoutIdle ==
  /\ worker = "recv" /\ queue = << >>
  /\ UNCHANGED vars

(* recv_timeout runs out, or the channel is empty and its sender is gone.  *)
Timeout ==
  /\ worker = "recv" /\ queue = << >>
  /\ FlushWriter
  /\ worker' = IF caller.at = "gaveup" THEN "stopped" ELSE "recv"
  /\ UNCHANGED <<logged, queue, hand, shift, open, bytes, dropped, retired,
                 caller, calls, crashed, crashes>>

----------------------------------------------------------------------------
(* The process ends, by a crash or after Drop, and is started again:       *)
(* with_options_and_queue opens the log in append mode.                    *)
Restart ==
  /\ crashes < MaxCrashes
  /\ crashes' = crashes + 1
  /\ crashed' = (1..logged) \ (OnDisk \cup retired)
  /\ queue' = << >> /\ buffer' = << >> /\ hand' = 0 /\ shift' = 0
  /\ worker' = "recv" /\ open' = TRUE /\ bytes' = Len(files[0])
  /\ dropped' = 0
  /\ caller' = NoCaller
  /\ UNCHANGED <<logged, files, calls, retired>>

Init ==
  /\ logged = 0 /\ queue = << >>
  /\ worker = "recv" /\ hand = 0 /\ shift = 0
  /\ open = TRUE /\ buffer = << >> /\ bytes = 0
  /\ files = [k \in Slots |-> << >>]
  /\ dropped = 0 /\ retired = {}
  /\ caller = NoCaller /\ calls = 0
  /\ crashed = {} /\ crashes = 0
  /\ disk \in {"sound", "faulty"}

Writer ==
  /\ \/ TakeEvent \/ RotateFlush \/ RotateRemove \/ RotateRename \/ RotateOpen
     \/ WriteEvent \/ Answer \/ Timeout
  /\ UNCHANGED disk

Next ==
  \/ Writer
  \/ /\ \/ Log
        \/ \E kind \in {"flush", "shutdown"} : Call(kind)
        \/ SendControl
        \/ GiveUp
        \/ Restart
     /\ UNCHANGED disk

Spec == Init /\ [][Next]_vars

(* The writer thread is scheduled, and an idle one wakes by its timeout.   *)
FairSpec == Spec /\ WF_vars(Writer)

----------------------------------------------------------------------------
TypeOK ==
  /\ logged \in 0..MaxEvents
  /\ \A i \in DOMAIN queue : queue[i].kind \in {"event", "flush", "shutdown"}
  /\ Len(queue) <= QueueCapacity
  /\ worker \in {"recv", "flush", "remove", "rename", "open", "write", "stopped"}
  /\ hand \in 0..MaxEvents
  /\ shift \in 0..BackupCount
  /\ open \in BOOLEAN
  /\ buffer \in Seq(0..MaxEvents) /\ Len(buffer) <= BufCapacity
  /\ bytes \in Nat
  /\ files \in [Slots -> Seq(0..MaxEvents)]
  /\ dropped \in Nat
  /\ caller.at \in {"send", "wait", "done", "acked", "gaveup"}
  /\ retired \subseteq 1..MaxEvents /\ crashed \subseteq 1..MaxEvents

(* While the disk is sound, an event that is neither on its way nor on     *)
(* disk nor retired with a full backup has been counted in dropped_events, *)
(* except for what a crash took with it.                                   *)
Gone == (1..logged) \ (InMemory \cup OnDisk \cup retired \cup crashed)

DropsCounted == disk = "sound" => Cardinality(Gone) <= dropped

(* The events, read from the oldest backup to the log and on through the   *)
(* buffer, the event being written and the queue, are in the order of the  *)
(* log calls and none is there twice: event_log_paths of the analyzer      *)
(* relies on it, also after a rotation that failed or was cut short by a   *)
(* crash.                                                                  *)
Rising(q) ==
  \A i, j \in DOMAIN q : i < j /\ q[i] # Newline /\ q[j] # Newline => q[i] < q[j]
Precede(S, T) == \A e \in S, f \in T : e < f

OrderKept ==
  /\ \A k, l \in Slots : l < k => Precede(EventsIn(files[k]), EventsIn(files[l]))
  /\ Precede(OnDisk, InMemory)
  /\ Precede(EventsIn(buffer), InHand \cup Queued) /\ Precede(InHand, Queued)
  /\ \A k \in Slots : Rising(files[k])
  /\ Rising(buffer) /\ Rising(Ids(queue))

(* A flush, or a shutdown, that was answered covers every event logged     *)
(* before the call, whatever was queued or half rotated by then, while the *)
(* disk is sound.                                                          *)
Answered == caller.at = "acked" \/ (caller.kind = "flush" /\ caller.at = "done")

FlushDurable == disk = "sound" /\ Answered => \A e \in InMemory : e > caller.cover

(* Every event that was logged leaves the queue and the buffer in the end: *)
(* the idle flush drains what the last burst left behind.                  *)
EventuallySettled ==
  disk = "sound" =>
    \A e \in 1..MaxEvents : logged >= e ~> (e \notin InMemory \/ caller.at = "gaveup")
=============================================================================
