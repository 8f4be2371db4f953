------------------------------ MODULE NotifyQueue ------------------------------
(***************************************************************************)
(* The durable notification queue: hooks append events to JSONL segments,  *)
(* a worker reads them behind a cursor, dispatches them and appends a      *)
(* retry for what failed.  Every append and every move of the cursor is    *)
(* made under queue.lock; the dispatch is not.  Workers exclude each other *)
(* by a lease on the directory, so there is one.  Enqueuers and the worker *)
(* may be killed at any point: in the middle of an append, which leaves a  *)
(* torn tail, and between the append of an outcome and the cursor's move.  *)
(* Abstracted: an event is its dedupe key, a segment is full by its number *)
(* of records, and a retry may be due at any time.                         *)
(***************************************************************************)
EXTENDS Integers, Sequences, FiniteSets

CONSTANTS Events,         \* notifications, by dedupe key
          None,
          MaxRecords,     \* MAX_SEGMENT_RECORDS
          MaxSegments,    \* MAX_QUEUE_SEGMENTS
          MaxAttempts,    \* max_attempts of every record
          ScanLimit,      \* MAX_DEDUPE_SCAN_BYTES, as a number of records
          Tears,          \* what a killed append may leave: "partial", "whole"
          MaxAppends,     \* bound: how often an event is appended anew
          MaxCrashes      \* bound: enqueuers and workers killed

ASSUME NoneAssumption == None \notin Events
ASSUME TailAssumption == {"clean", "partial"} \cap Events = {}
ASSUME SizeAssumption == MaxRecords \in Nat \ {0} /\ MaxSegments \in Nat \ {0, 1}
ASSUME AttemptsAssumption == MaxAttempts \in Nat \ {0} /\ ScanLimit \in Nat
ASSUME TearsAssumption == Tears \subseteq {"partial", "whole"}
ASSUME BoundAssumption == MaxAppends \in Nat /\ MaxCrashes \in Nat

VARIABLES
  queue,        \* the segment files: segment number -> complete records
  tail,         \* bytes past the last newline: "clean", "partial", or an event
                \* whose whole body is there, without its newline
  cursor,       \* cursor.json
  dead,         \* events in the dead-letter segments
  worker,       \* [pc, at, ok]: the worker, the position it read, its outcome
  accepted,     \* history: events that an enqueuer was told are in the queue
  settled,      \* history: events delivered or dead since they were last appended
  sent,         \* history: how often each event was dispatched
  appends,      \* history: how often each event was appended by an enqueuer
  crashes

files == <<queue, tail, cursor, dead>>
history == <<accepted, settled, sent, appends>>
vars == <<files, worker, history, crashes>>

Record == [event : Events, attempt : 0..(MaxAttempts - 1)]
Position == [segment : Nat \ {0}, offset : Nat]
Idle == [pc |-> "idle", at |-> None, ok |-> FALSE]

Segments == DOMAIN queue

TypeOK ==
  /\ Segments \subseteq Nat \ {0}
  /\ Cardinality(Segments) <= MaxSegments
  /\ \A s \in Segments : queue[s] \in Seq(Record) /\ Len(queue[s]) <= MaxRecords
  /\ tail \in {"clean", "partial"} \cup Events
  /\ [segment |-> cursor.segment, offset |-> cursor.offset] \in Position
  /\ cursor.segment \in Segments => cursor.offset <= Len(queue[cursor.segment])
  /\ cursor.last \in Events \cup {None}
  /\ dead \subseteq Events
  /\ worker.pc \in {"idle", "dispatch", "settle"} /\ worker.ok \in BOOLEAN
  /\ worker.pc # "idle" => worker.at \in Position
  /\ accepted \subseteq Events /\ settled \subseteq Events
  /\ sent \in [Events -> Nat] /\ appends \in [Events -> 0..MaxAppends]
  /\ crashes \in 0..MaxCrashes

Init ==
  /\ queue = <<>>
  /\ tail = "clean"
  /\ cursor = [segment |-> 1, offset |-> 0, last |-> None]
  /\ dead = {}
  /\ worker = Idle
  /\ accepted = {} /\ settled = {}
  /\ sent = [e \in Events |-> 0]
  /\ appends = [e \in Events |-> 0]
  /\ crashes = 0

-----------------------------------------------------------------------------
(*                        _select_segment, _append_line                    *)

Newest == CHOOSE s \in Segments : \A t \in Segments : t <= s

(* The segment the next record goes into: a new one when the newest is full. *)
TailSegment ==
  CASE Segments = {} -> 1
    [] Segments # {} /\ Len(queue[Newest]) >= MaxRecords -> Newest + 1
    [] OTHER -> Newest

Pruned_OneTooFew ==
  {s \in Segments : TailSegment \notin Segments
                    /\ Cardinality({t \in Segments : t > s}) >= MaxSegments}

(* The oldest segments, unlinked to make room for a new one ...            *)
Pruned ==
  {s \in Segments : TailSegment \notin Segments
                    /\ Cardinality({t \in Segments : t > s}) >= MaxSegments - 1}

QueueFull_OffByOne == \E s \in Pruned : cursor.segment < s

(* ... unless the cursor has not left them.                                *)
QueueFull == \E s \in Pruned : cursor.segment <= s

Kept == [s \in Segments \ Pruned |-> queue[s]]

(* The same with the file that the append opens or creates.                *)
Opened == [s \in (Segments \ Pruned) \cup {TailSegment} |->
             IF s \in Segments THEN queue[s] ELSE <<>>]

(* The torn tail is trimmed, then the record and its newline are written.  *)
AppendLine(record) ==
  /\ queue' = [Opened EXCEPT ![TailSegment] = Append(@, record)]
  /\ tail' = "clean"

(* Killed before the write, or in the middle of it.                        *)
AppendTorn(record) ==
  /\ \/ queue' = Kept /\ tail' = "clean"
     \/ queue' = Opened /\ tail' = "clean"
     \/ "partial" \in Tears /\ queue' = Opened /\ tail' = "partial"
     \/ "whole" \in Tears /\ queue' = Opened /\ tail' = record.event

-----------------------------------------------------------------------------
(*                           enqueue_notification                          *)

Positions == {p \in Segments \X (1..MaxRecords) : p[2] <= Len(queue[p[1]])}
After(p) == {q \in Positions : q[1] > p[1] \/ (q[1] = p[1] /\ q[2] > p[2])}

_known_dedupe_CursorOnly(e) == cursor.last = e

(* The dedupe key of the record at the cursor, then those of the newest    *)
(* records; the scan splits lines, so a tail without its newline counts.   *)
_known_dedupe(e) ==
  \/ cursor.last = e
  \/ tail = e
  \/ \E p \in Positions : queue[p[1]][p[2]].event = e /\ Cardinality(After(p)) < ScanLimit

Appending(e) ==
  /\ ~_known_dedupe(e)
  /\ ~QueueFull
  /\ appends[e] < MaxAppends

EnqueueNew(e) ==
  /\ Appending(e)
  /\ AppendLine([event |-> e, attempt |-> 0])
  /\ appends' = [appends EXCEPT ![e] = @ + 1]
  /\ settled' = settled \ {e}

(* An event that is known, or finds the queue full, changes nothing; only  *)
(* the first is told that the event is there.                              *)
Enqueue(e) ==
  /\ \/ EnqueueNew(e)
     \/ _known_dedupe(e) /\ UNCHANGED <<queue, tail, appends, settled>>
  /\ accepted' = accepted \cup {e}
  /\ UNCHANGED <<cursor, dead, worker, sent, crashes>>

(* Killed, or out of space, before the append, in it, or right after.      *)
EnqueueKilled(e) ==
  /\ crashes < MaxCrashes
  /\ crashes' = crashes + 1
  /\ \/ EnqueueNew(e)
     \/ /\ Appending(e)
        /\ AppendTorn([event |-> e, attempt |-> 0])
        /\ UNCHANGED <<appends, settled>>
  /\ UNCHANGED <<cursor, dead, worker, accepted, sent>>

-----------------------------------------------------------------------------
(*                        process_notification_queue                       *)

Unread(s) == IF s = cursor.segment THEN Len(queue[s]) - cursor.offset ELSE Len(queue[s])

UnreadSegments_SameOnly == {s \in Segments : s = cursor.segment /\ Unread(s) > 0}

(* The segments at or past the cursor with records not yet consumed; the   *)
(* first of them holds the next record.                                    *)
UnreadSegments == {s \in Segments : s >= cursor.segment /\ Unread(s) > 0}

NextPosition ==
  LET s == CHOOSE t \in UnreadSegments : \A u \in UnreadSegments : t <= u
  IN  [segment |-> s, offset |-> Len(queue[s]) - Unread(s) + 1]

Current == queue[worker.at.segment][worker.at.offset]

(* _next_record, under the lock.  A first attempt that repeats the event   *)
(* the cursor stands on is consumed without a dispatch.                    *)
Read ==
  /\ worker.pc = "idle"
  /\ UnreadSegments # {}
  /\ LET at == NextPosition
         record == queue[at.segment][at.offset]
         duplicate == record.attempt = 0 /\ cursor.last = record.event
     IN  worker' = [pc |-> IF duplicate THEN "settle" ELSE "dispatch",
                    at |-> at, ok |-> duplicate]
  /\ UNCHANGED <<files, history, crashes>>

Dispatch ==
  /\ worker.pc = "dispatch"
  /\ sent' = [sent EXCEPT ![Current.event] = @ + 1]
  /\ \/ /\ worker' = [worker EXCEPT !.pc = "settle", !.ok = TRUE]
        /\ settled' = settled \cup {Current.event}
     \/ /\ worker' = [worker EXCEPT !.pc = "settle", !.ok = FALSE]
        /\ UNCHANGED settled
  /\ UNCHANGED <<files, accepted, appends, crashes>>

RetryOf(record) == [record EXCEPT !.attempt = @ + 1]

Retries == ~worker.ok /\ Current.attempt + 1 < MaxAttempts /\ ~QueueFull

(* The outcome is made durable: nothing, a retry at the end of the queue,  *)
(* or a dead letter when attempts or queue are exhausted.                  *)
Outcome ==
  \/ /\ worker.ok
     /\ UNCHANGED <<queue, tail, dead, settled>>
  \/ /\ Retries
     /\ AppendLine(RetryOf(Current))
     /\ UNCHANGED <<dead, settled>>
  \/ /\ ~worker.ok /\ ~Retries
     /\ dead' = dead \cup {Current.event}
     /\ settled' = settled \cup {Current.event}
     /\ UNCHANGED <<queue, tail>>

(* Then the cursor moves past the record, in the same section.             *)
Settle ==
  /\ worker.pc = "settle"
  /\ Outcome
  /\ cursor' = [segment |-> worker.at.segment, offset |-> worker.at.offset,
                last |-> Current.event]
  /\ worker' = Idle
  /\ UNCHANGED <<accepted, sent, appends, crashes>>

WorkerKilled ==
  /\ worker.pc # "idle"
  /\ crashes < MaxCrashes
  /\ crashes' = crashes + 1
  /\ worker' = Idle
  /\ \/ UNCHANGED <<queue, tail, dead, settled>>
     \/ worker.pc = "settle" /\ Outcome
     \/ worker.pc = "settle" /\ Retries /\ AppendTorn(RetryOf(Current))
        /\ UNCHANGED <<dead, settled>>
  /\ UNCHANGED <<cursor, accepted, sent, appends>>

-----------------------------------------------------------------------------
Next ==
  \/ \E e \in Events : Enqueue(e) \/ EnqueueKilled(e)
  \/ Read \/ Dispatch \/ Settle \/ WorkerKilled

Spec == Init /\ [][Next]_vars

(* `omg notify process` is run again and again.                            *)
FairSpec == Spec /\ WF_vars(Read \/ Dispatch \/ Settle)

-----------------------------------------------------------------------------
Pending(e) ==
  \E s \in UnreadSegments : \E i \in 1..Len(queue[s]) :
    i > Len(queue[s]) - Unread(s) /\ queue[s][i].event = e

(* A notification that was accepted is never dropped: it waits past the    *)
(* cursor, or it was delivered or dead-lettered, whoever was killed when,  *)
(* and although old segments are unlinked to make room.                    *)
NothingLost == \A e \in accepted : Pending(e) \/ e \in settled

(* As long as no process was killed, what was delivered or given up is not *)
(* dispatched again (delivery is at least once across a kill).             *)
NotSentAgain == [][crashes = 0 => \A e \in settled : sent'[e] = sent[e]]_vars

(* Every accepted notification is delivered or dead-lettered.              *)
EverythingSettles == \A e \in Events : (e \in accepted) ~> (e \in settled)
===============================================================================
