--------------------------- MODULE NotifyQueueProofs ---------------------------
(***************************************************************************)
(* No accepted notification is lost, and none is sent again before a kill, *)
(* for any number of events, enqueuers, attempts and kills, for segments   *)
(* of any size and any number of them.  Nothing is lost if the scan for    *)
(* duplicates sees at least the newest record and an append is not torn    *)
(* between the end of its body and its newline; nothing is sent again      *)
(* while the records that wait fit in the scan.                            *)
(***************************************************************************)
EXTENDS NotifyQueue, FiniteSetTheorems, WellFoundedInduction, TLAPS

Scanned == ScanLimit >= 1 /\ "whole" \notin Tears

RecordAt(p) == queue[p[1]][p[2]]

Beyond(p, q) == q[1] > p[1] \/ (q[1] = p[1] /\ q[2] > p[2])

(* Where the cursor and the worker stand, and the records not consumed.    *)
Cur == <<cursor.segment, cursor.offset>>
At == <<worker.at.segment, worker.at.offset>>
Waiting == {p \in Positions : Beyond(Cur, p)}

Adjacent(p, q) == q \in After(p) /\ \A r \in After(p) : q \notin After(r)

-----------------------------------------------------------------------------
(* The segments are numbered without a gap.                                *)
SegmentsInv ==
  /\ \A s \in Segments : queue[s] \in Seq(Record) /\ Len(queue[s]) <= MaxRecords
  /\ \/ Segments = {}
     \/ \E a, b \in Nat \ {0} : a <= b /\ b - a < MaxSegments /\ Segments = a..b

(* The cursor stands on a record of the queue once it has moved.           *)
CursorInv ==
  \/ cursor = [segment |-> 1, offset |-> 0, last |-> None]
  \/ Cur \in Positions /\ cursor.last = RecordAt(Cur).event

(* The worker is at the first waiting record.                              *)
PlaceInv ==
  worker.pc # "idle" => At \in Waiting /\ \A q \in Waiting : q = At \/ Beyond(At, q)

(* The types of what is not the queue.                                     *)
RestType ==
  /\ tail \in {"clean", "partial"} \cup Events
  /\ cursor \in [segment : Nat \ {0}, offset : Nat, last : Events \cup {None}]
  /\ dead \subseteq Events
  /\ worker \in [pc : {"idle", "dispatch", "settle"}, at : Position \cup {None}, ok : BOOLEAN]
  /\ worker.pc # "idle" => worker.at \in Position
  /\ accepted \subseteq Events /\ settled \subseteq Events
  /\ sent \in [Events -> Nat] /\ appends \in [Events -> 0..MaxAppends]
  /\ crashes \in 0..MaxCrashes

TypeInv == SegmentsInv /\ RestType /\ CursorInv /\ PlaceInv

(* No append was torn right before its newline.                            *)
TailInv == tail \in {"clean", "partial"}

(* A first attempt is never appended right behind a record of its event.   *)
FreshInv ==
  \A p, q \in Positions :
    Adjacent(p, q) /\ RecordAt(q).attempt = 0 => RecordAt(p).event # RecordAt(q).event

(* What the worker delivered is settled, or was enqueued again since.      *)
DeliveredInv ==
  worker.ok => /\ worker.pc = "settle"
               /\ \/ Current.event \in settled
                  \/ \E q \in Waiting : q # At /\ RecordAt(q).event = Current.event

(* An event that was accepted, or that the queue remembers, is settled or  *)
(* waits.                                                                  *)
KeptInv ==
  \A e \in Events :
    (e \in accepted \/ \E p \in Positions : RecordAt(p).event = e)
      => e \in settled \/ \E q \in Waiting : RecordAt(q).event = e

QueueInv == TypeInv /\ TailInv /\ FreshInv /\ DeliveredInv /\ KeptInv

-----------------------------------------------------------------------------
LEMMA LeastExists ==
  ASSUME NEW S, S \subseteq Nat, S # {}
  PROVE  \E x \in S : \A y \in S : x <= y
  <1>1. PICK x \in S : \A y \in S : ~(<<y, x>> \in OpToRel(<, Nat))
    BY NatLessThanWellFounded, WFMin
  <1>2. \A m, n \in Nat : n < m => <<n, m>> \in OpToRel(<, Nat)
    BY DEF OpToRel
  <1>3. ASSUME NEW y \in S PROVE x <= y
    <2>1. x \in Nat /\ y \in Nat /\ ~(y < x)
      BY <1>1, <1>2, <1>3
    <2> QED BY <2>1
  <1> QED BY <1>3

(* Where the next record goes, and what is unlinked to make room.          *)
LEMMA Rotation ==
  ASSUME SegmentsInv
  PROVE  /\ TailSegment \in Nat \ {0} /\ TailSegment \notin Pruned
         /\ Segments \subseteq Nat \ {0} /\ \A s \in Segments : s <= TailSegment
         /\ TailSegment \in Segments => Len(queue[TailSegment]) < MaxRecords
         /\ TailSegment \notin Segments /\ Segments # {} =>
              /\ TailSegment - 1 \in Segments \ Pruned
              /\ Len(queue[TailSegment - 1]) = MaxRecords
         /\ \A s \in Pruned, t \in Segments : t <= s => t \in Pruned
         /\ \E a, b \in Nat \ {0} : /\ a <= b /\ b - a < MaxSegments
                                    /\ (Segments \ Pruned) \cup {TailSegment} = a..b
         /\ \/ Segments \ Pruned = {}
            \/ \E a, b \in Nat \ {0} : /\ a <= b /\ b - a < MaxSegments
                                       /\ Segments \ Pruned = a..b
  <1>1. CASE Segments = {}
    <2>1. TailSegment = 1 /\ Pruned = {}
      BY <1>1 DEF TailSegment, Pruned
    <2>2. {1} = 1..1 /\ 1 - 1 < MaxSegments
      BY SizeAssumption
    <2> QED BY <1>1, <2>1, <2>2
  <1>2. CASE Segments # {}
    <2>1. PICK a, b \in Nat \ {0} : a <= b /\ b - a < MaxSegments /\ Segments = a..b
      BY <1>2 DEF SegmentsInv
    <2>2. Newest = b
      <3>1. b \in Segments /\ \A t \in Segments : t <= b
        BY <2>1
      <3>2. \A s \in Segments : (\A t \in Segments : t <= s) => s = b
        BY <2>1
      <3> QED BY <3>1, <3>2 DEF Newest
    <2>3. Len(queue[b]) \in Nat /\ Len(queue[b]) <= MaxRecords
      BY <2>1 DEF SegmentsInv
    <2>4. CASE Len(queue[b]) < MaxRecords
      <3>1. TailSegment = b
        BY <1>2, <2>2, <2>3, <2>4, SizeAssumption DEF TailSegment
      <3>2. Pruned = {}
        BY <2>1, <3>1 DEF Pruned
      <3>3. (Segments \ Pruned) \cup {TailSegment} = a..b /\ Segments \ Pruned = a..b
        BY <2>1, <3>1, <3>2
      <3> QED BY <1>2, <2>1, <2>4, <3>1, <3>2, <3>3
    <2>5. CASE Len(queue[b]) = MaxRecords
      <3>1. TailSegment = b + 1
        BY <1>2, <2>2, <2>5, SizeAssumption DEF TailSegment
      <3>2. \A s \in a..b : Cardinality({t \in a..b : t > s}) = b - s
        <4>1. SUFFICES ASSUME NEW s \in a..b
                       PROVE  Cardinality({t \in a..b : t > s}) = b - s
          OBVIOUS
        <4>2. {t \in a..b : t > s} = (s + 1)..b
          BY <2>1
        <4>3. Cardinality((s + 1)..b) = IF s + 1 > b THEN 0 ELSE b - (s + 1) + 1
          BY <2>1, FS_Interval
        <4>4. s \in Int /\ a <= s /\ s <= b
          BY <2>1
        <4>5. (IF s + 1 > b THEN 0 ELSE b - (s + 1) + 1) = b - s
          BY <2>1, <4>4
        <4> QED BY <4>2, <4>3, <4>5
      <3>3. Pruned = {s \in a..b : b - s >= MaxSegments - 1}
        BY <2>1, <3>1, <3>2 DEF Pruned
      <3>4. CASE b - a < MaxSegments - 1
        <4>1. Pruned = {}
          BY <2>1, <3>3, <3>4, SizeAssumption
        <4>2. (Segments \ Pruned) \cup {b + 1} = a..(b + 1) /\ Segments \ Pruned = a..b
          BY <2>1, <4>1
        <4>3. (b + 1) - a < MaxSegments /\ b + 1 \in Nat \ {0} /\ a <= b + 1 /\ b + 1 \notin a..b
          BY <2>1, <3>4, SizeAssumption
        <4> QED BY <1>2, <2>1, <2>5, <3>1, <4>1, <4>2, <4>3
      <3>5. CASE b - a = MaxSegments - 1
        <4>1. Pruned = {a} /\ a < b
          BY <2>1, <3>3, <3>5, SizeAssumption
        <4>2. (Segments \ Pruned) \cup {b + 1} = (a + 1)..(b + 1) /\ Segments \ Pruned = (a + 1)..b
          BY <2>1, <4>1
        <4>3. /\ (b + 1) - (a + 1) < MaxSegments /\ b + 1 \in Nat \ {0} /\ a + 1 \in Nat \ {0}
              /\ a + 1 <= b /\ a + 1 <= b + 1 /\ b - (a + 1) < MaxSegments
              /\ b + 1 \notin a..b /\ b \in Segments \ Pruned
          BY <2>1, <3>5, <4>1, SizeAssumption
        <4> QED BY <1>2, <2>1, <2>5, <3>1, <4>1, <4>2, <4>3
      <3>6. b - a < MaxSegments - 1 \/ b - a = MaxSegments - 1
        BY <2>1, SizeAssumption
      <3> QED BY <3>4, <3>5, <3>6
    <2>6. Len(queue[b]) < MaxRecords \/ Len(queue[b]) = MaxRecords
      BY <2>3, SizeAssumption
    <2> QED BY <2>4, <2>5, <2>6
  <1> QED BY <1>1, <1>2

-----------------------------------------------------------------------------
(* What an append leaves of the queue: the segments it did not prune, each *)
(* with its records, and perhaps a new last record.                        *)
KeptPositions == {p \in Positions : p[1] \notin Pruned}

LEMMA PositionIs ==
  ASSUME SegmentsInv, NEW p \in Positions
  PROVE  /\ p = <<p[1], p[2]>> /\ p[1] \in Segments /\ p[1] \in Nat \ {0} /\ p[2] \in Nat \ {0}
         /\ p[2] <= Len(queue[p[1]]) /\ RecordAt(p) \in Record
  <1>1. p \in Segments \X (1..MaxRecords) /\ p[2] <= Len(queue[p[1]])
    BY DEF Positions
  <1>2. queue[p[1]] \in Seq(Record)
    BY <1>1 DEF SegmentsInv
  <1>3. Segments \subseteq Nat \ {0}
    BY Rotation
  <1>4. p[2] \in 1..Len(queue[p[1]])
    BY <1>1, <1>2
  <1>5. RecordAt(p) \in Record
    <2>1. \A q \in Seq(Record) : \A i \in 1..Len(q) : q[i] \in Record
      OBVIOUS
    <2> QED BY <1>2, <1>4, <2>1 DEF RecordAt
  <1>6. p = <<p[1], p[2]>> /\ p[1] \in Segments /\ p[2] \in 1..MaxRecords
    BY <1>1
  <1>7. p[2] \in Nat \ {0}
    BY <1>6, SizeAssumption
  <1> QED BY <1>1, <1>3, <1>5, <1>6, <1>7

LEMMA IsPosition ==
  ASSUME SegmentsInv, NEW s \in Segments, NEW i \in 1..Len(queue[s])
  PROVE  <<s, i>> \in Positions
  BY SizeAssumption DEF Positions, SegmentsInv

LEMMA OpenedIs ==
  ASSUME SegmentsInv
  PROVE  /\ DOMAIN Opened = (Segments \ Pruned) \cup {TailSegment}
         /\ \A s \in Segments \ Pruned : Opened[s] = queue[s]
         /\ TailSegment \notin Segments => Opened[TailSegment] = <<>>
         /\ \A s \in DOMAIN Opened : Opened[s] \in Seq(Record) /\ Len(Opened[s]) <= MaxRecords
         /\ Len(Opened[TailSegment]) < MaxRecords
  <1>1. DOMAIN Opened = (Segments \ Pruned) \cup {TailSegment}
    BY DEF Opened
  <1>2. \A s \in Segments \ Pruned : Opened[s] = queue[s]
    BY DEF Opened
  <1>3. TailSegment \notin Segments => Opened[TailSegment] = <<>>
    BY DEF Opened
  <1>4. TailSegment \in Segments => TailSegment \in Segments \ Pruned
                                    /\ Len(queue[TailSegment]) < MaxRecords
    BY Rotation
  <1> DEFINE empty == <<>>
  <1>5. empty \in Seq(Record) /\ Len(empty) < MaxRecords /\ Len(empty) <= MaxRecords
    BY SizeAssumption
  <1>6. TailSegment \notin Segments => Opened[TailSegment] = empty
    BY <1>3
  <1> HIDE DEF empty
  <1>7. Len(Opened[TailSegment]) < MaxRecords
    BY <1>2, <1>4, <1>5, <1>6
  <1>8. \A s \in DOMAIN Opened : Opened[s] \in Seq(Record) /\ Len(Opened[s]) <= MaxRecords
    <2>1. \A s \in Segments \ Pruned : Opened[s] \in Seq(Record) /\ Len(Opened[s]) <= MaxRecords
      BY <1>2 DEF SegmentsInv
    <2>2. CASE TailSegment \in Segments
      BY <1>1, <1>4, <2>1, <2>2
    <2>3. CASE TailSegment \notin Segments
      <3>1. Opened[TailSegment] \in Seq(Record) /\ Len(Opened[TailSegment]) <= MaxRecords
        BY <1>5, <1>6, <2>3
      <3> QED BY <1>1, <2>1, <3>1
    <2> QED BY <2>2, <2>3
  <1> QED BY <1>1, <1>2, <1>3, <1>7, <1>8

LEMMA Appended ==
  ASSUME SegmentsInv, NEW record \in Record, AppendLine(record)
  PROVE  /\ SegmentsInv'
         /\ \A p \in KeptPositions : queue'[p[1]][p[2]] = RecordAt(p)
         /\ \E n : /\ Positions' = KeptPositions \cup {n}
                   /\ queue'[n[1]][n[2]] = record
                   /\ n \in (Nat \ {0}) \X (Nat \ {0})
                   /\ \A p \in Positions : Beyond(p, n)
  <1> DEFINE T == TailSegment
             L == Len(Opened[TailSegment])
             written == Append(Opened[TailSegment], record)
  <1>1. queue' = [Opened EXCEPT ![T] = written]
    BY DEF AppendLine
  <1>2. /\ T \in Nat \ {0} /\ T \notin Pruned /\ T \in DOMAIN Opened
        /\ Opened[T] \in Seq(Record) /\ L \in Nat /\ L < MaxRecords
    BY Rotation, OpenedIs
  <1>3. /\ written \in Seq(Record) /\ Len(written) = L + 1 /\ written[L + 1] = record
        /\ \A i \in 1..L : written[i] = Opened[T][i]
    BY <1>2
  <1>4. /\ DOMAIN queue' = (Segments \ Pruned) \cup {T}
        /\ queue'[T] = written
        /\ \A s \in Segments \ Pruned : s # T => queue'[s] = queue[s]
    BY <1>1, <1>2, OpenedIs DEF Opened
  <1>5. T \in Segments => Opened[T] = queue[T]
    BY <1>2, OpenedIs
  <1> HIDE DEF written
  <1>6. SegmentsInv'
    <2>1. \A s \in DOMAIN queue' : queue'[s] \in Seq(Record) /\ Len(queue'[s]) <= MaxRecords
      BY <1>2, <1>3, <1>4, SizeAssumption DEF SegmentsInv
    <2>2. \E a, b \in Nat \ {0} : a <= b /\ b - a < MaxSegments /\ DOMAIN queue' = a..b
      BY <1>4, Rotation
    <2> QED BY <2>1, <2>2 DEF SegmentsInv, Segments
  <1>7. \A p \in KeptPositions : /\ p[1] \in Segments \ Pruned /\ p[2] \in 1..Len(queue[p[1]])
                                 /\ p = <<p[1], p[2]>>
    BY PositionIs DEF KeptPositions
  <1>8. \A p \in KeptPositions : queue'[p[1]][p[2]] = RecordAt(p)
    BY <1>3, <1>4, <1>5, <1>7 DEF RecordAt
  <1>9. \A p \in Positions : Beyond(p, <<T, L + 1>>)
    <2>1. SUFFICES ASSUME NEW p \in Positions PROVE T > p[1] \/ (T = p[1] /\ L + 1 > p[2])
      BY DEF Beyond
    <2>2. p[1] \in Segments /\ p[1] \in Nat /\ p[2] \in Nat /\ p[2] <= Len(queue[p[1]]) /\ p[1] <= T
      BY PositionIs, Rotation
    <2> QED BY <1>2, <1>5, <2>2
  <1>10. Positions' = KeptPositions \cup {<<T, L + 1>>}
    <2>1. ASSUME NEW p \in Positions' PROVE p \in KeptPositions \cup {<<T, L + 1>>}
      <3>1. /\ p = <<p[1], p[2]>> /\ p[1] \in (Segments \ Pruned) \cup {T} /\ p[2] \in Nat \ {0}
            /\ p[2] <= Len(queue'[p[1]])
        BY <1>4, <2>1 DEF Positions, Segments
      <3>2. CASE p[1] # T
        BY <1>4, <3>1, <3>2, IsPosition DEF KeptPositions, SegmentsInv
      <3>3. CASE p[1] = T /\ p[2] = L + 1
        BY <3>1, <3>3
      <3>4. CASE p[1] = T /\ p[2] <= L
        <4>1. T \in Segments
          BY <1>2, <3>1, <3>4, OpenedIs
        <4>2. <<p[1], p[2]>> \in Positions
          BY <1>5, <3>1, <3>4, <4>1, IsPosition
        <4> QED BY <1>2, <3>1, <3>4, <4>2 DEF KeptPositions
      <3>5. p[1] = T => p[2] = L + 1 \/ p[2] <= L
        BY <1>2, <1>3, <1>4, <3>1
      <3> QED BY <3>2, <3>3, <3>4, <3>5
    <2>2. ASSUME NEW p \in KeptPositions \cup {<<T, L + 1>>} PROVE p \in Positions'
      <3>1. p[1] \in DOMAIN queue' /\ p[2] \in 1..Len(queue'[p[1]]) /\ p = <<p[1], p[2]>>
        <4>1. CASE p \in KeptPositions
          BY <1>2, <1>3, <1>4, <1>5, <1>7, <4>1
        <4>2. CASE p = <<T, L + 1>>
          BY <1>2, <1>3, <1>4, <4>2
        <4> QED BY <2>2, <4>1, <4>2
      <3>2. Len(queue'[p[1]]) <= MaxRecords /\ Len(queue'[p[1]]) \in Nat
        BY <1>6, <3>1 DEF SegmentsInv, Segments
      <3>3. p[2] \in 1..MaxRecords
        BY <3>1, <3>2, SizeAssumption
      <3> QED BY <3>1, <3>3 DEF Positions, Segments
    <2> QED BY <2>1, <2>2
  <1>11. <<T, L + 1>> \in (Nat \ {0}) \X (Nat \ {0})
    BY <1>2
  <1> QED BY <1>3, <1>4, <1>6, <1>8, <1>9, <1>10, <1>11

LEMMA Torn ==
  ASSUME SegmentsInv, NEW record, AppendTorn(record)
  PROVE  /\ SegmentsInv' /\ Positions' = KeptPositions
         /\ tail' \in {"clean", "partial", record.event}
         /\ "whole" \notin Tears => tail' \in {"clean", "partial"}
         /\ \A p \in KeptPositions : queue'[p[1]][p[2]] = RecordAt(p)
  <1>1. /\ queue' = Kept \/ queue' = Opened
        /\ tail' \in {"clean", "partial", record.event}
        /\ "whole" \notin Tears => tail' \in {"clean", "partial"}
    BY DEF AppendTorn
  <1>2. /\ Segments \ Pruned \subseteq DOMAIN queue'
        /\ DOMAIN queue' \in {Segments \ Pruned, (Segments \ Pruned) \cup {TailSegment}}
        /\ \A s \in Segments \ Pruned : queue'[s] = queue[s]
        /\ \A s \in DOMAIN queue' : queue'[s] \in Seq(Record) /\ Len(queue'[s]) <= MaxRecords
        /\ \A s \in DOMAIN queue' : s \notin Segments \ Pruned => queue'[s] = <<>>
    <2>1. CASE queue' = Kept
      BY <2>1 DEF Kept, SegmentsInv
    <2>2. CASE queue' = Opened
      <3>1. TailSegment \notin Pruned
        BY Rotation
      <3> QED BY <2>2, <3>1, OpenedIs
    <2> QED BY <1>1, <2>1, <2>2
  <1>3. SegmentsInv'
    BY <1>2, Rotation DEF SegmentsInv, Segments
  <1>4. Positions' = KeptPositions
    BY <1>2 DEF Positions, KeptPositions, Segments
  <1>5. \A p \in KeptPositions : queue'[p[1]][p[2]] = RecordAt(p)
    BY <1>2, PositionIs DEF KeptPositions, RecordAt
  <1> QED BY <1>1, <1>3, <1>4, <1>5

-----------------------------------------------------------------------------
(* A step loses old records that the cursor has left, and appends one.     *)
Grows(gone, new) ==
  /\ SegmentsInv'
  /\ Positions' = (Positions \ gone) \cup new
  /\ \A p \in Positions \ gone : queue'[p[1]][p[2]] = RecordAt(p)
  /\ \A p \in gone, q \in Positions : q \in gone \/ Beyond(p, q)
  /\ \A p \in gone : p[1] < cursor.segment
  /\ \A p \in Positions, n \in new : Beyond(p, n)
  /\ \A m, n \in new : m = n
  /\ new \subseteq (Nat \ {0}) \X (Nat \ {0})

LEMMA Unlinked ==
  ASSUME SegmentsInv, RestType, ~QueueFull
  PROVE  \E gone : /\ KeptPositions = Positions \ gone
                   /\ \A p \in gone, q \in Positions : q \in gone \/ Beyond(p, q)
                   /\ \A p \in gone : p[1] < cursor.segment
  <1> DEFINE gone == {p \in Positions : p[1] \in Pruned}
  <1>1. KeptPositions = Positions \ gone
    BY DEF KeptPositions
  <1>2. ASSUME NEW p \in gone, NEW q \in Positions PROVE q \in gone \/ Beyond(p, q)
    <2>1. /\ p[1] \in Pruned /\ p[1] \in Nat /\ q[1] \in Nat /\ q[1] \in Segments
          /\ q[1] <= p[1] => q[1] \in Pruned
      BY PositionIs, Rotation
    <2> QED BY <2>1 DEF Beyond
  <1>3. ASSUME NEW p \in gone PROVE p[1] < cursor.segment
    <2>1. p[1] \in Pruned /\ p[1] \in Nat /\ cursor.segment \in Nat
      BY PositionIs DEF RestType
    <2> QED BY <2>1 DEF QueueFull
  <1> QED BY <1>1, <1>2, <1>3

LEMMA AppendGrows ==
  ASSUME SegmentsInv, RestType, ~QueueFull, NEW record \in Record, AppendLine(record)
  PROVE  \E gone, n : Grows(gone, {n}) /\ queue'[n[1]][n[2]] = record
  <1>1. PICK gone : /\ KeptPositions = Positions \ gone
                    /\ \A p \in gone, q \in Positions : q \in gone \/ Beyond(p, q)
                    /\ \A p \in gone : p[1] < cursor.segment
    BY Unlinked
  <1>2. PICK n : /\ Positions' = KeptPositions \cup {n}
                 /\ queue'[n[1]][n[2]] = record
                 /\ n \in (Nat \ {0}) \X (Nat \ {0})
                 /\ \A p \in Positions : Beyond(p, n)
    BY Appended
  <1>3. Grows(gone, {n})
    BY <1>1, <1>2, Appended DEF Grows
  <1> QED BY <1>2, <1>3

LEMMA TornGrows ==
  ASSUME SegmentsInv, RestType, ~QueueFull, NEW record, AppendTorn(record)
  PROVE  \E gone : Grows(gone, {})
  <1>1. PICK gone : /\ KeptPositions = Positions \ gone
                    /\ \A p \in gone, q \in Positions : q \in gone \/ Beyond(p, q)
                    /\ \A p \in gone : p[1] < cursor.segment
    BY Unlinked
  <1>2. Grows(gone, {})
    BY <1>1, Torn DEF Grows
  <1> QED BY <1>2

LEMMA SameGrows ==
  ASSUME SegmentsInv, UNCHANGED queue
  PROVE  Grows({}, {})
  <1>1. SegmentsInv' /\ Positions' = Positions
    BY DEF SegmentsInv, Segments, Positions
  <1> QED BY <1>1 DEF Grows, RecordAt

LEMMA BeyondOrder ==
  ASSUME NEW p, NEW q, NEW r, p[1] \in Nat, p[2] \in Nat, q[1] \in Nat, q[2] \in Nat,
         r[1] \in Nat, r[2] \in Nat
  PROVE  /\ ~(Beyond(p, q) /\ Beyond(q, p))
         /\ ~Beyond(p, p)
         /\ Beyond(p, q) /\ Beyond(q, r) => Beyond(p, r)
  BY DEF Beyond

LEMMA AfterIs ==
  ASSUME NEW p
  PROVE  After(p) = {q \in Positions : Beyond(p, q)}
  BY DEF After, Beyond

(* Nothing that waits is lost while the cursor stays.                      *)
LEMMA WaitingGrows ==
  ASSUME TypeInv, NEW gone, NEW new, Grows(gone, new), UNCHANGED cursor
  PROVE  /\ Waiting' = Waiting \cup new /\ Waiting \cap gone = {}
         /\ \A q \in Waiting : RecordAt(q)' = RecordAt(q)
         /\ CursorInv'
  <1>0. cursor \in [segment : Nat \ {0}, offset : Nat, last : Events \cup {None}]
    BY DEF TypeInv, RestType
  <1>1. \A q \in Positions : q[1] \in Nat \ {0} /\ q[2] \in Nat \ {0}
    BY PositionIs DEF TypeInv
  <1>2. \A q \in Waiting : q \in Positions \ gone
    BY <1>0, <1>1 DEF Waiting, Beyond, Cur, Grows
  <1>3. \A n \in new : Beyond(Cur, n)
    <2>1. CASE cursor = [segment |-> 1, offset |-> 0, last |-> None]
      BY <2>1 DEF Beyond, Cur, Grows
    <2>2. CASE Cur \in Positions
      BY <2>2 DEF Grows
    <2> QED BY <2>1, <2>2 DEF TypeInv, CursorInv
  <1>4. Waiting' = Waiting \cup new
    BY <1>2, <1>3 DEF Waiting, Cur, Grows
  <1>5. \A q \in Waiting : RecordAt(q)' = RecordAt(q)
    BY <1>2 DEF Grows, RecordAt
  <1>6. CursorInv'
    <2>1. CASE cursor = [segment |-> 1, offset |-> 0, last |-> None]
      BY <2>1 DEF CursorInv
    <2>2. CASE Cur \in Positions /\ cursor.last = RecordAt(Cur).event
      <3>1. Cur \notin gone
        BY <1>0 DEF Cur, Grows
      <3> QED BY <2>2, <3>1 DEF CursorInv, Grows, Cur, RecordAt
    <2> QED BY <2>1, <2>2 DEF TypeInv, CursorInv
  <1> QED BY <1>2, <1>4, <1>5, <1>6

LEMMA PlaceStays ==
  ASSUME TypeInv, NEW gone, NEW new, Grows(gone, new), UNCHANGED cursor,
         worker.pc # "idle", worker'.at = worker.at
  PROVE  /\ PlaceInv' /\ At \in Waiting /\ At \in Waiting'
         /\ Current' = Current /\ Current = RecordAt(At)
  <1>1. At \in Waiting /\ \A q \in Waiting : q = At \/ Beyond(At, q)
    BY DEF TypeInv, PlaceInv
  <1>2. Waiting' = Waiting \cup new /\ \A n \in new : Beyond(At, n)
    BY <1>1, WaitingGrows DEF Grows, Waiting
  <1>3. At' = At
    BY DEF At
  <1>4. PlaceInv'
    BY <1>1, <1>2, <1>3 DEF PlaceInv
  <1>5. Current = RecordAt(At)
    BY DEF Current, RecordAt, At
  <1>6. Current' = Current
    BY <1>1, <1>5, WaitingGrows DEF Current, RecordAt, At
  <1> QED BY <1>1, <1>2, <1>4, <1>5, <1>6

(* The worker's record is the first that waits; consuming it, it is the    *)
(* one that does not wait any more.                                        *)
LEMMA CursorMoves ==
  ASSUME TypeInv, NEW gone, NEW new, Grows(gone, new), worker.pc # "idle",
         cursor' = [segment |-> worker.at.segment, offset |-> worker.at.offset,
                    last |-> Current.event]
  PROVE  /\ CursorInv' /\ At \in Waiting /\ Waiting' = (Waiting \ {At}) \cup new
         /\ \A q \in Waiting : RecordAt(q)' = RecordAt(q)
         /\ Current = RecordAt(At)
  <1>0. cursor \in [segment : Nat \ {0}, offset : Nat, last : Events \cup {None}]
    BY DEF TypeInv, RestType
  <1>1. At \in Waiting /\ \A q \in Waiting : q = At \/ Beyond(At, q)
    BY DEF TypeInv, PlaceInv
  <1>2. \A q \in Positions : q[1] \in Nat \ {0} /\ q[2] \in Nat \ {0}
    BY PositionIs DEF TypeInv
  <1>3. \A q \in Waiting : q \in Positions \ gone
    BY <1>0, <1>2 DEF Waiting, Beyond, Cur, Grows
  <1>4. Cur' = At
    BY DEF Cur, At
  <1>5. \A q \in Positions : Beyond(At, q) => q \in Waiting
    <2>1. SUFFICES ASSUME NEW q \in Positions, Beyond(At, q) PROVE Beyond(Cur, q)
      BY DEF Waiting
    <2>2. Beyond(Cur, At) /\ At[1] \in Nat /\ At[2] \in Nat
      BY <1>1, <1>2 DEF Waiting
    <2>3. Cur[1] \in Nat /\ Cur[2] \in Nat
      BY <1>0 DEF Cur
    <2>4. q[1] \in Nat /\ q[2] \in Nat
      BY <1>2
    <2> QED BY <2>1, <2>2, <2>3, <2>4, BeyondOrder
  <1>6. ~Beyond(At, At) /\ \A n \in new : Beyond(At, n)
    BY <1>1, <1>2, BeyondOrder DEF Waiting, Grows
  <1>7. Waiting' = (Waiting \ {At}) \cup new
    <2>1. Waiting' = {p \in Positions' : Beyond(At, p)}
      BY <1>4 DEF Waiting
    <2> QED BY <1>1, <1>3, <1>5, <1>6, <2>1 DEF Grows
  <1>8. \A q \in Waiting : RecordAt(q)' = RecordAt(q)
    BY <1>3 DEF Grows, RecordAt
  <1>9. Current = RecordAt(At)
    BY DEF Current, RecordAt, At
  <1>10. CursorInv'
    <2>1. /\ At \in Positions' /\ queue'[At[1]][At[2]] = RecordAt(At)
          /\ cursor'.last = Current.event
      BY <1>1, <1>3 DEF Grows
    <2> QED BY <1>4, <1>9, <2>1 DEF CursorInv, RecordAt
  <1> QED BY <1>1, <1>7, <1>8, <1>9, <1>10

(* The order of the records, and that none repeats the one before it.      *)
LEMMA FreshGrows ==
  ASSUME SegmentsInv, FreshInv, NEW gone, NEW new, Grows(gone, new),
         \A n \in new : queue'[n[1]][n[2]].attempt = 0 =>
           \A p \in Positions : After(p) = {} => RecordAt(p).event # queue'[n[1]][n[2]].event
  PROVE  FreshInv'
  <1>1. /\ \A q \in Positions : q[1] \in Nat /\ q[2] \in Nat
        /\ \A n \in new : n[1] \in Nat /\ n[2] \in Nat
    BY PositionIs DEF Grows
  <1>2. SUFFICES ASSUME NEW p \in Positions', NEW q \in Positions',
                        Beyond(p, q), \A r \in Positions' : Beyond(p, r) => ~Beyond(r, q),
                        queue'[q[1]][q[2]].attempt = 0
                 PROVE  queue'[p[1]][p[2]].event # queue'[q[1]][q[2]].event
    BY DEF FreshInv, Adjacent, After, Beyond, RecordAt
  <1>3. p \notin new
    <2>1. SUFFICES ASSUME p \in new PROVE FALSE
      OBVIOUS
    <2>2. CASE q \in new
      BY <1>1, <1>2, <2>1, <2>2, BeyondOrder DEF Grows
    <2>3. CASE q \in Positions
      BY <1>1, <1>2, <2>1, <2>3, BeyondOrder DEF Grows
    <2> QED BY <2>2, <2>3 DEF Grows
  <1>4. p \in Positions \ gone /\ queue'[p[1]][p[2]] = RecordAt(p)
    BY <1>3 DEF Grows
  <1>5. \A r \in Positions : Beyond(p, r) => r \in Positions'
    <2>1. SUFFICES ASSUME NEW r \in gone, r \in Positions, Beyond(p, r) PROVE FALSE
      BY DEF Grows
    <2>2. Beyond(r, p)
      BY <1>4, <2>1 DEF Grows
    <2> QED BY <1>1, <1>4, <2>1, <2>2, BeyondOrder
  <1>6. CASE q \in new
    <2>1. After(p) = {}
      BY <1>2, <1>5, <1>6, AfterIs DEF Grows
    <2> QED BY <1>2, <1>4, <1>6, <2>1
  <1>7. CASE q \in Positions \ gone
    <2>1. Adjacent(p, q)
      BY <1>2, <1>4, <1>5, <1>7, AfterIs DEF Adjacent
    <2>2. queue'[q[1]][q[2]] = RecordAt(q)
      BY <1>7 DEF Grows
    <2> QED BY <1>2, <1>4, <1>7, <2>1, <2>2 DEF FreshInv
  <1> QED BY <1>6, <1>7 DEF Grows

-----------------------------------------------------------------------------
(* The worker reads the first record that waits.                           *)
LEMMA ReadsFirst ==
  ASSUME TypeInv, UnreadSegments # {}
  PROVE  /\ NextPosition \in Position
         /\ <<NextPosition.segment, NextPosition.offset>> \in Waiting
         /\ \A q \in Waiting : \/ q = <<NextPosition.segment, NextPosition.offset>>
                               \/ Beyond(<<NextPosition.segment, NextPosition.offset>>, q)
  <1>0. /\ SegmentsInv
        /\ cursor \in [segment : Nat \ {0}, offset : Nat, last : Events \cup {None}]
    BY DEF TypeInv, RestType
  <1>1. UnreadSegments \subseteq Segments /\ Segments \subseteq Nat \ {0}
    BY <1>0, Rotation DEF UnreadSegments
  <1>2. PICK s \in UnreadSegments : \A u \in UnreadSegments : s <= u
    BY <1>1, LeastExists
  <1>3. (CHOOSE t \in UnreadSegments : \A u \in UnreadSegments : t <= u) = s
    <2>1. \A t \in UnreadSegments : (\A u \in UnreadSegments : t <= u) => t = s
      BY <1>1, <1>2
    <2> QED BY <1>2, <2>1
  <1> DEFINE i == Len(queue[s]) - Unread(s) + 1
  <1>4. NextPosition = [segment |-> s, offset |-> i]
    BY <1>3 DEF NextPosition
  <1>5. /\ s \in Segments /\ s \in Nat \ {0} /\ s >= cursor.segment /\ Unread(s) > 0
        /\ Len(queue[s]) \in Nat
    BY <1>0, <1>1 DEF UnreadSegments, SegmentsInv
  <1>6. /\ i \in 1..Len(queue[s])
        /\ s = cursor.segment => i = cursor.offset + 1
        /\ s # cursor.segment => i = 1
    BY <1>0, <1>5 DEF Unread
  <1>7. <<s, i>> \in Waiting
    <2>1. <<s, i>> \in Positions
      BY <1>0, <1>5, <1>6, IsPosition
    <2>2. Beyond(Cur, <<s, i>>)
      BY <1>0, <1>5, <1>6 DEF Beyond, Cur
    <2> QED BY <2>1, <2>2 DEF Waiting
  <1>8. \A q \in Waiting : q = <<s, i>> \/ Beyond(<<s, i>>, q)
    <2>1. SUFFICES ASSUME NEW q \in Waiting PROVE q = <<s, i>> \/ Beyond(<<s, i>>, q)
      OBVIOUS
    <2>2. /\ q = <<q[1], q[2]>> /\ q[1] \in Segments /\ q[1] \in Nat \ {0}
          /\ q[2] \in Nat \ {0} /\ q[2] <= Len(queue[q[1]]) /\ Len(queue[q[1]]) \in Nat
      BY <1>0, PositionIs DEF Waiting, SegmentsInv
    <2>3. q[1] > cursor.segment \/ (q[1] = cursor.segment /\ q[2] > cursor.offset)
      BY DEF Waiting, Beyond, Cur
    <2>4. q[1] \in UnreadSegments
      BY <1>0, <2>2, <2>3 DEF UnreadSegments, Unread
    <2>5. s <= q[1] /\ (s = q[1] => i <= q[2])
      BY <1>0, <1>2, <1>5, <1>6, <2>2, <2>3, <2>4
    <2>6. s < q[1] \/ (s = q[1] /\ i < q[2]) \/ (s = q[1] /\ i = q[2])
      BY <1>5, <1>6, <2>2, <2>5
    <2>7. CASE s = q[1] /\ i = q[2]
      BY <2>2, <2>7
    <2>8. CASE s < q[1] \/ (s = q[1] /\ i < q[2])
      BY <1>5, <1>6, <2>2, <2>8 DEF Beyond
    <2> QED BY <2>6, <2>7, <2>8
  <1>9. [segment |-> s, offset |-> i] \in Position
    BY <1>5, <1>6 DEF Position
  <1> HIDE DEF i
  <1>10. NextPosition.segment = s /\ NextPosition.offset = i
    BY <1>4
  <1> QED BY <1>4, <1>7, <1>8, <1>9, <1>10

(* What the worker makes durable of its record.                            *)
LEMMA Outcomes ==
  ASSUME TypeInv, worker.pc # "idle", Outcome
  PROVE  /\ tail' \in {"clean", tail} /\ dead' \subseteq Events
         /\ settled' \in {settled, settled \cup {Current.event}} /\ settled' \subseteq Events
         /\ \E gone, new :
              /\ Grows(gone, new)
              /\ \A n \in new : /\ queue'[n[1]][n[2]].attempt # 0
                                /\ queue'[n[1]][n[2]].event = Current.event
              /\ worker.ok \/ new # {} \/ Current.event \in settled'
  <1>1. SegmentsInv /\ RestType /\ At \in Waiting
    BY DEF TypeInv, PlaceInv
  <1>2. Current \in Record /\ Current.event \in Events /\ Current.attempt \in Nat
    <2>1. Current = RecordAt(At) /\ At \in Positions
      BY <1>1 DEF Waiting, Current, RecordAt, At
    <2>2. Current \in Record
      BY <1>1, <2>1, PositionIs
    <2> QED BY <2>2 DEF Record
  <1>3. CASE worker.ok /\ UNCHANGED <<queue, tail, dead, settled>>
    BY <1>1, <1>3, SameGrows DEF RestType
  <1>4. CASE Retries /\ AppendLine(RetryOf(Current)) /\ UNCHANGED <<dead, settled>>
    <2>1. /\ RetryOf(Current) \in Record /\ RetryOf(Current).attempt # 0
          /\ RetryOf(Current).event = Current.event
      BY <1>2, <1>4, AttemptsAssumption DEF Record, RetryOf, Retries
    <2>2. ~QueueFull /\ tail' = "clean"
      BY <1>4 DEF Retries, AppendLine
    <2>3. PICK gone, n : Grows(gone, {n}) /\ queue'[n[1]][n[2]] = RetryOf(Current)
      BY <1>1, <1>4, <2>1, <2>2, AppendGrows
    <2> QED BY <1>1, <1>4, <2>1, <2>2, <2>3 DEF RestType
  <1>5. CASE /\ ~worker.ok /\ dead' = dead \cup {Current.event}
             /\ settled' = settled \cup {Current.event} /\ UNCHANGED <<queue, tail>>
    BY <1>1, <1>2, <1>5, SameGrows DEF RestType
  <1> QED BY <1>3, <1>4, <1>5 DEF Outcome

(* What a kill leaves of the retry the worker was appending.               *)
LEMMA TornRetry ==
  ASSUME TypeInv, worker.pc # "idle", Retries, AppendTorn(RetryOf(Current))
  PROVE  /\ tail' \in {"clean", "partial"} \cup Events
         /\ "whole" \notin Tears => TailInv'
         /\ \E gone : Grows(gone, {})
  <1>1. SegmentsInv /\ RestType /\ At \in Waiting
    BY DEF TypeInv, PlaceInv
  <1>2. Current \in Record
    <2>1. Current = RecordAt(At) /\ At \in Positions
      BY <1>1 DEF Waiting, Current, RecordAt, At
    <2> QED BY <1>1, <2>1, PositionIs
  <1>3. RetryOf(Current).event \in Events
    BY <1>2 DEF Record, RetryOf
  <1> QED BY <1>1, <1>3, Torn, TornGrows DEF Retries, TailInv

LEMMA Enqueues ==
  ASSUME TypeInv, NEW e \in Events, EnqueueNew(e)
  PROVE  /\ tail' = "clean" /\ settled' = settled \ {e} /\ ~_known_dedupe(e)
         /\ appends' \in [Events -> 0..MaxAppends]
         /\ \E gone, n : Grows(gone, {n}) /\ queue'[n[1]][n[2]].event = e
  <1>1. [event |-> e, attempt |-> 0] \in Record /\ [event |-> e, attempt |-> 0].event = e
    BY AttemptsAssumption DEF Record
  <1>2. AppendLine([event |-> e, attempt |-> 0]) /\ ~QueueFull
    BY DEF EnqueueNew, Appending
  <1>3. PICK gone, n : Grows(gone, {n}) /\ queue'[n[1]][n[2]] = [event |-> e, attempt |-> 0]
    BY <1>1, <1>2, AppendGrows DEF TypeInv
  <1>4. appends' \in [Events -> 0..MaxAppends]
    BY BoundAssumption DEF EnqueueNew, Appending, TypeInv, RestType
  <1> QED BY <1>1, <1>3, <1>4 DEF EnqueueNew, Appending, AppendLine

LEMMA EnqueuesTorn ==
  ASSUME TypeInv, NEW e \in Events, Appending(e), AppendTorn([event |-> e, attempt |-> 0])
  PROVE  /\ tail' \in {"clean", "partial"} \cup Events
         /\ "whole" \notin Tears => TailInv'
         /\ \E gone : Grows(gone, {})
  BY Torn, TornGrows DEF TypeInv, Appending, TailInv

-----------------------------------------------------------------------------
LEMMA TypeInit == Init => TypeInv
  <1> SUFFICES ASSUME Init PROVE TypeInv
    OBVIOUS
  <1>1. Segments = {}
    BY DEF Init, Segments
  <1>2. SegmentsInv
    BY <1>1 DEF SegmentsInv
  <1>3. RestType
    <2>1. worker = [pc |-> "idle", at |-> None, ok |-> FALSE]
      BY DEF Init, Idle
    <2> QED BY <2>1, BoundAssumption DEF Init, RestType
  <1>4. CursorInv /\ PlaceInv
    BY DEF Init, Idle, CursorInv, PlaceInv
  <1> QED BY <1>2, <1>3, <1>4 DEF TypeInv

(* The queue grows, and cursor and worker stay where they are.             *)
LEMMA TypeGrows ==
  ASSUME TypeInv, NEW gone, NEW new, Grows(gone, new), UNCHANGED cursor,
         worker'.pc = "idle" \/ (worker.pc # "idle" /\ worker'.at = worker.at)
  PROVE  SegmentsInv' /\ CursorInv' /\ PlaceInv'
  BY WaitingGrows, PlaceStays DEF Grows, PlaceInv

LEMMA TypeStep == TypeInv /\ [Next]_vars => TypeInv'
  <1> SUFFICES ASSUME TypeInv, [Next]_vars PROVE TypeInv'
    OBVIOUS
  <1>1. ASSUME NEW e \in Events, Enqueue(e) PROVE TypeInv'
    <2>1. \E gone, new : Grows(gone, new)
      BY <1>1, Enqueues, SameGrows DEF Enqueue, TypeInv
    <2>2. SegmentsInv' /\ CursorInv' /\ PlaceInv'
      BY <1>1, <2>1, TypeGrows DEF Enqueue
    <2>3. RestType'
      BY <1>1, Enqueues DEF Enqueue, TypeInv, RestType
    <2> QED BY <2>2, <2>3 DEF TypeInv
  <1>2. ASSUME NEW e \in Events, EnqueueKilled(e) PROVE TypeInv'
    <2>1. \E gone, new : Grows(gone, new)
      BY <1>2, Enqueues, EnqueuesTorn DEF EnqueueKilled
    <2>2. SegmentsInv' /\ CursorInv' /\ PlaceInv'
      BY <1>2, <2>1, TypeGrows DEF EnqueueKilled
    <2>3. crashes' \in 0..MaxCrashes
      BY <1>2, BoundAssumption DEF EnqueueKilled, TypeInv, RestType
    <2>4. RestType'
      BY <1>2, <2>3, Enqueues, EnqueuesTorn DEF EnqueueKilled, TypeInv, RestType
    <2> QED BY <2>2, <2>4 DEF TypeInv
  <1>3. CASE Read
    <2>1. /\ UNCHANGED <<files, history, crashes>> /\ UnreadSegments # {}
          /\ \E pc \in {"settle", "dispatch"}, ok \in BOOLEAN :
               worker' = [pc |-> pc, at |-> NextPosition, ok |-> ok]
      BY <1>3 DEF Read
    <2>2. /\ worker' \in [pc : {"idle", "dispatch", "settle"}, at : Position \cup {None}, ok : BOOLEAN]
          /\ worker'.at = NextPosition /\ worker'.at \in Position
      BY <2>1, ReadsFirst
    <2>3. RestType'
      BY <2>1, <2>2 DEF TypeInv, RestType, files, history
    <2>4. SegmentsInv' /\ CursorInv' /\ Waiting' = Waiting
      <3>1. Grows({}, {}) /\ UNCHANGED cursor
        BY <2>1, SameGrows DEF TypeInv, files
      <3>2. Waiting' = Waiting \cup {} /\ CursorInv'
        BY <3>1, WaitingGrows
      <3> QED BY <3>1, <3>2 DEF Grows
    <2>5. At' = <<NextPosition.segment, NextPosition.offset>>
      BY <2>2 DEF At
    <2>6. PlaceInv'
      BY <2>1, <2>4, <2>5, ReadsFirst DEF PlaceInv
    <2> QED BY <2>3, <2>4, <2>6 DEF TypeInv
  <1>4. CASE Dispatch
    <2>1. /\ UNCHANGED <<files, accepted, appends, crashes>> /\ worker.pc = "dispatch"
          /\ At \in Waiting
      BY <1>4 DEF Dispatch, TypeInv, PlaceInv
    <2>2. worker' \in [pc : {"settle"}, at : {worker.at}, ok : BOOLEAN]
      BY <1>4 DEF Dispatch, TypeInv, RestType
    <2>3. SegmentsInv' /\ CursorInv' /\ PlaceInv'
      BY <2>1, <2>2, SameGrows, TypeGrows DEF TypeInv, files
    <2>4. Current.event \in Events
      <3>1. Current = RecordAt(At) /\ At \in Positions
        BY <2>1 DEF Waiting, Current, RecordAt, At
      <3>2. Current \in Record
        BY <3>1, PositionIs DEF TypeInv
      <3> QED BY <3>2 DEF Record
    <2>5. sent' \in [Events -> Nat]
      BY <1>4, <2>4 DEF Dispatch, TypeInv, RestType
    <2>6. RestType'
      BY <1>4, <2>1, <2>2, <2>4, <2>5 DEF Dispatch, TypeInv, RestType, files
    <2> QED BY <2>3, <2>6 DEF TypeInv
  <1>5. CASE Settle
    <2>1. /\ worker.pc # "idle" /\ Outcome /\ worker' = Idle
          /\ UNCHANGED <<accepted, sent, appends, crashes>>
          /\ cursor' = [segment |-> worker.at.segment, offset |-> worker.at.offset,
                        last |-> Current.event]
      BY <1>5 DEF Settle
    <2>2. PICK gone, new : Grows(gone, new)
      BY <2>1, Outcomes
    <2>3. SegmentsInv' /\ CursorInv' /\ PlaceInv'
      BY <2>1, <2>2, CursorMoves DEF Grows, PlaceInv, Idle
    <2>4. Current.event \in Events
      <3>1. Current = RecordAt(At) /\ At \in Positions
        BY <2>1 DEF TypeInv, PlaceInv, Waiting, Current, RecordAt, At
      <3>2. Current \in Record
        BY <3>1, PositionIs DEF TypeInv
      <3> QED BY <3>2 DEF Record
    <2>5. /\ worker' \in [pc : {"idle"}, at : Position \cup {None}, ok : BOOLEAN]
          /\ cursor' \in [segment : Nat \ {0}, offset : Nat, last : Events \cup {None}]
      <3>1. worker.at \in Position
        BY <2>1 DEF TypeInv, RestType
      <3> QED BY <2>1, <2>4, <3>1 DEF Idle, Position
    <2>6. RestType'
      BY <2>1, <2>5, Outcomes DEF TypeInv, RestType
    <2> QED BY <2>3, <2>6 DEF TypeInv
  <1>6. CASE WorkerKilled
    <2>1. /\ worker.pc # "idle" /\ worker' = Idle /\ crashes < MaxCrashes /\ crashes' = crashes + 1
          /\ UNCHANGED <<cursor, accepted, sent, appends>>
      BY <1>6 DEF WorkerKilled
    <2>2. /\ tail' \in {"clean", "partial"} \cup Events /\ dead' \subseteq Events
          /\ settled' \subseteq Events /\ \E gone, new : Grows(gone, new)
      <3>1. CASE UNCHANGED <<queue, tail, dead, settled>>
        BY <3>1, SameGrows DEF TypeInv, RestType
      <3>2. CASE Outcome
        BY <2>1, <3>2, Outcomes DEF TypeInv, RestType
      <3>3. CASE Retries /\ AppendTorn(RetryOf(Current)) /\ UNCHANGED <<dead, settled>>
        BY <2>1, <3>3, TornRetry DEF TypeInv, RestType
      <3> QED BY <1>6, <3>1, <3>2, <3>3 DEF WorkerKilled
    <2>3. SegmentsInv' /\ CursorInv' /\ PlaceInv'
      BY <2>1, <2>2, TypeGrows DEF Idle
    <2>4. crashes' \in 0..MaxCrashes
      BY <2>1, BoundAssumption DEF TypeInv, RestType
    <2>5. worker' \in [pc : {"idle"}, at : Position \cup {None}, ok : BOOLEAN]
      BY <2>1 DEF Idle
    <2>6. RestType'
      BY <2>1, <2>2, <2>4, <2>5 DEF TypeInv, RestType
    <2> QED BY <2>3, <2>6 DEF TypeInv
  <1>7. CASE UNCHANGED vars
    <2>1. SegmentsInv' /\ CursorInv' /\ PlaceInv'
      BY <1>7 DEF vars, files, history, TypeInv, SegmentsInv, Segments, CursorInv, Cur, PlaceInv,
                  Waiting, Positions, At, RecordAt
    <2> QED BY <1>7, <2>1 DEF vars, files, history, TypeInv, RestType
  <1> QED BY <1>1, <1>2, <1>3, <1>4, <1>5, <1>6, <1>7 DEF Next

(* The files and the worker agree on where the queue is read, whoever is   *)
(* killed when: the segments are without a gap and within their number,    *)
(* the cursor stands on a record, the worker is at the first that waits.   *)
THEOREM QueueTypeCorrect == Spec => []TypeOK
  <1>1. TypeInv => TypeOK
    <2> SUFFICES ASSUME TypeInv PROVE TypeOK
      OBVIOUS
    <2>1. Segments \subseteq Nat \ {0}
      BY Rotation DEF TypeInv
    <2>2. Cardinality(Segments) <= MaxSegments
      <3>1. CASE Segments = {}
        BY <3>1, FS_EmptySet, SizeAssumption
      <3>2. CASE Segments # {}
        <4>1. PICK a, b \in Nat \ {0} : a <= b /\ b - a < MaxSegments /\ Segments = a..b
          BY <3>2 DEF TypeInv, SegmentsInv
        <4>2. Cardinality(a..b) = IF a > b THEN 0 ELSE b - a + 1
          BY FS_Interval
        <4> QED BY <4>1, <4>2, SizeAssumption
      <3> QED BY <3>1, <3>2
    <2>3. cursor.segment \in Segments => cursor.offset <= Len(queue[cursor.segment])
      <3>1. CASE cursor = [segment |-> 1, offset |-> 0, last |-> None]
        BY <3>1 DEF TypeInv, SegmentsInv
      <3>2. CASE Cur \in Positions
        BY <3>2 DEF Positions, Cur
      <3> QED BY <3>1, <3>2 DEF TypeInv, CursorInv
    <2>4. [segment |-> cursor.segment, offset |-> cursor.offset] \in Position
      BY DEF TypeInv, RestType, Position
    <2>5. cursor.last \in Events \cup {None} /\ worker.pc \in {"idle", "dispatch", "settle"}
          /\ worker.ok \in BOOLEAN
      BY DEF TypeInv, RestType
    <2> QED BY <2>1, <2>2, <2>3, <2>4, <2>5 DEF TypeInv, TypeOK, SegmentsInv, RestType
  <1> QED BY <1>1, TypeInit, TypeStep, PTL DEF Spec

-----------------------------------------------------------------------------
(* What the scan finds is in the queue, and it finds the newest record.    *)
LEMMA KnownIsThere ==
  ASSUME QueueInv, NEW e \in Events, _known_dedupe(e)
  PROVE  \E p \in Positions : RecordAt(p).event = e
  <1>1. CASE cursor.last = e
    BY <1>1, NoneAssumption DEF QueueInv, TypeInv, CursorInv
  <1>2. CASE tail = e
    BY <1>2, TailAssumption DEF QueueInv, TailInv
  <1>3. CASE \E p \in Positions : queue[p[1]][p[2]].event = e
    BY <1>3 DEF RecordAt
  <1> QED BY <1>1, <1>2, <1>3 DEF _known_dedupe

LEMMA NewestIsKnown ==
  ASSUME Scanned, NEW e, ~_known_dedupe(e), NEW p \in Positions, After(p) = {}
  PROVE  RecordAt(p).event # e
  <1>1. Cardinality(After(p)) = 0
    BY FS_EmptySet
  <1>2. 0 < ScanLimit
    BY AttemptsAssumption DEF Scanned
  <1> QED BY <1>1, <1>2 DEF _known_dedupe, RecordAt

(* An enqueuer appends: the event waits, and it does not repeat the record *)
(* before it.                                                              *)
LEMMA EnqueuedKeeps ==
  ASSUME Scanned, QueueInv, TypeInv', NEW e \in Events, EnqueueNew(e), UNCHANGED <<cursor, worker>>,
         accepted' \subseteq accepted \cup {e}
  PROVE  QueueInv'
  <1>1. PICK gone, n : Grows(gone, {n}) /\ queue'[n[1]][n[2]].event = e
    BY Enqueues DEF QueueInv
  <1>2. /\ tail' = "clean" /\ settled' = settled \ {e} /\ ~_known_dedupe(e)
    BY Enqueues DEF QueueInv
  <1>3. /\ Waiting' = Waiting \cup {n}
        /\ \A q \in Waiting : RecordAt(q)' = RecordAt(q)
    BY <1>1, WaitingGrows DEF QueueInv
  <1>4. RecordAt(n)' = queue'[n[1]][n[2]]
    BY DEF RecordAt
  <1>5. FreshInv'
    BY <1>1, <1>2, NewestIsKnown, FreshGrows DEF QueueInv, TypeInv
  <1>6. DeliveredInv'
    <2>1. SUFFICES ASSUME worker.ok
                   PROVE  /\ worker.pc = "settle"
                          /\ \/ Current'.event \in settled'
                             \/ \E q \in Waiting' : q # At /\ RecordAt(q)'.event = Current'.event
      BY DEF DeliveredInv, At
    <2>2. worker.pc = "settle"
      BY <2>1 DEF QueueInv, DeliveredInv
    <2>3. At \in Waiting /\ Current' = Current
      BY <1>1, <2>2, PlaceStays DEF QueueInv
    <2>4. n # At
      <3>1. At \in Positions /\ At[1] \in Nat /\ At[2] \in Nat
        BY <2>3, PositionIs DEF QueueInv, TypeInv, Waiting
      <3> QED BY <1>1, <3>1, BeyondOrder DEF Grows
    <2>5. CASE Current.event = e
      BY <1>1, <1>3, <1>4, <2>2, <2>3, <2>4, <2>5
    <2>6. CASE Current.event # e
      BY <1>2, <1>3, <2>1, <2>2, <2>3, <2>6 DEF QueueInv, DeliveredInv
    <2> QED BY <2>5, <2>6
  <1>7. KeptInv'
    <2>1. SUFFICES ASSUME NEW f \in Events, f # e,
                          f \in accepted \/ \E p \in Positions' : RecordAt(p)'.event = f
                   PROVE  f \in settled' \/ \E q \in Waiting' : RecordAt(q)'.event = f
      BY <1>1, <1>3, <1>4 DEF KeptInv
    <2>2. f \in accepted \/ \E p \in Positions : RecordAt(p).event = f
      BY <1>1, <2>1 DEF Grows, RecordAt
    <2>3. f \in settled \/ \E q \in Waiting : RecordAt(q).event = f
      BY <2>2 DEF QueueInv, KeptInv
    <2> QED BY <1>2, <1>3, <2>1, <2>3
  <1> QED BY <1>2, <1>5, <1>6, <1>7 DEF QueueInv, TailInv

(* The queue grows by what its worker adds, or by nothing, while nothing   *)
(* is consumed, and the worker delivers, fails or stops.                   *)
LEMMA GrownKeeps ==
  ASSUME QueueInv, TypeInv', TailInv', NEW gone, NEW new, Grows(gone, new),
         \A n \in new : queue'[n[1]][n[2]].attempt # 0 /\
                        \E p \in Positions : RecordAt(p).event = queue'[n[1]][n[2]].event,
         UNCHANGED cursor, settled \subseteq settled', accepted' \subseteq accepted,
         \/ UNCHANGED worker \/ ~worker'.ok
         \/ /\ worker.pc # "idle" /\ worker'.pc = "settle" /\ worker'.at = worker.at
            /\ Current.event \in settled'
  PROVE  QueueInv'
  <1>1. /\ Waiting' = Waiting \cup new
        /\ \A q \in Waiting : RecordAt(q)' = RecordAt(q)
    BY WaitingGrows DEF QueueInv
  <1>2. FreshInv'
    BY FreshGrows DEF QueueInv, TypeInv
  <1>3. DeliveredInv'
    <2>1. CASE UNCHANGED worker
      <3>1. SUFFICES ASSUME worker.ok
                     PROVE  /\ worker.pc = "settle"
                            /\ \/ Current'.event \in settled'
                               \/ \E q \in Waiting' : q # At /\ RecordAt(q)'.event = Current'.event
        BY <2>1 DEF DeliveredInv, At
      <3>2. worker.pc = "settle"
        BY <3>1 DEF QueueInv, DeliveredInv
      <3>3. Current' = Current
        BY <2>1, <3>2, PlaceStays DEF QueueInv
      <3> QED BY <1>1, <3>1, <3>2, <3>3 DEF QueueInv, DeliveredInv
    <2>2. CASE ~worker'.ok
      BY <2>2 DEF DeliveredInv
    <2>3. CASE /\ worker.pc # "idle" /\ worker'.pc = "settle" /\ worker'.at = worker.at
               /\ Current.event \in settled'
      <3>1. Current' = Current
        BY <2>3, PlaceStays DEF QueueInv
      <3> QED BY <2>3, <3>1 DEF DeliveredInv
    <2> QED BY <2>1, <2>2, <2>3
  <1>4. KeptInv'
    <2>1. SUFFICES ASSUME NEW f \in Events,
                          f \in accepted' \/ \E p \in Positions' : RecordAt(p)'.event = f
                   PROVE  f \in settled' \/ \E q \in Waiting' : RecordAt(q)'.event = f
      BY DEF KeptInv
    <2>2. f \in accepted \/ \E p \in Positions : RecordAt(p).event = f
      BY <2>1 DEF Grows, RecordAt
    <2>3. f \in settled \/ \E q \in Waiting : RecordAt(q).event = f
      BY <2>2 DEF QueueInv, KeptInv
    <2> QED BY <1>1, <2>3
  <1> QED BY <1>2, <1>3, <1>4 DEF QueueInv

(* The first waiting record is not a repetition of the one the cursor      *)
(* stands on.                                                              *)
LEMMA NoDuplicates ==
  ASSUME QueueInv, Read
  PROVE  worker'.pc = "dispatch" /\ ~worker'.ok
  <1> DEFINE at == NextPosition
             record == queue[at.segment][at.offset]
             place == <<at.segment, at.offset>>
  <1>1. /\ place \in Waiting /\ \A q \in Waiting : q = place \/ Beyond(place, q)
        /\ record = RecordAt(place)
    BY ReadsFirst DEF Read, QueueInv, RecordAt
  <1>2. record \in Record
    BY <1>1, PositionIs DEF QueueInv, TypeInv, Waiting
  <1>3. ~(record.attempt = 0 /\ cursor.last = record.event)
    <2>1. SUFFICES ASSUME record.attempt = 0, cursor.last = record.event PROVE FALSE
      OBVIOUS
    <2>2. Cur \in Positions /\ RecordAt(Cur).event = record.event
      BY <1>2, <2>1, NoneAssumption DEF QueueInv, TypeInv, CursorInv, Record
    <2>3. place \in After(Cur) /\ place \in Positions
      BY <1>1, AfterIs DEF Waiting
    <2>4. \A r \in After(Cur) : place \notin After(r)
      <3>1. SUFFICES ASSUME NEW r \in Positions, Beyond(Cur, r), Beyond(r, place) PROVE FALSE
        BY AfterIs
      <3>2. r = place \/ Beyond(place, r)
        BY <1>1, <3>1 DEF Waiting
      <3>3. r[1] \in Nat /\ r[2] \in Nat /\ place[1] \in Nat /\ place[2] \in Nat
        BY <2>3, PositionIs DEF QueueInv, TypeInv
      <3> QED BY <3>1, <3>2, <3>3, BeyondOrder
    <2> QED BY <1>1, <2>1, <2>2, <2>3, <2>4 DEF QueueInv, FreshInv, Adjacent
  <1>4. worker' = [pc |-> IF record.attempt = 0 /\ cursor.last = record.event
                          THEN "settle" ELSE "dispatch",
                   at |-> at, ok |-> record.attempt = 0 /\ cursor.last = record.event]
    BY DEF Read
  <1> HIDE DEF record
  <1>5. worker' = [pc |-> "dispatch", at |-> at, ok |-> FALSE]
    BY <1>3, <1>4
  <1> QED BY <1>5

(* The worker's record is consumed: what it stands for is settled, or      *)
(* waits at another place.                                                 *)
LEMMA SettleKeeps ==
  ASSUME QueueInv, TypeInv', Settle
  PROVE  QueueInv'
  <1>1. /\ worker.pc # "idle" /\ Outcome /\ worker' = Idle /\ UNCHANGED accepted
        /\ cursor' = [segment |-> worker.at.segment, offset |-> worker.at.offset,
                      last |-> Current.event]
    BY DEF Settle
  <1>2. /\ tail' \in {"clean", tail} /\ settled \subseteq settled'
        /\ \E gone, new :
              /\ Grows(gone, new)
              /\ \A n \in new : /\ queue'[n[1]][n[2]].attempt # 0
                                /\ queue'[n[1]][n[2]].event = Current.event
              /\ worker.ok \/ new # {} \/ Current.event \in settled'
    BY <1>1, Outcomes DEF QueueInv
  <1>3. PICK gone, new :
              /\ Grows(gone, new)
              /\ \A n \in new : /\ queue'[n[1]][n[2]].attempt # 0
                                /\ queue'[n[1]][n[2]].event = Current.event
              /\ worker.ok \/ new # {} \/ Current.event \in settled'
    BY <1>2
  <1>4. /\ At \in Waiting /\ Waiting' = (Waiting \ {At}) \cup new
        /\ \A q \in Waiting : RecordAt(q)' = RecordAt(q)
        /\ Current = RecordAt(At)
    BY <1>1, <1>3, CursorMoves DEF QueueInv
  <1>5. TailInv' /\ DeliveredInv'
    BY <1>1, <1>2 DEF QueueInv, TailInv, DeliveredInv, Idle
  <1>6. FreshInv'
    BY <1>3, FreshGrows DEF QueueInv, TypeInv
  <1>7. PICK c : c = Current.event
    OBVIOUS
  <1>8. c \in settled' \/ \E q \in Waiting' : RecordAt(q)'.event = c
    <2>1. CASE worker.ok
      <3>1. c \in settled \/ \E q \in Waiting : q # At /\ RecordAt(q).event = c
        BY <1>7, <2>1 DEF QueueInv, DeliveredInv
      <3> QED BY <1>2, <1>4, <3>1
    <2>2. CASE new # {}
      <3>1. PICK n \in new : queue'[n[1]][n[2]].event = c
        BY <1>3, <1>7, <2>2
      <3>2. n \in Waiting' /\ RecordAt(n)'.event = c
        BY <1>4, <3>1 DEF RecordAt
      <3> QED BY <3>2
    <2> QED BY <1>3, <1>7, <2>1, <2>2
  <1>9. KeptInv'
    <2>1. SUFFICES ASSUME NEW f \in Events, f # c,
                          f \in accepted \/ \E p \in Positions' : RecordAt(p)'.event = f
                   PROVE  f \in settled' \/ \E q \in Waiting' : RecordAt(q)'.event = f
      BY <1>1, <1>8 DEF KeptInv
    <2>2. f \in accepted \/ \E p \in Positions : RecordAt(p).event = f
      BY <1>3, <1>7, <2>1 DEF Grows, RecordAt
    <2>3. f \in settled \/ \E q \in Waiting : RecordAt(q).event = f
      BY <2>2 DEF QueueInv, KeptInv
    <2> QED BY <1>2, <1>4, <1>7, <2>1, <2>3
  <1> QED BY <1>5, <1>6, <1>9 DEF QueueInv

LEMMA QueueInit == Init => QueueInv
  <1> SUFFICES ASSUME Init PROVE QueueInv
    OBVIOUS
  <1>1. Positions = {}
    BY DEF Init, Positions, Segments
  <1>2. TailInv /\ DeliveredInv /\ FreshInv /\ KeptInv
    BY <1>1 DEF Init, Idle, TailInv, DeliveredInv, FreshInv, KeptInv
  <1> QED BY <1>2, TypeInit DEF QueueInv

LEMMA QueueStep == Scanned /\ QueueInv /\ [Next]_vars => QueueInv'
  <1> SUFFICES ASSUME Scanned, QueueInv, [Next]_vars PROVE QueueInv'
    OBVIOUS
  <1>0. TypeInv'
    BY TypeStep DEF QueueInv
  <1>a. UNCHANGED queue => Grows({}, {})
    BY SameGrows DEF QueueInv, TypeInv
  <1>1. ASSUME NEW e \in Events, Enqueue(e) PROVE QueueInv'
    <2>1. CASE EnqueueNew(e)
      BY <1>0, <1>1, <2>1, EnqueuedKeeps DEF Enqueue
    <2>2. CASE _known_dedupe(e) /\ UNCHANGED <<queue, tail, appends, settled>>
      <3>1. UNCHANGED <<queue, tail, settled, cursor, worker>> /\ accepted' = accepted \cup {e}
        BY <1>1, <2>2 DEF Enqueue
      <3>2. \E p \in Positions : RecordAt(p).event = e
        BY <2>2, KnownIsThere
      <3> QED BY <1>0, <3>1, <3>2
              DEF QueueInv, TailInv, FreshInv, DeliveredInv, KeptInv, Waiting, Positions, Segments,
                  RecordAt, Current, At, Cur, Adjacent, After
    <2> QED BY <1>1, <2>1, <2>2 DEF Enqueue
  <1>2. ASSUME NEW e \in Events, EnqueueKilled(e) PROVE QueueInv'
    <2>1. CASE EnqueueNew(e)
      BY <1>0, <1>2, <2>1, EnqueuedKeeps DEF EnqueueKilled
    <2>2. CASE /\ Appending(e) /\ AppendTorn([event |-> e, attempt |-> 0])
               /\ UNCHANGED <<appends, settled>>
      <3>1. TailInv' /\ \E gone : Grows(gone, {})
        BY <2>2, EnqueuesTorn DEF QueueInv, Scanned
      <3> QED BY <1>0, <1>2, <2>2, <3>1, GrownKeeps DEF EnqueueKilled
    <2> QED BY <1>2, <2>1, <2>2 DEF EnqueueKilled
  <1>3. CASE Read
    <2>1. UNCHANGED <<queue, tail, cursor, settled, accepted>> /\ ~worker'.ok
      BY <1>3, NoDuplicates DEF Read, files, history
    <2>2. TailInv'
      BY <2>1 DEF QueueInv, TailInv
    <2> QED BY <1>0, <1>a, <2>1, <2>2, GrownKeeps
  <1>4. CASE Dispatch
    <2>1. /\ UNCHANGED <<queue, tail, cursor, accepted>> /\ settled \subseteq settled'
          /\ worker.pc # "idle"
      BY <1>4 DEF Dispatch, files
    <2>2. TailInv'
      BY <2>1 DEF QueueInv, TailInv
    <2>3. \/ ~worker'.ok
          \/ worker'.pc = "settle" /\ worker'.at = worker.at /\ Current.event \in settled'
      BY <1>4 DEF Dispatch, QueueInv, TypeInv, RestType
    <2> QED BY <1>0, <1>a, <2>1, <2>2, <2>3, GrownKeeps
  <1>5. CASE Settle
    BY <1>0, <1>5, SettleKeeps
  <1>6. CASE WorkerKilled
    <2>1. /\ worker.pc # "idle" /\ ~worker'.ok /\ UNCHANGED <<cursor, accepted>>
      BY <1>6 DEF WorkerKilled, Idle
    <2>2. CASE UNCHANGED <<queue, tail, dead, settled>>
      <3>1. TailInv'
        BY <2>2 DEF QueueInv, TailInv
      <3> QED BY <1>0, <1>a, <2>1, <2>2, <3>1, GrownKeeps
    <2>3. CASE Outcome
      <3>1. PICK gone, new :
              /\ Grows(gone, new)
              /\ \A n \in new : /\ queue'[n[1]][n[2]].attempt # 0
                                /\ queue'[n[1]][n[2]].event = Current.event
        BY <2>1, <2>3, Outcomes DEF QueueInv
      <3>2. TailInv' /\ settled \subseteq settled'
        BY <2>1, <2>3, Outcomes DEF QueueInv, TailInv
      <3>3. At \in Positions /\ Current = RecordAt(At)
        BY <2>1 DEF QueueInv, TypeInv, PlaceInv, Waiting, Current, RecordAt, At
      <3>4. \A n \in new : queue'[n[1]][n[2]].attempt # 0 /\
                           \E p \in Positions : RecordAt(p).event = queue'[n[1]][n[2]].event
        BY <3>1, <3>3
      <3> QED BY <1>0, <2>1, <3>1, <3>2, <3>4, GrownKeeps
    <2>4. CASE Retries /\ AppendTorn(RetryOf(Current)) /\ UNCHANGED <<dead, settled>>
      <3>1. TailInv' /\ \E gone : Grows(gone, {})
        BY <2>1, <2>4, TornRetry DEF QueueInv, Scanned
      <3> QED BY <1>0, <2>1, <2>4, <3>1, GrownKeeps
    <2> QED BY <1>6, <2>2, <2>3, <2>4 DEF WorkerKilled
  <1>7. CASE UNCHANGED vars
    BY <1>0, <1>7 DEF vars, files, history, QueueInv, TailInv, FreshInv, DeliveredInv, KeptInv,
       Waiting, Positions, Segments, RecordAt, Current, At, Cur, Adjacent, After
  <1> QED BY <1>1, <1>2, <1>3, <1>4, <1>5, <1>6, <1>7 DEF Next

(* A notification that was accepted waits past the cursor, was delivered   *)
(* or is dead, although appends are torn, old segments are unlinked, and   *)
(* workers are killed before, in and after the append of an outcome.       *)
THEOREM NothingIsLost == ASSUME Scanned PROVE Spec => []NothingLost
  <1>1. QueueInv => NothingLost
    <2> SUFFICES ASSUME QueueInv, NEW e \in accepted PROVE Pending(e) \/ e \in settled
      BY DEF NothingLost
    <2>1. e \in Events
      BY DEF QueueInv, TypeInv, RestType
    <2>2. CASE e \in settled
      BY <2>2
    <2>3. CASE \E q \in Waiting : RecordAt(q).event = e
      <3>1. PICK q \in Waiting : RecordAt(q).event = e
        BY <2>3
      <3>2. /\ q[1] \in Segments /\ q[1] \in Nat \ {0} /\ q[2] \in Nat \ {0}
            /\ q[2] <= Len(queue[q[1]]) /\ Len(queue[q[1]]) \in Nat
        BY PositionIs DEF QueueInv, TypeInv, SegmentsInv, Waiting
      <3>3. /\ q[1] > cursor.segment \/ (q[1] = cursor.segment /\ q[2] > cursor.offset)
            /\ cursor.segment \in Nat /\ cursor.offset \in Nat
        BY DEF Waiting, Beyond, Cur, QueueInv, TypeInv, RestType
      <3>4. q[1] \in UnreadSegments /\ q[2] > Len(queue[q[1]]) - Unread(q[1])
        BY <3>2, <3>3 DEF UnreadSegments, Unread
      <3>5. q[2] \in 1..Len(queue[q[1]]) /\ queue[q[1]][q[2]].event = e
        BY <3>1, <3>2 DEF RecordAt
      <3> QED BY <3>4, <3>5 DEF Pending
    <2> QED BY <2>1, <2>2, <2>3 DEF QueueInv, KeptInv
  <1>2. QueueInv /\ [Next]_vars => QueueInv'
    BY QueueStep
  <1> QED BY <1>1, <1>2, QueueInit, PTL DEF Spec

-----------------------------------------------------------------------------
(* The records that wait are no more than the scan for duplicates sees.    *)
BacklogFits == Cardinality(Waiting) <= ScanLimit

(* Before the first kill an event waits once at most, and an event that is *)
(* settled waits only where the worker has just delivered it.              *)
WaitsOnce ==
  \A p, q \in Waiting : RecordAt(p).event = RecordAt(q).event => p = q

AnsweredIsCurrent ==
  \A p \in Waiting : RecordAt(p).event \in settled => p = At /\ worker.ok

SentInv ==
  /\ TypeInv
  /\ worker.ok => worker.pc = "settle"
  /\ crashes = 0 => WaitsOnce /\ AnsweredIsCurrent

LEMMA WaitingIsFinite ==
  ASSUME SegmentsInv
  PROVE  IsFiniteSet(Waiting)
  <1>1. IsFiniteSet(Segments)
    <2>1. CASE Segments = {}
      BY <2>1, FS_EmptySet
    <2>2. CASE Segments # {}
      <3>1. PICK a, b \in Nat \ {0} : Segments = a..b
        BY <2>2 DEF SegmentsInv
      <3> QED BY <3>1, FS_Interval
    <2> QED BY <2>1, <2>2
  <1>2. IsFiniteSet(1..MaxRecords)
    BY FS_Interval, SizeAssumption
  <1>3. IsFiniteSet(Segments \X (1..MaxRecords))
    BY <1>1, <1>2, FS_Product
  <1>4. Waiting \in SUBSET (Segments \X (1..MaxRecords))
    BY DEF Waiting, Positions
  <1> QED BY <1>3, <1>4, FS_Subset

(* While the backlog fits, the scan misses no event that waits.            *)
LEMMA WaitingIsKnown ==
  ASSUME TypeInv, BacklogFits, NEW e, ~_known_dedupe(e), NEW p \in Waiting
  PROVE  RecordAt(p).event # e
  <1>1. After(p) \subseteq Waiting \ {p}
    <2>1. SUFFICES ASSUME NEW q \in Positions, Beyond(p, q) PROVE q \in Waiting /\ q # p
      BY AfterIs
    <2>2. p \in Positions /\ Beyond(Cur, p) /\ Cur[1] \in Nat /\ Cur[2] \in Nat
      BY DEF Waiting, TypeInv, RestType, Cur
    <2>3. p[1] \in Nat /\ p[2] \in Nat /\ q[1] \in Nat /\ q[2] \in Nat
      BY <2>2, PositionIs DEF TypeInv
    <2> QED BY <2>1, <2>2, <2>3, BeyondOrder DEF Waiting
  <1>2. /\ IsFiniteSet(Waiting \ {p}) /\ Cardinality(Waiting \ {p}) = Cardinality(Waiting) - 1
        /\ Cardinality(Waiting) \in Nat
    BY WaitingIsFinite, FS_RemoveElement, FS_CardinalityType DEF TypeInv
  <1>3. After(p) \in SUBSET (Waiting \ {p})
    BY <1>1
  <1>4. /\ Cardinality(After(p)) <= Cardinality(Waiting \ {p})
        /\ IsFiniteSet(After(p))
    BY <1>2, <1>3, FS_Subset
  <1>5. Cardinality(After(p)) \in Nat
    BY <1>4, FS_CardinalityType
  <1>6. Cardinality(After(p)) < ScanLimit
    BY <1>2, <1>4, <1>5, AttemptsAssumption DEF BacklogFits
  <1> QED BY <1>6 DEF _known_dedupe, RecordAt, Waiting

(* A new record joins those that wait, or takes the place of the worker's. *)
LEMMA JoinsOnce ==
  ASSUME WaitsOnce, AnsweredIsCurrent, NEW left, left \subseteq Waiting, NEW n,
         Waiting' = left \cup {n},
         \A q \in Waiting : RecordAt(q)' = RecordAt(q),
         \A q \in left : RecordAt(q).event # RecordAt(n)'.event,
         settled' \subseteq settled, RecordAt(n)'.event \notin settled',
         \A q \in left : q = At /\ worker.ok => q = At' /\ worker'.ok
  PROVE  WaitsOnce' /\ AnsweredIsCurrent'
  <1>1. \A q \in left : RecordAt(q)' = RecordAt(q)
    OBVIOUS
  <1>2. \A p, q \in Waiting' : RecordAt(p)'.event = RecordAt(q)'.event => p = q
    BY <1>1 DEF WaitsOnce
  <1>3. \A p \in Waiting' : RecordAt(p)'.event \in settled' => p = At' /\ worker'.ok
    BY <1>1 DEF AnsweredIsCurrent
  <1> QED BY <1>2, <1>3 DEF WaitsOnce, AnsweredIsCurrent

LEMMA SentInit == Init => SentInv
  <1> SUFFICES ASSUME Init PROVE SentInv
    OBVIOUS
  <1>1. Waiting = {}
    BY DEF Init, Waiting, Positions, Segments
  <1> QED BY <1>1, TypeInit DEF Init, Idle, SentInv, WaitsOnce, AnsweredIsCurrent

LEMMA SentStep == SentInv /\ BacklogFits /\ [Next]_vars => SentInv'
  <1> SUFFICES ASSUME SentInv, BacklogFits, [Next]_vars PROVE SentInv'
    OBVIOUS
  <1>0. TypeInv /\ TypeInv' /\ SegmentsInv /\ crashes \in Nat
    BY TypeStep DEF SentInv, TypeInv, RestType
  <1>a. ASSUME UNCHANGED <<queue, cursor>>
        PROVE  Waiting' = Waiting /\ \A q \in Waiting : RecordAt(q)' = RecordAt(q)
    BY <1>a DEF Waiting, Positions, Segments, Cur, RecordAt
  <1>1. ASSUME NEW e \in Events, Enqueue(e) PROVE SentInv'
    <2>1. UNCHANGED <<cursor, worker, crashes>> /\ At' = At
      BY <1>1 DEF Enqueue, At
    <2>2. CASE EnqueueNew(e)
      <3>1. SUFFICES ASSUME crashes = 0 PROVE WaitsOnce' /\ AnsweredIsCurrent'
        BY <1>0, <2>1 DEF SentInv
      <3>2. PICK gone, n : Grows(gone, {n}) /\ queue'[n[1]][n[2]].event = e
        BY <1>0, <2>2, Enqueues
      <3>3. /\ settled' = settled \ {e} /\ ~_known_dedupe(e)
            /\ Waiting' = Waiting \cup {n} /\ \A q \in Waiting : RecordAt(q)' = RecordAt(q)
        BY <1>0, <2>1, <2>2, <3>2, Enqueues, WaitingGrows
      <3>4. RecordAt(n)'.event = e
        BY <3>2 DEF RecordAt
      <3>5. \A q \in Waiting : RecordAt(q).event # e
        BY <1>0, <3>3, WaitingIsKnown
      <3>6. WaitsOnce /\ AnsweredIsCurrent
        BY <3>1 DEF SentInv
      <3> QED BY <2>1, <3>3, <3>4, <3>5, <3>6, JoinsOnce
    <2>3. CASE UNCHANGED <<queue, tail, appends, settled>>
      BY <1>0, <1>a, <2>1, <2>3 DEF SentInv, WaitsOnce, AnsweredIsCurrent
    <2> QED BY <1>1, <2>2, <2>3 DEF Enqueue
  <1>2. ASSUME NEW e \in Events, EnqueueKilled(e) PROVE SentInv'
    BY <1>0, <1>2 DEF EnqueueKilled, SentInv
  <1>3. CASE Read
    <2>1. UNCHANGED <<queue, cursor, settled, crashes>> /\ worker.pc = "idle"
      BY <1>3 DEF Read, files, history
    <2>2. worker'.ok => worker'.pc = "settle"
      BY <1>3 DEF Read
    <2>3. ASSUME crashes = 0, NEW q \in Waiting PROVE RecordAt(q).event \notin settled
      BY <2>1, <2>3 DEF SentInv, AnsweredIsCurrent
    <2> QED BY <1>0, <1>a, <2>1, <2>2, <2>3 DEF SentInv, WaitsOnce, AnsweredIsCurrent
  <1>4. CASE Dispatch
    <2>1. UNCHANGED <<queue, cursor, crashes>> /\ worker.pc = "dispatch"
      BY <1>4 DEF Dispatch, files
    <2>2. /\ worker'.pc = "settle" /\ worker'.at = worker.at /\ At' = At
          /\ settled' = IF worker'.ok THEN settled \cup {Current.event} ELSE settled
      BY <1>4, <1>0 DEF Dispatch, TypeInv, RestType, At
    <2>3. At \in Waiting /\ Current = RecordAt(At)
      BY <1>0, <2>1 DEF TypeInv, PlaceInv, Current, RecordAt, At
    <2>4. ASSUME crashes = 0, NEW q \in Waiting PROVE RecordAt(q).event \notin settled
      BY <2>1, <2>4 DEF SentInv, AnsweredIsCurrent
    <2>5. ASSUME crashes = 0 PROVE WaitsOnce' /\ AnsweredIsCurrent'
      BY <1>a, <2>1, <2>2, <2>3, <2>4, <2>5 DEF SentInv, WaitsOnce, AnsweredIsCurrent
    <2> QED BY <1>0, <2>1, <2>2, <2>5 DEF SentInv
  <1>5. CASE Settle
    <2>1. /\ worker.pc = "settle" /\ Outcome /\ worker' = Idle /\ UNCHANGED crashes
          /\ cursor' = [segment |-> worker.at.segment, offset |-> worker.at.offset,
                        last |-> Current.event]
      BY <1>5 DEF Settle
    <2>2. ~worker'.ok
      BY <2>1 DEF Idle
    <2>3. SUFFICES ASSUME crashes = 0 PROVE WaitsOnce' /\ AnsweredIsCurrent'
      BY <1>0, <2>1, <2>2 DEF SentInv
    <2>4. WaitsOnce /\ AnsweredIsCurrent
      BY <2>3 DEF SentInv
    <2>5. At \in Waiting /\ Current = RecordAt(At)
      BY <1>0, <2>1 DEF TypeInv, PlaceInv, Current, RecordAt, At
    <2>6. CASE UNCHANGED queue /\ settled' \in {settled, settled \cup {Current.event}}
      <3>1. Grows({}, {})
        BY <1>0, <2>6, SameGrows
      <3>2. Waiting' = Waiting \ {At} /\ \A q \in Waiting : RecordAt(q)' = RecordAt(q)
        BY <1>0, <2>1, <3>1, CursorMoves
      <3>3. \A q \in Waiting \ {At} : RecordAt(q).event \notin settled'
        BY <2>4, <2>5, <2>6 DEF WaitsOnce, AnsweredIsCurrent
      <3> QED BY <2>4, <3>2, <3>3 DEF WaitsOnce, AnsweredIsCurrent
    <2>7. CASE Retries /\ AppendLine(RetryOf(Current)) /\ UNCHANGED settled
      <3>1. RetryOf(Current) \in Record /\ RetryOf(Current).event = Current.event
        <4>1. Current \in Record
          BY <1>0, <2>5, PositionIs DEF Waiting
        <4> QED BY <2>7, <4>1, AttemptsAssumption DEF Record, RetryOf, Retries
      <3>2. RestType /\ ~QueueFull
        BY <1>0, <2>7 DEF TypeInv, Retries
      <3>3. PICK gone, n : Grows(gone, {n}) /\ queue'[n[1]][n[2]] = RetryOf(Current)
        BY <1>0, <2>7, <3>1, <3>2, AppendGrows
      <3>4. /\ Waiting' = (Waiting \ {At}) \cup {n}
            /\ \A q \in Waiting : RecordAt(q)' = RecordAt(q)
        BY <1>0, <2>1, <3>3, CursorMoves
      <3>5. RecordAt(n)'.event = Current.event
        BY <3>1, <3>3 DEF RecordAt
      <3>6. Current.event \notin settled
        BY <2>4, <2>5, <2>7 DEF AnsweredIsCurrent, Retries
      <3>7. \A q \in Waiting \ {At} : RecordAt(q).event # Current.event
        BY <2>4, <2>5 DEF WaitsOnce
      <3>8. PICK left : left = Waiting \ {At}
        OBVIOUS
      <3>9. /\ left \subseteq Waiting /\ Waiting' = left \cup {n}
            /\ \A q \in left : RecordAt(q).event # RecordAt(n)'.event
            /\ settled' \subseteq settled /\ RecordAt(n)'.event \notin settled'
            /\ \A q \in left : q # At
        BY <2>7, <3>4, <3>5, <3>6, <3>7, <3>8
      <3> QED BY <2>4, <3>4, <3>9, JoinsOnce
    <2> QED BY <2>1, <2>6, <2>7 DEF Outcome
  <1>6. CASE WorkerKilled
    BY <1>0, <1>6 DEF WorkerKilled, Idle, SentInv
  <1>7. CASE UNCHANGED vars
    BY <1>0, <1>7, <1>a DEF vars, files, history, SentInv, WaitsOnce, AnsweredIsCurrent, At
  <1> QED BY <1>1, <1>2, <1>3, <1>4, <1>5, <1>6, <1>7 DEF Next

(* As long as no process was killed and the records that wait fit in the   *)
(* scan, what was delivered or given up is not dispatched again: an event  *)
(* waits once, and its retry takes the place of the attempt that failed.   *)
THEOREM NothingIsSentAgain == Spec /\ []BacklogFits => NotSentAgain
  <1>1. SentInv /\ [Next]_vars => [crashes = 0 => \A e \in settled : sent'[e] = sent[e]]_vars
    <2> SUFFICES ASSUME SentInv, [Next]_vars, crashes = 0, NEW e \in settled
                 PROVE  UNCHANGED vars \/ sent'[e] = sent[e]
      OBVIOUS
    <2>1. CASE Dispatch
      <3>1. At \in Waiting /\ Current = RecordAt(At) /\ worker.pc = "dispatch"
        BY <2>1 DEF Dispatch, SentInv, TypeInv, PlaceInv, Current, RecordAt, At
      <3>2. Current.event \notin settled
        BY <3>1 DEF SentInv, AnsweredIsCurrent
      <3>3. sent' = [sent EXCEPT ![Current.event] = @ + 1] /\ sent \in [Events -> Nat]
            /\ e \in Events
        BY <2>1 DEF Dispatch, SentInv, TypeInv, RestType
      <3> QED BY <3>2, <3>3
    <2>2. CASE ~Dispatch
      BY <2>2 DEF Next, Enqueue, EnqueueKilled, Read, Settle, WorkerKilled, history, vars
    <2> QED BY <2>1, <2>2
  <1>2. SentInv /\ BacklogFits /\ [Next]_vars => SentInv'
    BY SentStep
  <1> QED BY <1>1, <1>2, SentInit, PTL DEF Spec, NotSentAgain
================================================================================
