----------------------------- MODULE NativeTeamProofs -----------------------------
(***************************************************************************)
(* What NativeTeam promises, proved for every set of tasks and of          *)
(* processes, every dependency and every number of recoveries and kills.   *)
(***************************************************************************)
EXTENDS NativeTeam, FiniteSetTheorems, WellFoundedInduction, TLAPS

Fanning == {"prepare", "dispatch", "call"}
Reconciling == {"receipt", "claim", "adopt"}
Recovering == {"fence", "cancel", "cancelled", "recover"}
OnOneTask == Reconciling \cup Recovering \cup {"created", "sealed", "complete"}

(* A task that was requested in generation g is not ready in g any more,   *)
(* and never will be again.                                                *)
Requested(t, g) ==
  \/ g < Gen(t)
  \/ g = Gen(t) /\ task[t].state \notin {"absent", "pending", "ready"}

(* States of which a row knows that its launch was reconciled, and those   *)
(* of which it knows that it was requested.                                *)
Reconciled == {"launch_unknown", "running", "delivered", "integrating", "complete", "failed"}
Working == Reconciled \cup {"spawn_requested"}

Answers == {"launch_unknown", "bound", "blocked"}

OpRecord ==
  [pc : Pc, task : Tasks \cup {NoTask}, gens : [Tasks -> Generations],
   from : NATIVE_TEAM_STATES, seen : {"none", "one", "ambiguous"},
   todo : SUBSET Tasks, made : SUBSET Tasks, stale : BOOLEAN, start : SUBSET Deliveries]

(* What the record of an operation says by itself, and that what it read   *)
(* is not newer than the row.                                              *)
Place(o) ==
  /\ o.pc \in OnOneTask => o.task \in Tasks
  /\ o.pc \in {"prepare", "dispatch", "schedule"} => o.todo # {}
  /\ o.pc = "call" => o.made # {}
  /\ o.made # {} => o.pc \in Fanning
  /\ o.pc \in Reconciling => o.from \in {"spawn_requested", "launch_unknown"}
  /\ o.pc = "claim" => o.seen = "one"
  /\ o.pc \in Recovering => o.gens[o.task] < MaxGeneration[o.task]

PlaceInv ==
  /\ \E t \in Tasks : task[t].state # "absent"
  /\ \A p \in Procs : Place(op[p]) /\ \A t \in Tasks : op[p].gens[t] <= Gen(t)

(* Who has a task among the calls it prepared is alone with it, and has    *)
(* not made the call.                                                      *)
CallInv ==
  /\ \A t \in Tasks, g \in Generations :
       host[t][g].calls <= 1 /\ (host[t][g].calls > 0 => Requested(t, g))
  /\ \A p \in Procs : \A t \in op[p].made :
       /\ Requested(t, op[p].gens[t])
       /\ host[t][op[p].gens[t]].calls = 0
       /\ \A q \in Procs \ {p} : t \in op[q].made => op[q].gens[t] # op[p].gens[t]

(* A generation that is over, or whose row says so, was reconciled.        *)
ReceiptInv ==
  /\ \A t \in Tasks, g \in Generations :
       g < Gen(t) \/ (g = Gen(t) /\ task[t].state \in Reconciled) => receipt[t][g] \in Answers
  /\ \A p \in Procs :
       /\ op[p].pc \in Reconciling => Requested(op[p].task, op[p].gens[op[p].task])
       /\ op[p].pc \in {"claim", "adopt"} =>
            receipt[op[p].task][op[p].gens[op[p].task]] \in Answers

(* Liveness records follow the generations.                                *)
LiveInv ==
  /\ \A t \in Tasks :
       /\ live[t].generation <= Gen(t)
       /\ task[t].state = "running" => live[t].generation = Gen(t)
  /\ \A p \in Procs : op[p].pc = "adopt" /\ op[p].seen = "one" =>
       live[op[p].task].generation >= op[p].gens[op[p].task]

(* Worktree receipts follow the generations too; a writer that was         *)
(* requested has the one of its own.                                       *)
TreeInv ==
  \A t \in Tasks :
    /\ tree[t].generation <= Gen(t)
    /\ IF tree[t].state = "absent" THEN tree[t].generation = None ELSE t \in Writers
    /\ t \in Writers /\ task[t].state \in Working => tree[t].generation = Gen(t)
    /\ tree[t].state = "integrated" =>
         /\ tree[t].generation = Gen(t)
         /\ task[t].state \in {"delivered", "integrating", "complete"}

(* The lock of a receipt is held over two steps, and what was read under   *)
(* it still holds at the second.                                           *)
Holds(p, t) == op[p].task = t /\ op[p].pc \in {"created", "sealed", "cancelled", "verify"}

LockInv ==
  /\ \A p, q \in Procs, t \in Tasks : Holds(p, t) /\ Holds(q, t) => p = q
  /\ \A p \in Procs :
       LET t == op[p].task
           g == op[p].gens[t]
       IN /\ op[p].pc = "dispatch" /\ First(op[p].todo) \in Writers =>
               tree[First(op[p].todo)].generation >= op[p].gens[First(op[p].todo)]
          /\ op[p].pc = "created" => t \in Writers /\ tree[t].generation < g
          /\ op[p].pc = "sealed" => tree[t] = [state |-> "created", generation |-> g]
          /\ op[p].pc = "cancelled" => Removable(t, g)
          /\ op[p].pc = "verify" /\ t # NoTask =>
               /\ tree[t] = [state |-> "sealed", generation |-> g]
               /\ task[t] = [state |-> "delivered", generation |-> g]
               /\ <<t, g>> \in head

(* What is integrated is in HEAD, and in what a failed test goes back to.  *)
HeadInv ==
  /\ \A p, q \in Procs : op[p].pc = "verify" /\ op[q].pc = "verify" => p = q
  /\ \A t \in Writers :
       tree[t].state = "integrated" \/ task[t].state \in {"integrating", "complete"} =>
         /\ <<t, Gen(t)>> \in head
         /\ \A p \in Procs : op[p].pc = "verify" => <<t, Gen(t)>> \in op[p].start

TeamInv ==
  TypeOK /\ PlaceInv /\ CallInv /\ ReceiptInv /\ LiveInv /\ TreeInv /\ LockInv /\ HeadInv

-----------------------------------------------------------------------------
(*                     numbers: generations and first tasks                *)

(* A nonempty set of natural numbers has a least element.                  *)
LEMMA LeastExists ==
  ASSUME NEW S, S \subseteq Nat, S # {}
  PROVE  \E x \in S : \A y \in S : x <= y
  <1>1. \E x \in S : \A y \in S : ~(<<y, x>> \in OpToRel(<, Nat))
    BY NatLessThanWellFounded, WFMin
  <1>2. \A x, y \in Nat : y < x => <<y, x>> \in OpToRel(<, Nat)
    BY DEF OpToRel
  <1>3. PICK x \in S : \A y \in S : ~(<<y, x>> \in OpToRel(<, Nat))
    BY <1>1
  <1>4. ASSUME NEW y \in S PROVE x <= y
    <2>1. x \in Nat /\ y \in Nat
      BY <1>4
    <2>2. ~(y < x)
      BY <1>2, <1>3, <2>1
    <2> QED BY <2>1, <2>2
  <1> QED BY <1>4

(* The next task of a plan is one of the plan.                             *)
LEMMA FirstIsIn ==
  ASSUME NEW S \in SUBSET Tasks, S # {}
  PROVE  First(S) \in S
  BY LeastExists, TasksAssumption DEF First, Min

(* Finitely many tasks have a bound of their generations.                  *)
LEMMA GenerationsBounded ==
  \E k \in Nat : \A t \in Tasks : MaxGeneration[t] <= k
  <1>1. PICK n \in Nat : ExistsBijection(1..n, Tasks)
    BY FS_NatBijection, TasksAssumption
  <1>2. PICK f \in Bijection(1..n, Tasks) : TRUE
    BY <1>1 DEF ExistsBijection
  <1>3. f \in [1..n -> Tasks] /\ \A t \in Tasks : \E i \in 1..n : f[i] = t
    BY <1>2 DEF Bijection, Injection, Surjection
  <1> DEFINE BoundedTo(m) == \E k \in Nat : \A i \in 1..m : MaxGeneration[f[i]] <= k
  <1> DEFINE unbounded == {m \in 0..n : ~BoundedTo(m)}
  <1>4. unbounded = {}
    <2> SUFFICES ASSUME unbounded # {} PROVE FALSE
      OBVIOUS
    <2>1. PICK m \in unbounded : \A o \in unbounded : m <= o
      <3>1. unbounded \subseteq Nat
        OBVIOUS
      <3> HIDE DEF unbounded
      <3> QED BY <3>1, LeastExists
    <2> m \in 0..n /\ ~BoundedTo(m)
      BY <2>1
    <2>2. m # 0
      <3>1. BoundedTo(0)
        <4>1. \A i \in 1..0 : MaxGeneration[f[i]] <= 0
          OBVIOUS
        <4> QED BY <4>1
      <3> QED BY <3>1, <2>1
    <2>3. PICK k \in Nat : \A i \in 1..(m - 1) : MaxGeneration[f[i]] <= k
      <3>1. m - 1 \in 0..n /\ ~(m <= m - 1)
        <4> HIDE DEF BoundedTo
        <4> QED BY <2>1, <2>2
      <3>2. BoundedTo(m - 1)
        BY <2>1, <3>1
      <3> QED BY <3>2
    <2>4. m \in 1..n /\ MaxGeneration[f[m]] \in Nat
      <3>1. m \in 1..n
        <4> HIDE DEF BoundedTo
        <4> QED BY <2>1, <2>2
      <3>2. f[m] \in Tasks
        BY <3>1, <1>3
      <3> QED BY <3>1, <3>2, BoundAssumption
    <2> HIDE DEF unbounded, BoundedTo
    <2>5. k + MaxGeneration[f[m]] \in Nat
      BY <2>3, <2>4
    <2>6. \A i \in 1..m : MaxGeneration[f[i]] <= k + MaxGeneration[f[m]]
      <3> SUFFICES ASSUME NEW i \in 1..m PROVE MaxGeneration[f[i]] <= k + MaxGeneration[f[m]]
        OBVIOUS
      <3>0. i \in 1..n /\ i \in Nat /\ m \in Nat
        BY <2>4
      <3>1. MaxGeneration[f[i]] \in Nat
        BY <1>3, <3>0, BoundAssumption
      <3>2. CASE i = m
        BY <3>2, <2>3, <2>4
      <3>3. CASE i # m
        <4>1. i \in 1..(m - 1)
          BY <3>0, <3>3
        <4>2. MaxGeneration[f[i]] <= k
          BY <2>3, <4>1
        <4> QED BY <3>1, <4>2, <2>3, <2>4
      <3> QED BY <3>2, <3>3
    <2> QED
      <3> USE DEF BoundedTo
      <3> QED BY <2>5, <2>6
  <1>5. BoundedTo(n)
    <2>1. n \in 0..n
      OBVIOUS
    <2>2. n \notin unbounded
      <3> HIDE DEF unbounded
      <3> QED BY <1>4
    <2> QED BY <2>1, <2>2
  <1> QED BY <1>3, <1>5

(* Generations are the numbers up to the largest bound.                    *)
LEMMA GenerationsOf ==
  ASSUME NEW t \in Tasks
  PROVE  /\ Generations \subseteq Nat
         /\ 0 \in Generations /\ MaxGeneration[t] \in Generations
         /\ \A g \in Generations, h \in Nat : h <= g => h \in Generations
  <1> DEFINE limits == {MaxGeneration[u] : u \in Tasks}
  <1>1. limits \subseteq Nat /\ MaxGeneration[t] \in limits
    BY BoundAssumption
  <1> DEFINE above == {k \in Nat : \A l \in limits : l <= k}
  <1>2. PICK k \in above : \A m \in above : k <= m
    <2>1. above # {}
      BY GenerationsBounded
    <2> QED BY <2>1, LeastExists
  <1>3. k \in limits
    <2> SUFFICES ASSUME k \notin limits PROVE FALSE
      OBVIOUS
    <2>1. \A l \in limits : l \in Nat /\ l <= k /\ l # k
      BY <1>1, <1>2
    <2>2. k - 1 \in above
      <3>1. k - 1 \in Nat
        BY <1>1, <1>2, <2>1
      <3>2. \A l \in limits : l <= k - 1
        <4> HIDE DEF limits
        <4>1. k \in Nat
          BY <1>2
        <4> QED BY <4>1, <2>1
      <3> HIDE DEF limits
      <3> QED BY <3>1, <3>2
    <2> QED BY <1>2, <2>2
  <1>4. Max(limits) \in limits
    <2> HIDE DEF limits
    <2>1. \E x \in limits : \A y \in limits : x >= y
      BY <1>1, <1>2, <1>3
    <2> QED BY <2>1 DEF Max
  <1>5. Max(limits) \in Nat /\ MaxGeneration[t] <= Max(limits) /\ MaxGeneration[t] \in Nat
    <2> HIDE DEF limits
    <2>1. \E x \in limits : \A y \in limits : x >= y
      BY <1>1, <1>2, <1>3
    <2>2. \A y \in limits : Max(limits) >= y
      BY <2>1 DEF Max
    <2> QED BY <1>1, <1>4, <2>2
  <1>6. Generations = 0..Max(limits)
    BY DEF Generations
  <1> HIDE DEF limits
  <1> QED BY <1>5, <1>6

-----------------------------------------------------------------------------
(*                          rows and operations                            *)

RowType == task \in [Tasks -> [state : NATIVE_TEAM_STATES, generation : Generations]]

OpType == op \in [Procs -> OpRecord]

Receipts == {"absent", "spawn_requested", "launch_unknown", "bound", "blocked"}
Hosted == [calls : 0..2, state : {"none", "called", "live"}]
Liveness == [generation : Generations \cup {None}, terminal : BOOLEAN]
Worktree == [generation : Generations \cup {None}, state :
       {"absent", "created", "sealed", "integrated", "conflict", "cancelled", "cleaned"}]

OtherTypes ==
  /\ receipt \in [Tasks -> [Generations -> Receipts]]
  /\ host \in [Tasks -> [Generations -> Hosted]]
  /\ live \in [Tasks -> Liveness]
  /\ tree \in [Tasks -> Worktree]
  /\ checkout \in [Tasks -> {"absent", "added", "committed"}]
  /\ head \subseteq Deliveries

LEMMA TypeParts == TypeOK <=> RowType /\ OpType /\ OtherTypes
  BY DEF TypeOK, RowType, OpType, OtherTypes, OpRecord, Receipts, Hosted, Liveness, Worktree

(* How the state of a row may move within a generation.                    *)
Edges ==
  ({"pending"} \X {"ready", "blocked"}) \cup ({"ready"} \X {"spawn_requested"})
  \cup ({"spawn_requested", "launch_unknown"} \X {"running", "launch_unknown", "blocked"})
  \cup ({"running"} \X {"delivered", "failed"}) \cup ({"delivered"} \X {"integrating"})
  \cup ({"integrating"} \X {"complete"})

Renewed(t) ==
  /\ task[t].state \in {"running", "launch_unknown"}
  /\ Gen(t) < MaxGeneration[t]
  /\ task'[t] = [state |-> "ready", generation |-> Gen(t) + 1]

Moved(t) ==
  /\ <<task[t].state, task'[t].state>> \in Edges
  /\ task'[t].generation = Gen(t)

Rows == RowType' /\ \A t \in Tasks : task'[t] = task[t] \/ Moved(t) \/ Renewed(t)

LEMMA RowsSame == ASSUME RowType, UNCHANGED task PROVE Rows
  BY DEF RowType, Rows

LEMMA RowTo ==
  ASSUME RowType, NEW t \in Tasks, NEW state, <<task[t].state, state>> \in Edges, To(t, state)
  PROVE  Rows
  <1>1. state \in NATIVE_TEAM_STATES
    BY DEF Edges, NATIVE_TEAM_STATES
  <1>2. \A u \in Tasks : task'[u] = IF u = t THEN [task[t] EXCEPT !.state = state] ELSE task[u]
    BY DEF To, RowType
  <1>3. RowType'
    BY <1>1 DEF To, RowType
  <1> QED BY <1>2, <1>3 DEF Rows, Moved, Gen, RowType

LEMMA RowRenewed ==
  ASSUME RowType, NEW t \in Tasks, task[t].state \in {"running", "launch_unknown"},
         Gen(t) < MaxGeneration[t], Renew(t)
  PROVE  Rows
  <1>1. Gen(t) + 1 \in Generations
    <2>1. Gen(t) \in Generations /\ MaxGeneration[t] \in Nat
      BY BoundAssumption DEF RowType, Gen
    <2>2. Gen(t) + 1 \in Nat /\ Gen(t) + 1 <= MaxGeneration[t]
      BY <2>1, GenerationsOf
    <2> QED BY <2>2, GenerationsOf
  <1>2. \A u \in Tasks :
          task'[u] = IF u = t THEN [state |-> "ready", generation |-> Gen(t) + 1] ELSE task[u]
    BY DEF Renew, RowType
  <1>3. RowType'
    <2> DEFINE row == [state |-> "ready", generation |-> Gen(t) + 1]
    <2>1. row \in [state : NATIVE_TEAM_STATES, generation : Generations]
      BY <1>1 DEF NATIVE_TEAM_STATES
    <2>2. task' = [task EXCEPT ![t] = row]
      BY DEF Renew
    <2> HIDE DEF row
    <2> QED BY <2>1, <2>2 DEF RowType
  <1> QED BY <1>2, <1>3 DEF Rows, Renewed

(* Every step moves the rows along, and none back.                         *)
LEMMA RowsMove ==
  ASSUME TypeOK, PlaceInv, Next
  PROVE  Rows
  <1>0. RowType /\ OpType
    BY TypeParts
  <1> USE <1>0
  <1>1. ASSUME NEW p \in Procs, Dispatch(p) PROVE Rows
    <2> DEFINE t == First(op[p].todo)
    <2>1. t \in Tasks
      BY <1>1, FirstIsIn DEF Dispatch, PlaceInv, Place, OpType, OpRecord
    <2> HIDE DEF t
    <2>2. CASE AsExpected(p, t, "ready")
      <3>1. <<task[t].state, "spawn_requested">> \in Edges /\ To(t, "spawn_requested")
        <4>1. To(t, "spawn_requested")
          BY <1>1, <2>2 DEF Dispatch, t
        <4>2. task[t].state = "ready"
          BY <2>2 DEF AsExpected
        <4> QED BY <4>1, <4>2 DEF Edges
      <3> QED BY <2>1, <3>1, RowTo
    <2>3. CASE ~AsExpected(p, t, "ready")
      BY <1>1, <2>3, RowsSame DEF Dispatch, t
    <2> QED BY <2>2, <2>3
  <1>2. ASSUME NEW p \in Procs, Adopt(p) PROVE Rows
    <2> DEFINE t == op[p].task
    <2>1. /\ t \in Tasks
          /\ op[p].from \in {"spawn_requested", "launch_unknown"}
          /\ op[p].seen \in {"none", "one", "ambiguous"}
      BY <1>2 DEF Adopt, PlaceInv, Place, OnOneTask, Reconciling, OpType, OpRecord
    <2>2. CASE AsExpected(p, t, op[p].from)
      <3>1. <<task[t].state, Outcome(op[p].seen)>> \in Edges /\ To(t, Outcome(op[p].seen))
        BY <1>2, <2>1, <2>2 DEF AsExpected, Edges, Adopt, Outcome
      <3> QED BY <2>1, <3>1, RowTo
    <2>3. CASE ~AsExpected(p, t, op[p].from)
      BY <1>2, <2>3, RowsSame DEF Adopt
    <2> QED BY <2>2, <2>3
  <1>3. ASSUME NEW t \in Tasks, NEW g \in Generations, RecordResult(t, g) PROVE Rows
    <2>1. CASE UNCHANGED task
      BY <2>1, RowsSame
    <2>2. ASSUME task[t] = [state |-> "running", generation |-> g],
                 NEW state \in {"delivered", "failed"}, To(t, state)
          PROVE  Rows
      <3>1. <<task[t].state, state>> \in Edges
        BY <2>2 DEF Edges
      <3> QED BY <2>2, <3>1, RowTo
    <2> QED BY <1>3, <2>1, <2>2 DEF RecordResult
  <1>4. ASSUME NEW p \in Procs, ScheduleTask(p) PROVE Rows
    <2> DEFINE t == First(op[p].todo)
    <2>1. t \in Tasks
      BY <1>4, FirstIsIn DEF ScheduleTask, PlaceInv, Place, OpType, OpRecord
    <2> HIDE DEF t
    <2>2. \/ UNCHANGED task
          \/ task[t].state = "pending" /\ (To(t, "blocked") \/ To(t, "ready"))
      BY <1>4 DEF ScheduleTask, t
    <2>3. <<"pending", "blocked">> \in Edges /\ <<"pending", "ready">> \in Edges
      BY DEF Edges
    <2> QED BY <2>1, <2>2, <2>3, RowsSame, RowTo
  <1>5. ASSUME NEW p \in Procs, Recover(p) PROVE Rows
    <2> DEFINE t == op[p].task
    <2>1. t \in Tasks /\ op[p].gens[t] < MaxGeneration[t]
      BY <1>5 DEF Recover, PlaceInv, Place, OnOneTask, Recovering
    <2>2. CASE AsExpected(p, t, "running")
      <3>1. task[t].state = "running" /\ Gen(t) = op[p].gens[t] /\ Renew(t)
        BY <1>5, <2>2 DEF Recover, AsExpected, Gen
      <3> QED BY <2>1, <3>1, RowRenewed
    <2>3. CASE ~AsExpected(p, t, "running")
      BY <1>5, <2>3, RowsSame DEF Recover
    <2> QED BY <2>2, <2>3
  <1>6. ASSUME NEW t \in Tasks, RetryUnknown(t) PROVE Rows
    <2>1. task[t].state \in {"running", "launch_unknown"} /\ Gen(t) < MaxGeneration[t] /\ Renew(t)
      BY <1>6 DEF RetryUnknown
    <2> QED BY <2>1, RowRenewed
  <1>7. ASSUME NEW p \in Procs, NEW t \in Tasks, Finalize(p, t) PROVE Rows
    <2>1. <<task[t].state, "integrating">> \in Edges /\ To(t, "integrating")
      BY <1>7 DEF Finalize, Finalizable, Edges
    <2> QED BY <2>1, RowTo
  <1>8. ASSUME NEW p \in Procs, Complete(p) PROVE Rows
    <2> DEFINE t == op[p].task
    <2>1. t \in Tasks
      BY <1>8 DEF Complete, PlaceInv, Place, OnOneTask
    <2>2. CASE AsExpected(p, t, "integrating")
      <3>1. <<task[t].state, "complete">> \in Edges /\ To(t, "complete")
        BY <1>8, <2>2 DEF AsExpected, Edges, Complete
      <3> QED BY <2>1, <3>1, RowTo
    <2>3. CASE ~AsExpected(p, t, "integrating")
      BY <1>8, <2>3, RowsSame DEF Complete
    <2> QED BY <2>2, <2>3
  <1>9. CASE UNCHANGED task
    BY <1>9, RowsSame
  <1>10. ASSUME NEW p \in Procs, Proceed(p) PROVE Rows
    <2>1. Dispatch(p) \/ Adopt(p) \/ ScheduleTask(p) \/ Recover(p) \/ Complete(p) \/ UNCHANGED task
      BY <1>10 DEF Proceed, PersistReceipt, PrepareRefused, CallHost, ReconcileReceipt,
         InitializeLiveness, RecoverInPass, Fence, RemoveCheckout, CancelReceipt, CreateReceipt,
         SealReceipt, Verify
    <2> QED BY <2>1, <1>1, <1>2, <1>4, <1>5, <1>8, <1>9
  <1>11. \/ \E p \in Procs : Proceed(p)
         \/ \E p \in Procs, t \in Tasks : Finalize(p, t)
         \/ \E t \in Tasks : RetryUnknown(t)
         \/ \E t \in Tasks, g \in Generations : RecordResult(t, g)
         \/ UNCHANGED task
    BY DEF Next, PlanFanout, ReconcileTeam, IntegrateOther, Kill, Observe, RecoverTask,
       CreateWorktree, Seal, Integrate, CleanUp, HostStep
  <1> QED BY <1>3, <1>6, <1>7, <1>9, <1>10, <1>11

(* What that says of later generations and states.                         *)
LEMMA RowLater ==
  ASSUME RowType, Rows, NEW t \in Tasks
  PROVE  /\ Gen(t) \in Nat /\ Gen(t)' \in Nat /\ Gen(t) <= Gen(t)'
         /\ task[t].state # "absent" => task'[t].state # "absent"
         /\ \A g \in Generations : Requested(t, g) => Requested(t, g)'
  <1>1. Gen(t) \in Nat /\ Gen(t)' \in Nat
    BY GenerationsOf DEF Rows, RowType, Gen
  <1>2. CASE task'[t] = task[t]
    BY <1>1, <1>2 DEF Gen, Requested
  <1>3. CASE Moved(t)
    BY <1>1, <1>3 DEF Moved, Edges, Gen, Requested
  <1>4. CASE Renewed(t)
    <2>1. Gen(t)' = Gen(t) + 1 /\ task'[t].state = "ready"
      BY <1>4 DEF Renewed, Gen
    <2>2. \A g \in Generations : Requested(t, g) => g < Gen(t)'
      BY <1>1, <2>1, GenerationsOf DEF Requested
    <2> QED BY <1>1, <2>1, <2>2 DEF Requested
  <1> QED BY <1>2, <1>3, <1>4 DEF Rows

LEMMA OpsSame ==
  ASSUME RowType, Rows, OpType, PlaceInv, UNCHANGED op
  PROVE  OpType' /\ PlaceInv'
  <1>1. \A p \in Procs, t \in Tasks : op[p].gens[t] \in Nat
    BY GenerationsOf DEF OpType, OpRecord
  <1>2. \A p \in Procs : Place(op[p])'
    BY DEF PlaceInv, Place
  <1>3. \E t \in Tasks : task'[t].state # "absent"
    BY RowLater DEF PlaceInv
  <1>4. \A p \in Procs, t \in Tasks : op'[p].gens[t] <= Gen(t)'
    BY RowLater, <1>1 DEF PlaceInv
  <1> QED BY <1>2, <1>3, <1>4 DEF PlaceInv, OpType

LEMMA OpTo ==
  ASSUME RowType, Rows, OpType, PlaceInv, NEW p \in Procs, NEW new \in OpRecord, Place(new),
         \A t \in Tasks : new.gens[t] <= Gen(t), op' = [op EXCEPT ![p] = new]
  PROVE  OpType' /\ PlaceInv'
  <1>1. \A q \in Procs, t \in Tasks : op[q].gens[t] \in Nat /\ new.gens[t] \in Nat
    BY GenerationsOf DEF OpType, OpRecord
  <1>2. \A q \in Procs : op'[q] = IF q = p THEN new ELSE op[q]
    BY DEF OpType
  <1>3. \A q \in Procs : Place(op'[q])
    BY <1>2 DEF PlaceInv
  <1>4. \A q \in Procs, t \in Tasks : op'[q].gens[t] <= Gen(t)'
    BY RowLater, <1>1, <1>2 DEF PlaceInv
  <1>5. \E t \in Tasks : task'[t].state # "absent"
    BY RowLater DEF PlaceInv
  <1>6. OpType'
    BY DEF OpType
  <1> QED BY <1>3, <1>4, <1>5, <1>6 DEF PlaceInv, Place

(* The operation goes on at another place.                                 *)
LEMMA OpStep ==
  ASSUME RowType, Rows, OpType, PlaceInv, NEW p \in Procs, NEW pc \in Pc, Step(p, pc),
         pc \in OnOneTask => op[p].task \in Tasks,
         pc \in {"prepare", "dispatch", "schedule"} => op[p].todo # {},
         pc # "call", op[p].made # {} => pc \in Fanning,
         pc \in Reconciling => op[p].from \in {"spawn_requested", "launch_unknown"},
         pc = "claim" => op[p].seen = "one",
         pc \in Recovering => op[p].gens[op[p].task] < MaxGeneration[op[p].task]
  PROVE  OpType' /\ PlaceInv'
  <1> DEFINE new == [op[p] EXCEPT !.pc = pc]
  <1>1. new \in OpRecord
    BY DEF OpType, OpRecord
  <1>2. /\ new.pc = pc /\ new.task = op[p].task /\ new.todo = op[p].todo
        /\ new.made = op[p].made /\ new.from = op[p].from /\ new.seen = op[p].seen
        /\ new.gens = op[p].gens
    BY DEF OpType, OpRecord
  <1>3. op' = [op EXCEPT ![p] = new]
    BY DEF Step
  <1> HIDE DEF new
  <1>4. Place(new)
    BY <1>2 DEF Place
  <1>5. \A t \in Tasks : new.gens[t] <= Gen(t)
    BY <1>2 DEF PlaceInv
  <1> QED BY <1>1, <1>3, <1>4, <1>5, OpTo

(* An operation returns, or begins on one task.                            *)
LEMMA IdleIsFine == Idle \in OpRecord /\ Place(Idle)
  <1>1. Idle \in OpRecord
    <2> DEFINE none == [t \in Tasks |-> 0]
    <2>1. none \in [Tasks -> Generations]
      BY GenerationsOf
    <2> HIDE DEF none
    <2>2. "idle" \in Pc /\ "pending" \in NATIVE_TEAM_STATES
      BY DEF Pc, NATIVE_TEAM_STATES
    <2> QED BY <2>1, <2>2 DEF Idle, OpRecord, none
  <1>2. Place(Idle)
    BY DEF Idle, Place, OnOneTask, Fanning, Reconciling, Recovering
  <1> QED BY <1>1, <1>2

LEMMA OpReturn ==
  ASSUME RowType, Rows, OpType, PlaceInv, NEW p \in Procs, Return(p)
  PROVE  OpType' /\ PlaceInv'
  <1>1. \A t \in Tasks : Idle.gens[t] <= Gen(t)
    BY RowLater DEF Idle
  <1> QED BY <1>1, IdleIsFine, OpTo DEF Return

(* An operation begins on one task, of which it reads the generation.      *)
Begun(pc, t, new) ==
  /\ new.pc = pc /\ new.task = t /\ new.made = {}
  /\ new.gens = [u \in Tasks |-> IF u = t THEN Gen(t) ELSE 0]

LEMMA BegunIsFine ==
  ASSUME RowType, Rows, NEW new \in OpRecord, NEW t \in Tasks, NEW pc, Begun(pc, t, new)
  PROVE  /\ \A u \in Tasks : new.gens[u] <= Gen(u)
         /\ new.gens[t] = Gen(t)
         /\ pc \notin {"prepare", "dispatch", "call", "schedule"} \cup Reconciling /\
            (pc \in Recovering => Gen(t) < MaxGeneration[t]) => Place(new)
  <1>1. \A u \in Tasks : new.gens[u] <= Gen(u)
    BY RowLater DEF Begun
  <1>2. new.gens[t] = Gen(t)
    BY DEF Begun
  <1> QED BY <1>1, <1>2 DEF Begun, Place, Reconciling

LEMMA BeginIs ==
  ASSUME RowType, NEW p \in Procs, NEW t \in Tasks, NEW pc \in Pc, Begin(p, pc, t)
  PROVE  \E new \in OpRecord :
           /\ op' = [op EXCEPT ![p] = new]
           /\ Begun(pc, t, new) /\ new.from = "pending" /\ new.seen = "none" /\ new.start = {}
           /\ new.todo = {}
  <1> DEFINE new == [Idle EXCEPT !.pc = pc, !.task = t, !.gens[t] = Gen(t)]
  <1>1. new = [pc |-> pc, task |-> t, gens |-> [u \in Tasks |-> IF u = t THEN Gen(t) ELSE 0],
               from |-> "pending", seen |-> "none", todo |-> {}, made |-> {}, stale |-> FALSE,
               start |-> {}]
    <2> DEFINE none == [u \in Tasks |-> 0]
               read == [u \in Tasks |-> IF u = t THEN Gen(t) ELSE 0]
    <2>1. [none EXCEPT ![t] = Gen(t)] = read
      OBVIOUS
    <2>2. Idle.gens = none
      BY DEF Idle
    <2>3. new = [Idle EXCEPT !.pc = pc, !.task = t, !.gens = read]
      BY <2>1, <2>2 DEF Idle
    <2> HIDE DEF none, read, new
    <2>4. new = [pc |-> pc, task |-> t, gens |-> read, from |-> "pending", seen |-> "none",
                 todo |-> {}, made |-> {}, stale |-> FALSE, start |-> {}]
      BY <2>3 DEF Idle
    <2> QED BY <2>4 DEF read
  <1>2. op' = [op EXCEPT ![p] = new]
    BY DEF Begin
  <1> DEFINE read == [u \in Tasks |-> IF u = t THEN Gen(t) ELSE 0]
  <1>3. read \in [Tasks -> Generations]
    BY GenerationsOf DEF RowType, Gen
  <1> HIDE DEF new, read
  <1>4. new \in OpRecord
    <2>1. "pending" \in NATIVE_TEAM_STATES
      BY DEF NATIVE_TEAM_STATES
    <2> QED BY <1>1, <1>3, <2>1 DEF read, OpRecord
  <1>5. Begun(pc, t, new)
    BY <1>1 DEF Begun
  <1> QED BY <1>1, <1>2, <1>4, <1>5

LEMMA OpBegin ==
  ASSUME RowType, Rows, OpType, PlaceInv, NEW p \in Procs, NEW t \in Tasks, NEW pc \in Pc,
         Begin(p, pc, t), pc \notin {"prepare", "dispatch", "call", "schedule"} \cup Reconciling,
         pc \in Recovering => Gen(t) < MaxGeneration[t]
  PROVE  OpType' /\ PlaceInv'
  <1>1. PICK new \in OpRecord : op' = [op EXCEPT ![p] = new] /\ Begun(pc, t, new)
    BY BeginIs
  <1>2. Place(new) /\ \A u \in Tasks : new.gens[u] <= Gen(u)
    BY <1>1, BegunIsFine
  <1> QED BY <1>1, <1>2, OpTo

(* A process begins a pass over the tasks, or a fan-out.                   *)
LEMMA OpPass ==
  ASSUME RowType, Rows, OpType, PlaceInv, NEW p \in Procs, NEW stale \in BOOLEAN, Pass(p, stale)
  PROVE  OpType' /\ PlaceInv'
  <1> DEFINE all == {t \in Tasks : task[t].state # "absent"}
             new == [Idle EXCEPT !.pc = "schedule", !.stale = stale, !.todo = all]
  <1>1. all \in SUBSET Tasks /\ all # {}
    BY DEF PlaceInv
  <1>2. op' = [op EXCEPT ![p] = new]
    BY DEF Pass
  <1> HIDE DEF all
  <1>3. "schedule" \in Pc
    BY DEF Pc
  <1>4. new \in OpRecord
    BY <1>1, <1>3, IdleIsFine DEF OpRecord
  <1>5. /\ new.pc = "schedule" /\ new.todo = all /\ new.made = {}
        /\ \A t \in Tasks : new.gens[t] <= Gen(t)
    BY RowLater DEF Idle
  <1> HIDE DEF new
  <1>6. Place(new)
    BY <1>1, <1>5 DEF Place, OnOneTask, Reconciling, Recovering
  <1> QED BY <1>2, <1>4, <1>5, <1>6, OpTo

LEMMA OpFanout ==
  ASSUME RowType, Rows, OpType, PlaceInv, NEW p \in Procs, PlanFanout(p)
  PROVE  OpType' /\ PlaceInv'
  <1> DEFINE read == [t \in Tasks |-> IF t \in Planned THEN Gen(t) ELSE 0]
             new == [Idle EXCEPT !.pc = "prepare", !.todo = Planned, !.gens = read]
  <1>1. Planned \in SUBSET Tasks /\ Planned # {}
    BY DEF PlanFanout, Planned, ReadyTasks
  <1>2. op' = [op EXCEPT ![p] = new]
    BY DEF PlanFanout
  <1>3. read \in [Tasks -> Generations] /\ \A t \in Tasks : read[t] <= Gen(t)
    BY GenerationsOf, RowLater DEF RowType, Gen
  <1> HIDE DEF read
  <1>4. "prepare" \in Pc
    BY DEF Pc
  <1>5. new \in OpRecord
    BY <1>1, <1>3, <1>4, IdleIsFine DEF OpRecord
  <1>6. new.pc = "prepare" /\ new.todo = Planned /\ new.made = {} /\ new.gens = read
    BY DEF Idle
  <1> HIDE DEF new
  <1>7. Place(new)
    BY <1>1, <1>6 DEF Place, OnOneTask, Reconciling, Recovering
  <1> QED BY <1>2, <1>3, <1>5, <1>6, <1>7, OpTo

(* The steps of a fan-out.                                                 *)
LEMMA OpFanning ==
  ASSUME RowType, Rows, OpType, PlaceInv, NEW p \in Procs,
         PersistReceipt(p) \/ PrepareRefused(p) \/ Dispatch(p) \/ CallHost(p)
  PROVE  OpType' /\ PlaceInv'
  <1>0. op[p] \in OpRecord /\ Place(op[p]) /\ \A t \in Tasks : op[p].gens[t] <= Gen(t)
    BY DEF PlaceInv, OpType
  <1>1. CASE PersistReceipt(p)
    <2>1. op[p].pc = "prepare" /\ Step(p, "dispatch")
      BY <1>1 DEF PersistReceipt
    <2> QED BY <1>0, <2>1, OpStep DEF Place, Pc, OnOneTask, Fanning, Reconciling, Recovering
  <1>2. CASE Return(p)
    BY <1>2, OpReturn
  <1>3. CASE Dispatch(p) /\ ~Return(p)
    <2> DEFINE t == First(op[p].todo)
               pc == IF op[p].todo = {t} THEN "call" ELSE "prepare"
               new == [op[p] EXCEPT !.pc = pc, !.todo = op[p].todo \ {t}, !.made = op[p].made \cup {t}]
    <2>1. t \in op[p].todo /\ op[p].pc = "dispatch"
      BY <1>0, <1>3, FirstIsIn DEF Dispatch, Place, OpRecord
    <2>2. op' = [op EXCEPT ![p] = new]
      BY <1>3 DEF Dispatch, OpType
    <2> HIDE DEF t
    <2>3. pc \in {"call", "prepare"} /\ (pc = "prepare" => op[p].todo \ {t} # {})
      BY <2>1
    <2> HIDE DEF pc
    <2>4. /\ new \in OpRecord
          /\ new.pc = pc /\ new.todo = op[p].todo \ {t} /\ new.made = op[p].made \cup {t}
          /\ new.gens = op[p].gens
      BY <1>0, <2>1, <2>3 DEF OpRecord, Pc
    <2> HIDE DEF new
    <2>5. Place(new)
      BY <2>3, <2>4 DEF Place, OnOneTask, Fanning, Reconciling, Recovering
    <2> QED BY <1>0, <2>2, <2>4, <2>5, OpTo
  <1>4. CASE CallHost(p) /\ ~Return(p)
    <2> DEFINE t == First(op[p].made)
               new == [op[p] EXCEPT !.made = op[p].made \ {t}]
    <2>1. t \in op[p].made /\ op[p].pc = "call" /\ op[p].made # {t}
      BY <1>0, <1>4, FirstIsIn DEF CallHost, Place, OpRecord
    <2>2. op' = [op EXCEPT ![p] = new]
      BY <1>4 DEF CallHost
    <2> HIDE DEF t
    <2>4. /\ new \in OpRecord
          /\ new.pc = op[p].pc /\ new.made = op[p].made \ {t} /\ new.gens = op[p].gens
      BY <1>0, <2>1 DEF OpRecord
    <2>5. op[p].made \ {t} # {}
      BY <2>1
    <2> HIDE DEF new
    <2>6. Place(new)
      BY <2>1, <2>4, <2>5 DEF Place, OnOneTask, Fanning, Reconciling, Recovering
    <2> QED BY <1>0, <2>2, <2>4, <2>6, OpTo
  <1>5. PrepareRefused(p) => Return(p)
    BY DEF PrepareRefused
  <1> QED BY <1>1, <1>2, <1>3, <1>4, <1>5

(* Those of a reconciliation with the host.                                *)
LEMMA OpReconciling ==
  ASSUME RowType, Rows, OpType, PlaceInv, NEW p \in Procs,
         \/ \E t \in Tasks : Observe(p, t)
         \/ ReconcileReceipt(p) \/ InitializeLiveness(p) \/ Adopt(p)
  PROVE  OpType' /\ PlaceInv'
  <1>0. op[p] \in OpRecord /\ Place(op[p])
    BY DEF PlaceInv, OpType
  <1>1. ASSUME NEW t \in Tasks, Observe(p, t) PROVE OpType' /\ PlaceInv'
    <2> DEFINE read == [Idle.gens EXCEPT ![t] = Gen(t)]
    <2>1. PICK seen \in {"none", "one", "ambiguous"} :
            op' = [op EXCEPT ![p] = [Idle EXCEPT !.pc = "receipt", !.task = t, !.gens[t] = Gen(t),
                                       !.from = task[t].state, !.seen = seen]]
      BY <1>1 DEF Observe
    <2> DEFINE new == [Idle EXCEPT !.pc = "receipt", !.task = t, !.gens = read,
                                   !.from = task[t].state, !.seen = seen]
    <2>2. op' = [op EXCEPT ![p] = new]
      BY <2>1 DEF Idle
    <2>3. read \in [Tasks -> Generations] /\ \A u \in Tasks : read[u] <= Gen(u)
      BY GenerationsOf, RowLater DEF RowType, Gen, Idle
    <2> HIDE DEF read
    <2>4. "receipt" \in Pc /\ task[t].state \in NATIVE_TEAM_STATES
      BY DEF Pc, RowType
    <2>5. new \in OpRecord
      BY <2>3, <2>4, IdleIsFine DEF OpRecord
    <2>6. /\ new.pc = "receipt" /\ new.task = t /\ new.made = {} /\ new.gens = read
          /\ new.from = task[t].state
      BY DEF Idle
    <2> HIDE DEF new
    <2>7. task[t].state \in {"spawn_requested", "launch_unknown"}
      BY <1>1 DEF Observe
    <2>8. Place(new)
      BY <2>6, <2>7 DEF Place, Reconciling, Recovering
    <2> QED BY <2>2, <2>3, <2>5, <2>6, <2>8, OpTo
  <1>2. CASE ReconcileReceipt(p)
    <2>1. /\ op[p].pc = "receipt"
          /\ \/ Step(p, "adopt")
             \/ Return(p)
             \/ op[p].seen = "one" /\ Step(p, "claim")
      BY <1>2 DEF ReconcileReceipt
    <2>2. CASE Step(p, "adopt")
      BY <1>0, <2>1, <2>2, OpStep DEF Place, Pc, OnOneTask, Fanning, Reconciling, Recovering
    <2>3. CASE op[p].seen = "one" /\ Step(p, "claim")
      BY <1>0, <2>1, <2>3, OpStep DEF Place, Pc, OnOneTask, Fanning, Reconciling, Recovering
    <2> QED BY <2>1, <2>2, <2>3, OpReturn
  <1>3. CASE InitializeLiveness(p)
    <2>1. op[p].pc = "claim" /\ (Step(p, "adopt") \/ Return(p))
      BY <1>3 DEF InitializeLiveness
    <2>2. CASE Step(p, "adopt")
      BY <1>0, <2>1, <2>2, OpStep DEF Place, Pc, OnOneTask, Fanning, Reconciling, Recovering
    <2> QED BY <2>1, <2>2, OpReturn
  <1>4. CASE Adopt(p)
    BY <1>4, OpReturn DEF Adopt
  <1> QED BY <1>1, <1>2, <1>3, <1>4

(* Those of scheduling and recovery.                                       *)
LEMMA OpRecovering ==
  ASSUME RowType, Rows, OpType, PlaceInv, NEW p \in Procs,
         \/ ReconcileTeam(p) \/ ScheduleTask(p) \/ RecoverInPass(p)
         \/ \E t \in Tasks : RecoverTask(p, t)
         \/ Fence(p) \/ RemoveCheckout(p) \/ CancelReceipt(p) \/ Recover(p)
  PROVE  OpType' /\ PlaceInv'
  <1>0. op[p] \in OpRecord /\ Place(op[p]) /\ \A t \in Tasks : op[p].gens[t] <= Gen(t)
    BY DEF PlaceInv, OpType
  <1>1. CASE ReconcileTeam(p)
    BY <1>1, OpPass DEF ReconcileTeam
  <1>2. CASE ScheduleTask(p)
    <2> DEFINE t == First(op[p].todo)
    <2>1. t \in op[p].todo /\ op[p].pc = "schedule"
      BY <1>0, <1>2, FirstIsIn DEF ScheduleTask, Place, OpRecord
    <2>2. IF op[p].todo = {t} THEN Return(p) ELSE op' = [op EXCEPT ![p].todo = @ \ {t}]
      BY <1>2 DEF ScheduleTask
    <2> HIDE DEF t
    <2>3. CASE op[p].todo = {t}
      BY <2>2, <2>3, OpReturn
    <2>4. CASE op[p].todo # {t}
      <3> DEFINE new == [op[p] EXCEPT !.todo = op[p].todo \ {t}]
      <3>1. op' = [op EXCEPT ![p] = new] /\ op[p].todo \ {t} # {}
        BY <2>1, <2>2, <2>4
      <3>2. /\ new \in OpRecord
            /\ new.pc = "schedule" /\ new.todo = op[p].todo \ {t} /\ new.made = op[p].made
            /\ new.gens = op[p].gens
        BY <1>0, <2>1 DEF OpRecord
      <3> HIDE DEF new
      <3>3. Place(new)
        BY <1>0, <2>1, <3>1, <3>2 DEF Place, OnOneTask, Fanning, Reconciling, Recovering
      <3> QED BY <1>0, <3>1, <3>2, <3>3, OpTo
    <2> QED BY <2>3, <2>4
  <1>3. CASE RecoverInPass(p)
    <2> DEFINE t == First(op[p].todo)
               read == [op[p].gens EXCEPT ![t] = Gen(t)]
               new == [op[p] EXCEPT !.pc = "fence", !.task = t, !.gens = read]
    <2>1. /\ t \in op[p].todo /\ t \in Tasks /\ op[p].pc = "schedule"
          /\ Gen(t) < MaxGeneration[t]
      BY <1>0, <1>3, FirstIsIn DEF RecoverInPass, Place, OpRecord
    <2>2. op' = [op EXCEPT ![p] = new]
      BY <1>3 DEF RecoverInPass, OpType
    <2> HIDE DEF t
    <2>3. read \in [Tasks -> Generations] /\ read[t] = Gen(t) /\ \A u \in Tasks : read[u] <= Gen(u)
      BY <1>0, <2>1, RowLater DEF OpRecord, RowType, Gen
    <2> HIDE DEF read
    <2>4. /\ new \in OpRecord
          /\ new.pc = "fence" /\ new.task = t /\ new.made = op[p].made /\ new.gens = read
      BY <1>0, <2>1, <2>3 DEF OpRecord, Pc
    <2> HIDE DEF new
    <2>5. Place(new)
      BY <1>0, <2>1, <2>3, <2>4 DEF Place, OnOneTask, Fanning, Reconciling, Recovering
    <2> QED BY <2>2, <2>3, <2>4, <2>5, OpTo
  <1>4. ASSUME NEW t \in Tasks, RecoverTask(p, t) PROVE OpType' /\ PlaceInv'
    <2>1. \E pc \in {"cancel", "recover", "fence"} : Begin(p, pc, t)
      BY <1>4 DEF RecoverTask, AfterFence
    <2>2. Gen(t) < MaxGeneration[t]
      BY <1>4 DEF RecoverTask
    <2>3. {"cancel", "recover", "fence"} \subseteq
            Pc \ ({"prepare", "dispatch", "call", "schedule"} \cup Reconciling)
      BY DEF Pc, Reconciling
    <2> QED BY <2>1, <2>2, <2>3, OpBegin
  <1>5. CASE Fence(p) \/ RemoveCheckout(p) \/ CancelReceipt(p)
    <2>1. CASE Return(p)
      BY <2>1, OpReturn
    <2>2. /\ op[p].pc \in {"fence", "cancel", "cancelled"}
          /\ Return(p) \/ \E pc \in {"cancel", "cancelled", "recover"} : Step(p, pc)
      BY <1>5 DEF Fence, RemoveCheckout, CancelReceipt, AfterFence
    <2>3. ASSUME NEW pc \in {"cancel", "cancelled", "recover"}, Step(p, pc)
          PROVE  OpType' /\ PlaceInv'
      BY <1>0, <2>2, <2>3, OpStep DEF Place, Pc, OnOneTask, Fanning, Reconciling, Recovering
    <2> QED BY <2>1, <2>2, <2>3
  <1>6. CASE Recover(p)
    <2> DEFINE rest == op[p].todo \ {op[p].task}
               new == [Idle EXCEPT !.pc = "schedule", !.stale = TRUE, !.todo = rest]
    <2>1. Return(p) \/ (rest # {} /\ op' = [op EXCEPT ![p] = new])
      BY <1>6 DEF Recover, Return
    <2>2. CASE rest # {} /\ op' = [op EXCEPT ![p] = new]
      <3>1. rest \in SUBSET Tasks /\ "schedule" \in Pc
        BY <1>0 DEF OpRecord, Pc
      <3> HIDE DEF rest
      <3>2. new \in OpRecord
        BY <3>1, IdleIsFine DEF OpRecord
      <3>3. /\ new.pc = "schedule" /\ new.todo = rest /\ new.made = {}
            /\ \A t \in Tasks : new.gens[t] <= Gen(t)
        BY RowLater DEF Idle
      <3> HIDE DEF new
      <3>4. Place(new)
        BY <2>2, <3>3 DEF Place, OnOneTask, Reconciling, Recovering
      <3> QED BY <2>2, <3>2, <3>3, <3>4, OpTo
    <2> QED BY <2>1, <2>2, OpReturn
  <1> QED BY <1>1, <1>2, <1>3, <1>4, <1>5, <1>6

(* Those of worktrees and integration.                                     *)
LEMMA OpIntegrating ==
  ASSUME RowType, Rows, OpType, PlaceInv, OtherTypes, NEW p \in Procs,
         \/ \E t \in Tasks :
              \/ CreateWorktree(p, t) \/ Seal(p, t) \/ Integrate(p, t) \/ Finalize(p, t)
         \/ IntegrateOther(p)
         \/ CreateReceipt(p) \/ SealReceipt(p) \/ Verify(p) \/ Complete(p)
  PROVE  OpType' /\ PlaceInv'
  <1>1. ASSUME NEW t \in Tasks, CreateWorktree(p, t) \/ Seal(p, t) \/ Finalize(p, t)
        PROVE  OpType' /\ PlaceInv'
    <2>1. \E pc \in {"created", "sealed", "complete"} : Begin(p, pc, t)
      BY <1>1 DEF CreateWorktree, Seal, Finalize
    <2>2. {"created", "sealed", "complete"} \subseteq
            Pc \ ({"prepare", "dispatch", "call", "schedule"} \cup Reconciling \cup Recovering)
      BY DEF Pc, Reconciling, Recovering
    <2> QED BY <2>1, <2>2, OpBegin
  <1>2. ASSUME NEW t \in Tasks, Integrate(p, t) PROVE OpType' /\ PlaceInv'
    <2>1. CASE UNCHANGED op
      BY <2>1, OpsSame
    <2>2. CASE ~UNCHANGED op
      <3> DEFINE read == [Idle.gens EXCEPT ![t] = Gen(t)]
                 new == [Idle EXCEPT !.pc = "verify", !.task = t, !.gens = read, !.start = head]
      <3>1. op' = [op EXCEPT ![p] = new]
        BY <1>2, <2>2 DEF Integrate, Idle
      <3>2. read \in [Tasks -> Generations] /\ \A u \in Tasks : read[u] <= Gen(u)
        BY GenerationsOf, RowLater DEF RowType, Gen, Idle
      <3> HIDE DEF read
      <3>3. "verify" \in Pc /\ head \in SUBSET Deliveries
        BY DEF Pc, OtherTypes
      <3>4. new \in OpRecord
        BY <3>2, <3>3, IdleIsFine DEF OpRecord
      <3>5. new.pc = "verify" /\ new.made = {} /\ new.gens = read
        BY DEF Idle
      <3> HIDE DEF new
      <3>6. Place(new)
        BY <3>5 DEF Place, OnOneTask, Reconciling, Recovering
      <3> QED BY <3>1, <3>2, <3>4, <3>5, <3>6, OpTo
    <2> QED BY <2>1, <2>2
  <1>3. CASE IntegrateOther(p)
    <2> DEFINE new == [Idle EXCEPT !.pc = "verify", !.start = head]
    <2>1. op' = [op EXCEPT ![p] = new]
      BY <1>3 DEF IntegrateOther
    <2>2. "verify" \in Pc /\ head \in SUBSET Deliveries
      BY DEF Pc, OtherTypes
    <2>3. new \in OpRecord
      BY <2>2, IdleIsFine DEF OpRecord
    <2>4. new.pc = "verify" /\ new.made = {} /\ \A t \in Tasks : new.gens[t] <= Gen(t)
      BY RowLater DEF Idle
    <2> HIDE DEF new
    <2>5. Place(new)
      BY <2>4 DEF Place, OnOneTask, Reconciling, Recovering
    <2> QED BY <2>1, <2>3, <2>4, <2>5, OpTo
  <1>4. CASE CreateReceipt(p) \/ SealReceipt(p) \/ Verify(p)
    BY <1>4, OpReturn DEF CreateReceipt, SealReceipt, Verify
  <1>5. CASE Complete(p)
    BY <1>5, OpReturn, OpPass DEF Complete
  <1> QED BY <1>1, <1>2, <1>3, <1>4, <1>5

LEMMA PlaceStep ==
  ASSUME TypeOK, PlaceInv, Next
  PROVE  OpType' /\ PlaceInv'
  <1>0. RowType /\ OpType /\ OtherTypes /\ Rows
    BY TypeParts, RowsMove
  <1>1. ASSUME NEW p \in Procs, Proceed(p) PROVE OpType' /\ PlaceInv'
    BY <1>0, <1>1, OpFanning, OpReconciling, OpRecovering, OpIntegrating DEF Proceed
  <1>2. ASSUME NEW p \in Procs,
               PlanFanout(p) \/ ReconcileTeam(p) \/ IntegrateOther(p) \/ Kill(p)
        PROVE  OpType' /\ PlaceInv'
    BY <1>0, <1>2, OpFanout, OpRecovering, OpIntegrating, OpReturn DEF Kill
  <1>3. ASSUME NEW p \in Procs, NEW t \in Tasks,
               \/ Observe(p, t) \/ RecoverTask(p, t)
               \/ CreateWorktree(p, t) \/ Seal(p, t) \/ Integrate(p, t) \/ Finalize(p, t)
        PROVE  OpType' /\ PlaceInv'
    BY <1>0, <1>3, OpReconciling, OpRecovering, OpIntegrating
  <1>4. ASSUME UNCHANGED op PROVE OpType' /\ PlaceInv'
    BY <1>0, <1>4, OpsSame
  <1>5. ASSUME NEW t \in Tasks, RetryUnknown(t) \/ CleanUp(t) PROVE UNCHANGED op
    BY <1>5 DEF RetryUnknown, CleanUp
  <1>6. ASSUME NEW t \in Tasks, NEW g \in Generations, HostStep(t, g) \/ RecordResult(t, g)
        PROVE  UNCHANGED op
    BY <1>6 DEF HostStep, RecordResult
  <1> QED BY <1>1, <1>2, <1>3, <1>4, <1>5, <1>6 DEF Next

-----------------------------------------------------------------------------
(*                     receipts, liveness and worktrees                    *)

(* The other files stay well typed. A call that is counted is a first one. *)
LEMMA OthersStep ==
  ASSUME TypeOK, PlaceInv, CallInv, Next
  PROVE  OtherTypes'
  <1>0. RowType /\ OpType /\ OtherTypes
    BY TypeParts
  <1> USE <1>0
  <1>1. \A p \in Procs : op[p] \in OpRecord /\ Place(op[p])
    BY DEF OpType, PlaceInv
  <1>2. \A t \in Tasks : Gen(t) \in Generations
    BY DEF RowType, Gen
  <1>3. ASSUME NEW p \in Procs, PersistReceipt(p) PROVE OtherTypes'
    <2> DEFINE t == First(op[p].todo)
    <2>1. t \in Tasks /\ op[p].gens[t] \in Generations
      BY <1>1, <1>3, FirstIsIn DEF PersistReceipt, Place, OpRecord
    <2>2. /\ receipt' = [receipt EXCEPT ![t][op[p].gens[t]] = "spawn_requested"]
          /\ UNCHANGED <<host, live, tree, checkout, head>>
      BY <1>3 DEF PersistReceipt
    <2>3. "spawn_requested" \in Receipts
      BY DEF Receipts
    <2> HIDE DEF t
    <2> QED BY <2>1, <2>2, <2>3 DEF OtherTypes
  <1>4. ASSUME NEW p \in Procs, CallHost(p) PROVE OtherTypes'
    <2> DEFINE t == First(op[p].made)
               g == op[p].gens[t]
               called == [calls |-> host[t][g].calls + 1, state |-> "called"]
    <2>1. t \in op[p].made /\ t \in Tasks /\ g \in Generations
      BY <1>1, <1>4, FirstIsIn DEF CallHost, Place, OpRecord
    <2>2. host[t][g].calls = 0
      BY <2>1 DEF CallInv
    <2>3. called \in Hosted
      BY <2>2 DEF Hosted
    <2>4. host' = [host EXCEPT ![t][g] = called] /\ UNCHANGED <<receipt, live, tree, checkout, head>>
      BY <1>4 DEF CallHost
    <2> HIDE DEF t, g, called
    <2> QED BY <2>1, <2>3, <2>4 DEF OtherTypes
  <1>5. ASSUME NEW t \in Tasks, NEW g \in Generations, HostStep(t, g) PROVE OtherTypes'
    <2>1. [host[t][g] EXCEPT !.state = "live"] \in Hosted
      <3>1. host[t][g] \in Hosted
        BY DEF OtherTypes
      <3> QED BY <3>1 DEF Hosted
    <2> DEFINE new == [host[t][g] EXCEPT !.state = "live"]
    <2>2. host' = [host EXCEPT ![t][g] = new] /\ UNCHANGED <<receipt, live, tree, checkout, head>>
      BY <1>5 DEF HostStep
    <2> HIDE DEF new
    <2> QED BY <2>1, <2>2 DEF OtherTypes, new
  <1>6. ASSUME NEW p \in Procs, ReconcileReceipt(p) PROVE OtherTypes'
    <2>1. op[p].task \in Tasks /\ op[p].gens[op[p].task] \in Generations
      BY <1>1, <1>6 DEF ReconcileReceipt, Place, OnOneTask, Reconciling, OpRecord
    <2>2. /\ \/ UNCHANGED receipt
             \/ \E status \in Receipts :
                  receipt' = [receipt EXCEPT ![op[p].task][op[p].gens[op[p].task]] = status]
          /\ UNCHANGED <<host, live, tree, checkout, head>>
      BY <1>6 DEF ReconcileReceipt, Receipts
    <2>3. CASE UNCHANGED receipt
      BY <2>2, <2>3 DEF OtherTypes
    <2>4. ASSUME NEW status \in Receipts,
                 receipt' = [receipt EXCEPT ![op[p].task][op[p].gens[op[p].task]] = status]
          PROVE  OtherTypes'
      BY <2>1, <2>2, <2>4 DEF OtherTypes
    <2> QED BY <2>2, <2>3, <2>4
  <1>7. ASSUME NEW p \in Procs, InitializeLiveness(p) \/ Fence(p) PROVE OtherTypes'
    <2> DEFINE t == op[p].task
               g == op[p].gens[t]
    <2>1. t \in Tasks /\ g \in Generations
      BY <1>1, <1>7 DEF InitializeLiveness, Fence, Place, OnOneTask, Reconciling, Recovering, OpRecord
    <2>2. /\ \/ UNCHANGED live
             \/ live' = [live EXCEPT ![t] = [generation |-> g, terminal |-> FALSE]]
             \/ \E terminal \in BOOLEAN : live' = [live EXCEPT ![t].terminal = terminal]
          /\ UNCHANGED <<receipt, host, tree, checkout, head>>
      <3>1. live[t].terminal \in BOOLEAN
        BY <2>1 DEF OtherTypes, Liveness
      <3> QED BY <1>7, <3>1 DEF InitializeLiveness, Fence
    <2>3. [generation |-> g, terminal |-> FALSE] \in Liveness
      BY <2>1 DEF Liveness
    <2>4. \A terminal \in BOOLEAN : [live[t] EXCEPT !.terminal = terminal] \in Liveness
      BY <2>1 DEF OtherTypes, Liveness
    <2> HIDE DEF t, g
    <2>5. CASE \E new \in Liveness : live' = live \/ live' = [live EXCEPT ![t] = new]
      BY <2>2, <2>5 DEF OtherTypes
    <2> QED BY <2>2, <2>3, <2>4, <2>5
  <1>8. ASSUME NEW t \in Tasks, NEW g \in Generations, RecordResult(t, g) PROVE OtherTypes'
    <2>1. /\ \E terminal \in BOOLEAN : live' = live \/ live' = [live EXCEPT ![t].terminal = terminal]
          /\ UNCHANGED <<receipt, host, tree, checkout, head>>
      <3>1. live[t].terminal \in BOOLEAN
        BY DEF OtherTypes, Liveness
      <3> QED BY <1>8, <3>1 DEF RecordResult
    <2>2. \A terminal \in BOOLEAN : [live[t] EXCEPT !.terminal = terminal] \in Liveness
      BY DEF OtherTypes, Liveness
    <2>3. \E new \in Liveness : live' = live \/ live' = [live EXCEPT ![t] = new]
      BY <2>1, <2>2
    <2> QED BY <2>1, <2>3 DEF OtherTypes
  <1>9. ASSUME NEW p \in Procs, RemoveCheckout(p) PROVE OtherTypes'
    BY <1>9 DEF RemoveCheckout, OtherTypes
  <1>10. ASSUME NEW p \in Procs, CancelReceipt(p) \/ SealReceipt(p) PROVE OtherTypes'
    <2>1. PICK state \in {"cancelled", "sealed", "conflict"} :
            tree' = [tree EXCEPT ![op[p].task].state = state]
      BY <1>10 DEF CancelReceipt, SealReceipt
    <2>2. UNCHANGED <<receipt, host, live, checkout, head>>
      BY <1>10 DEF CancelReceipt, SealReceipt
    <2> QED BY <2>1, <2>2 DEF OtherTypes, Worktree
  <1>11. ASSUME NEW p \in Procs, CreateReceipt(p) PROVE OtherTypes'
    <2> DEFINE t == op[p].task
               new == [state |-> "created", generation |-> op[p].gens[t]]
    <2>1. t \in Tasks /\ op[p].gens[t] \in Generations
      BY <1>1, <1>11 DEF CreateReceipt, Place, OnOneTask, OpRecord
    <2>2. tree' = [tree EXCEPT ![t] = new] /\ UNCHANGED <<receipt, host, live, checkout, head>>
      BY <1>11 DEF CreateReceipt
    <2>3. new \in Worktree
      BY <2>1 DEF Worktree
    <2> HIDE DEF new
    <2> QED BY <2>2, <2>3 DEF OtherTypes
  <1>12. ASSUME NEW p \in Procs, NEW t \in Tasks, CreateWorktree(p, t) \/ Seal(p, t) PROVE OtherTypes'
    BY <1>12 DEF CreateWorktree, Seal, OtherTypes
  <1>13. ASSUME NEW p \in Procs, NEW t \in Tasks, Integrate(p, t) PROVE OtherTypes'
    <2>1. <<t, Gen(t)>> \in Deliveries
      BY <1>2 DEF Deliveries
    <2>2. /\ head' \in {head, head \cup {<<t, Gen(t)>>}}
          /\ tree' \in {tree, [tree EXCEPT ![t].state = "conflict"]}
          /\ UNCHANGED <<receipt, host, live, checkout>>
      BY <1>13 DEF Integrate
    <2> QED BY <2>1, <2>2 DEF OtherTypes, Worktree
  <1>14. ASSUME NEW p \in Procs, IntegrateOther(p) PROVE OtherTypes'
    BY <1>14 DEF IntegrateOther, Deliveries, OtherTypes
  <1>15. ASSUME NEW p \in Procs, Verify(p) PROVE OtherTypes'
    <2>1. op[p].start \subseteq Deliveries
      BY <1>1 DEF OpRecord
    <2>2. /\ head' \in {head, op[p].start}
          /\ tree' \in {tree, [tree EXCEPT ![op[p].task].state = "integrated"]}
          /\ UNCHANGED <<receipt, host, live, checkout>>
      BY <1>15 DEF Verify
    <2>3. head' \subseteq Deliveries
      BY <2>1, <2>2 DEF OtherTypes
    <2>4. tree' \in [Tasks -> Worktree]
      <3> DEFINE t == op[p].task
                 new == [tree[t] EXCEPT !.state = "integrated"]
      <3>1. CASE t \in Tasks /\ tree' = [tree EXCEPT ![t] = new]
        <4>1. new \in Worktree
          BY <3>1 DEF OtherTypes, Worktree
        <4> HIDE DEF new, t
        <4> QED BY <3>1, <4>1 DEF OtherTypes
      <3>2. CASE tree' = tree
        BY <3>2 DEF OtherTypes
      <3>3. tree' = tree \/ (t \in Tasks /\ tree' = [tree EXCEPT ![t] = new])
        BY <1>1, <1>15 DEF Verify, OpRecord
      <3> QED BY <3>1, <3>2, <3>3
    <2> QED BY <2>2, <2>3, <2>4 DEF OtherTypes
  <1>16. ASSUME NEW t \in Tasks, CleanUp(t) PROVE OtherTypes'
    BY <1>16 DEF CleanUp, OtherTypes, Worktree
  <1>17. ASSUME UNCHANGED <<receipt, host, live, tree, checkout, head>> PROVE OtherTypes'
    BY <1>17 DEF OtherTypes
  <1>18. ASSUME NEW p \in Procs, Proceed(p) PROVE OtherTypes'
    <2>1. \/ PersistReceipt(p) \/ CallHost(p) \/ ReconcileReceipt(p) \/ InitializeLiveness(p)
          \/ Fence(p) \/ RemoveCheckout(p) \/ CancelReceipt(p) \/ SealReceipt(p)
          \/ CreateReceipt(p) \/ Verify(p)
          \/ UNCHANGED <<receipt, host, live, tree, checkout, head>>
      BY <1>18 DEF Proceed, PrepareRefused, Dispatch, Adopt, ScheduleTask, RecoverInPass, Recover,
         Complete
    <2> QED BY <2>1, <1>3, <1>4, <1>6, <1>7, <1>9, <1>10, <1>11, <1>15, <1>17
  <1>19. ASSUME NEW p \in Procs, NEW t \in Tasks,
                Observe(p, t) \/ RecoverTask(p, t) \/ Finalize(p, t)
         PROVE  UNCHANGED <<receipt, host, live, tree, checkout, head>>
    BY <1>19 DEF Observe, RecoverTask, Finalize
  <1>20. ASSUME NEW p \in Procs, PlanFanout(p) \/ ReconcileTeam(p) \/ Kill(p)
         PROVE  UNCHANGED <<receipt, host, live, tree, checkout, head>>
    BY <1>20 DEF PlanFanout, ReconcileTeam, Kill
  <1>21. ASSUME NEW t \in Tasks, RetryUnknown(t)
         PROVE  UNCHANGED <<receipt, host, live, tree, checkout, head>>
    BY <1>21 DEF RetryUnknown
  <1> QED BY <1>5, <1>8, <1>12, <1>13, <1>14, <1>16, <1>17, <1>18, <1>19, <1>20, <1>21 DEF Next

(* The steps after which a process holds something it did not hold before, *)
(* and those after which it holds nothing new.                             *)
Busy(p) ==
  \/ PersistReceipt(p) \/ Dispatch(p) \/ CallHost(p)
  \/ ReconcileReceipt(p) \/ InitializeLiveness(p) \/ RemoveCheckout(p) \/ IntegrateOther(p)
  \/ \E t \in Tasks : Observe(p, t) \/ CreateWorktree(p, t) \/ Seal(p, t) \/ Integrate(p, t)

Harmless(o) ==
  o.made = {} /\ o.pc \in {"idle", "prepare", "schedule", "fence", "cancel", "recover", "complete"}

NoneBusy == \A p \in Procs : op'[p] = op[p] \/ Harmless(op'[p])

LEMMA Turns ==
  ASSUME TypeOK, PlaceInv, Next
  PROVE  (\E p \in Procs : Busy(p)) \/ NoneBusy
  <1>0. OpType /\ \A p \in Procs : op[p] \in OpRecord /\ Place(op[p])
    BY TypeParts DEF OpType, PlaceInv
  <1> USE <1>0
  <1>1. ASSUME NEW p \in Procs, NEW new, op' = [op EXCEPT ![p] = new], Harmless(new) PROVE NoneBusy
    BY <1>1 DEF NoneBusy, OpType
  <1>2. ASSUME NEW p \in Procs, Return(p) PROVE NoneBusy
    <2>1. Harmless(Idle)
      BY DEF Harmless, Idle
    <2>2. op' = [op EXCEPT ![p] = Idle]
      BY <1>2 DEF Return
    <2> QED BY <1>1, <2>1, <2>2
  <1>3. ASSUME NEW p \in Procs, op[p].made = {},
               NEW pc \in {"schedule", "fence", "cancel", "recover", "complete"}, Step(p, pc)
        PROVE  NoneBusy
    <2> DEFINE new == [op[p] EXCEPT !.pc = pc]
    <2>1. op' = [op EXCEPT ![p] = new]
      BY <1>3 DEF Step
    <2>2. Harmless(new)
      BY <1>3 DEF Harmless, OpRecord
    <2> QED BY <1>1, <2>1, <2>2
  <1>4. ASSUME NEW p \in Procs, NEW t \in Tasks,
               NEW pc \in {"fence", "cancel", "recover", "complete"}, Begin(p, pc, t)
        PROVE  NoneBusy
    <2> DEFINE new == [Idle EXCEPT !.pc = pc, !.task = t, !.gens[t] = Gen(t)]
    <2>1. op' = [op EXCEPT ![p] = new]
      BY <1>4 DEF Begin
    <2>2. Harmless(new)
      BY DEF Harmless, Idle
    <2> QED BY <1>1, <2>1, <2>2
  <1>5. ASSUME NEW p \in Procs, NEW stale, Pass(p, stale) PROVE NoneBusy
    <2> DEFINE new == [Idle EXCEPT !.pc = "schedule", !.stale = stale,
                                   !.todo = {t \in Tasks : task[t].state # "absent"}]
    <2>1. op' = [op EXCEPT ![p] = new]
      BY <1>5 DEF Pass
    <2>2. Harmless(new)
      BY DEF Harmless, Idle
    <2> QED BY <1>1, <2>1, <2>2
  <1>6. UNCHANGED op => NoneBusy
    BY DEF NoneBusy
  <1>7. ASSUME NEW p \in Procs, PlanFanout(p) PROVE NoneBusy
    <2> DEFINE new == [Idle EXCEPT !.pc = "prepare", !.todo = Planned,
                         !.gens = [t \in Tasks |-> IF t \in Planned THEN Gen(t) ELSE 0]]
    <2>1. op' = [op EXCEPT ![p] = new]
      BY <1>7 DEF PlanFanout
    <2>2. Harmless(new)
      BY DEF Harmless, Idle
    <2> QED BY <1>1, <2>1, <2>2
  <1>8. ASSUME NEW p \in Procs, ScheduleTask(p) PROVE NoneBusy
    <2> DEFINE new == [op[p] EXCEPT !.todo = op[p].todo \ {First(op[p].todo)}]
    <2>1. Return(p) \/ op' = [op EXCEPT ![p] = new]
      BY <1>8 DEF ScheduleTask
    <2>2. Harmless(new)
      <3>1. op[p].pc = "schedule"
        BY <1>8 DEF ScheduleTask
      <3> QED BY <3>1 DEF Place, Fanning, Harmless, OpRecord
    <2> HIDE DEF new
    <2> QED BY <1>1, <1>2, <2>1, <2>2
  <1>9. ASSUME NEW p \in Procs, RecoverInPass(p) PROVE NoneBusy
    <2> DEFINE t == First(op[p].todo)
               new == [op[p] EXCEPT !.pc = "fence", !.task = t, !.gens[t] = Gen(t)]
    <2>1. op' = [op EXCEPT ![p] = new] /\ op[p].pc = "schedule"
      BY <1>9 DEF RecoverInPass
    <2>2. new.made = op[p].made /\ new.pc = "fence"
      BY DEF OpRecord
    <2>3. Harmless(new)
      BY <2>1, <2>2 DEF Place, Fanning, Harmless
    <2> HIDE DEF new
    <2> QED BY <1>1, <2>1, <2>3
  <1>10. ASSUME NEW p \in Procs, NEW t \in Tasks, RecoverTask(p, t) \/ Finalize(p, t) PROVE NoneBusy
    <2>1. \E pc \in {"fence", "cancel", "recover", "complete"} : Begin(p, pc, t)
      BY <1>10 DEF RecoverTask, Finalize, AfterFence
    <2> QED BY <2>1, <1>4
  <1>11. ASSUME NEW p \in Procs, Fence(p) \/ CancelReceipt(p) PROVE NoneBusy
    <2>1. /\ op[p].pc \in {"fence", "cancelled"}
          /\ \E pc \in {"cancel", "recover"} : Step(p, pc)
      BY <1>11 DEF Fence, CancelReceipt, AfterFence
    <2>2. op[p].made = {}
      BY <2>1 DEF Place, Fanning
    <2> QED BY <2>1, <2>2, <1>3
  <1>12. ASSUME NEW p \in Procs, Recover(p) PROVE NoneBusy
    <2> DEFINE new == [Idle EXCEPT !.pc = "schedule", !.stale = TRUE,
                                   !.todo = op[p].todo \ {op[p].task}]
    <2>1. Return(p) \/ op' = [op EXCEPT ![p] = new]
      BY <1>12 DEF Recover, Return
    <2>2. Harmless(new)
      BY DEF Harmless, Idle
    <2> HIDE DEF new
    <2> QED BY <1>1, <1>2, <2>1, <2>2
  <1>13. ASSUME NEW p \in Procs,
                \/ PrepareRefused(p) \/ Adopt(p) \/ CreateReceipt(p) \/ SealReceipt(p)
                \/ Verify(p) \/ Kill(p)
         PROVE  NoneBusy
    BY <1>2, <1>13 DEF PrepareRefused, Adopt, CreateReceipt, SealReceipt, Verify, Kill
  <1>14. ASSUME NEW p \in Procs, Complete(p) PROVE NoneBusy
    BY <1>2, <1>5, <1>14 DEF Complete
  <1>15. ASSUME NEW p \in Procs, ReconcileTeam(p) PROVE NoneBusy
    BY <1>5, <1>15 DEF ReconcileTeam
  <1>16. ASSUME NEW p \in Procs, Proceed(p) PROVE Busy(p) \/ NoneBusy
    BY <1>8, <1>9, <1>11, <1>12, <1>13, <1>14, <1>16 DEF Proceed, Busy
  <1>17. ASSUME NEW t \in Tasks, RetryUnknown(t) \/ CleanUp(t) PROVE NoneBusy
    BY <1>6, <1>17 DEF RetryUnknown, CleanUp
  <1>18. ASSUME NEW t \in Tasks, NEW g \in Generations, HostStep(t, g) \/ RecordResult(t, g)
         PROVE  NoneBusy
    BY <1>6, <1>18 DEF HostStep, RecordResult
  <1>19. ASSUME NEW p \in Procs, NEW t \in Tasks,
                \/ Observe(p, t) \/ RecoverTask(p, t)
                \/ CreateWorktree(p, t) \/ Seal(p, t) \/ Integrate(p, t) \/ Finalize(p, t)
         PROVE  Busy(p) \/ NoneBusy
    BY <1>10, <1>19 DEF Busy
  <1>20. ASSUME NEW p \in Procs, IntegrateOther(p) PROVE Busy(p)
    BY <1>20 DEF Busy
  <1> QED BY <1>7, <1>13, <1>15, <1>16, <1>17, <1>18, <1>19, <1>20 DEF Next

(* A step that changes no count and prepares no call.                      *)
Prepared(p) ==
  op'[p].made = {} \/ (op'[p].made = op[p].made /\ op'[p].gens = op[p].gens)

LEMMA CallFrame ==
  ASSUME TypeOK, Rows, CallInv, \A p \in Procs : Prepared(p),
         \A t \in Tasks, g \in Generations : host'[t][g].calls = host[t][g].calls
  PROVE  CallInv'
  <1>0. RowType /\ OpType /\ OtherTypes
    BY TypeParts
  <1>1. ASSUME NEW t \in Tasks, NEW g \in Generations
        PROVE  host'[t][g].calls <= 1 /\ (host'[t][g].calls > 0 => Requested(t, g)')
    BY <1>0, RowLater DEF CallInv
  <1>2. ASSUME NEW p \in Procs, NEW t \in op'[p].made
        PROVE  /\ Requested(t, op[p].gens[t])'
               /\ host'[t][op'[p].gens[t]].calls = 0
               /\ \A q \in Procs \ {p} : t \in op'[q].made => op'[q].gens[t] # op'[p].gens[t]
    <2>1. op'[p].made = op[p].made /\ op'[p].gens = op[p].gens /\ t \in op[p].made
      BY <1>2 DEF Prepared
    <2>2. t \in Tasks /\ op[p].gens[t] \in Generations
      BY <1>0, <2>1 DEF OpType, OpRecord
    <2>3. PICK g \in Generations : g = op[p].gens[t]
      BY <2>2
    <2>4. Requested(t, g)'
      BY <1>0, <2>1, <2>2, <2>3, RowLater DEF CallInv
    <2>5. Requested(t, op[p].gens[t])'
      BY <2>1, <2>3, <2>4 DEF Requested
    <2>6. host'[t][g].calls = 0
      BY <2>1, <2>2, <2>3 DEF CallInv
    <2>7. \A q \in Procs \ {p} : t \in op'[q].made => op'[q].gens[t] # op'[p].gens[t]
      BY <2>1 DEF CallInv, Prepared
    <2> QED BY <2>1, <2>3, <2>5, <2>6, <2>7
  <1> QED BY <1>1, <1>2 DEF CallInv

LEMMA CallStep ==
  ASSUME TypeOK, PlaceInv, CallInv, Next
  PROVE  CallInv'
  <1>0. RowType /\ OpType /\ OtherTypes /\ Rows
    BY TypeParts, RowsMove
  <1>1. \A p \in Procs : op[p] \in OpRecord /\ Place(op[p])
    BY <1>0 DEF OpType, PlaceInv
  <1>2. ASSUME NEW p \in Procs, Dispatch(p) PROVE CallInv'
    <2>1. PICK t \in Tasks : t = First(op[p].todo)
      BY <1>1, <1>2, FirstIsIn DEF Dispatch, Place, OpRecord
    <2>2. UNCHANGED host
      BY <1>2 DEF Dispatch
    <2>3. CASE ~AsExpected(p, t, "ready")
      <3>1. Return(p)
        BY <1>2, <2>1, <2>3 DEF Dispatch
      <3>2. \A q \in Procs : Prepared(q)
        BY <1>0, <3>1 DEF Return, Idle, Prepared, OpType
      <3> QED BY <1>0, <2>2, <3>2, CallFrame
    <2>4. CASE AsExpected(p, t, "ready")
      <3> DEFINE pc == IF op[p].todo = {t} THEN "call" ELSE "prepare"
                 new == [op[p] EXCEPT !.pc = pc, !.todo = op[p].todo \ {t},
                                      !.made = op[p].made \cup {t}]
      <3>1. op' = [op EXCEPT ![p] = new] /\ To(t, "spawn_requested")
        BY <1>2, <2>1, <2>4 DEF Dispatch
      <3>2. PICK g \in Generations : g = op[p].gens[t]
        BY <1>1, <2>1 DEF OpRecord
      <3>3. Gen(t) = g /\ task[t].state = "ready" /\ Gen(t) \in Nat
        BY <1>0, <2>1, <2>4, <3>2, RowLater DEF AsExpected, Gen
      <3>4. Gen(t)' = g /\ task'[t].state = "spawn_requested"
        BY <1>0, <2>1, <3>1, <3>3 DEF To, Gen, RowType
      <3>5. ~Requested(t, g) /\ Requested(t, g)'
        BY <3>3, <3>4 DEF Requested
      <3>6. /\ \A q \in Procs \ {p} : op'[q] = op[q]
            /\ op'[p].made = op[p].made \cup {t} /\ op'[p].gens = op[p].gens
        BY <1>0, <1>1, <3>1 DEF OpType, OpRecord
      <3>7. host[t][g].calls = 0
        <4>1. ~(host[t][g].calls > 0) /\ host[t][g].calls \in 0..2
          BY <1>0, <2>1, <3>5 DEF CallInv, OtherTypes, Hosted
        <4> QED BY <4>1
      <3>8. \A q \in Procs : t \in op[q].made => op[q].gens[t] # g
        BY <3>5 DEF CallInv
      <3>9. ASSUME NEW u \in Tasks, NEW h \in Generations
            PROVE  host'[u][h].calls <= 1 /\ (host'[u][h].calls > 0 => Requested(u, h)')
        BY <1>0, <2>2, RowLater DEF CallInv
      <3>10. ASSUME NEW q \in Procs, NEW u \in op'[q].made
             PROVE  /\ Requested(u, op[q].gens[u])'
                    /\ host'[u][op'[q].gens[u]].calls = 0
                    /\ \A r \in Procs \ {q} : u \in op'[r].made => op'[r].gens[u] # op'[q].gens[u]
        <4>1. op'[q].gens = op[q].gens /\ op'[q].made \subseteq op[q].made \cup {t}
          BY <3>6
        <4>2. \A r \in Procs : op'[r].gens = op[r].gens /\ op'[r].made \subseteq op[r].made \cup {t}
          BY <3>6
        <4>3. CASE u \in op[q].made
          <5>1. u \in Tasks
            BY <1>1, <4>3 DEF OpRecord
          <5>2. PICK h \in Generations : h = op[q].gens[u]
            BY <1>1, <5>1 DEF OpRecord
          <5>3. Requested(u, h)'
            BY <1>0, <4>3, <5>1, <5>2, RowLater DEF CallInv
          <5>4. Requested(u, op[q].gens[u])'
            BY <4>1, <5>2, <5>3 DEF Requested
          <5>5. host'[u][h].calls = 0
            BY <2>2, <4>3, <5>2 DEF CallInv
          <5>6. ASSUME NEW r \in Procs \ {q}, u \in op'[r].made PROVE op'[r].gens[u] # op'[q].gens[u]
            <6>1. CASE u \in op[r].made
              BY <4>2, <4>3, <6>1 DEF CallInv
            <6>2. CASE u \notin op[r].made
              <7>1. u = t /\ r = p
                BY <3>6, <5>6, <6>2
              <7> QED BY <3>2, <3>8, <4>2, <4>3, <7>1
            <6> QED BY <6>1, <6>2
          <5> QED BY <4>1, <5>2, <5>4, <5>5, <5>6
        <4>4. CASE u \notin op[q].made
          <5>1. u = t /\ q = p
            BY <3>6, <3>10, <4>4
          <5>2. Requested(u, op[q].gens[u])'
            BY <3>2, <3>5, <3>6, <5>1 DEF Requested
          <5>3. \A r \in Procs \ {q} : u \in op'[r].made => op'[r].gens[u] # op'[q].gens[u]
            BY <3>2, <3>6, <3>8, <5>1
          <5> QED BY <2>2, <3>2, <3>6, <3>7, <5>1, <5>2, <5>3
        <4> QED BY <4>3, <4>4
      <3> QED BY <3>9, <3>10 DEF CallInv
    <2> QED BY <2>3, <2>4
  <1>3. ASSUME NEW p \in Procs, CallHost(p) PROVE CallInv'
    <2>1. PICK t \in Tasks : t = First(op[p].made) /\ t \in op[p].made
      BY <1>1, <1>3, FirstIsIn DEF CallHost, Place, OpRecord
    <2>2. PICK g \in Generations : g = op[p].gens[t]
      BY <1>1, <2>1 DEF OpRecord
    <2>3. Requested(t, g) /\ host[t][g].calls = 0
      BY <2>1, <2>2 DEF CallInv
    <2>4. host' = [host EXCEPT ![t][g] = [calls |-> host[t][g].calls + 1, state |-> "called"]]
      BY <1>3, <2>1, <2>2 DEF CallHost
    <2>5. /\ host'[t][g].calls = 1
          /\ \A u \in Tasks, h \in Generations : u # t \/ h # g => host'[u][h] = host[u][h]
      BY <1>0, <2>3, <2>4 DEF OtherTypes
    <2>6. /\ \A q \in Procs \ {p} : op'[q] = op[q]
          /\ op'[p].made = {} \/ (op'[p].made = op[p].made \ {t} /\ op'[p].gens = op[p].gens)
      <3>1. Return(p) \/ op' = [op EXCEPT ![p].made = op[p].made \ {t}]
        BY <1>3, <2>1 DEF CallHost
      <3>2. CASE Return(p)
        BY <1>0, <3>2 DEF Return, Idle, OpType
      <3>3. CASE op' = [op EXCEPT ![p].made = op[p].made \ {t}]
        BY <1>0, <1>1, <3>3 DEF OpType, OpRecord
      <3> QED BY <3>1, <3>2, <3>3
    <2>7. ASSUME NEW u \in Tasks, NEW h \in Generations
          PROVE  host'[u][h].calls <= 1 /\ (host'[u][h].calls > 0 => Requested(u, h)')
      <3>1. Requested(u, h) => Requested(u, h)'
        BY <1>0, RowLater
      <3>2. CASE u = t /\ h = g
        BY <2>3, <2>5, <3>1, <3>2
      <3>3. CASE u # t \/ h # g
        BY <2>5, <3>1, <3>3 DEF CallInv
      <3> QED BY <3>2, <3>3
    <2>8. ASSUME NEW q \in Procs, NEW u \in op'[q].made
          PROVE  /\ Requested(u, op[q].gens[u])' /\ host'[u][op'[q].gens[u]].calls = 0
                 /\ \A r \in Procs \ {q} : u \in op'[r].made => op'[r].gens[u] # op'[q].gens[u]
      <3>1. \A r \in Procs : u \in op'[r].made =>
              u \in op[r].made /\ op'[r].gens = op[r].gens /\ (r = p => u # t)
        BY <2>6
      <3>2. u \in Tasks
        BY <1>1, <2>8, <3>1 DEF OpRecord
      <3>3. PICK h \in Generations : h = op[q].gens[u]
        BY <1>1, <3>2 DEF OpRecord
      <3>4. Requested(u, h)'
        BY <1>0, <2>8, <3>1, <3>2, <3>3, RowLater DEF CallInv
      <3>5. Requested(u, op[q].gens[u])'
        BY <2>8, <3>1, <3>3, <3>4 DEF Requested
      <3>6. u # t \/ h # g
        BY <2>1, <2>2, <2>8, <3>1, <3>3 DEF CallInv
      <3>7. host'[u][h].calls = 0
        BY <2>5, <2>8, <3>1, <3>2, <3>3, <3>6 DEF CallInv
      <3>8. \A r \in Procs \ {q} : u \in op'[r].made => op'[r].gens[u] # op'[q].gens[u]
        BY <2>8, <3>1 DEF CallInv
      <3> QED BY <2>8, <3>1, <3>3, <3>5, <3>7, <3>8
    <2> QED BY <2>7, <2>8 DEF CallInv
  <1>4. ASSUME ~(\E p \in Procs : Dispatch(p) \/ CallHost(p)) PROVE \A p \in Procs : Prepared(p)
    <2>1. ASSUME NEW p \in Procs, NEW new, op' = [op EXCEPT ![p] = new], new.made = {}
          PROVE  \A q \in Procs : Prepared(q)
      BY <1>0, <2>1 DEF OpType, Prepared
    <2>2. ASSUME NEW p \in Procs, NEW pc, Step(p, pc) PROVE \A q \in Procs : Prepared(q)
      BY <1>0, <1>1, <2>2 DEF OpType, OpRecord, Prepared, Step
    <2>3. ASSUME NEW p \in Procs, Return(p) PROVE \A q \in Procs : Prepared(q)
      BY <1>0, <2>3 DEF OpType, Prepared, Return, Idle
    <2>4. ASSUME NEW p \in Procs, Busy(p) PROVE \A q \in Procs : Prepared(q)
      <3>1. CASE PersistReceipt(p) \/ ReconcileReceipt(p) \/ InitializeLiveness(p) \/ RemoveCheckout(p)
        BY <2>2, <2>3, <3>1 DEF PersistReceipt, ReconcileReceipt, InitializeLiveness, RemoveCheckout
      <3>2. CASE IntegrateOther(p)
        <4> DEFINE new == [Idle EXCEPT !.pc = "verify", !.start = head]
        <4>1. op' = [op EXCEPT ![p] = new]
          BY <3>2 DEF IntegrateOther
        <4>2. new.made = {}
          BY DEF Idle
        <4> HIDE DEF new
        <4> QED BY <2>1, <4>1, <4>2
      <3>3. ASSUME NEW t \in Tasks, Observe(p, t) PROVE \A q \in Procs : Prepared(q)
        <4>1. PICK seen \in {"none", "one", "ambiguous"} :
                op' = [op EXCEPT ![p] = [Idle EXCEPT !.pc = "receipt", !.task = t,
                                !.gens[t] = Gen(t), !.from = task[t].state, !.seen = seen]]
          BY <3>3 DEF Observe
        <4> DEFINE new == [Idle EXCEPT !.pc = "receipt", !.task = t,
                                !.gens[t] = Gen(t), !.from = task[t].state, !.seen = seen]
        <4>2. new.made = {}
          BY DEF Idle
        <4> HIDE DEF new
        <4> QED BY <2>1, <4>1, <4>2 DEF new
      <3>4. ASSUME NEW t \in Tasks, CreateWorktree(p, t) \/ Seal(p, t)
            PROVE  \A q \in Procs : Prepared(q)
        <4>1. PICK pc \in Pc : Begin(p, pc, t)
          BY <3>4 DEF CreateWorktree, Seal, Pc
        <4>2. PICK new \in OpRecord : op' = [op EXCEPT ![p] = new] /\ new.made = {}
          BY <1>0, <4>1, BeginIs DEF Begun
        <4> QED BY <2>1, <4>2
      <3>5. ASSUME NEW t \in Tasks, Integrate(p, t) PROVE \A q \in Procs : Prepared(q)
        <4> DEFINE new == [Idle EXCEPT !.pc = "verify", !.task = t, !.gens[t] = Gen(t),
                                       !.start = head]
        <4>1. op' = op \/ op' = [op EXCEPT ![p] = new]
          BY <3>5 DEF Integrate
        <4>2. new.made = {}
          BY DEF Idle
        <4> HIDE DEF new
        <4>3. op' = op => \A q \in Procs : Prepared(q)
          BY DEF Prepared
        <4> QED BY <2>1, <4>1, <4>2, <4>3
      <3> QED BY <1>4, <2>4, <3>1, <3>2, <3>3, <3>4, <3>5 DEF Busy
    <2>5. NoneBusy => \A q \in Procs : Prepared(q)
      BY DEF NoneBusy, Prepared, Harmless
    <2> QED BY <2>4, <2>5, Turns
  <1>5. ASSUME ~(\E p \in Procs : Dispatch(p) \/ CallHost(p))
        PROVE  \A t \in Tasks, g \in Generations : host'[t][g].calls = host[t][g].calls
    <2>1. ASSUME NEW t \in Tasks, NEW g \in Generations, HostStep(t, g)
          PROVE  \A u \in Tasks, h \in Generations : host'[u][h].calls = host[u][h].calls
      BY <1>0, <2>1 DEF HostStep, OtherTypes, Hosted
    <2>2. (\E t \in Tasks, g \in Generations : HostStep(t, g)) \/ UNCHANGED host
      <3>1. ASSUME NEW p \in Procs, Proceed(p) PROVE UNCHANGED host
        BY <1>5, <3>1 DEF Proceed, PersistReceipt, PrepareRefused, ReconcileReceipt,
           InitializeLiveness, Adopt, ScheduleTask, RecoverInPass, Fence, RemoveCheckout,
           CancelReceipt, Recover, CreateReceipt, SealReceipt, Verify, Complete
      <3>2. ASSUME NEW p \in Procs,
                   PlanFanout(p) \/ ReconcileTeam(p) \/ IntegrateOther(p) \/ Kill(p)
            PROVE  UNCHANGED host
        BY <3>2 DEF PlanFanout, ReconcileTeam, IntegrateOther, Kill
      <3>3. ASSUME NEW p \in Procs, NEW t \in Tasks,
                   \/ Observe(p, t) \/ RecoverTask(p, t)
                   \/ CreateWorktree(p, t) \/ Seal(p, t) \/ Integrate(p, t) \/ Finalize(p, t)
            PROVE  UNCHANGED host
        BY <3>3 DEF Observe, RecoverTask, CreateWorktree, Seal, Integrate, Finalize
      <3>4. ASSUME NEW t \in Tasks, RetryUnknown(t) \/ CleanUp(t) PROVE UNCHANGED host
        BY <3>4 DEF RetryUnknown, CleanUp
      <3>5. ASSUME NEW t \in Tasks, NEW g \in Generations, RecordResult(t, g) PROVE UNCHANGED host
        BY <3>5 DEF RecordResult
      <3> QED BY <3>1, <3>2, <3>3, <3>4, <3>5 DEF Next
    <2> QED BY <2>1, <2>2
  <1>6. CASE ~(\E p \in Procs : Dispatch(p) \/ CallHost(p))
    <2>1. \A p \in Procs : Prepared(p)
      BY <1>4, <1>6
    <2>2. \A t \in Tasks, g \in Generations : host'[t][g].calls = host[t][g].calls
      BY <1>5, <1>6
    <2> QED BY <1>0, <2>1, <2>2, CallFrame
  <1> QED BY <1>2, <1>3, <1>6

(* Which steps write which file.                                           *)
LEMMA WhoWrites ==
  ASSUME Next
  PROVE  /\ UNCHANGED receipt \/ \E p \in Procs : PersistReceipt(p) \/ ReconcileReceipt(p)
         /\ \/ UNCHANGED live
            \/ \E p \in Procs : InitializeLiveness(p) \/ Fence(p)
            \/ \E t \in Tasks, g \in Generations : RecordResult(t, g)
         /\ \/ UNCHANGED tree
            \/ \E p \in Procs : CancelReceipt(p) \/ CreateReceipt(p) \/ SealReceipt(p) \/ Verify(p)
            \/ \E p \in Procs, t \in Tasks : Integrate(p, t)
            \/ \E t \in Tasks : CleanUp(t)
         /\ \/ UNCHANGED head
            \/ \E p \in Procs : IntegrateOther(p) \/ Verify(p)
            \/ \E p \in Procs, t \in Tasks : Integrate(p, t)
  <1> DEFINE Receipt == UNCHANGED receipt \/ \E p \in Procs : PersistReceipt(p) \/ ReconcileReceipt(p)
             Live == \/ UNCHANGED live
                     \/ \E p \in Procs : InitializeLiveness(p) \/ Fence(p)
                     \/ \E t \in Tasks, g \in Generations : RecordResult(t, g)
             Tree == \/ UNCHANGED tree
                     \/ \E p \in Procs : \/ CancelReceipt(p) \/ CreateReceipt(p) \/ SealReceipt(p)
                                         \/ Verify(p)
                     \/ \E p \in Procs, t \in Tasks : Integrate(p, t)
                     \/ \E t \in Tasks : CleanUp(t)
             Head == \/ UNCHANGED head
                     \/ \E p \in Procs : IntegrateOther(p) \/ Verify(p)
                     \/ \E p \in Procs, t \in Tasks : Integrate(p, t)
  <1>1. ASSUME NEW p \in Procs, Proceed(p) PROVE Receipt /\ Live /\ Tree /\ Head
    <2>1. CASE PersistReceipt(p) \/ PrepareRefused(p) \/ Dispatch(p) \/ CallHost(p)
      BY <2>1 DEF PersistReceipt, PrepareRefused, Dispatch, CallHost
    <2>2. CASE ReconcileReceipt(p) \/ InitializeLiveness(p) \/ Adopt(p)
      BY <2>2 DEF ReconcileReceipt, InitializeLiveness, Adopt
    <2>3. CASE ScheduleTask(p) \/ RecoverInPass(p) \/ Fence(p) \/ RemoveCheckout(p)
      BY <2>3 DEF ScheduleTask, RecoverInPass, Fence, RemoveCheckout
    <2>4. CASE CancelReceipt(p) \/ Recover(p) \/ CreateReceipt(p) \/ SealReceipt(p)
      BY <2>4 DEF CancelReceipt, Recover, CreateReceipt, SealReceipt
    <2>5. CASE Verify(p) \/ Complete(p)
      BY <2>5 DEF Verify, Complete
    <2> HIDE DEF Receipt, Live, Tree, Head
    <2> QED BY <1>1, <2>1, <2>2, <2>3, <2>4, <2>5 DEF Proceed
  <1>2. ASSUME NEW p \in Procs, PlanFanout(p) \/ ReconcileTeam(p) \/ IntegrateOther(p) \/ Kill(p)
        PROVE  Receipt /\ Live /\ Tree /\ Head
    BY <1>2 DEF PlanFanout, ReconcileTeam, IntegrateOther, Kill
  <1>3. ASSUME NEW p \in Procs, NEW t \in Tasks,
               \/ Observe(p, t) \/ RecoverTask(p, t)
               \/ CreateWorktree(p, t) \/ Seal(p, t) \/ Integrate(p, t) \/ Finalize(p, t)
        PROVE  Receipt /\ Live /\ Tree /\ Head
    BY <1>3 DEF Observe, RecoverTask, CreateWorktree, Seal, Integrate, Finalize
  <1>4. ASSUME NEW t \in Tasks, RetryUnknown(t) \/ CleanUp(t) PROVE Receipt /\ Live /\ Tree /\ Head
    BY <1>4 DEF RetryUnknown, CleanUp
  <1>5. ASSUME NEW t \in Tasks, NEW g \in Generations, HostStep(t, g) \/ RecordResult(t, g)
        PROVE  Receipt /\ Live /\ Tree /\ Head
    BY <1>5 DEF HostStep, RecordResult
  <1> HIDE DEF Receipt, Live, Tree, Head
  <1>6. Receipt /\ Live /\ Tree /\ Head
    BY <1>1, <1>2, <1>3, <1>4, <1>5 DEF Next
  <1> QED BY <1>6 DEF Receipt, Live, Tree, Head

(* Which steps move a row, out of the states that matter most.             *)
Adopting(p, t) ==
  /\ Adopt(p) /\ op[p].task = t /\ op[p].gens[t] = Gen(t) /\ op[p].pc = "adopt"
  /\ task'[t].state = Outcome(op[p].seen)

Dispatching(p, t) ==
  /\ Dispatch(p) /\ op[p].pc = "dispatch"
  /\ First(op[p].todo) = t /\ op[p].gens[t] = Gen(t)

LEMMA WhoMoves ==
  ASSUME TypeOK, PlaceInv, Next, NEW t \in Tasks, task'[t] # task[t]
  PROVE  /\ task[t].state \in {"spawn_requested", "launch_unknown"} /\ Moved(t) =>
              \E p \in Procs : Adopting(p, t)
         /\ task[t].state = "ready" => \E p \in Procs : Dispatching(p, t)
         /\ task[t].state = "delivered" => \E p \in Procs : Finalize(p, t)
         /\ task[t].state = "running" /\ Moved(t) =>
              \E g \in Generations : RecordResult(t, g)
  <1>0. RowType /\ OpType /\ \A p \in Procs : op[p] \in OpRecord /\ Place(op[p])
    BY TypeParts DEF OpType, PlaceInv
  <1> USE <1>0
  <1> DEFINE Goal ==
         /\ task[t].state \in {"spawn_requested", "launch_unknown"} /\ Moved(t) =>
              \E p \in Procs : Adopting(p, t)
         /\ task[t].state = "ready" => \E p \in Procs : Dispatching(p, t)
         /\ task[t].state = "delivered" => \E p \in Procs : Finalize(p, t)
         /\ task[t].state = "running" /\ Moved(t) =>
              \E g \in Generations : RecordResult(t, g)
  <1>1. ASSUME NEW u \in Tasks, NEW state, To(u, state)
        PROVE  u = t /\ task'[t].state = state /\ task'[t].generation = Gen(t)
    BY <1>1 DEF To, RowType, Gen
  <1>2. ASSUME NEW u \in Tasks, Renew(u),
               task[u].state \in {"running", "launch_unknown"} PROVE Goal
    <2>1. u = t /\ task'[t].generation = Gen(t) + 1
      BY <1>2 DEF Renew, RowType
    <2>2. ~Moved(t)
      BY <2>1, GenerationsOf DEF Moved, Gen, RowType
    <2> QED BY <1>2, <2>1, <2>2
  <1>3. ASSUME NEW p \in Procs, Dispatch(p) PROVE Goal
    <2>1. PICK u \in Tasks : u = First(op[p].todo)
      BY <1>3, FirstIsIn DEF Dispatch, Place, OpRecord
    <2>2. AsExpected(p, u, "ready") /\ To(u, "spawn_requested")
      BY <1>3, <2>1 DEF Dispatch
    <2>3. u = t
      BY <1>1, <2>2
    <2>4. task[t].state = "ready" /\ Dispatching(p, t)
      <3>1. task[t].state = "ready" /\ op[p].gens[t] = Gen(t)
        BY <2>2, <2>3 DEF AsExpected, Gen
      <3>2. op[p].pc = "dispatch"
        BY <1>3 DEF Dispatch
      <3> QED BY <1>3, <2>1, <2>3, <3>1, <3>2 DEF Dispatching
    <2> QED BY <2>4
  <1>4. ASSUME NEW p \in Procs, Adopt(p) PROVE Goal
    <2>1. PICK u \in Tasks : u = op[p].task
      BY <1>4 DEF Adopt, Place, OnOneTask, Reconciling
    <2>2. AsExpected(p, u, op[p].from) /\ To(u, Outcome(op[p].seen))
      BY <1>4, <2>1 DEF Adopt
    <2>3. u = t /\ task'[t].state = Outcome(op[p].seen)
      BY <1>1, <2>2
    <2>4. Adopting(p, t) /\ task[t].state = op[p].from
      BY <1>4, <2>1, <2>2, <2>3 DEF AsExpected, Adopting, Gen, Adopt
    <2>5. op[p].from \in {"spawn_requested", "launch_unknown"}
      BY <1>4 DEF Adopt, Place, Reconciling
    <2> QED BY <2>4, <2>5
  <1>5. ASSUME NEW u \in Tasks, NEW g \in Generations, RecordResult(u, g) PROVE Goal
    <2>1. task[u].state = "running" /\ \E state : To(u, state)
      BY <1>5 DEF RecordResult
    <2>2. u = t
      BY <1>1, <2>1
    <2> QED BY <1>5, <2>1, <2>2
  <1>6. ASSUME NEW p \in Procs, ScheduleTask(p) PROVE Goal
    <2>1. PICK u \in Tasks : u = First(op[p].todo)
      BY <1>6, FirstIsIn DEF ScheduleTask, Place, OpRecord
    <2>2. task[u].state = "pending" /\ \E state : To(u, state)
      BY <1>6, <2>1 DEF ScheduleTask
    <2>3. u = t
      BY <1>1, <2>2
    <2> QED BY <2>2, <2>3
  <1>7. ASSUME NEW p \in Procs, Recover(p) PROVE Goal
    <2>1. PICK u \in Tasks : u = op[p].task
      BY <1>7 DEF Recover, Place, OnOneTask, Recovering
    <2>2. AsExpected(p, u, "running") /\ Renew(u)
      BY <1>7, <2>1 DEF Recover
    <2>3. task[u].state = "running"
      BY <2>2 DEF AsExpected
    <2> QED BY <1>2, <2>2, <2>3
  <1>8. ASSUME NEW u \in Tasks, RetryUnknown(u) PROVE Goal
    BY <1>2, <1>8 DEF RetryUnknown
  <1>9. ASSUME NEW p \in Procs, NEW u \in Tasks, Finalize(p, u) PROVE Goal
    <2>1. task[u].state = "delivered" /\ To(u, "integrating")
      BY <1>9 DEF Finalize, Finalizable
    <2>2. u = t
      BY <1>1, <2>1
    <2> QED BY <1>9, <2>1, <2>2
  <1>10. ASSUME NEW p \in Procs, Complete(p) PROVE Goal
    <2>1. PICK u \in Tasks : u = op[p].task
      BY <1>10 DEF Complete, Place, OnOneTask
    <2>2. AsExpected(p, u, "integrating") /\ To(u, "complete")
      BY <1>10, <2>1 DEF Complete
    <2>3. u = t /\ task[u].state = "integrating"
      BY <1>1, <2>2 DEF AsExpected
    <2> QED BY <2>3
  <1> HIDE DEF Goal
  <1>11. ASSUME NEW p \in Procs, Proceed(p) PROVE Goal
    <2>1. Dispatch(p) \/ Adopt(p) \/ ScheduleTask(p) \/ Recover(p) \/ Complete(p)
      BY <1>11 DEF Proceed, PersistReceipt, PrepareRefused, CallHost, ReconcileReceipt,
         InitializeLiveness, RecoverInPass, Fence, RemoveCheckout, CancelReceipt, CreateReceipt,
         SealReceipt, Verify
    <2> QED BY <2>1, <1>3, <1>4, <1>6, <1>7, <1>10
  <1>12. \/ \E p \in Procs : Proceed(p)
         \/ \E p \in Procs, u \in Tasks : Finalize(p, u)
         \/ \E u \in Tasks : RetryUnknown(u)
         \/ \E u \in Tasks, g \in Generations : RecordResult(u, g)
    BY DEF Next, PlanFanout, ReconcileTeam, IntegrateOther, Kill, Observe, RecoverTask,
       CreateWorktree, Seal, Integrate, CleanUp, HostStep
  <1>13. Goal
    BY <1>5, <1>8, <1>9, <1>11, <1>12
  <1> QED BY <1>13 DEF Goal

(* Where a step leaves the process that took it, if it then holds          *)
(* something, and what it has read by then.                                *)
Read(p, pc, t) == op'[p].pc = pc /\ op'[p].task = t /\ op'[p].gens[t] = Gen(t)

Went(p, pc) ==
  /\ op'[p].pc = pc /\ op'[p].task = op[p].task /\ op'[p].gens = op[p].gens
  /\ op'[p].seen = op[p].seen /\ op'[p].todo = op[p].todo

Turn(p) ==
  \/ op'[p] = op[p]
  \/ Harmless(op'[p])
  \/ PersistReceipt(p) /\ Went(p, "dispatch")
  \/ op'[p].pc \in {"prepare", "call"}
  \/ ReconcileReceipt(p) /\ (Went(p, "adopt") \/ Went(p, "claim"))
     /\ op[p].pc = "receipt" /\ (op'[p].pc = "adopt" => op[p].seen # "one")
  \/ InitializeLiveness(p) /\ Went(p, "adopt") /\ op[p].pc = "claim" /\ op[p].seen = "one"
  \/ RemoveCheckout(p) /\ Went(p, "cancelled")
  \/ \E t \in Tasks : Observe(p, t) /\ Read(p, "receipt", t)
  \/ \E t \in Tasks : CreateWorktree(p, t) /\ Read(p, "created", t)
  \/ \E t \in Tasks : Seal(p, t) /\ Read(p, "sealed", t)
  \/ \E t \in Tasks : Integrate(p, t) /\ Read(p, "verify", t) /\ op'[p].start = head
                      /\ head' = head \cup {<<t, Gen(t)>>} /\ UNCHANGED tree
  \/ IntegrateOther(p) /\ op'[p].pc = "verify" /\ op'[p].task = NoTask /\ op'[p].start = head

LEMMA BusyTurn ==
  ASSUME TypeOK, PlaceInv, Next, NEW p \in Procs, Busy(p)
  PROVE  (\A q \in Procs \ {p} : op'[q] = op[q]) /\ Turn(p)
  <1>0. RowType /\ OpType /\ op[p] \in OpRecord /\ Place(op[p])
    BY TypeParts DEF OpType, PlaceInv
  <1> USE <1>0
  <1> DEFINE Goal == (\A q \in Procs \ {p} : op'[q] = op[q]) /\ Turn(p)
  <1>1. ASSUME NEW new, op' = [op EXCEPT ![p] = new]
        PROVE  op'[p] = new /\ \A q \in Procs \ {p} : op'[q] = op[q]
    BY <1>1 DEF OpType
  <1>2. ASSUME Return(p) PROVE Goal
    <2>1. Harmless(Idle)
      BY DEF Harmless, Idle
    <2> QED BY <1>1, <1>2, <2>1 DEF Return, Turn
  <1>3. ASSUME NEW pc, Step(p, pc)
        PROVE  Went(p, pc) /\ op'[p].made = op[p].made /\ \A q \in Procs \ {p} : op'[q] = op[q]
    BY <1>3 DEF Step, OpType, OpRecord, Went
  <1>4. ASSUME NEW t \in Tasks, NEW pc \in Pc, Begin(p, pc, t)
        PROVE  Read(p, pc, t) /\ \A q \in Procs \ {p} : op'[q] = op[q]
    <2>1. PICK new \in OpRecord : op' = [op EXCEPT ![p] = new] /\ Begun(pc, t, new)
      BY <1>4, BeginIs
    <2> QED BY <1>1, <2>1 DEF Begun, Read
  <1>5. CASE PersistReceipt(p)
    BY <1>3, <1>5 DEF PersistReceipt, Turn
  <1>6. CASE Dispatch(p)
    <2> DEFINE t == First(op[p].todo)
               pc == IF op[p].todo = {t} THEN "call" ELSE "prepare"
               new == [op[p] EXCEPT !.pc = pc, !.todo = op[p].todo \ {t},
                                    !.made = op[p].made \cup {t}]
    <2>1. Return(p) \/ op' = [op EXCEPT ![p] = new]
      BY <1>6 DEF Dispatch
    <2>2. new.pc \in {"prepare", "call"}
      BY DEF OpRecord
    <2> HIDE DEF new
    <2> QED BY <1>1, <1>2, <2>1, <2>2 DEF Turn
  <1>7. CASE CallHost(p)
    <2> DEFINE new == [op[p] EXCEPT !.made = op[p].made \ {First(op[p].made)}]
    <2>1. Return(p) \/ op' = [op EXCEPT ![p] = new]
      BY <1>7 DEF CallHost
    <2>2. new.pc = "call"
      BY <1>7 DEF CallHost, OpRecord
    <2> HIDE DEF new
    <2> QED BY <1>1, <1>2, <2>1, <2>2 DEF Turn
  <1>8. CASE ReconcileReceipt(p)
    <2>1. /\ op[p].pc = "receipt"
          /\ \/ Return(p)
             \/ Step(p, "adopt") /\ op[p].seen # "one"
             \/ Step(p, "claim")
      BY <1>8 DEF ReconcileReceipt
    <2>2. CASE Step(p, "adopt") /\ op[p].seen # "one"
      BY <1>3, <1>8, <2>1, <2>2 DEF Turn
    <2>3. CASE Step(p, "claim")
      <3>1. op'[p].pc = "claim"
        BY <1>3, <2>3 DEF Went
      <3> QED BY <1>3, <1>8, <2>1, <2>3, <3>1 DEF Turn
    <2> QED BY <1>2, <2>1, <2>2, <2>3
  <1>9. CASE InitializeLiveness(p)
    <2>1. /\ op[p].pc = "claim" /\ op[p].seen = "one"
          /\ Return(p) \/ Step(p, "adopt")
      BY <1>9 DEF InitializeLiveness, Place
    <2> QED BY <1>2, <1>3, <1>9, <2>1 DEF Turn
  <1>10. CASE RemoveCheckout(p)
    <2>1. op[p].pc = "cancel" /\ (Return(p) \/ Step(p, "cancelled") \/ Step(p, "recover"))
      BY <1>10 DEF RemoveCheckout
    <2>2. CASE Step(p, "recover")
      <3>1. Harmless(op'[p])
        BY <1>3, <2>1, <2>2 DEF Went, Harmless, Place, Fanning
      <3> QED BY <1>3, <2>2, <3>1 DEF Turn
    <2> QED BY <1>2, <1>3, <1>10, <2>1, <2>2 DEF Turn
  <1>11. CASE IntegrateOther(p)
    <2> DEFINE new == [Idle EXCEPT !.pc = "verify", !.start = head]
    <2>1. op' = [op EXCEPT ![p] = new]
      BY <1>11 DEF IntegrateOther
    <2>2. new.pc = "verify" /\ new.task = NoTask /\ new.start = head
      BY DEF Idle
    <2> HIDE DEF new
    <2> QED BY <1>1, <1>11, <2>1, <2>2 DEF Turn
  <1>12. ASSUME NEW t \in Tasks, Observe(p, t) PROVE Goal
    <2>1. PICK seen \in {"none", "one", "ambiguous"} :
            op' = [op EXCEPT ![p] = [Idle EXCEPT !.pc = "receipt", !.task = t,
                            !.gens[t] = Gen(t), !.from = task[t].state, !.seen = seen]]
      BY <1>12 DEF Observe
    <2> DEFINE new == [Idle EXCEPT !.pc = "receipt", !.task = t,
                            !.gens[t] = Gen(t), !.from = task[t].state, !.seen = seen]
    <2>2. new.pc = "receipt" /\ new.task = t /\ new.gens[t] = Gen(t)
      BY DEF Idle
    <2>3. op' = [op EXCEPT ![p] = new]
      BY <2>1
    <2> HIDE DEF new
    <2> QED BY <1>1, <1>12, <2>2, <2>3 DEF Turn, Read
  <1>13. ASSUME NEW t \in Tasks, CreateWorktree(p, t) PROVE Goal
    <2>1. Begin(p, "created", t) /\ "created" \in Pc
      BY <1>13 DEF CreateWorktree, Pc
    <2> QED BY <1>4, <1>13, <2>1 DEF Turn
  <1>14. ASSUME NEW t \in Tasks, Seal(p, t) PROVE Goal
    <2>1. Begin(p, "sealed", t) /\ "sealed" \in Pc
      BY <1>14 DEF Seal, Pc
    <2> QED BY <1>4, <1>14, <2>1 DEF Turn
  <1>15. ASSUME NEW t \in Tasks, Integrate(p, t) PROVE Goal
    <2> DEFINE new == [Idle EXCEPT !.pc = "verify", !.task = t, !.gens[t] = Gen(t), !.start = head]
    <2>1. \/ op' = op
          \/ op' = [op EXCEPT ![p] = new] /\ head' = head \cup {<<t, Gen(t)>>} /\ UNCHANGED tree
      BY <1>15 DEF Integrate
    <2>2. new.pc = "verify" /\ new.task = t /\ new.gens[t] = Gen(t) /\ new.start = head
      BY DEF Idle
    <2> HIDE DEF new
    <2> QED BY <1>1, <1>15, <2>1, <2>2 DEF Turn, Read
  <1> QED BY <1>5, <1>6, <1>7, <1>8, <1>9, <1>10, <1>11, <1>12, <1>13, <1>14, <1>15 DEF Busy

LEMMA AllTurn ==
  ASSUME TypeOK, PlaceInv, Next
  PROVE  \A p \in Procs : Turn(p)
  <1>1. ASSUME NEW p \in Procs, Busy(p) PROVE \A q \in Procs : Turn(q)
    BY <1>1, BusyTurn DEF Turn
  <1>2. NoneBusy => \A q \in Procs : Turn(q)
    BY DEF NoneBusy, Turn
  <1> QED BY <1>1, <1>2, Turns

(* Receipts: a generation that was left behind stays reconciled, and so    *)
(* does one whose process still has to say so to the row.                  *)
Owed(t, g) == g < Gen(t) \/ (g = Gen(t) /\ task[t].state \in Reconciled)

LEMMA ReceiptStep ==
  ASSUME TypeOK, PlaceInv, ReceiptInv, Next
  PROVE  ReceiptInv'
  <1>0. RowType /\ OpType /\ OtherTypes /\ Rows /\ \A p \in Procs : op[p] \in OpRecord /\ Place(op[p])
    BY TypeParts, RowsMove DEF OpType, PlaceInv
  <1> USE <1>0
  <1>1. \A t \in Tasks, g \in Generations : Owed(t, g) => receipt[t][g] \in Answers
    BY DEF ReceiptInv, Owed
  <1>2. ASSUME NEW t \in Tasks, NEW g \in Generations
        PROVE  receipt'[t][g] = receipt[t][g] \/ receipt'[t][g] \in Answers
               \/ (~Requested(t, g) /\ UNCHANGED task)
    <2>1. ASSUME NEW p \in Procs, PersistReceipt(p)
          PROVE  receipt'[t][g] = receipt[t][g] \/ (~Requested(t, g) /\ UNCHANGED task)
      <3>1. PICK u \in Tasks : u = First(op[p].todo)
        BY <2>1, FirstIsIn DEF PersistReceipt, Place, OpRecord
      <3>2. PICK h \in Generations : h = op[p].gens[u]
        BY <3>1 DEF OpRecord
      <3>3. task[u].state = "ready" /\ Gen(u) = h /\ h \in Nat
        BY <2>1, <3>1, <3>2, RowLater DEF PersistReceipt, Preparable, AsExpected, Gen
      <3>4. receipt' = [receipt EXCEPT ![u][h] = "spawn_requested"] /\ UNCHANGED task
        BY <2>1, <3>1, <3>2 DEF PersistReceipt
      <3>5. ~Requested(u, h)
        BY <3>3 DEF Requested
      <3>6. t # u \/ g # h => receipt'[t][g] = receipt[t][g]
        BY <3>4 DEF OtherTypes
      <3> QED BY <3>4, <3>5, <3>6
    <2>2. ASSUME NEW p \in Procs, ReconcileReceipt(p)
          PROVE  receipt'[t][g] = receipt[t][g] \/ receipt'[t][g] \in Answers
      <3>1. PICK u \in Tasks : u = op[p].task
        BY <2>2 DEF ReconcileReceipt, Place, OnOneTask, Reconciling
      <3>2. PICK h \in Generations : h = op[p].gens[u]
        BY <3>1 DEF OpRecord
      <3>3. UNCHANGED receipt \/ \E status \in Answers : receipt' = [receipt EXCEPT ![u][h] = status]
        BY <2>2, <3>1, <3>2 DEF ReconcileReceipt, Answers
      <3>4. ASSUME NEW status \in Answers, receipt' = [receipt EXCEPT ![u][h] = status]
            PROVE  receipt'[t][g] = receipt[t][g] \/ receipt'[t][g] = status
        BY <3>4 DEF OtherTypes
      <3> QED BY <3>3, <3>4
    <2> QED BY <2>1, <2>2, WhoWrites
  <1>3. ASSUME NEW t \in Tasks, NEW g \in Generations, Owed(t, g)' PROVE receipt'[t][g] \in Answers
    <2>0. Gen(t) \in Nat /\ g \in Nat
      BY RowLater, GenerationsOf
    <2>1. CASE Owed(t, g)
      <3>1. Requested(t, g)
        BY <2>1 DEF Owed, Requested, Reconciled
      <3> QED BY <1>1, <1>2, <2>1, <3>1
    <2>2. CASE ~Owed(t, g)
      <3>1. task'[t] # task[t]
        BY <1>3, <2>2 DEF Owed, Gen
      <3>2. Moved(t) \/ Renewed(t)
        BY <3>1 DEF Rows
      <3>3. ~Renewed(t)
        <4> SUFFICES ASSUME Renewed(t) PROVE FALSE
          OBVIOUS
        <4>1. task[t].state \in Reconciled /\ task'[t].state = "ready" /\ task'[t].generation = Gen(t) + 1
          BY DEF Renewed, Reconciled
        <4>2. g < Gen(t) + 1
          BY <1>3, <4>1 DEF Owed, Gen, Reconciled
        <4> QED BY <2>0, <2>2, <4>1, <4>2 DEF Owed
      <3>4. /\ g = Gen(t) /\ task[t].state \notin Reconciled /\ task'[t].state \in Reconciled
            /\ <<task[t].state, task'[t].state>> \in Edges
        BY <1>3, <2>2, <3>2, <3>3 DEF Owed, Moved, Gen
      <3>5. task[t].state = "spawn_requested"
        BY <3>4 DEF Edges, Reconciled
      <3>6. PICK p \in Procs : Adopting(p, t)
        BY <3>1, <3>2, <3>3, <3>5, WhoMoves
      <3>7. receipt[t][g] \in Answers
        BY <3>4, <3>6 DEF Adopting, ReceiptInv
      <3>8. Requested(t, g)
        BY <3>4, <3>5 DEF Requested
      <3> QED BY <1>2, <3>7, <3>8
    <2> QED BY <2>1, <2>2
  <1>4. ASSUME NEW p \in Procs, op'[p].pc \in Reconciling
        PROVE  /\ Requested(op[p].task, op[p].gens[op[p].task])'
               /\ op'[p].pc \in {"claim", "adopt"} => receipt'[op'[p].task][op'[p].gens[op'[p].task]] \in Answers
    <2>1. \/ op'[p] = op[p]
          \/ ReconcileReceipt(p) /\ Went(p, op'[p].pc) /\ op[p].pc = "receipt"
          \/ InitializeLiveness(p) /\ Went(p, "adopt") /\ op[p].pc = "claim"
          \/ \E t \in Tasks : Observe(p, t) /\ Read(p, "receipt", t)
      <3>1. Turn(p)
        BY AllTurn
      <3> QED BY <1>4, <3>1 DEF Turn, Went, Read, Harmless, Reconciling
    <2>2. ASSUME NEW t \in Tasks, Observe(p, t), Read(p, "receipt", t)
          PROVE  Requested(op[p].task, op[p].gens[op[p].task])'
      <3>1. PICK g \in Generations : g = Gen(t)
        BY DEF RowType, Gen
      <3>2. Requested(t, g)
        BY <2>2, <3>1 DEF Observe, Requested
      <3>3. Requested(t, g)'
        BY <3>2, RowLater
      <3>4. op'[p].task = t /\ op'[p].gens[t] = g
        BY <2>2, <3>1 DEF Read
      <3> QED BY <3>3, <3>4 DEF Requested
    <2>3. CASE /\ op[p].pc \in Reconciling
               /\ op'[p].task = op[p].task /\ op'[p].gens = op[p].gens
      <3>1. PICK t \in Tasks : t = op[p].task
        BY <2>3 DEF Place, OnOneTask
      <3>2. PICK g \in Generations : g = op[p].gens[t]
        BY <3>1 DEF OpRecord
      <3>3. Requested(t, g) /\ Requested(t, g)'
        BY <2>3, <3>1, <3>2, RowLater DEF ReceiptInv
      <3>4. Requested(op[p].task, op[p].gens[op[p].task])'
        BY <2>3, <3>1, <3>2, <3>3 DEF Requested
      <3>5. receipt[t][g] \in Answers => receipt'[t][g] \in Answers
        BY <1>2, <3>3
      <3>6. op[p].pc \in {"claim", "adopt"} => receipt[t][g] \in Answers
        BY <3>1, <3>2 DEF ReceiptInv
      <3>7. CASE op[p].pc \in {"claim", "adopt"}
        BY <2>3, <3>1, <3>2, <3>4, <3>5, <3>6, <3>7
      <3>8. CASE op[p].pc = "receipt" /\ op'[p].pc \in {"claim", "adopt"}
        <4>1. ReconcileReceipt(p) /\ ~Return(p)
          <5>1. ReconcileReceipt(p)
            BY <2>1, <3>8 DEF Read
          <5>2. ~Return(p)
            BY <3>8 DEF Return, OpType, Idle
          <5> QED BY <5>1, <5>2
        <4>2. \E status \in Answers : receipt' = [receipt EXCEPT ![t][g] = status]
          BY <3>1, <3>2, <4>1 DEF ReconcileReceipt, Answers
        <4>3. receipt'[t][g] \in Answers
          BY <4>2 DEF OtherTypes
        <4> QED BY <2>3, <3>1, <3>2, <3>4, <4>3
      <3> QED BY <2>3, <3>4, <3>7, <3>8 DEF Reconciling
    <2>4. \/ op[p].pc \in Reconciling /\ op'[p].task = op[p].task /\ op'[p].gens = op[p].gens
          \/ \E t \in Tasks : Observe(p, t) /\ Read(p, "receipt", t)
      BY <1>4, <2>1 DEF Went, Reconciling
    <2>5. ASSUME NEW t \in Tasks, Read(p, "receipt", t) PROVE op'[p].pc \notin {"claim", "adopt"}
      BY <2>5 DEF Read
    <2> QED BY <2>2, <2>3, <2>4, <2>5
  <1> QED BY <1>3, <1>4 DEF ReceiptInv, Owed, Reconciling

(* Liveness records only grow, up to the generation of the row.            *)
LEMMA LiveGrows ==
  ASSUME TypeOK, PlaceInv, Next, NEW t \in Tasks
  PROVE  /\ live[t].generation \in Int /\ live'[t].generation \in Int
         /\ \/ live'[t].generation = live[t].generation
            \/ /\ live[t].generation <= live'[t].generation
               /\ \E p \in Procs : op[p].task = t /\ live'[t].generation = op[p].gens[t]
  <1>0. RowType /\ OpType /\ OtherTypes /\ \A p \in Procs : op[p] \in OpRecord /\ Place(op[p])
    BY TypeParts DEF OpType, PlaceInv
  <1> USE <1>0
  <1>1. live[t].generation \in Int
    BY GenerationsOf DEF OtherTypes, Liveness, None
  <1>2. ASSUME NEW p \in Procs, InitializeLiveness(p)
        PROVE  \/ live'[t].generation = live[t].generation
               \/ /\ live[t].generation <= live'[t].generation
                  /\ op[p].task = t /\ live'[t].generation = op[p].gens[t]
    <2>1. PICK u \in Tasks : u = op[p].task
      BY <1>2 DEF InitializeLiveness, Place, OnOneTask, Reconciling
    <2>2. PICK g \in Generations : g = op[p].gens[u]
      BY <2>1 DEF OpRecord
    <2>3. \/ UNCHANGED live
          \/ Claimable(u, g) /\ live' = [live EXCEPT ![u] = [generation |-> g, terminal |-> FALSE]]
      BY <1>2, <2>1, <2>2 DEF InitializeLiveness
    <2>4. CASE Claimable(u, g) /\ live' = [live EXCEPT ![u] = [generation |-> g, terminal |-> FALSE]]
      <3>1. u # t => live'[t].generation = live[t].generation
        BY <2>4 DEF OtherTypes
      <3>2. live'[u].generation = g
        BY <2>4 DEF OtherTypes
      <3>3. g \in Nat
        BY GenerationsOf
      <3>4. u = t => live[t].generation <= g
        BY <1>1, <2>4, <3>3 DEF Claimable, None
      <3> QED BY <2>1, <2>2, <3>1, <3>2, <3>4
    <2> QED BY <2>3, <2>4
  <1>3. ASSUME NEW p \in Procs, Fence(p) PROVE live'[t].generation = live[t].generation
    BY <1>3 DEF Fence, OtherTypes, Liveness
  <1>4. ASSUME NEW u \in Tasks, NEW g \in Generations, RecordResult(u, g)
        PROVE  live'[t].generation = live[t].generation
    <2>1. PICK terminal : live' = live \/ live' = [live EXCEPT ![u].terminal = terminal]
      BY <1>4 DEF RecordResult
    <2> DEFINE new == [live[u] EXCEPT !.terminal = terminal]
    <2>2. new.generation = live[u].generation
      BY DEF OtherTypes, Liveness
    <2>3. live' = live \/ live' = [live EXCEPT ![u] = new]
      BY <2>1
    <2> HIDE DEF new
    <2> QED BY <2>2, <2>3 DEF OtherTypes
  <1>5. \/ live'[t].generation = live[t].generation
        \/ /\ live[t].generation <= live'[t].generation
           /\ \E p \in Procs : op[p].task = t /\ live'[t].generation = op[p].gens[t]
    BY <1>2, <1>3, <1>4, WhoWrites
  <1>6. \A p \in Procs : op[p].gens[t] \in Int
    BY GenerationsOf DEF OpRecord
  <1> QED BY <1>1, <1>5, <1>6

LEMMA LiveStep ==
  ASSUME TypeOK, PlaceInv, LiveInv, Next
  PROVE  LiveInv'
  <1>0. RowType /\ OpType /\ OtherTypes /\ Rows /\ \A p \in Procs : op[p] \in OpRecord /\ Place(op[p])
    BY TypeParts, RowsMove DEF OpType, PlaceInv
  <1> USE <1>0
  <1>1. ASSUME NEW t \in Tasks PROVE live'[t].generation <= Gen(t)'
    BY LiveGrows, RowLater DEF LiveInv, PlaceInv
  <1>2. ASSUME NEW t \in Tasks, task'[t].state = "running" PROVE live'[t].generation = Gen(t)'
    <2>1. live[t].generation = Gen(t) /\ Gen(t)' = Gen(t)
      <3>1. CASE task'[t] = task[t]
        BY <1>2, <3>1 DEF LiveInv, Gen
      <3>2. CASE task'[t] # task[t]
        <4>1. Moved(t) /\ task[t].state \in {"spawn_requested", "launch_unknown"}
          <5>1. ~Renewed(t)
            BY <1>2 DEF Renewed
          <5>2. Moved(t)
            BY <3>2, <5>1 DEF Rows
          <5> QED BY <1>2, <5>2 DEF Moved, Edges
        <4>2. PICK p \in Procs : Adopting(p, t)
          BY <3>2, <4>1, WhoMoves
        <4>3. op[p].pc = "adopt" /\ op[p].seen = "one" /\ op[p].task = t /\ op[p].gens[t] = Gen(t)
          BY <1>2, <4>2 DEF Adopting, Outcome
        <4>4. live[t].generation >= Gen(t)
          BY <4>3 DEF LiveInv
        <4> QED BY <4>1, <4>4, LiveGrows, RowLater DEF LiveInv, Moved, Gen
      <3> QED BY <3>1, <3>2
    <2> QED BY <1>1, <2>1, LiveGrows, RowLater
  <1>3. ASSUME NEW p \in Procs, op'[p].pc = "adopt", op'[p].seen = "one"
        PROVE  live'[op'[p].task].generation >= op'[p].gens[op'[p].task]
    <2>1. \/ op'[p] = op[p]
          \/ InitializeLiveness(p) /\ Went(p, "adopt") /\ op[p].pc = "claim"
      <3>1. Turn(p)
        BY AllTurn
      <3> QED BY <1>3, <3>1 DEF Turn, Went, Read, Harmless
    <2>2. PICK t \in Tasks : t = op[p].task
      BY <1>3, <2>1 DEF Place, OnOneTask, Reconciling
    <2>3. op[p].gens[t] \in Int
      BY GenerationsOf DEF OpRecord
    <2>4. CASE op'[p] = op[p]
      BY <1>3, <2>2, <2>3, <2>4, LiveGrows DEF LiveInv
    <2>5. CASE InitializeLiveness(p) /\ Went(p, "adopt") /\ op[p].pc = "claim"
      <3>1. ~Return(p)
        BY <1>3 DEF Return, OpType, Idle
      <3>2. live' = [live EXCEPT ![t] = [generation |-> op[p].gens[t], terminal |-> FALSE]]
        BY <2>2, <2>5, <3>1 DEF InitializeLiveness
      <3>3. live'[t].generation = op[p].gens[t]
        BY <3>2 DEF OtherTypes
      <3> QED BY <2>2, <2>3, <2>5, <3>3 DEF Went
    <2> QED BY <2>1, <2>4, <2>5
  <1> QED BY <1>1, <1>2, <1>3 DEF LiveInv

(* Who writes a worktree receipt holds its lock and gives it up, or finds  *)
(* it free.                                                                *)
TreeTurn(t) ==
  \/ tree'[t] = tree[t]
  \/ \E p \in Procs :
       /\ Holds(p, t) /\ op'[p].pc \notin {"created", "sealed", "cancelled", "verify"}
       /\ \/ /\ op[p].pc = "created"
             /\ tree'[t].state = "created" /\ tree'[t].generation = op[p].gens[t]
          \/ /\ op[p].pc \in {"sealed", "cancelled"}
             /\ tree'[t].generation = tree[t].generation
             /\ tree'[t].state \in {"sealed", "conflict", "cancelled"}
          \/ /\ op[p].pc = "verify" /\ UNCHANGED task
             /\ tree'[t].state = "integrated" /\ tree'[t].generation = tree[t].generation
  \/ /\ LockFree(t) /\ tree[t].state # "absent"
     /\ tree'[t].generation = tree[t].generation /\ tree'[t].state \in {"conflict", "cleaned"}

LEMMA TreeTurns ==
  ASSUME TypeOK, PlaceInv, Next, NEW t \in Tasks
  PROVE  TreeTurn(t)
  <1>0. RowType /\ OpType /\ OtherTypes /\ \A p \in Procs : op[p] \in OpRecord /\ Place(op[p])
    BY TypeParts DEF OpType, PlaceInv
  <1> USE <1>0
  <1>1. tree[t] \in Worktree
    BY DEF OtherTypes
  <1>2. ASSUME NEW u \in Tasks, NEW state, tree' = [tree EXCEPT ![u].state = state]
        PROVE  \/ tree'[t] = tree[t]
               \/ u = t /\ tree'[t].generation = tree[t].generation /\ tree'[t].state = state
    BY <1>1, <1>2 DEF OtherTypes, Worktree
  <1>3. ASSUME NEW p \in Procs, Return(p)
        PROVE  op'[p].pc \notin {"created", "sealed", "cancelled", "verify"}
    BY <1>3 DEF Return, Idle, OpType
  <1>4. ASSUME NEW p \in Procs, CancelReceipt(p) PROVE TreeTurn(t)
    <2>1. PICK u \in Tasks : u = op[p].task
      BY <1>4 DEF CancelReceipt, Place, OnOneTask, Recovering
    <2>2. op[p].pc = "cancelled" /\ tree' = [tree EXCEPT ![u].state = "cancelled"]
      BY <1>4, <2>1 DEF CancelReceipt
    <2>3. op'[p].pc = "recover"
      BY <1>4 DEF CancelReceipt, Step, OpType, OpRecord
    <2> QED BY <1>2, <2>1, <2>2, <2>3 DEF TreeTurn, Holds
  <1>5. ASSUME NEW p \in Procs, SealReceipt(p) PROVE TreeTurn(t)
    <2>1. PICK u \in Tasks : u = op[p].task
      BY <1>5 DEF SealReceipt, Place, OnOneTask
    <2>2. PICK state \in {"sealed", "conflict"} : tree' = [tree EXCEPT ![u].state = state]
      BY <1>5, <2>1 DEF SealReceipt
    <2>3. op[p].pc = "sealed" /\ op'[p].pc \notin {"created", "sealed", "cancelled", "verify"}
      BY <1>3, <1>5 DEF SealReceipt
    <2> QED BY <1>2, <2>1, <2>2, <2>3 DEF TreeTurn, Holds
  <1>6. ASSUME NEW p \in Procs, CreateReceipt(p) PROVE TreeTurn(t)
    <2>1. PICK u \in Tasks : u = op[p].task
      BY <1>6 DEF CreateReceipt, Place, OnOneTask
    <2>2. /\ op[p].pc = "created" /\ op'[p].pc \notin {"created", "sealed", "cancelled", "verify"}
          /\ tree' = [tree EXCEPT ![u] = [state |-> "created", generation |-> op[p].gens[u]]]
      BY <1>3, <1>6, <2>1 DEF CreateReceipt
    <2>3. CASE u = t
      BY <2>1, <2>2, <2>3 DEF OtherTypes, TreeTurn, Holds
    <2>4. CASE u # t
      BY <2>2, <2>4 DEF OtherTypes, TreeTurn
    <2> QED BY <2>3, <2>4
  <1>7. ASSUME NEW p \in Procs, Verify(p) PROVE TreeTurn(t)
    <2>1. CASE UNCHANGED tree
      BY <2>1 DEF TreeTurn
    <2>2. CASE ~UNCHANGED tree
      <3>1. PICK u \in Tasks : u = op[p].task
        BY <1>7, <2>2 DEF Verify, OpRecord
      <3>2. tree' = [tree EXCEPT ![u].state = "integrated"] /\ UNCHANGED task
        BY <1>7, <2>2, <3>1 DEF Verify
      <3>3. op[p].pc = "verify" /\ op'[p].pc \notin {"created", "sealed", "cancelled", "verify"}
        BY <1>3, <1>7 DEF Verify
      <3> QED BY <1>2, <3>1, <3>2, <3>3 DEF TreeTurn, Holds
    <2> QED BY <2>1, <2>2
  <1>8. ASSUME NEW p \in Procs, NEW u \in Tasks, Integrate(p, u) PROVE TreeTurn(t)
    <2>1. UNCHANGED tree \/ tree' = [tree EXCEPT ![u].state = "conflict"]
      BY <1>8 DEF Integrate
    <2>2. LockFree(u) /\ tree[u].state # "absent"
      BY <1>8 DEF Integrate
    <2> QED BY <1>2, <2>1, <2>2 DEF TreeTurn
  <1>9. ASSUME NEW u \in Tasks, CleanUp(u) PROVE TreeTurn(t)
    <2>1. LockFree(u) /\ tree[u].state # "absent" /\ tree' = [tree EXCEPT ![u].state = "cleaned"]
      BY <1>9 DEF CleanUp
    <2> QED BY <1>2, <2>1 DEF TreeTurn
  <1>10. UNCHANGED tree => TreeTurn(t)
    BY DEF TreeTurn
  <1> QED BY <1>4, <1>5, <1>6, <1>7, <1>8, <1>9, <1>10, WhoWrites

(* A receipt stays as it is while a process keeps its lock, and its        *)
(* generation never falls.                                                 *)
LEMMA TreeKept ==
  ASSUME TypeOK, PlaceInv, LockInv, Next, NEW t \in Tasks, NEW p \in Procs,
         Holds(p, t), op'[p] = op[p]
  PROVE  tree'[t] = tree[t]
  <1>1. TreeTurn(t)
    BY TreeTurns
  <1>2. ~LockFree(t)
    BY DEF LockFree, Holds
  <1>3. \A q \in Procs : Holds(q, t) => q = p
    BY DEF LockInv
  <1>4. op'[p].pc \in {"created", "sealed", "cancelled", "verify"}
    BY DEF Holds
  <1> QED BY <1>1, <1>2, <1>3, <1>4 DEF TreeTurn

LEMMA TreeGrows ==
  ASSUME TypeOK, PlaceInv, LockInv, Next, NEW t \in Tasks
  PROVE  /\ tree[t].generation \in Int /\ tree'[t].generation \in Int
         /\ tree[t].generation <= tree'[t].generation
         /\ \/ tree'[t].generation = tree[t].generation
            \/ \E p \in Procs : Holds(p, t) /\ op[p].pc = "created" /\ tree'[t].generation = op[p].gens[t]
  <1>1. tree[t].generation \in Int
    BY TypeParts, GenerationsOf DEF OtherTypes, Worktree, None
  <1>2. \A p \in Procs : op[p].gens[t] \in Int
    BY TypeParts, GenerationsOf DEF OpType, OpRecord
  <1>3. \A p \in Procs : Holds(p, t) /\ op[p].pc = "created" => tree[t].generation < op[p].gens[t]
    BY DEF LockInv, Holds
  <1>4. \/ tree'[t].generation = tree[t].generation
        \/ \E p \in Procs : Holds(p, t) /\ op[p].pc = "created" /\ tree'[t].generation = op[p].gens[t]
    BY TreeTurns DEF TreeTurn
  <1>5. ASSUME NEW p \in Procs, Holds(p, t), op[p].pc = "created", tree'[t].generation = op[p].gens[t]
        PROVE  tree'[t].generation \in Int /\ tree[t].generation <= tree'[t].generation
    BY <1>1, <1>2, <1>3, <1>5
  <1> QED BY <1>1, <1>4, <1>5

(* Worktree receipts keep up with the rows.                                *)
LEMMA TreeStep ==
  ASSUME TypeOK, PlaceInv, TreeInv, LockInv, Next
  PROVE  TreeInv'
  <1>0. RowType /\ OpType /\ OtherTypes /\ Rows
    BY TypeParts, RowsMove
  <1> SUFFICES ASSUME NEW t \in Tasks
               PROVE  /\ tree'[t].generation <= Gen(t)'
                      /\ IF tree'[t].state = "absent" THEN tree'[t].generation = None ELSE t \in Writers
                      /\ t \in Writers /\ task'[t].state \in Working => tree'[t].generation = Gen(t)'
                      /\ tree'[t].state = "integrated" =>
                           /\ tree'[t].generation = Gen(t)'
                           /\ task'[t].state \in {"delivered", "integrating", "complete"}
    BY DEF TreeInv
  <1>1. /\ Gen(t) \in Int /\ Gen(t)' \in Int /\ Gen(t) <= Gen(t)'
        /\ tree[t].generation \in Int /\ tree'[t].generation \in Int
        /\ tree[t].generation <= tree'[t].generation /\ tree[t].generation <= Gen(t)
    BY <1>0, RowLater, TreeGrows DEF TreeInv
  <1>2. TreeTurn(t)
    BY TreeTurns
  <1>3. tree'[t].generation <= Gen(t)
    <2>1. \A p \in Procs : op[p].gens[t] <= Gen(t)
      BY DEF PlaceInv
    <2> QED BY <1>1, <2>1, TreeGrows
  <1>4. IF tree'[t].state = "absent" THEN tree'[t].generation = None ELSE t \in Writers
    <2>1. CASE tree'[t] = tree[t]
      BY <2>1 DEF TreeInv
    <2>2. CASE LockFree(t) /\ tree[t].state # "absent" /\ tree'[t].state \in {"conflict", "cleaned"}
      BY <2>2 DEF TreeInv
    <2>3. ASSUME NEW p \in Procs, Holds(p, t)
          PROVE  t \in Writers
      <3>1. op[p].pc = "created" \/ tree[t].state # "absent"
        <4>1. op[p].task = t /\ t # NoTask /\ op[p].pc \in {"created", "sealed", "cancelled", "verify"}
          BY <2>3, TasksAssumption DEF Holds, NoTask
        <4>2. CASE op[p].pc = "sealed"
          <5>1. tree[op[p].task] = [state |-> "created", generation |-> op[p].gens[op[p].task]]
            BY <4>2 DEF LockInv
          <5>2. tree[op[p].task].state = "created"
            BY <5>1
          <5> QED BY <4>1, <5>2
        <4>3. CASE op[p].pc = "cancelled"
          BY <4>1, <4>3 DEF LockInv, Removable
        <4>4. CASE op[p].pc = "verify"
          <5>1. op[p].task # NoTask
            BY <4>1
          <5>2. tree[op[p].task] = [state |-> "sealed", generation |-> op[p].gens[op[p].task]]
            BY <4>4, <5>1 DEF LockInv
          <5>3. tree[op[p].task].state = "sealed"
            BY <5>2
          <5> QED BY <4>1, <5>3
        <4> QED BY <4>1, <4>2, <4>3, <4>4
      <3>2. op[p].pc = "created" => t \in Writers
        BY <2>3 DEF LockInv, Holds
      <3> QED BY <3>1, <3>2 DEF TreeInv
    <2>4. \/ tree'[t] = tree[t]
          \/ tree'[t].state # "absent" /\ \E p \in Procs : Holds(p, t)
          \/ LockFree(t) /\ tree[t].state # "absent" /\ tree'[t].state \in {"conflict", "cleaned"}
      BY <1>2 DEF TreeTurn
    <2> QED BY <2>1, <2>2, <2>3, <2>4
  <1>5. ASSUME t \in Writers, task'[t].state \in Working PROVE tree'[t].generation = Gen(t)'
    <2>1. CASE task[t].state \in Working /\ Gen(t)' = Gen(t)
      BY <1>1, <1>3, <1>5, <2>1 DEF TreeInv
    <2>2. CASE ~(task[t].state \in Working /\ Gen(t)' = Gen(t))
      <3>1. task'[t] # task[t] /\ ~Renewed(t)
        BY <1>5, <2>2 DEF Gen, Renewed, Working, Reconciled
      <3>2. Moved(t)
        BY <1>0, <3>1 DEF Rows
      <3>3. task[t].state = "ready" /\ Gen(t)' = Gen(t)
        BY <1>5, <2>2, <3>2 DEF Moved, Edges, Working, Reconciled, Gen
      <3>4. PICK p \in Procs : Dispatching(p, t)
        BY <3>1, <3>3, WhoMoves
      <3>5. tree[t].generation >= Gen(t)
        BY <1>5, <3>4 DEF Dispatching, LockInv
      <3> QED BY <1>1, <1>3, <3>3, <3>5
    <2> QED BY <2>1, <2>2
  <1>6. ASSUME tree'[t].state = "integrated"
        PROVE  /\ tree'[t].generation = Gen(t)'
               /\ task'[t].state \in {"delivered", "integrating", "complete"}
    <2>1. CASE tree'[t] = tree[t]
      <3>1. tree[t].generation = Gen(t) /\ task[t].state \in {"delivered", "integrating", "complete"}
        BY <1>6, <2>1 DEF TreeInv
      <3>2. ~Renewed(t)
        BY <3>1 DEF Renewed
      <3>3. CASE Moved(t)
        BY <2>1, <3>1, <3>3 DEF Moved, Edges, Gen
      <3>4. CASE task'[t] = task[t]
        BY <2>1, <3>1, <3>4 DEF Gen
      <3> QED BY <1>0, <3>2, <3>3, <3>4 DEF Rows
    <2>2. CASE tree'[t] # tree[t]
      <3>1. PICK p \in Procs : /\ Holds(p, t) /\ op[p].pc = "verify" /\ UNCHANGED task
                               /\ tree'[t].generation = tree[t].generation
        BY <1>2, <1>6, <2>2 DEF TreeTurn
      <3>2. task[t] = [state |-> "delivered", generation |-> op[p].gens[t]]
            /\ tree[t] = [state |-> "sealed", generation |-> op[p].gens[t]]
        BY <3>1, TasksAssumption DEF Holds, LockInv, NoTask
      <3> QED BY <3>1, <3>2 DEF Gen
    <2> QED BY <2>1, <2>2
  <1> QED BY <1>1, <1>3, <1>4, <1>5, <1>6

(* What is read under a lock still holds when it is used.                  *)
LEMMA NewHolder ==
  ASSUME TypeOK, PlaceInv, Next, NEW p \in Procs, NEW t \in Tasks, Holds(p, t)'
  PROVE  \/ op'[p] = op[p] /\ Holds(p, t)
         \/ LockFree(t) /\ Busy(p)
  <1>0. OpType /\ op[p] \in OpRecord /\ Place(op[p]) /\ NoTask \notin Tasks
    BY TypeParts, TasksAssumption DEF OpType, PlaceInv, NoTask
  <1>1. op'[p].task = t /\ op'[p].pc \in {"created", "sealed", "cancelled", "verify"}
    BY DEF Holds
  <1>2. Turn(p)
    BY AllTurn
  <1>3. CASE op'[p] = op[p]
    BY <1>1, <1>3 DEF Holds
  <1>4. CASE RemoveCheckout(p) /\ Went(p, "cancelled")
    BY <1>1, <1>4 DEF RemoveCheckout, Went, Busy
  <1>5. ASSUME NEW u \in Tasks, CreateWorktree(p, u) \/ Seal(p, u) \/ Integrate(p, u),
               op'[p].task = u
        PROVE  LockFree(t) /\ Busy(p)
    BY <1>1, <1>5 DEF CreateWorktree, Seal, Integrate, Busy
  <1>6. CASE IntegrateOther(p) /\ op'[p].task = NoTask
    BY <1>0, <1>1, <1>6
  <1> QED BY <1>1, <1>2, <1>3, <1>4, <1>5, <1>6 DEF Turn, Went, Read, Harmless

LEMMA LocksExclude ==
  ASSUME TypeOK, PlaceInv, LockInv, Next, NEW p \in Procs, NEW q \in Procs, NEW t \in Tasks,
         Holds(p, t)', Holds(q, t)'
  PROVE  p = q
  <1>1. CASE Holds(p, t) /\ Holds(q, t)
    BY <1>1 DEF LockInv
  <1>2. ~(LockFree(t) /\ (Holds(p, t) \/ Holds(q, t)))
    BY DEF LockFree, Holds
  <1>3. CASE Busy(p) /\ Busy(q) /\ LockFree(t)
    <2> SUFFICES ASSUME p # q PROVE FALSE
      OBVIOUS
    <2>1. op'[q] = op[q]
      BY <1>3, BusyTurn
    <2>2. Holds(q, t)
      BY <2>1 DEF Holds
    <2> QED BY <1>2, <1>3, <2>2
  <1> QED BY <1>1, <1>2, <1>3, NewHolder

(* A process that verifies is alone with HEAD.                             *)
LEMMA NewVerifier ==
  ASSUME TypeOK, PlaceInv, Next, NEW p \in Procs, op'[p].pc = "verify"
  PROVE  \/ op'[p] = op[p] /\ op[p].pc = "verify"
         \/ /\ RepositoryFree /\ Busy(p) /\ op'[p].start = head /\ UNCHANGED <<tree, task>>
            /\ \/ op'[p].task = NoTask
               \/ \E t \in Tasks : /\ Integrate(p, t) /\ op'[p].task = t /\ op'[p].gens[t] = Gen(t)
                                   /\ head' = head \cup {<<t, Gen(t)>>}
  <1>1. Turn(p)
    BY AllTurn
  <1>2. CASE op'[p] = op[p]
    BY <1>2
  <1>3. ASSUME NEW t \in Tasks, Integrate(p, t), Read(p, "verify", t), op'[p].start = head,
               head' = head \cup {<<t, Gen(t)>>}, UNCHANGED tree
        PROVE  /\ RepositoryFree /\ Busy(p) /\ op'[p].start = head /\ UNCHANGED <<tree, task>>
               /\ \E u \in Tasks : /\ Integrate(p, u) /\ op'[p].task = u /\ op'[p].gens[u] = Gen(u)
                                   /\ head' = head \cup {<<u, Gen(u)>>}
    BY <1>3 DEF Integrate, Read, Busy
  <1>4. CASE IntegrateOther(p) /\ op'[p].task = NoTask /\ op'[p].start = head
    BY <1>4 DEF IntegrateOther, Busy
  <1> QED BY <1>1, <1>2, <1>3, <1>4 DEF Turn, Went, Read, Harmless

LEMMA VerifiersExclude ==
  ASSUME TypeOK, PlaceInv, HeadInv, Next, NEW p \in Procs, NEW q \in Procs,
         op'[p].pc = "verify", op'[q].pc = "verify"
  PROVE  p = q
  <1> SUFFICES ASSUME p # q PROVE FALSE
    OBVIOUS
  <1>1. ~(op[p].pc = "verify" /\ op[q].pc = "verify")
    BY DEF HeadInv
  <1>2. CASE Busy(p) /\ RepositoryFree
    <2>1. op'[q] = op[q]
      BY <1>2, BusyTurn
    <2> QED BY <1>2, <2>1 DEF RepositoryFree
  <1>3. CASE Busy(q) /\ RepositoryFree
    <2>1. op'[p] = op[p]
      BY <1>3, BusyTurn
    <2> QED BY <1>3, <2>1 DEF RepositoryFree
  <1> QED BY <1>1, <1>2, <1>3, NewVerifier

(* While one verifies, and does not return, HEAD stays.                    *)
LEMMA HeadKept ==
  ASSUME TypeOK, PlaceInv, HeadInv, Next, NEW p \in Procs, op[p].pc = "verify", op'[p] = op[p]
  PROVE  UNCHANGED head
  <1>1. ~RepositoryFree
    BY DEF RepositoryFree
  <1>2. ASSUME NEW q \in Procs, Verify(q) PROVE FALSE
    <2>1. q = p
      BY <1>2 DEF Verify, HeadInv
    <2>2. op'[q].pc = "idle"
      BY <1>2, TypeParts DEF Verify, Return, Idle, OpType
    <2> QED BY <2>1, <2>2
  <1>3. \A q \in Procs, t \in Tasks : ~Integrate(q, t) /\ ~IntegrateOther(q)
    BY <1>1 DEF Integrate, IntegrateOther
  <1>4. \A q \in Procs : ~IntegrateOther(q)
    BY <1>1 DEF IntegrateOther
  <1> QED BY <1>2, <1>3, <1>4, WhoWrites

LEMMA LockStep ==
  ASSUME TypeOK, PlaceInv, TreeInv, LockInv, HeadInv, Next
  PROVE  LockInv'
  <1>0. /\ RowType /\ OpType /\ OtherTypes /\ Rows /\ OpType' /\ PlaceInv' /\ NoTask \notin Tasks
        /\ \A p \in Procs : op[p] \in OpRecord /\ Place(op[p]) /\ op'[p] \in OpRecord /\ Place(op'[p])
    <2>1. RowType /\ OpType /\ OtherTypes /\ Rows /\ OpType' /\ PlaceInv' /\ NoTask \notin Tasks
      BY TypeParts, RowsMove, PlaceStep, TasksAssumption DEF NoTask
    <2> QED BY <2>1 DEF OpType, PlaceInv, Place
  <1> USE <1>0
  <1>1. ASSUME NEW p \in Procs, op'[p].pc = "dispatch", First(op'[p].todo) \in Writers
        PROVE  tree'[First(op'[p].todo)].generation >= op'[p].gens[First(op'[p].todo)]
    <2>1. PICK t \in Writers : t = First(op'[p].todo)
      BY <1>1
    <2>2. t \in Tasks /\ op'[p].gens[t] \in Int
      BY TasksAssumption, GenerationsOf DEF OpRecord
    <2>3. Turn(p)
      BY AllTurn
    <2>4. CASE op'[p] = op[p]
      <3>1. tree[t].generation >= op[p].gens[t]
        BY <1>1, <2>1, <2>4 DEF LockInv
      <3> QED BY <2>1, <2>2, <2>4, <3>1, TreeGrows
    <2>5. CASE PersistReceipt(p) /\ Went(p, "dispatch")
      <3>1. t = First(op[p].todo) /\ op'[p].gens = op[p].gens
        BY <2>1, <2>5 DEF Went
      <3>2. Preparable(p, t) /\ UNCHANGED tree
        BY <2>5, <3>1 DEF PersistReceipt
      <3>3. tree[t].generation = op[p].gens[t]
        BY <3>2 DEF Preparable, AsExpected, Gen
      <3> QED BY <2>1, <2>2, <3>1, <3>2, <3>3
    <2> QED BY <1>1, <2>3, <2>4, <2>5 DEF Turn, Went, Read, Harmless
  <1>2. ASSUME NEW p \in Procs, op'[p].pc = "created"
        PROVE  op'[p].task \in Writers /\ tree'[op'[p].task].generation < op'[p].gens[op'[p].task]
    <2>1. Turn(p)
      BY AllTurn
    <2>2. CASE op'[p] = op[p]
      <3>1. PICK t \in Tasks : t = op[p].task
        BY <1>2, <2>2 DEF Place, OnOneTask
      <3>2. tree'[t] = tree[t]
        BY <1>2, <2>2, <3>1, TreeKept DEF Holds
      <3> QED BY <1>2, <2>2, <3>1, <3>2 DEF LockInv
    <2>3. ASSUME NEW t \in Tasks, CreateWorktree(p, t), Read(p, "created", t)
          PROVE  op'[p].task \in Writers /\ tree'[op'[p].task].generation < op'[p].gens[op'[p].task]
      <3>1. t \in Writers /\ UNCHANGED tree
            /\ (tree[t].state = "absent" \/ Gen(t) = tree[t].generation + 1)
        BY <2>3 DEF CreateWorktree
      <3>2. Gen(t) \in Nat /\ tree[t].generation \in Int
        BY RowLater, TreeGrows
      <3>3. tree[t].generation < Gen(t)
        BY <3>1, <3>2 DEF TreeInv, None
      <3> QED BY <2>3, <3>1, <3>3 DEF Read
    <2> QED BY <1>2, <2>1, <2>2, <2>3 DEF Turn, Went, Read, Harmless
  <1>3. ASSUME NEW p \in Procs, op'[p].pc = "sealed"
        PROVE  tree'[op'[p].task] = [state |-> "created", generation |-> op'[p].gens[op'[p].task]]
    <2>1. Turn(p)
      BY AllTurn
    <2>2. CASE op'[p] = op[p]
      <3>1. PICK t \in Tasks : t = op[p].task
        BY <1>3, <2>2 DEF Place, OnOneTask
      <3>2. tree'[t] = tree[t]
        BY <1>3, <2>2, <3>1, TreeKept DEF Holds
      <3>3. tree[t] = [state |-> "created", generation |-> op[p].gens[t]]
        BY <1>3, <2>2, <3>1 DEF LockInv
      <3> QED BY <2>2, <3>1, <3>2, <3>3
    <2>3. ASSUME NEW t \in Tasks, Seal(p, t), Read(p, "sealed", t)
          PROVE  tree'[op'[p].task] = [state |-> "created", generation |-> op'[p].gens[op'[p].task]]
      BY <2>3 DEF Seal, Read
    <2> QED BY <1>3, <2>1, <2>2, <2>3 DEF Turn, Went, Read, Harmless
  <1>4. ASSUME NEW p \in Procs, op'[p].pc = "cancelled"
        PROVE  Removable(op[p].task, op[p].gens[op[p].task])'
    <2>1. Turn(p)
      BY AllTurn
    <2>2. op'[p].task = op[p].task /\ op'[p].gens = op[p].gens
          /\ (op'[p] = op[p] \/ RemoveCheckout(p))
      BY <1>4, <2>1 DEF Turn, Went, Read, Harmless
    <2>3. PICK t \in Tasks : t = op[p].task
      BY <1>4, <2>2 DEF Place, OnOneTask, Recovering
    <2>4. tree'[t] = tree[t] /\ Removable(t, op[p].gens[t])
      <3>1. CASE op'[p] = op[p]
        BY <1>4, <2>3, <3>1, TreeKept DEF Holds, LockInv
      <3>2. CASE RemoveCheckout(p)
        <4>1. ~Return(p) /\ ~Step(p, "recover") /\ UNCHANGED tree
          BY <1>4, <3>2 DEF Return, Idle, Step, OpType, OpRecord, RemoveCheckout
        <4> QED BY <2>3, <3>2, <4>1 DEF RemoveCheckout
      <3> QED BY <2>2, <3>1, <3>2
    <2> QED BY <2>2, <2>3, <2>4 DEF Removable
  <1>5. ASSUME NEW p \in Procs, op'[p].pc = "verify", op'[p].task # NoTask
        PROVE  LET t == op'[p].task
                   g == op'[p].gens[t]
               IN /\ tree'[t] = [state |-> "sealed", generation |-> g]
                  /\ task'[t] = [state |-> "delivered", generation |-> g]
                  /\ <<t, g>> \in head'
    <2>1. PICK t \in Tasks : t = op'[p].task
      BY <1>5 DEF OpRecord
    <2>2. CASE op'[p] = op[p] /\ op[p].pc = "verify"
      <3>1. UNCHANGED head /\ tree'[t] = tree[t]
        BY <2>1, <2>2, TreeKept, HeadKept DEF Holds
      <3>2. /\ tree[t] = [state |-> "sealed", generation |-> op[p].gens[t]]
            /\ task[t] = [state |-> "delivered", generation |-> op[p].gens[t]]
            /\ <<t, op[p].gens[t]>> \in head
        BY <1>5, <2>1, <2>2 DEF LockInv
      <3>3. task'[t] = task[t]
        <4> SUFFICES ASSUME task'[t] # task[t] PROVE FALSE
          OBVIOUS
        <4>1. task[t].state = "delivered" /\ tree[t].state = "sealed"
          BY <3>2
        <4>2. PICK q \in Procs : Finalize(q, t)
          BY <4>1, WhoMoves
        <4>3. t \in Writers
          BY <4>1 DEF TreeInv
        <4> QED BY <4>1, <4>2, <4>3 DEF Finalize, Finalizable
      <3> QED BY <2>1, <2>2, <3>1, <3>2, <3>3
    <2>3. ASSUME NEW u \in Tasks, Integrate(p, u), op'[p].task = u, op'[p].gens[u] = Gen(u),
                 head' = head \cup {<<u, Gen(u)>>}, UNCHANGED <<tree, task>>
          PROVE  /\ tree'[t] = [state |-> "sealed", generation |-> op'[p].gens[t]]
                 /\ task'[t] = [state |-> "delivered", generation |-> op'[p].gens[t]]
                 /\ <<t, op'[p].gens[t]>> \in head'
      <3>1. u = t /\ tree[t] = [state |-> "sealed", generation |-> Gen(t)] /\ task[t].state = "delivered"
        BY <2>1, <2>3 DEF Integrate
      <3>2. task[t] = [state |-> "delivered", generation |-> Gen(t)]
        BY <3>1 DEF RowType, Gen
      <3> QED BY <2>3, <3>1, <3>2
    <2>4. \/ op'[p] = op[p] /\ op[p].pc = "verify"
          \/ /\ UNCHANGED <<tree, task>>
             /\ \E u \in Tasks : /\ Integrate(p, u) /\ op'[p].task = u /\ op'[p].gens[u] = Gen(u)
                                 /\ head' = head \cup {<<u, Gen(u)>>}
      BY <1>5, NewVerifier
    <2> QED BY <2>1, <2>2, <2>3, <2>4
  <1>6. \A p, q \in Procs, t \in Tasks : Holds(p, t)' /\ Holds(q, t)' => p = q
    BY LocksExclude
  <1> QED BY <1>1, <1>2, <1>3, <1>4, <1>5, <1>6 DEF LockInv

(* What is integrated stays in HEAD, and in what a failed test goes back   *)
(* to.                                                                     *)
Settled(t) == tree[t].state = "integrated" \/ task[t].state \in {"integrating", "complete"}

LEMMA HeadStep ==
  ASSUME TypeOK, PlaceInv, TreeInv, LockInv, HeadInv, Next
  PROVE  HeadInv'
  <1>0. /\ RowType /\ OpType /\ OtherTypes /\ Rows /\ OpType' /\ NoTask \notin Tasks
        /\ Writers \subseteq Tasks
        /\ \A p \in Procs : op[p] \in OpRecord /\ op'[p] \in OpRecord
    <2>1. RowType /\ OpType /\ OtherTypes /\ Rows /\ OpType' /\ NoTask \notin Tasks
      BY TypeParts, RowsMove, PlaceStep, TasksAssumption DEF NoTask
    <2> QED BY <2>1, TasksAssumption DEF OpType
  <1> USE <1>0
  <1>1. \A p, q \in Procs : op'[p].pc = "verify" /\ op'[q].pc = "verify" => p = q
    BY VerifiersExclude
  <1> SUFFICES ASSUME NEW t \in Writers, Settled(t)'
               PROVE  /\ <<t, Gen(t)'>> \in head'
                      /\ \A p \in Procs : op'[p].pc = "verify" => <<t, Gen(t)'>> \in op'[p].start
    BY <1>1 DEF HeadInv, Settled, Gen
  <1>2. Settled(t) => /\ <<t, Gen(t)>> \in head
                      /\ \A p \in Procs : op[p].pc = "verify" => <<t, Gen(t)>> \in op[p].start
    BY DEF HeadInv, Settled
  <1>3. CASE Settled(t)
    <2>1. Gen(t)' = Gen(t)
      <3>1. task[t].state \in {"delivered", "integrating", "complete"}
        BY <1>3 DEF Settled, TreeInv
      <3> QED BY <3>1 DEF Rows, Renewed, Moved, Gen
    <2>2. <<t, Gen(t)>> \in head'
      <3>1. ASSUME NEW p \in Procs, Verify(p) PROVE <<t, Gen(t)>> \in head'
        BY <1>2, <1>3, <3>1 DEF Verify
      <3>2. ASSUME NEW p \in Procs, IntegrateOther(p) PROVE <<t, Gen(t)>> \in head'
        BY <1>2, <1>3, <3>2 DEF IntegrateOther
      <3>3. ASSUME NEW p \in Procs, NEW u \in Tasks, Integrate(p, u) PROVE <<t, Gen(t)>> \in head'
        BY <1>2, <1>3, <3>3 DEF Integrate
      <3> QED BY <1>2, <1>3, <3>1, <3>2, <3>3, WhoWrites
    <2>3. ASSUME NEW p \in Procs, op'[p].pc = "verify" PROVE <<t, Gen(t)>> \in op'[p].start
      BY <1>2, <1>3, <2>3, NewVerifier
    <2> QED BY <2>1, <2>2, <2>3
  <1>4. CASE ~Settled(t)
    <2>1. PICK p \in Procs : /\ Holds(p, t) /\ op[p].pc = "verify" /\ UNCHANGED task
                             /\ op'[p].pc # "verify" /\ tree'[t].state = "integrated"
                             /\ tree'[t] # tree[t]
      <3>1. tree'[t].state = "integrated"
        <4> SUFFICES ASSUME tree'[t].state # "integrated" PROVE FALSE
          OBVIOUS
        <4>1. task'[t].state \in {"integrating", "complete"} /\ task'[t] # task[t]
          BY <1>4 DEF Settled
        <4>2. ~Renewed(t)
          BY <4>1 DEF Renewed
        <4>3. Moved(t)
          BY <4>1, <4>2 DEF Rows
        <4>4. task[t].state = "delivered"
          BY <1>4, <4>1, <4>3 DEF Moved, Edges, Settled
        <4>5. PICK q \in Procs : Finalize(q, t)
          BY <4>1, <4>4, WhoMoves
        <4>6. tree[t].state = "integrated"
          BY <4>5 DEF Finalize, Finalizable
        <4> QED BY <1>4, <4>6 DEF Settled
      <3>2. tree'[t] # tree[t]
        BY <1>4, <3>1 DEF Settled
      <3> QED BY <3>1, <3>2, TreeTurns DEF TreeTurn
    <2>2. op[p].task = t /\ t # NoTask /\ task[t].generation = op[p].gens[t] /\ <<t, op[p].gens[t]>> \in head
      <3>1. op[p].task = t /\ t # NoTask
        BY <2>1 DEF Holds
      <3>2. /\ task[t] = [state |-> "delivered", generation |-> op[p].gens[t]]
            /\ <<t, op[p].gens[t]>> \in head
        BY <2>1, <3>1 DEF LockInv
      <3> QED BY <3>1, <3>2
    <2>3. Gen(t)' = op[p].gens[t]
      BY <2>1, <2>2 DEF Gen
    <2>4. UNCHANGED head
      <3>1. ASSUME NEW q \in Procs, Verify(q) PROVE UNCHANGED head
        <4>1. q = p
          BY <2>1, <3>1 DEF Verify, HeadInv
        <4> QED BY <2>1, <3>1, <4>1 DEF Verify
      <3>2. ~RepositoryFree
        BY <2>1 DEF RepositoryFree
      <3> QED BY <3>1, <3>2, WhoWrites DEF Integrate, IntegrateOther
    <2>5. \A q \in Procs : op'[q].pc # "verify"
      <3>1. ~RepositoryFree
        BY <2>1 DEF RepositoryFree
      <3> QED BY <2>1, <3>1, NewVerifier DEF HeadInv
    <2> QED BY <2>2, <2>3, <2>4, <2>5
  <1> QED BY <1>3, <1>4

-----------------------------------------------------------------------------
(*                          the whole invariant                            *)

LEMMA TeamInit == Init => TeamInv
  <1> SUFFICES ASSUME Init PROVE TeamInv
    OBVIOUS
  <1>1. PICK team \in Teams :
          task = [t \in Tasks |->
                    [generation |-> 0,
                     state |-> CASE t \notin team -> "absent"
                                 [] Deps[t] = {} -> "ready" [] OTHER -> "pending"]]
    BY DEF Init
  <1>2. \A t \in Tasks : /\ Gen(t) = 0
                         /\ task[t].state \in {"absent", "ready", "pending"}
                         /\ t \in team => task[t].state # "absent"
    BY <1>1 DEF Gen
  <1>3. PICK t \in Tasks : task[t].state # "absent"
    BY <1>2, TeamsAssumption
  <1>4. Generations \subseteq Nat /\ 0 \in Generations
    BY GenerationsOf
  <1>5. RowType
    <2>1. \A u \in Tasks : task[u] \in [state : NATIVE_TEAM_STATES, generation : Generations]
      <3> SUFFICES ASSUME NEW u \in Tasks
                   PROVE  task[u] \in [state : NATIVE_TEAM_STATES, generation : Generations]
        OBVIOUS
      <3>1. PICK s \in {"absent", "ready", "pending"} : task[u] = [generation |-> 0, state |-> s]
        BY <1>1
      <3> QED BY <3>1, <1>4 DEF NATIVE_TEAM_STATES
    <2> QED BY <1>1, <2>1 DEF RowType
  <1>6. op = [p \in Procs |-> Idle] /\ Idle \in OpRecord /\ Place(Idle)
    BY IdleIsFine DEF Init
  <1>7. \A p \in Procs :
          op[p].pc = "idle" /\ op[p].made = {} /\ \A u \in Tasks : op[p].gens[u] = 0
    BY <1>6 DEF Idle
  <1>8. OtherTypes
    BY <1>4 DEF Init, OtherTypes, Receipts, Hosted, Liveness, Worktree
  <1>9. TypeOK
    BY <1>5, <1>6, <1>8, TypeParts DEF OpType
  <1>10. PlaceInv
    BY <1>2, <1>3, <1>6, <1>7 DEF PlaceInv
  <1>11. CallInv
    BY <1>7 DEF Init, CallInv
  <1>12. ReceiptInv
    <2>1. ASSUME NEW u \in Tasks, NEW g \in Generations
          PROVE  ~(g < Gen(u)) /\ task[u].state \notin Reconciled
      BY <1>2, <1>4, <2>1 DEF Reconciled
    <2> QED BY <1>7, <2>1 DEF ReceiptInv, Reconciling
  <1>13. LiveInv
    <2>1. \A u \in Tasks : live[u].generation = -1
      BY DEF Init, None
    <2>2. \A p \in Procs : op[p].pc # "adopt"
      BY <1>7
    <2>3. \A u \in Tasks : live[u].generation <= Gen(u) /\ task[u].state # "running"
      BY <1>2, <2>1
    <2> QED BY <2>2, <2>3 DEF LiveInv
  <1>14. TreeInv
    <2>1. \A u \in Tasks : tree[u].generation = -1 /\ tree[u].state = "absent"
      BY DEF Init, None
    <2>2. \A u \in Tasks : tree[u].generation <= Gen(u) /\ task[u].state \notin Working
      BY <1>2, <2>1 DEF Working, Reconciled
    <2> QED BY <2>1, <2>2 DEF TreeInv, None
  <1>15. LockInv
    BY <1>7 DEF LockInv, Holds
  <1>16. HeadInv
    <2>1. \A u \in Tasks :
            tree[u].state = "absent" /\ task[u].state \notin {"integrating", "complete"}
      BY <1>2 DEF Init
    <2>2. Writers \subseteq Tasks
      BY TasksAssumption
    <2> QED BY <1>7, <2>1, <2>2 DEF HeadInv
  <1> QED BY <1>9, <1>10, <1>11, <1>12, <1>13, <1>14, <1>15, <1>16 DEF TeamInv

LEMMA TeamStep == TeamInv /\ [Next]_vars => TeamInv'
  <1> SUFFICES ASSUME TeamInv, [Next]_vars PROVE TeamInv'
    OBVIOUS
  <1>1. CASE Next
    <2> USE <1>1 DEF TeamInv
    <2>1. TypeOK' /\ PlaceInv'
      <3>1. RowType' /\ OpType' /\ OtherTypes' /\ PlaceInv'
        BY RowsMove, PlaceStep, OthersStep DEF Rows
      <3> QED BY <3>1 DEF TypeOK, RowType, OpType, OtherTypes, OpRecord, Receipts, Hosted, Liveness,
                          Worktree
    <2>2. CallInv' /\ ReceiptInv' /\ LiveInv'
      BY CallStep, ReceiptStep, LiveStep
    <2>3. TreeInv' /\ LockInv' /\ HeadInv'
      BY TreeStep, LockStep, HeadStep
    <2> QED BY <2>1, <2>2, <2>3
  <1>2. CASE UNCHANGED vars
    <2> USE <1>2 DEF vars, Gen
    <2>1. TypeOK' /\ PlaceInv'
      <3>1. TypeOK'
        BY DEF TeamInv, TypeOK
      <3>2. PlaceInv'
        BY TypeParts, RowsSame, OpsSame DEF TeamInv
      <3> QED BY <3>1, <3>2
    <2>2. CallInv' /\ ReceiptInv'
      BY DEF TeamInv, CallInv, ReceiptInv, Requested
    <2>3. LiveInv' /\ TreeInv'
      BY DEF TeamInv, LiveInv, TreeInv
    <2>4. LockInv' /\ HeadInv'
      BY DEF TeamInv, LockInv, HeadInv, Holds, Removable
    <2> QED BY <2>1, <2>2, <2>3, <2>4 DEF TeamInv
  <1> QED BY <1>1, <1>2

LEMMA TeamAlways == Spec => []TeamInv
  BY TeamInit, TeamStep, PTL DEF Spec

(* However many leaders fan out, recover and retry, and wherever they are  *)
(* killed: the host is asked for one subagent of a generation at most, and *)
(* for that of a newer generation only after the launch of the older one   *)
(* was reconciled with the host.                                           *)
THEOREM SpawnedOnceAlways == Spec => []SpawnedOnce
  <1>1. TeamInv => SpawnedOnce
    <2> SUFFICES ASSUME TeamInv, NEW t \in Tasks, NEW g \in Generations
                 PROVE  /\ host[t][g].calls <= 1
                        /\ g > 0 /\ host[t][g].calls > 0 =>
                             receipt[t][g - 1] \notin {"absent", "spawn_requested"}
      BY DEF SpawnedOnce
    <2>1. host[t][g].calls <= 1 /\ (host[t][g].calls > 0 => Requested(t, g))
      BY DEF TeamInv, CallInv
    <2>2. ASSUME g > 0, Requested(t, g)
          PROVE  receipt[t][g - 1] \notin {"absent", "spawn_requested"}
      <3>1. g \in Nat /\ Gen(t) \in Nat /\ g <= Gen(t)
        BY <2>2, GenerationsOf DEF TeamInv, TypeOK, Requested, Gen
      <3>2. g - 1 \in Generations /\ g - 1 < Gen(t)
        BY <2>2, <3>1, GenerationsOf
      <3>3. receipt[t][g - 1] \in Answers
        BY <3>2 DEF TeamInv, ReceiptInv
      <3> QED BY <3>3 DEF Answers
    <2> QED BY <2>1, <2>2
  <1> QED BY <1>1, TeamAlways, PTL

(* A delivery that was reported as integrated, and that a complete task    *)
(* rests on, is in the leader's HEAD, whatever another integration rolls   *)
(* back and whoever was killed half-way.                                   *)
THEOREM IntegrationAlwaysStands == Spec => []IntegrationStands
  <1>1. TeamInv => IntegrationStands
    BY DEF TeamInv, HeadInv, IntegrationStands
  <1> QED BY <1>1, TeamAlways, PTL

(* A running task can be recovered, whoever is killed in whichever         *)
(* operation: its liveness record is of the generation that runs, and a    *)
(* writer's worktree is of that generation and removable or removed. The   *)
(* type invariant is part of it.                                           *)
THEOREM RunningAlwaysRecoverable == Spec => []RunningIsRecoverable
  <1>1. TeamInv => RunningIsRecoverable
    <2> SUFFICES ASSUME TeamInv
                 PROVE  /\ TypeOK
                        /\ \A t \in Tasks : task[t].state = "running" =>
                             /\ live[t].generation = Gen(t)
                             /\ t \in Writers => Removable(t, Gen(t)) \/ Removed(t, Gen(t))
      BY DEF RunningIsRecoverable
    <2>1. ASSUME NEW t \in Writers, task[t].state = "running"
          PROVE  Removable(t, Gen(t)) \/ Removed(t, Gen(t))
      <3>1. t \in Tasks
        BY TasksAssumption
      <3>2. tree[t].generation = Gen(t) /\ tree[t].state # "integrated"
        BY <2>1, <3>1 DEF TeamInv, TreeInv, Working, Reconciled
      <3>3. Gen(t) \in Nat
        BY <3>1, GenerationsOf DEF TeamInv, TypeOK, Gen
      <3>4. tree[t].state # "absent"
        BY <3>1, <3>2, <3>3 DEF TeamInv, TreeInv, None
      <3>5. tree[t].state \in
              {"absent", "created", "sealed", "integrated", "conflict", "cancelled", "cleaned"}
        BY <3>1 DEF TeamInv, TypeOK
      <3> QED BY <3>2, <3>4, <3>5 DEF Removable, Removed
    <2> QED BY <2>1 DEF TeamInv, LiveInv
  <1> QED BY <1>1, TeamAlways, PTL

================================================================================
