------------------------------- MODULE NativeTeam -------------------------------
(***************************************************************************)
(* A native team: a DAG of tasks, each run by a subagent of the host       *)
(* (Grok), which the leader launches, watches, recovers and whose commits  *)
(* it integrates (team/plane.py, team/recovery.py, team/liveness.py,       *)
(* team/worktree.py, the spawn receipts of tracker.py).                    *)
(* Every file has a lock of its own: an operation reads, has its effects   *)
(* on receipts, liveness, worktree and HEAD one after the other, and ends  *)
(* with a compare-and-swap of the task. Processes interleave at each of    *)
(* these and may be killed there. A task never returns to a state within a *)
(* generation, so the two identify what the code compares by a sequence    *)
(* number as well. Abstracted: envelopes, roles and contents of results;   *)
(* transport tmux_grok; the supervisor lease, which nothing else consults. *)
(* Times are not measured: a receipt may have expired, and a worker's      *)
(* liveness be stale, at any moment.                                       *)
(***************************************************************************)
EXTENDS Integers, FiniteSets, FiniteSetsExt

CONSTANTS Tasks,            \* numbers, in the order of their ids
          Deps,             \* the dependencies of each
          Writers,          \* those with a write scope
          Teams,            \* the sets of tasks a team may be created with
          Procs,            \* processes that act for the leader
          MaxConcurrency,   \* of a fan-out
          MaxGeneration     \* bound of the recoveries of each task

ASSUME TasksAssumption == Tasks \subseteq Nat \ {0} /\ IsFiniteSet(Tasks) /\ Writers \subseteq Tasks
ASSUME TeamsAssumption ==
  \A team \in Teams :
    /\ team # {} /\ team \subseteq Tasks
    /\ \A t \in team : Deps[t] \subseteq {d \in team : d < t}
ASSUME BoundAssumption ==
  MaxConcurrency \in Nat \ {0} /\ MaxGeneration \in [Tasks -> Nat]

Generations == 0..Max({MaxGeneration[t] : t \in Tasks})
None == -1
NoTask == 0

(* What HEAD can contain: the delivery of a task and generation, or one of *)
(* another team that shares the repository.                                *)
Other == <<NoTask, 0>>
Deliveries == (Tasks \X Generations) \cup {Other}

VARIABLES
  task,      \* the rows of native-team.json
  receipt,   \* the spawn receipts of each task and generation
  host,      \* the subagents: how often called for, and what became of it
  live,      \* the liveness record of each task
  tree,      \* the worktree receipt of each task
  checkout,  \* the worktree itself
  head,      \* the deliveries in the leader's HEAD
  op         \* what each process is doing

vars == <<task, receipt, host, live, tree, checkout, head, op>>

NATIVE_TEAM_STATES ==
  {"absent", "pending", "ready", "spawn_requested", "launch_unknown", "running",
   "delivered", "integrating", "complete", "failed", "blocked"}
Failures == {"failed", "blocked"}
Answered == {"delivered", "integrating", "complete", "failed"}

Pc == {"idle", "prepare", "dispatch", "call", "receipt", "claim", "adopt", "schedule", "fence",
       "cancel", "cancelled", "recover", "created", "sealed", "verify", "complete"}
Idle == [pc |-> "idle", task |-> NoTask, gens |-> [t \in Tasks |-> 0], from |-> "pending",
         seen |-> "none", todo |-> {}, made |-> {}, stale |-> FALSE, start |-> {}]

TypeOK ==
  /\ task \in [Tasks -> [state : NATIVE_TEAM_STATES, generation : Generations]]
  /\ receipt \in [Tasks -> [Generations ->
       {"absent", "spawn_requested", "launch_unknown", "bound", "blocked"}]]
  /\ host \in [Tasks -> [Generations ->
       [calls : 0..2, state : {"none", "called", "live"}]]]
  /\ live \in [Tasks -> [generation : Generations \cup {None}, terminal : BOOLEAN]]
  /\ tree \in [Tasks -> [generation : Generations \cup {None}, state :
       {"absent", "created", "sealed", "integrated", "conflict", "cancelled", "cleaned"}]]
  /\ checkout \in [Tasks -> {"absent", "added", "committed"}]
  /\ head \subseteq Deliveries
  /\ op \in [Procs -> [pc : Pc, task : Tasks \cup {NoTask}, gens : [Tasks -> Generations],
                       from : NATIVE_TEAM_STATES, seen : {"none", "one", "ambiguous"},
                       todo : SUBSET Tasks, made : SUBSET Tasks, stale : BOOLEAN,
                       start : SUBSET Deliveries]]

(* The graph is acyclic by its numbering; tasks without dependencies are   *)
(* ready at once.                                                          *)
Init ==
  /\ \E team \in Teams :
       task = [t \in Tasks |->
                 [generation |-> 0,
                  state |-> CASE t \notin team -> "absent" [] Deps[t] = {} -> "ready" [] OTHER -> "pending"]]
  /\ receipt = [t \in Tasks |-> [g \in Generations |-> "absent"]]
  /\ host = [t \in Tasks |-> [g \in Generations |-> [calls |-> 0, state |-> "none"]]]
  /\ live = [t \in Tasks |-> [generation |-> None, terminal |-> FALSE]]
  /\ tree = [t \in Tasks |-> [state |-> "absent", generation |-> None]]
  /\ checkout = [t \in Tasks |-> "absent"]
  /\ head = {}
  /\ op = [p \in Procs |-> Idle]

-----------------------------------------------------------------------------
Gen(t) == task[t].generation

First(S) == Min(S)

Step(p, pc) == op' = [op EXCEPT ![p].pc = pc]

Return(p) == op' = [op EXCEPT ![p] = Idle]

(* Begin an operation on one task, with the generation its row says now.   *)
Begin(p, pc, t) ==
  /\ op[p] = Idle
  /\ op' = [op EXCEPT ![p] = [Idle EXCEPT !.pc = pc, !.task = t, !.gens[t] = Gen(t)]]

AsExpected_AnyState(p, t, state) == TRUE

(* The compare-and-swap: anything else raises and changes nothing.         *)
AsExpected(p, t, state) == task[t] = [state |-> state, generation |-> op[p].gens[t]]

To(t, state) == task' = [task EXCEPT ![t].state = state]

(* The lock of a worktree receipt, and that of the repository, which an    *)
(* integration holds until its tests are through.                          *)
LockFree(t) ==
  \A p \in Procs : op[p].task = t => op[p].pc \notin {"created", "sealed", "cancelled", "verify"}

RepositoryFree_Shared == TRUE

RepositoryFree == \A p \in Procs : op[p].pc # "verify"

-----------------------------------------------------------------------------
(*                fan-out: receipts, tasks, and the host's calls           *)

Occupied == {t \in Tasks : task[t].state \in {"spawn_requested", "launch_unknown", "running"}}

ReadyTasks == {t \in Tasks : task[t].state = "ready"}

(* The first ready tasks that there are slots for.                         *)
Planned ==
  {t \in ReadyTasks :
     Cardinality({u \in ReadyTasks : u <= t}) + Cardinality(Occupied) <= MaxConcurrency}

PlanFanout(p) ==
  /\ op[p] = Idle
  /\ Planned # {}
  /\ op' = [op EXCEPT ![p] = [Idle EXCEPT !.pc = "prepare", !.todo = Planned,
                 !.gens = [t \in Tasks |-> IF t \in Planned THEN Gen(t) ELSE 0]]]
  /\ UNCHANGED <<task, receipt, host, live, tree, checkout, head>>

(* A writer needs the worktree of its generation; the receipt of a fan-out *)
(* that was killed is used again unless it was reconciled.                 *)
Preparable(p, t) ==
  /\ AsExpected(p, t, "ready")
  /\ t \in Writers => tree[t] = [state |-> "created", generation |-> Gen(t)]
  /\ receipt[t][Gen(t)] \in {"absent", "spawn_requested"}

PersistReceipt(p) ==
  /\ op[p].pc = "prepare"
  /\ LET t == First(op[p].todo) IN
       /\ Preparable(p, t)
       /\ receipt' = [receipt EXCEPT ![t][op[p].gens[t]] = "spawn_requested"]
  /\ Step(p, "dispatch")
  /\ UNCHANGED <<task, host, live, tree, checkout, head>>

(* One refusal, or a receipt that expired, ends the fan-out and with it    *)
(* the calls it had prepared.                                              *)
PrepareRefused(p) ==
  /\ op[p].pc = "prepare"
  /\ LET t == First(op[p].todo) IN
       ~Preparable(p, t) \/ receipt[t][op[p].gens[t]] = "spawn_requested"
  /\ Return(p)
  /\ UNCHANGED <<task, receipt, host, live, tree, checkout, head>>

Dispatch(p) ==
  /\ op[p].pc = "dispatch"
  /\ LET t == First(op[p].todo) IN
       IF AsExpected(p, t, "ready")
       THEN /\ To(t, "spawn_requested")
            /\ op' = [op EXCEPT ![p].pc = IF op[p].todo = {t} THEN "call" ELSE "prepare",
                                 ![p].todo = @ \ {t}, ![p].made = @ \cup {t}]
       ELSE UNCHANGED task /\ Return(p)
  /\ UNCHANGED <<receipt, host, live, tree, checkout, head>>

(* The leader makes the calls that were prepared for it.                   *)
CallHost(p) ==
  /\ op[p].pc = "call"
  /\ LET t == First(op[p].made) IN
       /\ host' = [host EXCEPT ![t][op[p].gens[t]] = [calls |-> @.calls + 1, state |-> "called"]]
       /\ IF op[p].made = {t} THEN Return(p) ELSE op' = [op EXCEPT ![p].made = @ \ {t}]
  /\ UNCHANGED <<task, receipt, live, tree, checkout, head>>

(* A subagent that was called for starts, unless it never does. One that   *)
(* has ended differs in nothing the code could see.                        *)
HostStep(t, g) ==
  /\ host[t][g].state = "called"
  /\ host' = [host EXCEPT ![t][g].state = "live"]
  /\ UNCHANGED <<task, receipt, live, tree, checkout, head, op>>

-----------------------------------------------------------------------------
(*          reconciliation of a launch with the host's inventory           *)

(* The caller listed the host's subagents some time before: one that has   *)
(* started may be missing, one that has ended may be there. An entry may   *)
(* also name the receipt and disagree with it.                             *)
Observe(p, t) ==
  /\ task[t].state \in {"spawn_requested", "launch_unknown"}
  /\ op[p] = Idle
  /\ \E seen \in {"none"} \cup
                 IF host[t][Gen(t)].state = "live" THEN {"one", "ambiguous"} ELSE {} :
       op' = [op EXCEPT ![p] = [Idle EXCEPT !.pc = "receipt", !.task = t, !.gens[t] = Gen(t),
                                     !.from = task[t].state, !.seen = seen]]
  /\ UNCHANGED <<task, receipt, host, live, tree, checkout, head>>

(* The receipt is written whatever has become of the task meanwhile.       *)
ReconcileReceipt(p) ==
  /\ op[p].pc = "receipt"
  /\ LET t == op[p].task
         Becomes(status) == receipt' = [receipt EXCEPT ![t][op[p].gens[t]] = status]
     IN \/ op[p].seen = "none" /\ Becomes("launch_unknown") /\ Step(p, "adopt")
        \/ op[p].seen = "ambiguous" /\ Becomes("blocked") /\ Step(p, "adopt")
        \/ op[p].seen = "one" /\ Becomes("bound") /\ Step(p, "claim")
        \/ op[p].seen = "one" /\ UNCHANGED receipt /\ Return(p)    \* expired
  /\ UNCHANGED <<task, host, live, tree, checkout, head>>

(* initialize_liveness: the same worker adopts its record, a newer one     *)
(* takes over from a terminal one, anything else raises.                   *)
Claimable(t, g) ==
  \/ live[t].generation = None
  \/ live[t].generation = g /\ ~live[t].terminal
  \/ live[t].generation < g /\ live[t].terminal

InitializeLiveness_Later(p) ==
  /\ op[p].pc = "claim"
  /\ UNCHANGED live /\ Step(p, "adopt")
  /\ UNCHANGED <<task, receipt, host, tree, checkout, head>>

InitializeLiveness(p) ==
  /\ op[p].pc = "claim"
  /\ LET t == op[p].task
         g == op[p].gens[t]
     IN IF Claimable(t, g)
        THEN live' = [live EXCEPT ![t] = [generation |-> g, terminal |-> FALSE]] /\ Step(p, "adopt")
        ELSE UNCHANGED live /\ Return(p)
  /\ UNCHANGED <<task, receipt, host, tree, checkout, head>>

Outcome(seen) ==
  CASE seen = "one" -> "running" [] seen = "none" -> "launch_unknown" [] OTHER -> "blocked"

Adopt(p) ==
  /\ op[p].pc = "adopt"
  /\ LET t == op[p].task IN
       IF AsExpected(p, t, op[p].from) THEN To(t, Outcome(op[p].seen)) ELSE UNCHANGED task
  /\ Return(p)
  /\ UNCHANGED <<receipt, host, live, tree, checkout, head>>

(* The result of a subagent: "failed" stands for all that are not ok. The  *)
(* liveness record follows, at once or when the result is sent again.      *)
RecordResult(t, g) ==
  /\ host[t][g].state = "live"
  /\ \/ /\ task[t] = [state |-> "running", generation |-> g]
        /\ \E state \in {"delivered", "failed"} : To(t, state)
     \/ /\ task[t].state \in Answered /\ Gen(t) = g
        /\ UNCHANGED task
  /\ live' \in {live, [live EXCEPT ![t].terminal = @ \/ live[t].generation = g]}
  /\ UNCHANGED <<receipt, host, tree, checkout, head, op>>

-----------------------------------------------------------------------------
(*                       scheduling and recovery                           *)

(* A pass over the tasks in order, with or without recovery. It loads the  *)
(* team anew for each; what it loses to another process ends it.           *)
Pass(p, stale) ==
  op' = [op EXCEPT ![p] = [Idle EXCEPT !.pc = "schedule", !.stale = stale,
                             !.todo = {t \in Tasks : task[t].state # "absent"}]]

ReconcileTeam(p) ==
  /\ op[p] = Idle
  /\ Pass(p, TRUE)
  /\ UNCHANGED <<task, receipt, host, live, tree, checkout, head>>

Blocked(t) == \E d \in Deps[t] : task[d].state \in Failures

ScheduleTask(p) ==
  /\ op[p].pc = "schedule"
  /\ LET t == First(op[p].todo) IN
       /\ IF task[t].state # "pending" THEN UNCHANGED task
          ELSE IF Blocked(t) THEN To(t, "blocked")
          ELSE IF \A d \in Deps[t] : task[d].state = "complete" THEN To(t, "ready")
          ELSE UNCHANGED task
       /\ IF op[p].todo = {t} THEN Return(p) ELSE op' = [op EXCEPT ![p].todo = @ \ {t}]
  /\ UNCHANGED <<receipt, host, live, tree, checkout, head>>

AfterFence(t) == IF t \in Writers THEN "cancel" ELSE "recover"

(* The pass takes up a stalled or dead worker, but none whose record says  *)
(* terminal; recover_native_task called for one task takes that as well.   *)
RecoverInPass(p) ==
  /\ op[p].pc = "schedule" /\ op[p].stale
  /\ LET t == First(op[p].todo) IN
       /\ task[t].state = "running" /\ Gen(t) < MaxGeneration[t]
       /\ live[t] = [generation |-> Gen(t), terminal |-> FALSE]
       /\ op' = [op EXCEPT ![p].pc = "fence", ![p].task = t, ![p].gens[t] = Gen(t)]
  /\ UNCHANGED <<task, receipt, host, live, tree, checkout, head>>

RecoverTask(p, t) ==
  /\ task[t].state = "running" /\ Gen(t) < MaxGeneration[t]
  /\ live[t].generation = Gen(t)
  /\ Begin(p, IF live[t].terminal THEN AfterFence(t) ELSE "fence", t)
  /\ UNCHANGED <<task, receipt, host, live, tree, checkout, head>>

Fence(p) ==
  /\ op[p].pc = "fence"
  /\ LET t == op[p].task IN
       /\ live' = [live EXCEPT ![t].terminal = @ \/ live[t].generation = op[p].gens[t]]
       /\ Step(p, AfterFence(t))
  /\ UNCHANGED <<task, receipt, host, tree, checkout, head>>

(* Remove the worktree and its branch, then say so in its receipt; one     *)
(* that is gone already is fine, any other state raises.                   *)
Removable(t, g) ==
  tree[t].generation = g /\ tree[t].state \in {"created", "sealed", "conflict"}

Removed(t, g) ==
  tree[t].generation = g /\ tree[t].state \in {"cancelled", "cleaned"}

RemoveCheckout(p) ==
  /\ op[p].pc = "cancel"
  /\ LET t == op[p].task
         g == op[p].gens[t]
     IN /\ LockFree(t)
        /\ \/ /\ Removable(t, g)
              /\ checkout' = [checkout EXCEPT ![t] = "absent"] /\ Step(p, "cancelled")
           \/ Removed(t, g) /\ UNCHANGED checkout /\ Step(p, "recover")
           \/ ~Removable(t, g) /\ ~Removed(t, g) /\ UNCHANGED checkout /\ Return(p)
  /\ UNCHANGED <<task, receipt, host, live, tree, head>>

CancelReceipt(p) ==
  /\ op[p].pc = "cancelled"
  /\ tree' = [tree EXCEPT ![op[p].task].state = "cancelled"]
  /\ Step(p, "recover")
  /\ UNCHANGED <<task, receipt, host, live, checkout, head>>

Renew(t) == task' = [task EXCEPT ![t] = [state |-> "ready", generation |-> Gen(t) + 1]]

Recover(p) ==
  /\ op[p].pc = "recover"
  /\ IF AsExpected(p, op[p].task, "running")
     THEN /\ Renew(op[p].task)
          /\ op' = [op EXCEPT ![p] = IF op[p].todo \subseteq {op[p].task} THEN Idle
                ELSE [Idle EXCEPT !.pc = "schedule", !.stale = TRUE,
                                  !.todo = op[p].todo \ {op[p].task}]]
     ELSE UNCHANGED task /\ Return(p)
  /\ UNCHANGED <<receipt, host, live, tree, checkout, head>>

(* An operator who found the subagent absent retries a launch_unknown; the *)
(* worktree of a writer stays, and keeps its generation.                   *)
RetryUnknown(t) ==
  /\ task[t].state = "launch_unknown" /\ Gen(t) < MaxGeneration[t]
  /\ host[t][Gen(t)].state # "live"
  /\ Renew(t)
  /\ UNCHANGED <<receipt, host, live, tree, checkout, head, op>>

-----------------------------------------------------------------------------
(*                     worktrees and integration                           *)

(* Only on the base the team was created with, and where nothing lies.     *)
CreateWorktree(p, t) ==
  /\ t \in Writers /\ LockFree(t)
  /\ head = {} /\ checkout[t] = "absent"
  /\ \/ tree[t].state = "absent"
     \/ tree[t].state \in {"cancelled", "cleaned"} /\ Gen(t) = tree[t].generation + 1
  /\ checkout' = [checkout EXCEPT ![t] = "added"]
  /\ Begin(p, "created", t)
  /\ UNCHANGED <<task, receipt, host, live, tree, head>>

CreateReceipt(p) ==
  /\ op[p].pc = "created"
  /\ LET t == op[p].task IN
       tree' = [tree EXCEPT ![t] = [state |-> "created", generation |-> op[p].gens[t]]]
  /\ Return(p)
  /\ UNCHANGED <<task, receipt, host, live, checkout, head>>

(* What a subagent of any generation, the path is the same for all, has    *)
(* changed is committed; a commit without a receipt leaves nothing to seal.*)
Seal(p, t) ==
  /\ tree[t] = [state |-> "created", generation |-> Gen(t)] /\ LockFree(t)
  /\ checkout[t] = "added"
  /\ \E g \in Generations : host[t][g].state = "live"
  /\ checkout' = [checkout EXCEPT ![t] = "committed"]
  /\ Begin(p, "sealed", t)
  /\ UNCHANGED <<task, receipt, host, live, tree, head>>

SealReceipt(p) ==
  /\ op[p].pc = "sealed"
  /\ \E state \in {"sealed", "conflict"} : tree' = [tree EXCEPT ![op[p].task].state = state]
  /\ Return(p)
  /\ UNCHANGED <<task, receipt, host, live, checkout, head>>

(* The leader integrates what was delivered: that is the caller's doing,   *)
(* the code looks at the worktree receipt alone. A commit that is in HEAD  *)
(* already cannot be picked.                                               *)
Integrate(p, t) ==
  /\ task[t].state = "delivered"
  /\ tree[t] = [state |-> "sealed", generation |-> Gen(t)]
  /\ LockFree(t) /\ RepositoryFree
  /\ LET delivery == <<t, Gen(t)>> IN
       \/ /\ delivery \notin head
          /\ head' = head \cup {delivery}
          /\ op[p] = Idle
          /\ op' = [op EXCEPT ![p] = [Idle EXCEPT !.pc = "verify", !.task = t, !.gens[t] = Gen(t),
                                                 !.start = head]]
          /\ UNCHANGED tree
       \/ /\ tree' = [tree EXCEPT ![t].state = "conflict"]
          /\ op[p] = Idle /\ UNCHANGED <<head, op>>
  /\ UNCHANGED <<task, receipt, host, live, checkout>>

(* The same operation in another team.                                     *)
IntegrateOther(p) ==
  /\ RepositoryFree /\ Other \notin head
  /\ head' = head \cup {Other}
  /\ op[p] = Idle
  /\ op' = [op EXCEPT ![p] = [Idle EXCEPT !.pc = "verify", !.start = head]]
  /\ UNCHANGED <<task, receipt, host, live, tree, checkout>>

(* Fresh tests; if they fail, HEAD goes back to where it was.              *)
Verify(p) ==
  /\ op[p].pc = "verify"
  /\ \/ /\ UNCHANGED head
        /\ tree' = IF op[p].task = NoTask THEN tree
                   ELSE [tree EXCEPT ![op[p].task].state = "integrated"]
     \/ /\ head' = op[p].start
        /\ UNCHANGED tree
  /\ Return(p)
  /\ UNCHANGED <<task, receipt, host, live, checkout>>

(* What finalize_native_integration leaves to its caller: a writer's       *)
(* delivery was integrated.                                                *)
Finalizable(t) ==
  /\ task[t].state = "delivered"
  /\ t \in Writers => tree[t] = [state |-> "integrated", generation |-> Gen(t)]

Finalize(p, t) ==
  /\ Finalizable(t)
  /\ To(t, "integrating")
  /\ Begin(p, "complete", t)
  /\ UNCHANGED <<receipt, host, live, tree, checkout, head>>

Complete(p) ==
  /\ op[p].pc = "complete"
  /\ IF AsExpected(p, op[p].task, "integrating")
     THEN To(op[p].task, "complete") /\ Pass(p, FALSE)
     ELSE UNCHANGED task /\ Return(p)
  /\ UNCHANGED <<receipt, host, live, tree, checkout, head>>

CleanUp(t) ==
  /\ tree[t].state \in {"integrated", "cancelled"} /\ LockFree(t)
  /\ tree' = [tree EXCEPT ![t].state = "cleaned"]
  /\ checkout' = [checkout EXCEPT ![t] = "absent"]
  /\ UNCHANGED <<task, receipt, host, live, head, op>>

-----------------------------------------------------------------------------
Kill(p) ==
  /\ op[p] # Idle
  /\ Return(p)
  /\ UNCHANGED <<task, receipt, host, live, tree, checkout, head>>

(* What a process does next in the operation it has begun.                 *)
Proceed(p) ==
  \/ PersistReceipt(p) \/ PrepareRefused(p) \/ Dispatch(p) \/ CallHost(p)
  \/ ReconcileReceipt(p) \/ InitializeLiveness(p) \/ Adopt(p)
  \/ ScheduleTask(p) \/ RecoverInPass(p)
  \/ Fence(p) \/ RemoveCheckout(p) \/ CancelReceipt(p) \/ Recover(p)
  \/ CreateReceipt(p) \/ SealReceipt(p) \/ Verify(p) \/ Complete(p)

Next ==
  \/ \E p \in Procs : Proceed(p) \/ PlanFanout(p) \/ ReconcileTeam(p) \/ IntegrateOther(p) \/ Kill(p)
  \/ \E p \in Procs, t \in Tasks :
       \/ Observe(p, t) \/ RecoverTask(p, t)
       \/ CreateWorktree(p, t) \/ Seal(p, t) \/ Integrate(p, t) \/ Finalize(p, t)
  \/ \E t \in Tasks : RetryUnknown(t) \/ CleanUp(t)
  \/ \E t \in Tasks, g \in Generations : HostStep(t, g) \/ RecordResult(t, g)

Spec == Init /\ [][Next]_vars

-----------------------------------------------------------------------------
(* However many leaders fan out, recover and retry, and wherever they are  *)
(* killed: the host is asked for a subagent at most once for each task and *)
(* generation, and for that of a newer generation only after the launch of *)
(* the older one was reconciled with the host.                             *)
SpawnedOnce ==
  \A t \in Tasks, g \in Generations :
    /\ host[t][g].calls <= 1
    /\ g > 0 /\ host[t][g].calls > 0 => receipt[t][g - 1] \notin {"absent", "spawn_requested"}

(* A delivery that was reported as integrated, and that a complete task    *)
(* rests on, is in the leader's HEAD, whatever                             *)
(* another integration rolls back and whoever was killed half-way.         *)
IntegrationStands ==
  \A t \in Writers :
    tree[t].state = "integrated" \/ task[t].state = "complete"
      => <<t, Gen(t)>> \in head

(* A running task can always be recovered, whoever is killed in whichever  *)
(* operation: there is a liveness record, and it is of the generation that *)
(* runs; the worktree of a writer is of that generation, and in a state    *)
(* that recovery removes or finds removed.                                 *)
RunningIsRecoverable ==
  /\ TypeOK
  /\ \A t \in Tasks : task[t].state = "running" =>
       /\ live[t].generation = Gen(t)
       /\ t \in Writers => Removable(t, Gen(t)) \/ Removed(t, Gen(t))

================================================================================
