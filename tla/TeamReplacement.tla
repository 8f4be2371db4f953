---------------------------- MODULE TeamReplacement ----------------------------
(***************************************************************************)
(* Replacing the execution of one team worker (team/replacement.py).       *)
(* An operator names the replacement by an idempotency key. The protocol   *)
(* runs under the scale lock of the team and keeps a log file per key:     *)
(*   intent    - nothing was done yet;                                     *)
(*   fenced    - the old execution is gone, the board claim is revoked;    *)
(*   launched  - the new execution exists;                                 *)
(*   committed - the team metadata names it; or failed.                    *)
(* Every file written is a step and the process may be killed between two  *)
(* of them. The lock is freed then, and the same key or a resumed leader   *)
(* picks the log up. Meanwhile the agents of live executions (and another  *)
(* worker) claim and finish the board task of the worker.                  *)
(* Abstracted: the job plane (a cancel that succeeds proves the job dead,  *)
(* see DurableJob), leases of claims (see TeamTasks), worktree, route and  *)
(* interaction evidence, refused requests, which change nothing.           *)
(***************************************************************************)
EXTENDS Integers, FiniteSets

CONSTANTS Keys,         \* idempotency keys of replace-worker requests
          None, Bystander,
          Topologies,   \* worker_topology: "job" or "pane"
          Modes,        \* the modes callers ask for
          DryRuns,      \* the values of dry_run callers pass
          Careful,      \* callers retry a pending key, with its own arguments,
                        \* before they use another
          MaxJobs, MaxKills     \* bounds

ASSUME KeysAssumption == None \notin Keys
ASSUME TopologyAssumption == Topologies \subseteq {"job", "pane"}
ASSUME ModesAssumption == Modes \subseteq {"lost", "failed", "restart"}
ASSUME FlagsAssumption == DryRuns \subseteq BOOLEAN /\ Careful \in BOOLEAN
ASSUME BoundAssumption == MaxJobs \in Nat \ {0} /\ MaxKills \in Nat

Jobs == 1..MaxJobs

ASSUME BystanderAssumption == Bystander \notin Jobs \cup {None}

VARIABLES
  row,      \* the worker's row of team.json
  board,    \* the board task it is bound to
  log,      \* the log file of each key
  jobs,     \* the executions ever created: a job, or the pane of the worker
  op,       \* who holds the scale lock, and how far it got
  kills

vars == <<row, board, log, jobs, op, kills>>

Agents == Jobs \cup {Bystander}
NoJob == 0

LogState == {"absent", "intent", "fenced", "launched", "committed", "failed"}
NoLog == [state |-> "absent", mode |-> None, dry |-> FALSE, attempt |-> 0,
          generation |-> 0, job |-> NoJob]

Pc == {"idle", "resume", "fence", "invalidate", "fenced", "launch", "start",
       "launched", "commit", "committed", "dryCommit", "fail", "mark"}
Free == [pc |-> "idle", key |-> None, dry |-> FALSE, job |-> NoJob, todo |-> {}]

NotCreated == [state |-> "absent", key |-> None, attempt |-> 0, generation |-> 0]

(* The log state on disk while its holder is at a step.                    *)
StateAt(pc) ==
  CASE pc \in {"fence", "invalidate", "fenced"} -> {"intent"}
    [] pc \in {"launch", "start", "launched"} -> {"fenced"}
    [] pc \in {"commit", "committed"} -> {"launched"}
    [] pc = "dryCommit" -> {"committed"}
    [] pc = "fail" -> {"intent", "fenced", "launched"}
    [] pc = "mark" -> {"failed"}
    [] OTHER -> {}

(* Types, and that the holder's step and the log on disk agree.            *)
TypeOK ==
  /\ row \in [topology : Topologies, attempt : Nat \ {0}, generation : Nat \ {0},
              job : Jobs \cup {NoJob}, prior : BOOLEAN]
  /\ board \in [status : {"pending", "in_progress", "completed"}, attempt : Nat \ {0},
                claim : [by : Agents, attempt : Nat \ {0}] \cup {None}]
  /\ log \in [Keys -> [state : LogState, mode : Modes \cup {None}, dry : BOOLEAN,
                       attempt : Nat, generation : Nat, job : Jobs \cup {NoJob}]]
  /\ jobs \in [Jobs -> [state : {"absent", "created", "live", "ended"},
                        key : Keys \cup {None}, attempt : Nat, generation : Nat]]
  /\ op \in [pc : Pc, key : Keys \cup {None}, dry : BOOLEAN, job : Jobs \cup {NoJob}, todo : SUBSET Keys]
  /\ kills \in 0..MaxKills
  /\ op.key # None => log[op.key].state \in StateAt(op.pc)
  /\ op.key = None => op.pc \in {"idle", "resume"}

Init ==
  /\ \E topology \in Topologies :
       row = [topology |-> topology, attempt |-> 1, generation |-> 1, job |-> 1,
              prior |-> FALSE]
  /\ board = [status |-> "pending", attempt |-> 1, claim |-> None]
  /\ log = [k \in Keys |-> NoLog]
  /\ jobs = [j \in Jobs |-> IF j = 1 THEN [NotCreated EXCEPT !.state = "live", !.attempt = 1,
                                                             !.generation = 1]
                                     ELSE NotCreated]
  /\ op = Free
  /\ kills = 0

-----------------------------------------------------------------------------
PendingStates_ForgetsLaunched == {"intent", "fenced"}

PendingStates == {"intent", "fenced", "launched"}

Pending == {k \in Keys : log[k].state \in PendingStates}

Live == {j \in Jobs : jobs[j].state = "live"}

WriteLog(k, state) == log' = [log EXCEPT ![k].state = state]

Step(pc) == op' = [op EXCEPT !.pc = pc]

(* Where a log that exists is taken up again.                              *)
EntryPoint(state) ==
  CASE state = "intent" -> "fence" [] state = "fenced" -> "launch" [] OTHER -> "commit"

(* The lock holder is done with its key: a resumed leader goes on to the   *)
(* next log, a request returns to its caller.                              *)
Done ==
  op' = [Free EXCEPT !.pc = IF op.todo = {} THEN "idle" ELSE "resume", !.todo = op.todo]

-----------------------------------------------------------------------------
(*               requests, retries of a key, a resumed leader              *)

(* A new key. The compare-and-swap: the caller names the attempt and the   *)
(* generation of the row, anything else is refused.                        *)
Request(k, mode, dry) ==
  /\ op = Free
  /\ log[k].state = "absent"
  /\ Careful => Pending = {}
  /\ log' = [log EXCEPT ![k] = [state |-> "intent", mode |-> mode, dry |-> dry,
                                attempt |-> row.attempt + 1,
                                generation |-> row.generation + 1, job |-> NoJob]]
  /\ op' = [Free EXCEPT !.pc = "fence", !.key = k, !.dry = dry]
  /\ UNCHANGED <<row, board, jobs, kills>>

(* That dry_run is the one of the first call is not checked.               *)
Retry(k, dry) ==
  /\ op = Free
  /\ k \in Pending
  /\ Careful => dry = log[k].dry
  /\ op' = [Free EXCEPT !.pc = EntryPoint(log[k].state), !.key = k, !.job = log[k].job,
                        !.dry = dry \/ log[k].dry]
  /\ UNCHANGED <<row, board, log, jobs, kills>>

Resume ==
  /\ op = Free
  /\ Pending # {}
  /\ op' = [Free EXCEPT !.pc = "resume", !.todo = Pending]
  /\ UNCHANGED <<row, board, log, jobs, kills>>

ResumeNext(k) ==
  /\ op.pc = "resume"
  /\ k \in op.todo
  /\ op' = [op EXCEPT !.pc = EntryPoint(log[k].state), !.key = k, !.job = log[k].job,
                      !.dry = log[k].dry, !.todo = @ \ {k}]
  /\ UNCHANGED <<row, board, log, jobs, kills>>

-----------------------------------------------------------------------------
(*                            intent -> fenced                             *)

Ended(j) == j = NoJob \/ jobs[j].state = "ended"

(* What the row names counts, not what the log recorded when it was        *)
(* written. A live execution is cancelled whatever the mode.               *)
Fence_TrustsTheMode ==
  /\ op.pc = "fence"
  /\ IF row.job = NoJob \/ log[op.key].mode # "restart"
     THEN jobs' = jobs
     ELSE jobs' = [jobs EXCEPT ![row.job].state = "ended"]
  /\ Step("invalidate")
  /\ UNCHANGED <<row, board, log, kills>>

Fence ==
  /\ op.pc = "fence"
  /\ row.job = NoJob => log[op.key].mode # "restart"
  /\ IF Ended(row.job) THEN jobs' = jobs
                       ELSE jobs' = [jobs EXCEPT ![row.job].state = "ended"]
  /\ Step("invalidate")
  /\ UNCHANGED <<row, board, log, kills>>

(* The cancel could not be proven, or a restart found nothing to cancel:   *)
(* the log is removed and nothing else has happened.                       *)
FenceFails ==
  /\ op.pc = "fence"
  /\ ~Ended(row.job) \/ log[op.key].mode = "restart"
  /\ log' = [log EXCEPT ![op.key] = NoLog]
  /\ Done
  /\ UNCHANGED <<row, board, jobs, kills>>

(* Before its first replacement nothing binds the task to the worker. If   *)
(* another worker owns it then, the replacement fails although it has      *)
(* fenced. Who finished a task still owns it, and is not kept here.        *)
Unbound == board.attempt = 1
ClaimedByAnother == Unbound /\ board.claim # None /\ board.claim.by = Bystander

InvalidateClaim_KeepsClaim ==
  /\ op.pc = "invalidate"
  /\ ~ClaimedByAnother
  /\ board' = [board EXCEPT !.attempt = log[op.key].attempt]
  /\ Step("fenced")
  /\ UNCHANGED <<row, log, jobs, kills>>

InvalidateRefused ==
  /\ op.pc = "invalidate"
  /\ ClaimedByAnother \/ (Unbound /\ board.status = "completed")
  /\ Step("fail")
  /\ UNCHANGED <<row, board, log, jobs, kills>>

InvalidateClaim ==
  /\ op.pc = "invalidate"
  /\ ~ClaimedByAnother
  /\ board' = [status |-> IF board.status = "in_progress" THEN "pending" ELSE board.status,
               attempt |-> log[op.key].attempt, claim |-> None]
  /\ Step("fenced")
  /\ UNCHANGED <<row, log, jobs, kills>>

WriteFenced_NotWritten ==
  /\ op.pc = "fenced"
  /\ Step("launch")
  /\ UNCHANGED <<row, board, log, jobs, kills>>

WriteFenced ==
  /\ op.pc = "fenced"
  /\ WriteLog(op.key, "fenced")
  /\ Step("launch")
  /\ UNCHANGED <<row, board, jobs, kills>>

-----------------------------------------------------------------------------
(*                           fenced -> launched                            *)

Orphans_Ignored == {}

(* Jobs created for this key by a process that died before it wrote        *)
(* `launched`.                                                             *)
Orphans ==
  {j \in Jobs : /\ jobs[j].state # "absent"
                /\ jobs[j].key = op.key
                /\ jobs[j].attempt = log[op.key].attempt
                /\ jobs[j].generation = log[op.key].generation}

AdoptOrphan ==
  /\ op.pc = "launch" /\ row.topology = "job" /\ ~op.dry
  /\ \E j \in Orphans :
       /\ Orphans = {j}
       /\ op' = [op EXCEPT !.pc = "launched", !.job = j]
  /\ UNCHANGED <<row, board, log, jobs, kills>>

CreateJob ==
  /\ op.pc = "launch" /\ row.topology = "job" /\ ~op.dry
  /\ Orphans = {}
  /\ \E j \in Jobs :
       /\ jobs[j].state = "absent"
       /\ \A i \in 1..(j - 1) : jobs[i].state # "absent"
       /\ jobs' = [jobs EXCEPT ![j] = [state |-> "created", key |-> op.key,
                                       attempt |-> log[op.key].attempt,
                                       generation |-> log[op.key].generation]]
       /\ op' = [op EXCEPT !.pc = "start", !.job = j]
  /\ UNCHANGED <<row, board, log, kills>>

StartJob ==
  /\ op.pc = "start"
  /\ \/ jobs' = [jobs EXCEPT ![op.job].state = "live"] /\ Step("launched")
     \/ jobs' = [jobs EXCEPT ![op.job].state = "ended"] /\ Step("fail")
  /\ UNCHANGED <<row, board, log, kills>>

(* The job plane refuses; two jobs carry the key; or the worker is a pane  *)
(* and the request brought no launcher, which no request does.             *)
LaunchFails ==
  /\ op.pc = "launch" /\ ~op.dry
  /\ row.topology = "job" => Cardinality(Orphans) # 1
  /\ Step("fail")
  /\ UNCHANGED <<row, board, log, jobs, kills>>

WriteLaunched ==
  /\ op.pc = "launched"
  /\ log' = [log EXCEPT ![op.key].state = "launched", ![op.key].job = op.job]
  /\ Step("commit")
  /\ UNCHANGED <<row, board, jobs, kills>>

-----------------------------------------------------------------------------
(*                          launched -> committed                          *)

Duplicate ==
  /\ row.job \notin {NoJob, log[op.key].job}
  /\ row.generation = log[op.key].generation

CommitRow ==
  /\ op.pc = "commit"
  /\ IF Duplicate
     THEN Step("fail") /\ UNCHANGED row
     ELSE /\ row' = [row EXCEPT !.attempt = log[op.key].attempt, !.job = log[op.key].job,
                              !.generation = log[op.key].generation, !.prior = TRUE]
          /\ Step("committed")
  /\ UNCHANGED <<board, log, jobs, kills>>

WriteCommitted ==
  /\ op.pc = "committed"
  /\ WriteLog(op.key, "committed")
  /\ Done
  /\ UNCHANGED <<row, board, jobs, kills>>

(* A dry run has fenced and invalidated as well. Its log says committed    *)
(* before the row is written.                                              *)
DryCommit ==
  /\ op.pc = "launch" /\ op.dry
  /\ WriteLog(op.key, "committed")
  /\ Step("dryCommit")
  /\ UNCHANGED <<row, board, jobs, kills>>

DryCommitRow ==
  /\ op.pc = "dryCommit"
  /\ row' = [row EXCEPT !.attempt = log[op.key].attempt, !.job = NoJob,
                      !.generation = log[op.key].generation, !.prior = TRUE]
  /\ Done
  /\ UNCHANGED <<board, log, jobs, kills>>

-----------------------------------------------------------------------------
(*                       failure after the fence                           *)

WriteFailed ==
  /\ op.pc = "fail"
  /\ WriteLog(op.key, "failed")
  /\ Step("mark")
  /\ UNCHANGED <<row, board, jobs, kills>>

(* The execution is cleared only when the row has a history already.       *)
MarkFailed ==
  /\ op.pc = "mark"
  /\ row' = [row EXCEPT !.attempt = log[op.key].attempt,
                        !.job = IF row.prior THEN NoJob ELSE @,
                        !.generation = IF row.prior THEN log[op.key].generation ELSE @]
  /\ Done
  /\ UNCHANGED <<board, log, jobs, kills>>

(* The lock holder dies. The lock is a file lock of the process.           *)
Kill ==
  /\ op # Free
  /\ kills < MaxKills
  /\ kills' = kills + 1
  /\ op' = Free
  /\ UNCHANGED <<row, board, log, jobs>>

-----------------------------------------------------------------------------
(*                       agents and the board task                         *)

JobEnds(j) ==
  /\ j \in Live
  /\ jobs' = [jobs EXCEPT ![j].state = "ended"]
  /\ UNCHANGED <<row, board, log, op, kills>>

Working(a) == a = Bystander \/ a \in Live

(* No request of a worker names an attempt: the claim takes the one the    *)
(* task is bound to.                                                       *)
Claim(a) ==
  /\ Working(a)
  /\ board.status = "pending"
  /\ board' = [board EXCEPT !.status = "in_progress",
                            !.claim = [by |-> a, attempt |-> board.attempt]]
  /\ UNCHANGED <<row, log, jobs, op, kills>>

HoldsClaim(a) ==
  /\ Working(a)
  /\ board.status = "in_progress"
  /\ board.claim # None
  /\ board.claim.by = a

Finish(a) ==
  /\ HoldsClaim(a)
  /\ board.claim.attempt = board.attempt
  /\ board' = [board EXCEPT !.status = "completed", !.claim = None]
  /\ UNCHANGED <<row, log, jobs, op, kills>>

Release(a) ==
  /\ HoldsClaim(a)
  /\ board.claim.attempt = board.attempt
  /\ board' = [board EXCEPT !.status = "pending", !.claim = None]
  /\ UNCHANGED <<row, log, jobs, op, kills>>

-----------------------------------------------------------------------------
Operator ==
  \/ \E k \in Keys, mode \in Modes, dry \in DryRuns : Request(k, mode, dry)
  \/ \E k \in Keys, dry \in DryRuns : Retry(k, dry)
  \/ Resume

Holder ==
  \/ \E k \in Keys : ResumeNext(k)
  \/ Fence \/ FenceFails \/ InvalidateRefused \/ InvalidateClaim \/ WriteFenced
  \/ AdoptOrphan \/ CreateJob \/ StartJob \/ LaunchFails \/ WriteLaunched
  \/ CommitRow \/ WriteCommitted \/ DryCommit \/ DryCommitRow
  \/ WriteFailed \/ MarkFailed

Agent ==
  \/ \E j \in Jobs : JobEnds(j)
  \/ \E a \in Agents : Claim(a) \/ Finish(a) \/ Release(a)

Next == Operator \/ Holder \/ Kill \/ Agent

Spec == Init /\ [][Next]_vars

(* The holder of the lock runs on unless it is killed, and a team with a   *)
(* pending log is resumed some day.                                        *)
FairSpec == Spec /\ WF_vars(Holder) /\ WF_vars(Resume)

-----------------------------------------------------------------------------
(*                              properties                                 *)

(* One logical worker is never executed twice at a time, whatever the      *)
(* protocol and its resumptions were interrupted by; and when nobody holds *)
(* the lock and no log is pending, an execution that is alive is the one   *)
(* the team metadata names, so that it can be cancelled.                   *)
OneLiveExecution ==
  \A j \in Live :
    /\ Live = {j}
    /\ op = Free /\ Pending = {} => row.job = j

(* From `fenced` on, the board task is not claimed by the execution that   *)
(* was replaced: it can neither finish the task nor keep others from it.   *)
ReplacedHoldsNoClaim ==
  \A k \in Keys :
    (log[k].state \in {"fenced", "launched", "committed"} /\ board.claim # None
       /\ board.claim.by \in Jobs)
      => jobs[board.claim.by].attempt >= log[k].attempt

(* A replacement that was begun ends: committed, failed or withdrawn.      *)
ReplacementSettles ==
  \A k \in Keys : log[k].state \in {"intent", "fenced", "launched"}
                    ~> log[k].state \in {"absent", "committed", "failed"}
=============================================================================
