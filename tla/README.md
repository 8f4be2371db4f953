# A TLA+ development of oh-my-grok

`omg` (package `omg_cli`) runs coding agents from the command line: single runs
and autonomous modes, background jobs, teams of workers in tmux panes, and the
notifications they produce. There is no server. Every part keeps its state in
JSON files under `.omg/`, every command is a process of its own, and processes
meet only at those files and at the advisory locks beside them. What is hard
about the program is therefore always the same: several processes read, decide
and write; each of them may be killed between two writes; and what one of them
read before it took a lock may no longer be so when it writes.

This directory models the parts where that matters most, checks them with TLC
on small instances, and proves every safety property of theirs that a passing
run checks with TLAPS, for instances of every size. `PROJECT.json` names, for every definition of
a model, the lines of the source it stands for; for every property of a run, a
mistake in one of those lines that the run would find; and for every line where
something can go wrong that a test would hardly reach, the properties about it.

## Inventory

| part | state it keeps | operations | what is hard | modelled by |
|---|---|---|---|---|
| durable jobs (`jobs/`) | `job.json` (state, attempt, pid, owner lease, cancel request, provider process, retry class), `spawn_identity.json`, `spawn_uncertain.json` | start, retry, launch, barrier, admission, heartbeat, provider launch and bind, terminal stamps, cancel, recover, gc | launchers, runners, cancellers and recoverers race; processes survive their parents; files lag behind processes | `JobRecord`, `DurableJob`, `JobLifecycle`, `DurableJobProofs` |
| auto-retry (`jobs/scheduler.py`) | none of its own | sweep, backoff, retry | decides from an unlocked read | planned |
| notification queue (`notify/queue.py`) | JSONL segments, dead-letter segments, `cursor.json`, `queue.lock`, worker lease | enqueue, process, retry, dead-letter, prune | torn appends, a worker killed before the cursor moves, pruning | `NotifyQueue`, `NotifyQueueProofs` |
| notification delivery (`notify/` otherwise) | none | HTTP, local command | I/O | `Dispatch` of `NotifyQueue` stands for it |
| team task board (`team/api.py`, `team/task_batch.py`) | a file and a lock per task, `api-config.json`, batch records | create, bulk create, update, claim, renew, finish, release, reconcile | leases that expire, admissions killed half-way | `TeamTasks`, `TeamTasksProofs` |
| team replacement (`team/replacement.py`, `team/launch.py`) | a write-ahead log per replacement, the worker's row of `team.json`, its board task | fence, revoke, launch, commit, fail, retry, resume, dry run | crash windows between external effects and the log | `TeamReplacement`, `TeamReplacementProofs` |
| scaling, relaunch and stop (`team/scaling.py`, `team/plane.py`) | `team.json`, a write-ahead log and an identity receipt per generation, panes, the session | scale up, scale down, relaunch, stop | panes that no file names, receipts ahead of `team.json`, a stop while an operation is pending | `TeamScale`, `TeamScaleProofs` |
| native teams (`plane.py` from 6430, `recovery.py`, `liveness.py`, `worktree.py`, the receipts of `tracker.py`) | `native-team.json`, a spawn receipt per task and attempt, a liveness record and a worktree receipt per task, checkouts, HEAD | fan out, reconcile with the host, record a result, schedule, recover, create, seal, integrate, cancel and clean worktrees, finalize | several files with a lock each and no lock around them; the host is asked outside of all of them | `NativeTeam`, `NativeTeamProofs` |
| pane supervisor (`supervisor.py`), team runtime (`tmux.py`, `runtime.py`, ...) | descriptors, panes | spawn a provider, prove it ready, drive tmux | external programs | not modelled: I/O |
| mailbox, prompt queue, approvals | one bounded file each | append, list, reorder, mark | id allocation | not modelled |
| run state (`state.py`) | `status.json`, `pid.json`, `cancel.request.json`, `execution.lock` with its generation, `transition.lock`; `active.json` and `create.lock` of the project | create, acquire a lease, commit a status, verify, cancel, clear active | lease fencing, cancel against commit and launch, creation over an active run | `RunState`, `RunStateProofs` |
| drivers of the modes (`modes.py`, `run_autopilot` of `autopilot.py`) | pid files | loop, launch, resume | a driver that is killed leaves its host; a lease held or not held over a launch | `RunState`; phases and gates are a choice there |
| phases of the autopilot, plan, reviews, test cycles (`autopilot.py`, `ralplan.py`, `review.py`, `qa.py`) | `autopilot.json`, the phase and nonce in `status.json`, `ralplan.json`, `structured_review.json`, `ultraqa.json` | transition, invalidate, plan, review, freeze, test, complete | stamps that outlive what they were made for; files that agree only together; reviews and tests that hold no lock | `Autopilot`, `AutopilotProofs` |
| other stages of the modes (`interview.py`, `goals.py`, `pipeline.py`, `stop_gate.py`, ...) | a file each | record, advance | | not modelled |
| acceptance (`acceptance.py`) | evidence | record, check | staleness | passes or not, in `RunState` and `Autopilot` |
| integration (`integrate.py`, `workers.py`) | worktrees | merge | git | not modelled |
| contracts (`contracts/`) | locks, atomic writes, release transaction | validate, stage, publish | crash during release | atomic steps of the other modules; release transaction planned |
| session index, tracker, events | append-only logs | append, rebuild | torn logs | not modelled |
| installation, edits, providers, ask, MCP, policies, catalogs, parity, CLI | files or none | | sequential, I/O or stateless | not modelled |

How they meet: team workers with the `job` topology and `omg ask` use durable
jobs; replacement fences a worker through the job's cancel and invalidates its
claim on the task board; replacement, scaling, relaunch and stop of a team
exclude each other by the team's scale lock; hooks of every part enqueue
notifications; the drivers write run state, from which the stop gate answers.
`TeamReplacement` composes the protocol with the board task and the job it
meets, each reduced to what the protocol can see of it (`TeamTasks` and
`DurableJob` say why that is all). `Autopilot` takes the execution lease, the
cancel request and the status of a run from `RunState`, reduced to one owner and
to whether they stand. The other modelled parts share no file with one another,
so they are specified apart.

What makes each part correct, in a sentence: a job's attempt has one owner, its
provider is never forgotten, and a cancel that says "cancelled" has stopped it;
an accepted notification is delivered or dead-lettered, and not for ever; a
task is held by at most one worker and given up only by it or by time; a batch
of tasks is there as a whole or not at all; a cancel of a run decides, reaches
every host, and two runs or two hosts of a run never work beside each other; a
logical worker of a team is never executed twice, whichever step of a
replacement or a scale-up was the last; every pane of a team is named by its
metadata or by the log of a pending operation; a task of a native team is
spawned once per generation, and what was integrated stays integrated; an
autopilot run reaches its tests and its acceptance only on stamps made since it
was last reworked or planned anew.

## Modules

* `JobRecord` - the job record as data: states, legal transitions, the decoder
  (`Readable`: what `JobRecord.from_dict` accepts), the owner fence, the
  terminal update under a cancel request, retry classes and retry admission.
  A process is named by the caller that spawned it, so a caller's name is also
  the pid of its runner and of that runner's provider.
* `DurableJob` - one job, its callers (`omg job start`, `omg job retry`), their
  runners, the providers of these, and cancel, recover and gc. A step is one
  critical section of the job lock, or one file or process operation outside of
  it; `callerPc`, `runnerPc` and `cancelPc` are the places in
  `launch_job_runner`, `_run_job_with_env`/`_execute_adapter` and `cancel_job`
  where other processes can come in between. Timeouts are not measured: a
  barrier may time out, a lease may expire, a `starting` record may be stale at
  any moment. `snapshot` is the recoverer's unlocked read, and `Write` makes
  it stale, as the record's generation does.
* `JobLifecycle` - what the job promises: a small specification without
  processes. `DurableJob!ImplementsLifecycle` is the refinement, with the
  attempts whose prompt was handed to a runner as the only mapped history.
* `NotifyQueue` - segments as sequences of records, the torn tail of the newest
  one, the cursor, the worker between its read and its settling of a record.
* `TeamTasks` - task files, `next_task_id`, one batch record, the leader
  between its file writes, a resumed leader between its scan and its releases,
  a clock, and the tokens each worker was told.
* `RunState` - strict-v2 runs, the terminals that create, resume, accept and
  cancel them, and the hosts (`grok`) they launch. `pc` and `cmd` are the place
  and the command of each terminal; the labels of `pc` are the points between
  two critical sections in `create_run`, `run_mode`, `run_autopilot`,
  `transition`, `set_verified` and `_cancel_run_strict`. `guard` is the
  transition lock where it is held over several steps (a launch, from the
  checks to `pid.json`); everywhere else a step is one section under it. The
  generation of the lease counts without bound in the code; all it decides is
  whether a cancel request was made under the newest one, so `request` says
  that directly (`current`, `overtaken`).
* `TeamReplacement` - one logical worker, its row of `team.json`, its board
  task, the logs of the idempotency keys and the executions ever started. `op`
  is who holds the scale lock and how far it got; its labels are the file
  writes of `_execute_replacement_from_wal`. A kill frees the lock, as the end
  of a process does.
* `TeamScale` - `team.json` (roster, generation, stop state), the log and the
  receipt of each generation, the panes ever created. `op` is again the holder
  of the scale lock.
* `NativeTeam` - the task rows of `native-team.json`, spawn receipts, liveness,
  worktree receipts and checkouts, the deliveries in HEAD, the host's
  subagents, and what each leader process is doing. There is no lock around an
  operation here: `op[p].gens` is what the process read, and `AsExpected` the
  compare-and-swap that ends it. A task never returns to a state within a
  generation, so state and generation stand for the sequence number too.
* `Autopilot` - the phase (`sidecar`), the status, the stamps and the workspace
  of one autopilot run. `owner` is the command that holds the execution lease
  and the next of its writes: the steps of `transition` from the invalidations
  to `write_status`, a round of the plan, the steps of
  `complete_with_acceptance`. `omg review` is one step, a test cycle two, and
  neither takes the lease. A stamp is the workspace it was made for: `Sources`
  is what `product_hash` sees of it, `Surfaces` the rest of what
  `_implement_workspace_fingerprint` sees. `bound` says that the authority
  nonces of the two files match. `age` is history: how a clean stamp stands to
  the entries into phases that ask for new ones.
* `DurableJobProofs`, `NotifyQueueProofs`, `TeamTasksProofs`, `RunStateProofs`,
  `TeamReplacementProofs`, `TeamScaleProofs`, `NativeTeamProofs`,
  `AutopilotProofs` - the theorems about the modules they are named after, each
  with its inductive invariant as a conjunction of named parts and its lemmas by
  action.
* `MCDurableJob`, `MCTeamTasks`, `MCNativeTeam`, `MCTeamReplacement` - symmetry,
  constraints and constants for TLC.

Definitions whose name has a suffix after an underscore that names a mistake
(`Reserve_NotAdvanced`, `IdentitiesGone_RunnerOnly`) are the code with a
plausible bug; nothing uses them but the sensitivity checks, which substitute
each of them and see the property it belongs to fail.

## Runs

### Jobs

`Callers` bound the number of launches, `Budget` the attempts. `Commands` are
the operator commands that are given and `Faults` the failures that may happen,
each of them any number of times.

| run | instance | shows |
|---|---|---|
| `JobCrash` | 2 callers, 2 attempts, cancel, recover and gc; spawns and identity writes that fail; runners, callers and cancellers killed | `TypeOK`; `OneLiveProvider`, `LostIsDead`: no orphaned provider is overlooked. `CancelSticks`: a cancel wins over every terminal stamp. `CancelledAttemptIsQuiet`: cancelled means stopped |
| `JobSettles` | 2 callers, 2 attempts, cancel and recover, killed runners, adapter inside the runner; fair | `OneOwnerPerAttempt`; the refinement `ImplementsLifecycle`; `JobSettles`: every attempt settles |
| `RecoverOrphan` | 3 callers, 3 attempts, cancel of the first attempt, killed runners; callers that retry are symmetric | fails, see below |

Two callers are the least that race, and two attempts let a stale process of
the first meet the second. A third caller races a retry with another; with a
third attempt the properties about providers fail, which is what `RecoverOrphan`
shows. They are proved for any number of callers with two attempts, or with any
number of attempts when the commands that launch do not overlap;
`OneOwnerAlways` and `JobImplementsLifecycle` for any number of both, racing or not.

Two faults are in no run, and the theorems say what holds under them: `"commit"`,
the write of `running` that raises although it was allowed, multiplies
the states by nine; `"kill"`, a killed process that is not seen to go, breaks
with two attempts what `JobCrash` checks. The constraint of `RecoverOrphan`
leaves out cancels of later attempts; it can only hide counterexamples, and the
one it is about needs none of them.

### Notifications

| run | instance | shows |
|---|---|---|
| `NotifyCrash` | 3 events, 2 segments of 2 records, 2 attempts, 1 kill; fair | `TypeOK`; `NothingLost` through rotation, pruning and torn appends; `NotSentAgain`; `EverythingSettles` |

Three events and segments of two records make the queue rotate, become full
and prune within two attempts; `ScanLimit` exceeds what the queue can hold.
`Tears = {"partial"}` tears appends before the end of the body; a tear of
exactly the newline is described below. `NotSentAgain` speaks of
behaviours without a kill: delivery is at least once by design, and a worker
killed between a delivery and the move of its cursor delivers again.

### Task board

| run | instance | shows |
|---|---|---|
| `TaskBoard` | 2 workers, a batch of 2, the second task after the first, and single tasks on 3 ids; 3 tokens, time to 2, a lease of 1, one kill; fair | `ClaimsCoherent` (with `TypeOK`), `DependenciesFirst`, `ClaimsEndRightly`: who holds a task; `BatchIsWhole`, `VersionsTellChanges`, `BatchCommits`: an admission killed anywhere; `ExpiredClaimsEnd` |

A lease of one tick in two lets a claim expire, be taken over, and expire
again. Three ids leave one beside the batch's, so that an orphaned file, whose
creator was killed before it advanced `next_task_id`, can lie below or above
the ids of the batch. Two workers are the least that race for a task. `MaxId`, `MaxTime`, `MaxClaims`, `MaxPatches` and
`MaxKills` are bounds of the model, named in its guards.

### Runs of the modes

| run | instance | shows |
|---|---|---|
| `RunCancel` | a ralph run and an autopilot run, 2 terminals, 3 commands, 2 hosts, 1 kill; fair | `HostsAccounted` (with `TypeOK`): no launch is over with its child alive and unnamed; `RequestDecides`, `CancelReachesHosts`, `CancelFinalizes`: what a cancel promises; `OneLeader`, `OneActiveRun`: nothing works beside another |

Two runs are the least one of which supersedes the other, two hosts the least
that could be leaders beside each other, and two terminals the least that race:
a driver and its canceller, or a creation and a late cancel. Of three commands
two can be the creations and one the cancel. A resume of a run whose cancel is
pending does not count as a command, or the bound would end what fairness
promises.

### Replacement and scaling of teams

| run | instance | shows |
|---|---|---|
| `ReplaceCrash` | 3 keys, job and pane workers, modes `lost` and `restart`, dry runs, 4 executions, 2 kills; fair | `TypeOK`; `OneLiveExecution`: the worker is never executed twice, and a live execution is named when nothing is pending; `ReplacedHoldsNoClaim`; `ReplacementSettles` |
| `ScaleCrash` | 2 launched workers, 4 at most, 2 generations, each view, one pane that ends, one fault, 2 kills; fair | `LaunchedOnce`, `NothingOrphaned`: every pane is one worker's and is named; `ChainFollowsTeam` (with `TypeOK`): receipts and `team.json` agree; `StoppedIsQuiet`; `PendingCommits` |

Three keys let a third replacement meet the leftovers of two, and two kills
interrupt a replacement and its retry. Keys are interchangeable, so callers take
them in order (`KeysInOrder`), which divides the states by five; symmetry would
not be sound with a liveness property, and the constraint cuts requests only,
which no fairness asks for. Two generations are a scale-up and what
comes after it; ten panes are never used up, so `MaxPanes` bounds nothing in
this instance. Two assumptions about the environment are constants:
`Careful = TRUE` says that callers settle a pending replacement before they
start another, and `AddViews = {"legacy_windows"}` that only that view is scaled
up. What happens without them is told below. `PendingCommits` says nothing of a
scale-up of the legacy view in the leader's own session: its look for windows
refuses a session with a window that lacks the launch nonce (`Unstamped`,
`scaling.py:2454`), so it may be refused at every retry, and no stop is let
through meanwhile.

### Native teams

| run | instance | shows |
|---|---|---|
| `NativeTeam` | 3 tasks, the third after the second, two of them writers, teams {1} and {2, 3}; 2 leaders, one recovery, kills without bound | `SpawnedOnce`; `IntegrationStands`: HEAD holds what was reported as integrated; `RunningIsRecoverable` (with `TypeOK`): liveness and worktree of a running task are those that recovery needs |

The team {1} recovers its writer once; the team {2, 3} has a dependency, a
writer and a task without a write scope. Two leaders are the least that race,
and they are symmetric. The other team that integrates into the same repository
is `IntegrateOther`. Fan-outs that prepare two tasks at once are not in the
instance (they multiply its states by seven): which of them is refused first is
all they would add.

### The phases of the autopilot

| run | instance | shows |
|---|---|---|
| `Autopilot` | two contents of the sources, one of the other files, one tester, 2 entries into `ralplan`, break-glass evidence or none, one kill; fair | `FilesAgree` (with `TypeOK`): plan, status and phase tell one story between any two writes; `StampsAreFresh`: no gate into `qa` or `acceptance` opens on a stamp from before the run last entered `implement`, `rework`, `review` or a replan; `VerifiedSyncs` |

Two contents let the workspace leave a stamp and come back to it, which is how a
stale stamp would be found valid. Two entries into `ralplan` are a plan and a
replan. The tester may start a cycle in one phase and end it in another; a
second one adds cycles that overwrite each other's record, which an overtaken
cycle does too. `StampsAreFresh` and `FilesAgree` are proved for any number of
each.

Deadlock is not checked: jobs end, queues are drained, and the bounds of the
other models run out.

### What the code does otherwise than it says

Three runs show the code doing what one of its own errors or docs rules out. Each
checks one property, and TLC gives the trace.

* `CancelOvertaken` - a cancel request of an autopilot run that was overtaken by
  a lease acquisition stays pending: no owner an autopilot run can have looks
  for it, and every one of them counts the generation up. `run_mode` does look,
  so `CancelFinalizes` holds of ralph runs.
* `RecoverOrphan` - `mark_provider_exited` (`jobs/store.py:812`) asks neither for
  the attempt nor for the owner. A launcher's early-exit stamp and the clean-up
  of a cancel erase the pid of a runner that lives, so a retry is admitted beside
  it; on its way out that runner marks the provider as exited that the runner of
  the third attempt is launching. When the latter is killed before it binds, its
  provider lives, no file names it, and recovery is ready to call the job lost,
  where `docs/durable-jobs.md` has an orphan block it.
* `ScaleOrphan` - a scale-up of a split view that is killed between the split
  and its receipt gets a second pane for the same worker when it is retried.

Behaviour of the same kind that the models contain and no run is about:

Jobs and notifications:

* a failed launcher can leave `running` over a dead child, because the lease it
  minted is for an older attempt and the record cannot be read (`runtime.py:571`);
* `cancel_job` stamps the attempt it finds at the end, not the one whose
  processes it saw go (`runtime.py:1727`);
* an early exit of a child stamps `failed` without a fence, over another
  launcher's live attempt;
* a cancel between `Popen` and `spawn_identity.json` finds nothing to signal and
  returns; the child leaves later by itself at the barrier, so
  `CancelledAttemptIsQuiet` holds all the same;
* two racing retries can both launch the attempt they find; the early exit of
  the one that loses, and the clean-up of a cancel, leave a record without a
  pid over a runner that lives, and a third attempt is admitted beside it. From
  three attempts on two providers can be alive, and a job with a live one can be
  stamped `lost`: the properties about providers are stated of jobs with at most
  two attempts, or whose starts and retries do not overlap (`Traceable`; the
  default budget is one, `jobs/models.py:183`);
* a clean-up that could not prove its kill writes its pid over another
  launcher's running record, and the child is admitted. With the fault `"kill"`,
  `OneOwnerPerAttempt`, the refinement and the properties about providers hold
  of jobs with one attempt, and fail with two;
* a notification torn just before its newline is a duplicate to the next enqueue
  and trimmed by the one after (`queue.py:251-279`); `Tears = {"partial"}` keeps
  it out of the run.

Replacement, scaling and stop:

* a caller that is not `Careful` gives a new key while the log of another one is
  pending (`replacement.py:700-720`). Resumed later, the old log writes its
  attempt, generation and execution over those of the newer one
  (`replacement.py:1296`), and `docs/team.md:94-95`, "advance by exactly one
  under the lifecycle lock + CAS", does not hold;
* a resumed replacement fences the execution the row names by then, not the one
  of its log, and invalidates the claim again, though a bystander may have taken
  the task meanwhile;
* a failed replacement clears the execution of the row only when the row has
  replaced something before;
* a dry run fences the live job too, and writes `committed` before the row;
  whether a key was a dry run is not part of what a repeated key is compared by;
* no caller passes a pane launcher: a replaced pane is killed, then the
  replacement fails;
* a stop that is killed after it tore the session down finds no session when it
  is repeated and is refused, and so is a second stop of a stopped team; a
  relaunch does not ask whether the team was stopped;
* a scale-up of the legacy view in the leader's session meets windows without the
  launch nonce and is refused, again at every retry;
* a replacement whose board task another worker owns has killed the execution
  before it is refused (`replacement.py:536-541`), and ends `failed`;
* a scale-up of a split view that fails after the split leaves its panes.

Native teams:

* recovery decides that a worker stalled, then removes its worktree and branch,
  then compares: a result recorded in between is kept, and can never be
  integrated;
* a recovery killed after it fenced the worker leaves `running` over a terminal
  liveness record, which the scheduling pass skips for ever (`recovery.py:436`);
  recovering that one task by name still works;
* killed between `cherry-pick` and the receipt, an integration leaves an untested
  commit in HEAD, and its retry picks nothing and ends as a conflict; killed
  between `git worktree add`, or the commit of a seal, and the receipt, a
  worktree can never be used, or never be sealed;
* a worktree is created only on the commit the team began with, so none can be
  after the first integration, and none ever holds what its task depends on;
* the first ready task that is refused (an expired receipt, no worktree) ends
  every fan-out, and the calls it had prepared are dropped;
* a retry of `launch_unknown` keeps the worktree of a writer, whose generation
  the next attempt then refuses.

The autopilot:

* `omg qa` and `omg review` hold no lock: a test cycle that was under way during
  a rework writes its record over the invalidation (`qa.py:282-363`), and the
  stamp opens `acceptance` again if the sources are as they were when the cycle
  began. `StampsAreFresh` exempts such stamps; the proof shows that they are the
  only ones;
* blocked is left for other phases than it was entered from, and only some gates
  notice. `docs/autopilot.md:192-202` calls it a pause and not a bypass, and
  lists `_interview_complete` for `blocked`→`ralplan`; the gate asks for it from
  `interview` only (`autopilot.py:725`), so `interview`→`blocked`→`ralplan`
  skips the interview. `ralplan`→`blocked`→`review` after a replan skips the
  consensus on, and the implementation of, the new plan: the workspace differs
  from the one of the earlier `implement`, and that is all the gate asks for;
* a repair made in phase `qa` reaches `acceptance` by a clean test cycle alone;
  the review is of the workspace before it;
* a transition killed between the phase and the status leaves nonces that
  differ, and `complete` refuses until the run went through `blocked`, `qa` and
  `acceptance` again;
* `omg run --resume` refuses a verified status, so a run killed between
  `set_verified` and the phase is finished by `omg autopilot complete` alone;
* `complete` reuses a `prd.json` that an earlier pass wrote, though the scenarios
  were frozen anew since (`overwrite=False`, `autopilot.py:1063`);
* `_try_advance_after_launch` re-reads the phase for `implement` alone
  ("Never advance from a stale phase arg", `autopilot.py:1475`); for `interview`,
  `ralplan` and `review` it goes by its argument, and the edges of `transition`
  are all that stops it.

## Fairness

* Jobs: `FairSpec` lets a process that was not killed take its next step
  (adapter calls and barriers are bounded by timeouts in the code), lets a
  cancel finish and be repeated while the request stands, and lets recovery be
  repeated. Nothing else retries: starting, retrying and gc are not fair, and a
  kill never is. The repetition of cancel is needed: a cancel that raises
  leaves its request on the record, and recovery does not touch such a job.
* Notifications: `omg notify process` is run again and again; enqueuers owe
  nothing.
* Task board: a batch that was refused or killed is submitted again, and the
  team is resumed again. Workers owe nothing: `ExpiredClaimsEnd` rests on the
  leader alone.
* Runs: a command that was not killed goes on, its launch being bounded by the
  launch timeout (an hour unless the operator switches it off); and a run whose cancel is pending is resumed again and again.
  The second is strong fairness per run, because a terminal is busy with the
  other run from time to time and weak fairness would owe nothing then. Nobody
  owes a second cancel: the finalizer of a ralph run is its next owner, and
  `CancelOvertaken` fails under the same fairness.
* Replacement: the holder of the scale lock runs on unless it is killed (its
  waits are bounded by timeouts), and a team with a pending log is resumed some
  day.
* Scaling: the holder runs on, and a pending operation is requested again, as
  every other request is refused until then.
* Native teams: none; the run checks safety only.
* Autopilot: a command that holds the lease and is not killed goes on (its
  stages and acceptance commands are bounded by timeouts), and
  `omg autopilot complete` is called again and again, which is what the driver
  does at `acceptance` and the operator after a kill. Transitions, plans,
  reviews and tests are owed by nobody.

## Proofs

The proof modules prove their theorems for every value of the constants, from
the named assumptions of the module they are about. These say what kind of thing
a constant is (sets of processes, budgets and bounds that are numbers, a `None`
that is no process, subsets of the commands, faults, views and modes there are),
and TLC evaluates them on every run. Four modules need more than that for some
of their theorems, because the code does not do what they say without it. These
hypotheses are in the theorems themselves, and the runs satisfy them:

| hypothesis | module | says | without it |
|---|---|---|---|
| `"kill" \notin Faults \/ Budget = 1`, `Traceable` | `DurableJobProofs` | a killed process is seen to go, and a job has at most two attempts or its starts and retries do not overlap (`OneAtATime`); or it has one attempt, which is the default | `RecoverOrphan` |
| `Scanned`, `BacklogFits` | `NotifyQueueProofs` | the scan for duplicates (1 MiB) sees the newest record, and no append is torn exactly before its newline; the records that wait fit in the scan | an event torn there is taken for a duplicate and then trimmed; an event that waits is appended and sent again |
| `Careful` | `TeamReplacementProofs` | callers settle a pending replacement before they start another | an old log overwrites a newer row |
| `LooksFirst` | `TeamScaleProofs` | only the legacy view is scaled up, where the code looks for the panes of an earlier attempt first | `ScaleOrphan` |

No other theorem has a hypothesis; what all of them share with the models are
the abstractions listed below.

`DurableJobProofs`, for every set of callers and every choice of commands:

* `TypeCorrect`: `Spec => []TypeOK`, for every budget and every fault. `TypeOK`
  is not inductive: a snapshot that is `current` must stand for a record that is
  there and not terminal, or the recovery's commit is ill-typed; and a launcher
  in the middle of its launch must know a real attempt, or the lease it mints is
  none. `TypeInv` adds both.
* `CancelAlwaysSticks`: `Spec => []CancelSticks`, under the same. A case split
  over all writes of the record (`RecordChanges`): each leaves a terminal state
  and the request alone, or starts an attempt without a request, or passes
  through `coerce_terminal`.
* `OneOwnerAlways`, without the fault `"kill"` or with one attempt. While the
  attempt runs, its pid is that of the lease's owner, which outlives the run in
  the released lease, and an attempt that was admitted is never back in
  `starting` (`OwnerInv`); a runner at the barrier holds no attempt yet
  (`FreshInv`); and until an attempt is retried only its starter launches
  (`FirstInv`).
* `JobImplementsLifecycle`: under the same hypothesis every step maps to one of
  `JobLifecycle` or a stutter. The steps are those of `RecordChanges`; the
  admission step needs that its attempt was not admitted before.
* `OneLiveProviderAlways`, `LostAlwaysDead`, `CancelledAlwaysQuiet` and
  `OrphansAlwaysBlock`, of `Traceable` jobs. The invariant `ProviderInv` says
  what each process has seen of the others: a live provider belongs to a runner
  that holds its attempt or was killed while it did (`HoldInv`); the processes of
  earlier attempts are over, and so are those of this one once a retry of it was
  admitted (`OldInv`); from the announcement of a launch to its bind the record
  says that a provider without an identity may be there, and then it names it
  (`NameInv`); a snapshot that still matches was taken of a quiet job
  (`QuietInv`); and from a cancel's request on, nobody of that attempt launches
  and whoever lives is the one the cancel captured (`StopInv`). `OldInv` is what
  a third attempt breaks when retries overlap: it rests on the gates of a retry
  seeing the runner of the attempt before (`RetryGates`). Of a first attempt
  they do because only its starter launches it (`FirstInv`). Of a later one they
  do when no other launch is in hand: then whoever launches owns the attempt,
  and a stamp that erases the pid is made by the launcher itself, whose child is
  gone (`SoloInv`). `OneAtATime` is assumed of every state of the behaviour; it
  lets retries be admitted side by side, and says nothing about cancel,
  recovery, collection or any process that is killed. Nothing in the code
  enforces it: it holds for one operator, or one scheduler, that waits for a
  launch to return before giving the next. TLC found `SoloInv` and `ProviderInv`
  to hold of three callers and three attempts under it.

`NotifyQueueProofs`, for any number of events, enqueuers, attempts, kills, and
segments of any size and number:

* `QueueTypeCorrect`: `Spec => []TypeOK`. Inductive is that the segments are
  numbered without a gap (`SegmentsInv`), that the cursor stands on a record once
  it has moved (`CursorInv`), and that the worker is at the first record that
  waits (`PlaceInv`). Every append, torn or not, is one relation (`Grows`: old
  records the cursor has left go, one record comes behind all others), and
  every step but those of the worker keeps the rest by it.
* `NothingIsLost`, of `Scanned` queues. An event that was accepted, or that the
  queue remembers, is settled or waits (`KeptInv`: a second enqueuer is told that
  the event is there, so what it remembers must count too). The hard step is the
  worker's short cut for a first attempt that repeats the event under the
  cursor: `FreshInv` says that no first attempt is appended right behind a record
  of its event, so the short cut is never taken (`NoDuplicates`).
* `NothingIsSentAgain`, while `BacklogFits`: before the first kill an event waits
  once at most, and one that is settled waits only where the worker has just
  delivered it (`SentInv`). `BacklogFits` is about the behaviour and not about
  the constants, since a full queue is larger than the scan in the code.

`TeamTasksProofs`, for any number of workers, tasks, claims and kills and any
lease. One invariant, `InductiveInv`: the board is coherent, hidden tasks are of
a batch on record and as they were written (`HiddenInv`), what the leader has in
memory agrees with the disk (`BatchInv`: which files of the batch are written at
each of its steps), a token stands in one file at most and never again after it
was presented (`TokenInv`). `ClaimsAlwaysCoherent`, `BatchAlwaysWhole` and
`DependenciesAlwaysFirst` are its parts or follow from them;
`VersionsAlwaysTell` and `ClaimsAlwaysEndRightly` are action properties, one step
per action, of which the second needs `TokenInv` (a release by a stale token
finds another one) and that the cutoff of a reconciliation is not in the future
(`ResumeInv`).

`TeamReplacementProofs`, for any number of keys, jobs, kills and agents:

* `TypeCorrect`, of all callers; it needs what a resumed leader still has to take
  up (`LockInv`).
* `OneLiveAlways`, `ReplacedNeverClaims` and `KeysAreIdempotent`, of careful
  callers. One log is pending at most and it is the one at hand (`PendingInv`);
  it is one attempt ahead of the row until the row is written (`RowInv`); a key
  creates one job, after it fenced (`JobInv`); one execution at most lives or may
  be started, and once a log is fenced it is not the one the row names
  (`LiveInv`); whoever claims is as new as every replacement that fenced
  (`ClaimInv`). `RowInv` is where an uncareful caller breaks the chain.

`TeamScaleProofs`, for teams of any size, any number of panes, generations,
faults and kills:

* `ChainAlwaysFollows`, of every view: one generation is ahead of `team.json` at
  most, and no later file exists (`ChainInv`), for which the holder of the lock
  must be known to be at a pending operation (`HoldInv`).
* `LaunchedOnceAlways`, `NothingOrphanedAlways`, `StoppedAlwaysQuiet`, of scale-ups
  that look first. `ScaleInv` ties five things together: rows name panes of their
  own worker (`RosterInv`); a live pane is the one of its row, or the only one
  that its pending operation launched for its worker (`PaneInv`); a log never
  launches beside a live pane (`WalInv`); a receipt that waits for its commit
  names every live pane of its operation (`ReceiptInv`); and what the holder has
  bound, or has still to kill, at each of its steps (`OpInv`). Each of the three
  follows by looking at the panes of the coming generation and the others.

`NativeTeamProofs`, for every DAG, any number of processes, recoveries and kills.
No lock is held around an operation, so `TeamInv` says of each process what of its stale
read is still true: generations only grow, so what it read is not newer than the
row (`PlaceInv`), and each later claim is guarded by "unless the row has moved on".

* `SpawnedOnceAlways`: a task requested in a generation is never ready in it
  again, and who has prepared a call is alone with it and has not made it
  (`CallInv`); an older launch was reconciled (`ReceiptInv`).
* `RunningAlwaysRecoverable`: liveness records and worktrees follow the
  generations, and a writer that was requested has the worktree of its own
  (`LiveInv`, `TreeInv`).
* `IntegrationAlwaysStands`: the lock of a receipt is held over two steps, and
  what was read under it holds at the second (`LockInv`); what is integrated is
  in HEAD and in what a failed integration beside it goes back to (`HeadInv`).

`RunStateProofs`, for any number of runs, terminals, hosts, commands and kills.
The properties stand on one another, so there is one inductive invariant,
`IndInv`, of seven parts, and each part is preserved by a lemma of its own with
one step per action:

* `VarTypes` and `ProcInv`: what a command knows at each place (its run exists;
  the run it creates is absent until it is written; a creation holds
  `create.lock` from its first to its last step);
* `LockInv`: the transition lock is held over several steps by a launch alone,
  the lease only by a driver or by a command about to verify, on its own run.
  `TypeOK` follows from these three;
* `HostInv`: a host that is published and not gone is the one `pid.json` of its run names, so two such
  hosts of a run are one (`OneLeaderAlways`). To keep it, a launch between
  `Popen` and `pid.json` must know that there is no pid on file and that no
  cancel request has come in, which `LockInv` gives: a request is made under
  the transition lock;
* `OrphanInv`: a host that is unpublished, and whose driver was not killed, is
  the one the holder of its run's transition lock has launched.
  `HostsAlwaysAccounted` follows from it, `HostInv` and the types;
* `CancelInv`: a cancel that made its request has every live host of the run
  among its targets (by `HostInv`: the snapshot is `pid.json`), and after its
  signals none is live that was not signalled. Later steps keep that because a
  run with a request is closed to launches. It is stated for every cancel, for
  those that returned, and for every cancelled run, since a second cancel
  returns at once on the word of the status. `CancelAlwaysReaches` is its part
  about `returned`;
* `ActiveInv`: while a run is created, every run that `active.json` ever named
  has ended or was asked to end, the one being superseded from the moment of
  its request. `OneActiveRun` alone is not inductive: it does not say why the
  pointer may move. `OneActiveAlways` follows.

`RequestAlwaysDecides` is an action property: a case split over the steps that
write `status.json`, each of which passes `CanCommit` or is the finalization.

`AutopilotProofs`, for every workspace, every number of testers, of replans and
of kills:

* `FilesAlwaysAgree`: `Spec => []FilesAgree`. It is not inductive: that a
  verified run is still at `acceptance` must be known while commands write, so
  `ControlInv` adds what holds at each place of the owner of the lease
  (`OwnerInv`: a transition's destination follows from the phase that is still
  on file, an acceptance is at `acceptance`, a command between `set_verified`
  and the end is on a verified run), that a plan is of this epoch and absent
  once a replan has invalidated it (`PlanInv`), and that an ended run is where
  `complete` can finish it (`OverInv`). One lemma per part of the invariant, one
  step per action;
* `StampsStayFresh`: `Spec => StampsAreFresh`, from `FreshInv`: no stamp is
  stale at any time; between the invalidations and the save of the phase a
  stamp that is fresh would become so, and there is none, because every stamp
  written there is of a command that was overtaken. `OutdatingInvalidates` says
  that the entries that outdate stamps, told by the phases alone, are among
  those for which the code invalidates.

Model-checked only: the liveness properties (`JobSettles`, `EverythingSettles`,
`BatchCommits`, `ExpiredClaimsEnd`, `CancelFinalizes`, `ReplacementSettles`,
`PendingCommits`, `VerifiedSyncs`). They rest on fairness, for which the provers
have no rule. TLC agrees with the inductive invariants, too: each was checked on
the instance of its module's run. The three properties that a run shows
violated are not theorems, of course; `OrphansAlwaysBlock` and
`LaunchedOnceAlways` say under which hypotheses two of them hold.

## Abstractions

* Lock acquisition, atomic file replacement and directory rename are single
  steps; lock timeouts, symlink checks and permission errors are refusals that
  change nothing.
* Pids are not reused and can be told to be alive or not. The code compares
  start times to rule reuse out and refuses where it cannot tell; only
  `RunState` has that case, as a host that a cancel passes over (`skipped`).
* Clocks of the processes agree.
* Prompts, results, messages and reasons are left out; what a record says of
  them never guards a modelled step.
* `TeamTasks` has one batch, and no replacement of workers: the attempt and
  binding fields, and their checks, are absent because only a replacement sets
  them; `TeamReplacement` has the revocation of a claim and its checks.
* `TeamReplacement`: a cancel of a job that succeeds proves it dead; worktree,
  route and interaction evidence are left out. Who owned a finished board task is
  not kept, so its replacement may be refused or not. A row without an
  execution, with another topology or with the job of another team
  (`replacement.py:322-346`), which no code here writes, is left out, and so is
  a job whose record cannot be read: replaced as `lost` or `failed` it passes
  the fence unproven (`replacement.py:374-381`).
* `TeamScale`: the session of a team lives until a stop ends it, so the check of
  every retry for it (`scaling.py:2384`) is left out: an operation whose session
  died otherwise can never be retried. A pane exists or does not; the probes that tell it from another
  with the same id are left out, and so are dry runs (on a live team these
  change rows of `team.json` without a receipt, and the chain is refused from
  then on), the first launch, linked ralph and ACP sessions.
* `NativeTeam`: `integrate_owned_delivery` does not ask whether the task is
  delivered, it goes by the worktree receipt; that the leader integrates
  delivered tasks only, and a writer before it finalizes the team, is asked of
  the caller (`Integrate`, `Finalizable`). Envelopes, roles, artifacts and verification commands pass or
  not; times are not measured, a worker may be found stale and a receipt
  expired at any moment; the supervisor lease, which no operation consults, and
  the transport `tmux_grok` are left out.
* `RunState`: legacy-v1 runs, worker pid files, dry runs, merges of fields that
  leave the status alone, and the timeout of a lock are left out; a command
  that times out on a lock is one that was killed there, its locks free. The
  phases of the autopilot, their gates and what acceptance finds are choices;
  pauses for an interview or a confirmation are exits of the driver. `Driven`
  stands for the driver lock of an autopilot run, taken from its creation on.
  A transition by hand is part of the resume after it.
* `Autopilot`: the interview may always be complete; no receipt is ever stamped
  (no command stamps one yet); test cycles and plan rounds are not counted, so
  any cycle may be the one that is refused; what blocks a test record is a
  choice; `structured_review.json` and `ultraqa.json`, which are written in
  place, are written in one step; digests of a plan, a review and an acceptance
  are not modelled; a status that is blocked is `running`; the transition
  lock is a step's atomicity. `omg accept`, which verifies without the phase,
  leaves what a kill after `SetVerified` leaves.
* A host whose driver was killed between `Popen` and `pid.json` is named
  nowhere, in the code as in the model (`orphans`). `HostsAccounted` says that
  nothing else leaves one; `CancelReachesHosts` and `OneLeader` speak of hosts
  that were published. A host whose start time cannot be read when it is
  cancelled is passed over (`skipped`, `state.py:1536`), and `CancelReachesHosts`
  allows that; a second leader beside it is not launched all the same.

## Plan

1. Done: the durable job and its lifecycle, the notification queue, the task
   board, the runs and their drivers, replacement, scaling and stop of teams,
   native teams, the phases of the autopilot; every safety property of these as
   a theorem.
2. The usage behind the hypotheses: `OneAtATime` of `omg job` commands from a
   model of who gives them, `Careful` of those of `omg team`.
3. `JobScheduler`: backoff and budget of auto-retry over `JobLifecycle`.
4. The release transaction and install manifest of `contracts/`, the prompt
   queue, the staged pipeline of `team/pipeline.py`.
