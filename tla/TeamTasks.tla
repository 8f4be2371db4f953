------------------------------- MODULE TeamTasks -------------------------------
(***************************************************************************)
(* The task board of a team: one JSON file per task, each with a lock.     *)
(*   - the leader creates tasks, one at a time or as a batch with          *)
(*     dependencies, under the lock of the board's configuration; every    *)
(*     file it writes is a step, and it may be killed between two of them; *)
(*   - workers claim tasks for the length of a lease and renew, release or *)
(*     finish what they hold, each in one critical section of the task;    *)
(*   - anyone patches a task;                                              *)
(*   - a leader that resumes puts expired claims back.                     *)
(* Abstracted: the board has one batch, fields that no guard reads are     *)
(* left out, a claim token (a uuid) is the ordinal of its minting.         *)
(***************************************************************************)
EXTENDS Integers, FiniteSets

CONSTANTS Workers, None,
          BatchSize,      \* tasks of the compiled batch, in topological order
          BatchDeps,      \* of each of them, those it depends on
          Lease,          \* CLAIM_LEASE_SECONDS
          DepSets,        \* bound: the dependencies that callers name
          MaxId, MaxTime, MaxClaims, MaxPatches, MaxKills   \* bounds

TaskIds == 1..MaxId
BatchKeys == 1..BatchSize

ASSUME NoneAssumption == None \notin Workers
ASSUME BatchAssumption ==
  /\ BatchSize \in Nat \ {0}
  /\ \A k \in BatchKeys : BatchDeps[k] \subseteq 1..(k - 1)
ASSUME LeaseAssumption == Lease \in Nat \ {0}
ASSUME DepsAssumption == DepSets \subseteq SUBSET TaskIds
ASSUME BoundAssumption ==
  /\ MaxId \in Nat /\ MaxTime \in Nat /\ MaxClaims \in Nat
  /\ MaxPatches \in Nat /\ MaxKills \in Nat

VARIABLES
  task,         \* the task files
  nextId,       \* next_task_id of api-config.json
  batch,        \* [state, ids]: the batch record
  leader,       \* [pc, next, ids, key]: who holds the lock of the configuration
  resume,       \* [pc, cutoff, due]: the claim reconciliation of a resumed leader
  now,
  minted,       \* how many tokens were minted
  held,         \* the tokens each worker was told
  presented,    \* history: tokens with which a claim was released or finished
  depsAtClaim,  \* history: the dependencies of each task when it was last claimed
  patches, kills

board == <<task, nextId, batch>>
claiming == <<minted, held, presented, depsAtClaim>>
bounds == <<patches, kills>>
vars == <<board, leader, resume, now, claiming, bounds>>

Status == {"pending", "in_progress", "completed", "failed"}
Terminal == {"completed", "failed"}

Claim == [owner : Workers, token : 1..MaxClaims, until : Nat]
NoClaim == [owner |-> None, token |-> 0, until |-> 0]

Task == [status : Status, owner : Workers \cup {None}, claim : Claim \cup {NoClaim},
         deps : SUBSET TaskIds, version : Nat \ {0}, batch : BatchKeys \cup {0}]

NoFile == [status |-> "absent", owner |-> None, claim |-> NoClaim,
           deps |-> {}, version |-> 0, batch |-> 0]

NewTask(owner, deps, key) ==
  [status |-> "pending", owner |-> owner, claim |-> NoClaim,
   deps |-> deps, version |-> 1, batch |-> key]

Ids == [BatchKeys -> TaskIds \cup {0}]
NoIds == [k \in BatchKeys |-> 0]
NoBatch == [state |-> "none", ids |-> NoIds]
Free == [pc |-> "idle", next |-> 1, ids |-> NoIds, key |-> 0]
NotResuming == [pc |-> "idle", cutoff |-> 0, due |-> {}]

TypeOK ==
  /\ task \in [TaskIds -> Task \cup {NoFile}]
  /\ nextId \in Nat \ {0}
  /\ batch \in [state : {"none", "prepared", "committed"}, ids : Ids]
  /\ leader \in [pc : {"idle", "advance", "prepare", "write", "commit"},
                 next : Nat \ {0}, ids : Ids, key : BatchKeys \cup {0}]
  /\ resume \in [pc : {"idle", "release"}, cutoff : Nat, due : SUBSET TaskIds]
  /\ now \in Nat
  /\ minted \in 0..MaxClaims
  /\ held \in [Workers -> SUBSET (1..MaxClaims)]
  /\ presented \subseteq 1..MaxClaims
  /\ depsAtClaim \in [TaskIds -> SUBSET TaskIds]
  /\ patches \in Nat /\ kills \in Nat

Init ==
  /\ task = [t \in TaskIds |-> NoFile]
  /\ nextId = 1
  /\ batch = NoBatch
  /\ leader = Free
  /\ resume = NotResuming
  /\ now = 0
  /\ minted = 0
  /\ held = [w \in Workers |-> {}]
  /\ presented = {}
  /\ depsAtClaim = [t \in TaskIds |-> {}]
  /\ patches = 0 /\ kills = 0

-----------------------------------------------------------------------------
Exists(t) == task[t].status # "absent"

(* The tasks of a batch that is not committed are hidden from claim-task,  *)
(* update-task and the resumed leader.                                     *)
Visible(t) == Exists(t) /\ (task[t].batch # 0 => batch.state = "committed")

Ready_FailedCounts(t) == \A d \in task[t].deps : task[d].status \in Terminal

Ready(t) == \A d \in task[t].deps : task[d].status = "completed"

Expired(claim) == claim # NoClaim /\ claim.until <= now

WriteTask(t, record) == task' = [task EXCEPT ![t] = record]

Unclaimed_KeepsClaim(record) ==
  [record EXCEPT !.status = "pending", !.owner = None, !.version = @ + 1]

Unclaimed(record) ==
  [record EXCEPT !.status = "pending", !.owner = None, !.claim = NoClaim, !.version = @ + 1]

-----------------------------------------------------------------------------
(*                     create-task, bulk-create-tasks                      *)

FreeIds_TrustsConfig == {i \in TaskIds : i >= nextId}

(* A file that next_task_id does not know of is stepped over.              *)
FreeIds == {i \in TaskIds : i >= nextId /\ ~Exists(i)}

CreateTask(owner, deps) ==
  /\ leader = Free
  /\ FreeIds # {}
  /\ LET id == CHOOSE i \in FreeIds : \A j \in FreeIds : i <= j
     IN  /\ WriteTask(id, NewTask(owner, deps, 0))
         /\ leader' = [Free EXCEPT !.pc = "advance", !.next = id + 1]
  /\ UNCHANGED <<nextId, batch, resume, now, claiming, bounds>>

AdvanceNextId ==
  /\ leader.pc = "advance"
  /\ nextId' = leader.next
  /\ leader' = Free
  /\ UNCHANGED <<task, batch, resume, now, claiming, bounds>>

(* The first free ids, in order.                                           *)
Reservable(ids) ==
  \A k \in BatchKeys :
    /\ ids[k] \in FreeIds
    /\ {i \in FreeIds : i < ids[k]} = {ids[j] : j \in 1..(k - 1)}

Reserve_NotAdvanced(ids) ==
  /\ leader = Free
  /\ batch = NoBatch
  /\ Reservable(ids)
  /\ leader' = [Free EXCEPT !.pc = "prepare", !.ids = ids]
  /\ UNCHANGED <<board, resume, now, claiming, bounds>>

(* A batch without a record: next_task_id is moved past the ids it will    *)
(* have before a record names them.                                        *)
Reserve(ids) ==
  /\ leader = Free
  /\ batch = NoBatch
  /\ Reservable(ids)
  /\ nextId' = ids[BatchSize] + 1
  /\ leader' = [Free EXCEPT !.pc = "prepare", !.ids = ids]
  /\ UNCHANGED <<task, batch, resume, now, claiming, bounds>>

Prepare ==
  /\ leader.pc = "prepare"
  /\ batch' = [state |-> "prepared", ids |-> leader.ids]
  /\ leader' = [Free EXCEPT !.pc = "write", !.key = 1]
  /\ UNCHANGED <<task, nextId, resume, now, claiming, bounds>>

ResumeBatch_TrustsTasks ==
  /\ leader = Free
  /\ batch.state = "prepared"
  /\ leader' = [Free EXCEPT !.pc = "commit"]
  /\ UNCHANGED <<board, resume, now, claiming, bounds>>

(* The same batch again: a prepared record is taken up with its mapping, a *)
(* committed one is answered from.                                         *)
ResumeBatch ==
  /\ leader = Free
  /\ batch.state = "prepared"
  /\ leader' = [Free EXCEPT !.pc = "write", !.key = 1]
  /\ UNCHANGED <<board, resume, now, claiming, bounds>>

(* _ensure_task_slot_owned refuses a file that is not this batch task's.   *)
Foreign(id, key) == Exists(id) /\ task[id].batch # key

WriteBatchTask ==
  LET key == leader.key
      id == batch.ids[key]
      deps == {batch.ids[d] : d \in BatchDeps[key]}
  IN
  /\ leader.pc = "write"
  /\ \/ /\ Foreign(id, key)
        /\ leader' = Free
        /\ UNCHANGED task
     \/ /\ ~Foreign(id, key)
        /\ WriteTask(id, NewTask(None, deps, key))
        /\ leader' = IF key + 1 \in BatchKeys THEN [leader EXCEPT !.key = key + 1]
                                              ELSE [Free EXCEPT !.pc = "commit"]
  /\ UNCHANGED <<nextId, batch, resume, now, claiming, bounds>>

CommitBatch ==
  /\ leader.pc = "commit"
  /\ batch' = [batch EXCEPT !.state = "committed"]
  /\ leader' = Free
  /\ UNCHANGED <<task, nextId, resume, now, claiming, bounds>>

LeaderKilled ==
  /\ leader # Free
  /\ kills < MaxKills
  /\ kills' = kills + 1
  /\ leader' = Free
  /\ UNCHANGED <<board, resume, now, claiming, patches>>

-----------------------------------------------------------------------------
(*                  claim-task and what a claim's holder does              *)

(* A task in progress is claimed again once its lease ran out; one that is *)
(* pending may be reserved for a worker.                                   *)
Claimable(w, t) ==
  /\ Visible(t)
  /\ Ready(t)
  /\ \/ task[t].status = "in_progress" /\ Expired(task[t].claim)
     \/ task[t].status = "pending" /\ task[t].owner \in {None, w}

(* The worker may be killed before it is told its token.                   *)
ClaimTask(w, t) ==
  /\ Claimable(w, t)
  /\ minted < MaxClaims
  /\ minted' = minted + 1
  /\ WriteTask(t, [task[t] EXCEPT !.status = "in_progress", !.owner = w,
                                  !.claim = [owner |-> w, token |-> minted + 1,
                                             until |-> now + Lease],
                                  !.version = @ + 1])
  /\ depsAtClaim' = [depsAtClaim EXCEPT ![t] = task[t].deps]
  /\ \/ held' = [held EXCEPT ![w] = @ \cup {minted + 1}] /\ UNCHANGED kills
     \/ kills < MaxKills /\ kills' = kills + 1 /\ UNCHANGED held
  /\ UNCHANGED <<nextId, batch, leader, resume, now, presented, patches>>

(* The claim on file is the worker's, by owner and token, and unexpired.   *)
Holds(w, t, token) ==
  /\ token \in held[w]
  /\ task[t].status = "in_progress"
  /\ task[t].owner = w
  /\ task[t].claim.owner = w /\ task[t].claim.token = token
  /\ ~Expired(task[t].claim)

RenewClaim(w, t, token) ==
  /\ Holds(w, t, token)
  /\ now + Lease > task[t].claim.until
  /\ WriteTask(t, [task[t] EXCEPT !.claim.until = now + Lease, !.version = @ + 1])
  /\ UNCHANGED <<nextId, batch, leader, resume, now, claiming, bounds>>

Finish(w, t, token) ==
  /\ Holds(w, t, token)
  /\ \E status \in Terminal :
       WriteTask(t, [task[t] EXCEPT !.status = status, !.claim = NoClaim, !.version = @ + 1])
  /\ presented' = presented \cup {token}
  /\ UNCHANGED <<nextId, batch, leader, resume, now, minted, held, depsAtClaim, bounds>>

ReleaseClaim(w, t, token) ==
  /\ Holds(w, t, token)
  /\ WriteTask(t, Unclaimed(task[t]))
  /\ presented' = presented \cup {token}
  /\ UNCHANGED <<nextId, batch, leader, resume, now, minted, held, depsAtClaim, bounds>>

(* update-task looks at no claim, but the dependencies of a finished task  *)
(* stay as they are.                                                       *)
UpdateTask(t, deps) ==
  /\ Visible(t)
  /\ task[t].status \in Terminal => deps = task[t].deps
  /\ patches < MaxPatches
  /\ patches' = patches + 1
  /\ WriteTask(t, [task[t] EXCEPT !.deps = deps, !.version = @ + 1])
  /\ UNCHANGED <<nextId, batch, leader, resume, now, claiming, kills>>

-----------------------------------------------------------------------------
(*                          reconcile_task_claims                          *)

Due_Strictly(t, cutoff) == task[t].status = "in_progress" /\ task[t].claim.until < cutoff

(* release_expired, at the cutoff.                                         *)
Due(t, cutoff) == task[t].status = "in_progress" /\ task[t].claim.until <= cutoff

(* The files are read without their locks; reading them one by one adds    *)
(* nothing, since a candidate is read again.                               *)
ReconcileScan ==
  LET due == {t \in TaskIds : Visible(t) /\ Due(t, now)} IN
  /\ resume.pc = "idle"
  /\ due # {}
  /\ resume' = [pc |-> "release", cutoff |-> now, due |-> due]
  /\ UNCHANGED <<board, leader, now, claiming, bounds>>

NextDue == CHOOSE t \in resume.due : \A u \in resume.due : t <= u

Released ==
  resume' = IF resume.due = {NextDue} THEN NotResuming
                                      ELSE [resume EXCEPT !.due = @ \ {NextDue}]

ReconcileRelease_TrustsScan ==
  /\ resume.pc = "release"
  /\ WriteTask(NextDue, Unclaimed(task[NextDue]))
  /\ Released
  /\ UNCHANGED <<nextId, batch, leader, now, claiming, bounds>>

(* One candidate, under its lock, with the cutoff of the scan: a claim     *)
(* that was renewed or taken over since is left alone.                     *)
ReconcileRelease ==
  /\ resume.pc = "release"
  /\ IF Due(NextDue, resume.cutoff) THEN WriteTask(NextDue, Unclaimed(task[NextDue]))
                                    ELSE UNCHANGED task
  /\ Released
  /\ UNCHANGED <<nextId, batch, leader, now, claiming, bounds>>

ResumeKilled ==
  /\ resume # NotResuming
  /\ kills < MaxKills
  /\ kills' = kills + 1
  /\ resume' = NotResuming
  /\ UNCHANGED <<board, leader, now, claiming, patches>>

Tick ==
  /\ now < MaxTime
  /\ now' = now + 1
  /\ UNCHANGED <<board, leader, resume, claiming, bounds>>

-----------------------------------------------------------------------------
Leader ==
  \/ \E owner \in Workers \cup {None}, deps \in DepSets : CreateTask(owner, deps)
  \/ \E ids \in Ids : Reserve(ids)
  \/ AdvanceNextId \/ Prepare \/ ResumeBatch \/ WriteBatchTask \/ CommitBatch \/ LeaderKilled

Worker(w) ==
  \E t \in TaskIds :
    \/ ClaimTask(w, t)
    \/ \E token \in held[w] :
         RenewClaim(w, t, token) \/ Finish(w, t, token) \/ ReleaseClaim(w, t, token)

Resume == ReconcileScan \/ ReconcileRelease \/ ResumeKilled

Next ==
  \/ Leader
  \/ \E w \in Workers : Worker(w)
  \/ \E t \in TaskIds, deps \in DepSets : UpdateTask(t, deps)
  \/ Resume
  \/ Tick

Spec == Init /\ [][Next]_vars

(* A batch is submitted again until it is admitted, a team is resumed      *)
(* again and again.                                                        *)
FairSpec ==
  /\ Spec
  /\ WF_vars(AdvanceNextId \/ Prepare \/ ResumeBatch \/ WriteBatchTask \/ CommitBatch)
  /\ WF_vars(ReconcileScan \/ ReconcileRelease)

-----------------------------------------------------------------------------
(*                               properties                                *)

(* No sequence of operations leaves a task that reconcile_task_claims      *)
(* refuses as corrupt, which would stop every later resume of the team: a  *)
(* task has a claim exactly while it is in progress, and owner and claim   *)
(* name one worker.                                                        *)
ClaimsCoherent ==
  /\ TypeOK
  /\ \A t \in TaskIds :
       /\ task[t].status = "in_progress" <=> task[t].claim # NoClaim
       /\ task[t].status = "in_progress" => task[t].owner = task[t].claim.owner

(* An unexpired claim ends only with its token being presented by the      *)
(* worker that holds it; an expired one never ends in a finished task.     *)
ClaimsEndRightly ==
  [][\A t \in TaskIds :
       task[t].claim # NoClaim /\ task'[t].claim.token # task[t].claim.token =>
         IF Expired(task[t].claim) THEN task'[t].status \notin Terminal
                                   ELSE task[t].claim.token \in presented' \ presented]_vars

(* Whoever names the version it read (expected_version) names the contents *)
(* too: a visible task never changes without its version moving on.        *)
VersionsTellChanges ==
  [][\A t \in TaskIds :
       Visible(t) /\ task'[t] # task[t] => task'[t].version = task[t].version + 1]_vars

(* Work starts after what it depended on when it was claimed, and what it  *)
(* depended on stays done.                                                 *)
DependenciesFirst ==
  \A t \in TaskIds :
    task[t].status \in {"in_progress", "completed"} =>
      \A d \in depsAtClaim[t] : task[d].status = "completed"

(* A batch becomes visible as a whole: its record is committed only when   *)
(* every one of its tasks is there.                                        *)
BatchIsWhole ==
  batch.state = "committed" => \A k \in BatchKeys :
    batch.ids[k] \in TaskIds /\ task[batch.ids[k]].batch = k

(* A batch that was prepared is committed in the end, whoever was killed.  *)
BatchCommits == batch.state = "prepared" ~> batch.state = "committed"

(* The claim of a worker that went away is taken from it.                  *)
ExpiredClaimsEnd ==
  \A t \in TaskIds : \A token \in 1..MaxClaims :
    (task[t].claim.token = token /\ Expired(task[t].claim)) ~> (task[t].claim.token # token)
==============================================================================
