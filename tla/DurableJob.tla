------------------------------ MODULE DurableJob ------------------------------
(***************************************************************************)
(* One durable job and the processes that race on its directory:           *)
(*   - callers, the `omg job start` and `omg job retry` processes: they    *)
(*     create or requeue the record, spawn a runner and commit `running`;  *)
(*   - runners, one per caller: they wait for that commit, run the         *)
(*     provider adapter and stamp the terminal state;                      *)
(*   - provider processes, children of runners that outlive their parent;  *)
(*   - a canceller, a recoverer and a collector (`omg job cancel`,         *)
(*     `recover`, `gc`), each invoked again and again.                     *)
(* A step is one critical section of the job lock, or one file or process  *)
(* operation outside of it.  Timeouts are not measured: a barrier may time *)
(* out, a lease may expire and a `starting` record may grow stale at any   *)
(* time.                                                                   *)
(***************************************************************************)
EXTENDS JobRecord

CONSTANTS Starter,        \* the caller that starts the job; the others retry it
          BindInner,      \* the adapter spawns a provider process (not `fake`)
          Commands,       \* the operator commands given, from Command
          Faults          \* the failures that may happen, from Fault

Command == {"cancel", "recover", "gc"}

Fault == {"spawn",        \* Popen of the runner raises
          "identity",     \* spawn_identity.json cannot be written
          "commit",       \* the write of `running` raises
          "kill",         \* a SIGKILLed process is not seen to disappear
          "caller",       \* a caller is killed
          "canceller",    \* a canceller is killed
          "runner"}       \* a runner is killed

ASSUME StarterAssumption == Starter \in Callers
ASSUME BindInnerAssumption == BindInner \in BOOLEAN
ASSUME CommandsAssumption == Commands \subseteq Command
ASSUME FaultsAssumption == Faults \subseteq Fault

VARIABLES
  job,              \* job.json
  spawnIdentity,    \* pid in spawn_identity.json, None when there is no file
  spawnUncertain,   \* spawn_uncertain.json exists
  callerPc,
  callerAttempt,    \* the attempt a caller retries for, then the one it read at launch
  runnerPc,
  runnerAttempt,    \* the attempt a runner was admitted to by the barrier, 0 before
  runnerToken,      \* the owner token it read from the lease there
  cancelEvent,      \* the runner's cancel_event, set by its SIGTERM handler
  outcome,          \* exit class of the runner's adapter call
  provider,         \* process state of each runner's provider
  cancelPc,
  target,           \* what the canceller captured when it began
  snapshot          \* the recoverer's snapshot, against the record's generation

files == <<spawnIdentity, spawnUncertain>>
callerVars == <<callerPc, callerAttempt>>
runnerVars == <<runnerPc, runnerAttempt, runnerToken, cancelEvent, outcome>>
cancelVars == <<cancelPc, target>>
vars == <<job, files, callerVars, runnerVars, provider, cancelVars, snapshot>>

CallerPc == {"idle", "admitted", "queued", "launch", "spawnFailed", "probe",
             "earlyExit", "earlyStamp", "identity", "commit", "cleanup", "reconcile",
             "stampStarting", "stampRunning", "clear",
             "launched", "failed", "killed"}
RunnerPc == {"none", "barrier", "admit", "adapter", "launching", "spawned",
             "running", "returned", "stamp", "exiting", "gone"}
CancelPc == {"idle", "signal", "forceInner", "forceOuter", "reread", "stampQueued", "stamp",
             "clear", "returned"}

NoTarget == [runner |-> None, provider |-> None, attempt |-> 0]

TypeOK ==
  /\ job \in Job
  /\ spawnIdentity \in Callers \cup {None}
  /\ spawnUncertain \in BOOLEAN
  /\ callerPc \in [Callers -> CallerPc]
  /\ callerAttempt \in [Callers -> Attempts \cup {0}]
  /\ runnerPc \in [Callers -> RunnerPc]
  /\ runnerAttempt \in [Callers -> Attempts \cup {0}]
  /\ runnerToken \in [Callers -> Callers \cup {None}]
  /\ cancelEvent \in [Callers -> BOOLEAN]
  /\ outcome \in [Callers -> ExitClass \cup {None}]
  /\ provider \in [Callers -> {"none", "live", "gone"}]
  /\ cancelPc \in CancelPc
  /\ target \in [runner : Callers \cup {None}, provider : Callers \cup {None},
                 attempt : Attempts \cup {0}]
  /\ snapshot \in {"none", "current", "stale"}

Init ==
  /\ job = NoJob
  /\ spawnIdentity = None
  /\ spawnUncertain = FALSE
  /\ callerPc = [c \in Callers |-> "idle"]
  /\ callerAttempt = [c \in Callers |-> 0]
  /\ runnerPc = [r \in Callers |-> "none"]
  /\ runnerAttempt = [r \in Callers |-> 0]
  /\ runnerToken = [r \in Callers |-> None]
  /\ cancelEvent = [r \in Callers |-> FALSE]
  /\ outcome = [r \in Callers |-> None]
  /\ provider = [r \in Callers |-> "none"]
  /\ cancelPc = "idle"
  /\ target = NoTarget
  /\ snapshot = "none"

-----------------------------------------------------------------------------
(* Every write of the record bumps its generation, so a snapshot that      *)
(* recovery holds no longer matches it.                                    *)
Write(record) ==
  /\ job' = record
  /\ snapshot' = IF snapshot = "none" THEN "none" ELSE "stale"

NoWrite == UNCHANGED <<job, snapshot>>

CallerTo(c, pc) == callerPc' = [callerPc EXCEPT ![c] = pc]
RunnerTo(r, pc) == runnerPc' = [runnerPc EXCEPT ![r] = pc]

RunnerAlive(r) == runnerPc[r] \notin {"none", "gone"}
RunnerGone(r) == r # None => ~RunnerAlive(r)
ProviderGone(r) == r # None => provider[r] # "live"

IdentitiesGone_RunnerOnly == RunnerGone(RunnerIdentity(job, spawnIdentity))

(* The identities on record are all proven gone.                           *)
IdentitiesGone ==
  /\ RunnerGone(RunnerIdentity(job, spawnIdentity))
  /\ ProviderGone(job.pp.pid)

-----------------------------------------------------------------------------
(*                          start and retry                                *)

StartJob(c) ==
  /\ c = Starter
  /\ callerPc[c] = "idle"
  /\ job.state = Absent
  /\ Write(QueuedJob(1))
  /\ CallerTo(c, "queued")
  /\ UNCHANGED <<files, callerAttempt, runnerVars, provider, cancelVars>>

(* preflight_retry_job: the attempt asked for is admitted and the previous *)
(* attempt's identities are proven gone, without the lock.                 *)
PreflightRetry(c) ==
  /\ c # Starter
  /\ callerPc[c] = "idle"
  /\ RetryAdmitted(job, job.attempt + 1)
  /\ ~spawnUncertain
  /\ ~provider_launch_unbound(job)
  /\ IdentitiesGone
  /\ callerAttempt' = [callerAttempt EXCEPT ![c] = job.attempt + 1]
  /\ CallerTo(c, "admitted")
  /\ NoWrite
  /\ UNCHANGED <<files, runnerVars, provider, cancelVars>>

(* prepare_retry: admission again, under the lock, then the reset.  The    *)
(* files beside job.json are left as they are.                             *)
PrepareRetry(c) ==
  /\ callerPc[c] = "admitted"
  /\ \/ /\ RetryAdmitted(job, callerAttempt[c])
        /\ Write(QueuedJob(callerAttempt[c]))
        /\ CallerTo(c, "queued")
     \/ /\ ~RetryAdmitted(job, callerAttempt[c])
        /\ NoWrite
        /\ CallerTo(c, "failed")
  /\ UNCHANGED <<files, callerAttempt, runnerVars, provider, cancelVars>>

MarkStarting(c) ==
  /\ callerPc[c] = "queued"
  /\ \/ /\ CanTransition(job, "starting")
        /\ Write([job EXCEPT !.state = "starting"])
        /\ CallerTo(c, "launch")
     \/ /\ ~CanTransition(job, "starting")
        /\ NoWrite
        /\ CallerTo(c, "failed")
  /\ UNCHANGED <<files, callerAttempt, runnerVars, provider, cancelVars>>

(* launch_job_runner: whichever attempt is `starting` when the record is   *)
(* read is the one whose lease this launcher will mint.                    *)
Launch(c) ==
  /\ callerPc[c] = "launch"
  /\ \/ /\ Readable(job) /\ job.state = "starting"
        /\ callerAttempt' = [callerAttempt EXCEPT ![c] = job.attempt]
        /\ \/ CallerTo(c, "probe") /\ RunnerTo(c, "barrier")
           \/ /\ "spawn" \in Faults
              /\ CallerTo(c, "spawnFailed")
              /\ UNCHANGED runnerPc
     \/ /\ ~(Readable(job) /\ job.state = "starting")
        /\ CallerTo(c, "failed")
        /\ UNCHANGED <<callerAttempt, runnerPc>>
  /\ NoWrite
  /\ UNCHANGED <<files, runnerAttempt, runnerToken, cancelEvent, outcome,
                 provider, cancelVars>>

(* A terminal write that no owner fence guards: it lands on whichever      *)
(* attempt the record is at.                                               *)
StampFailed(record) ==
  IF CanTransition(job, "failed")
  THEN Write(TerminalRecord(record, "failed", "spawn_error"))
  ELSE NoWrite

SpawnFailed(c) ==
  /\ callerPc[c] = "spawnFailed"
  /\ StampFailed([job EXCEPT !.pid = None])
  /\ CallerTo(c, "failed")
  /\ UNCHANGED <<files, callerAttempt, runnerVars, provider, cancelVars>>

(* The bounded probe for a child that exits before the commit.             *)
ProbeChild(c) ==
  /\ callerPc[c] = "probe"
  /\ CallerTo(c, IF RunnerAlive(c) THEN "identity" ELSE "earlyExit")
  /\ NoWrite
  /\ UNCHANGED <<files, callerAttempt, runnerVars, provider, cancelVars>>

EarlyExit(c) ==
  /\ callerPc[c] \in {"earlyExit", "earlyStamp"}
  /\ \/ /\ callerPc[c] = "earlyExit"
        /\ CanTransition(job, "starting")
        /\ Write([job EXCEPT !.state = "starting"])
        /\ CallerTo(c, "earlyStamp")
     \/ /\ callerPc[c] = "earlyStamp" \/ ~CanTransition(job, "starting")
        /\ StampFailed([job EXCEPT !.pid = None])
        /\ CallerTo(c, "failed")
  /\ UNCHANGED <<files, callerAttempt, runnerVars, provider, cancelVars>>

WriteSpawnIdentity(c) ==
  /\ callerPc[c] = "identity"
  /\ spawnIdentity' = c
  /\ spawnUncertain' = FALSE
  /\ CallerTo(c, "commit")
  /\ NoWrite
  /\ UNCHANGED <<callerAttempt, runnerVars, provider, cancelVars>>

(* The identity write failed: the child is killed; when it cannot be seen  *)
(* to go, the uncertain marker is all that is left behind.                 *)
SpawnIdentityFails(c) ==
  /\ callerPc[c] = "identity"
  /\ "identity" \in Faults
  /\ \/ /\ RunnerTo(c, "gone")
        /\ CallerTo(c, "reconcile")
        /\ UNCHANGED spawnUncertain
     \/ /\ "kill" \in Faults
        /\ spawnUncertain' = TRUE
        /\ CallerTo(c, "failed")
        /\ UNCHANGED runnerPc
  /\ NoWrite
  /\ UNCHANGED <<spawnIdentity, callerAttempt, runnerAttempt, runnerToken, cancelEvent, outcome,
                 provider, cancelVars>>

(* The unfenced starting -> running transition.  The lease carries the     *)
(* attempt read at launch; when the record has moved to another attempt    *)
(* the write succeeds and the read-back in the same section raises.  A     *)
(* failing write may raise before or after it has landed.                  *)
CommitRunning(c) ==
  LET running == [job EXCEPT !.state = "running", !.pid = c,
                             !.lease = [attempt |-> callerAttempt[c], owner |-> c,
                                        active |-> TRUE]]
  IN
  /\ callerPc[c] = "commit"
  /\ \/ /\ CanTransition(job, "running")
        /\ Write(running)
        /\ \/ CallerTo(c, IF Readable(running) THEN "launched" ELSE "cleanup")
           \/ "commit" \in Faults /\ CallerTo(c, "cleanup")
     \/ /\ ~CanTransition(job, "running") \/ "commit" \in Faults
        /\ NoWrite
        /\ CallerTo(c, "cleanup")
  /\ UNCHANGED <<files, callerAttempt, runnerVars, provider, cancelVars>>

(* _cleanup_after_spawn_commit_failure: kill the exact child.  When it is  *)
(* not seen to go, its pid is kept in spawn_identity.json and, unless the  *)
(* record is terminal, in job.json, whichever attempt that is at.          *)
Cleanup(c) ==
  /\ callerPc[c] = "cleanup"
  /\ \/ /\ RunnerTo(c, "gone")
        /\ CallerTo(c, "reconcile")
        /\ NoWrite
        /\ UNCHANGED files
     \/ /\ "kill" \in Faults
        /\ spawnIdentity' = c
        /\ spawnUncertain' = FALSE
        /\ IF Readable(job) /\ ~Terminal(job)
           THEN Write([job EXCEPT !.pid = c])
           ELSE NoWrite
        /\ CallerTo(c, "failed")
        /\ UNCHANGED runnerPc
  /\ UNCHANGED <<callerAttempt, runnerAttempt, runnerToken, cancelEvent, outcome,
                 provider, cancelVars>>

(* _best_effort_stamp_failed reads the record, then stamps it in a second  *)
(* critical section, then removes the spawn files.                         *)
Reconcile(c) ==
  /\ callerPc[c] = "reconcile"
  /\ \/ /\ CanTransition(job, "starting")
        /\ Write([job EXCEPT !.state = "starting"])
        /\ UNCHANGED callerPc
     \/ /\ ~CanTransition(job, "starting")
        /\ NoWrite
        /\ CallerTo(c,
             CASE Readable(job) /\ job.state = "starting" -> "stampStarting"
               [] Readable(job) /\ job.state = "running" /\ job.pid = c -> "stampRunning"
               [] OTHER -> "failed")
  /\ UNCHANGED <<files, callerAttempt, runnerVars, provider, cancelVars>>

StampUnlaunched(c) ==
  /\ callerPc[c] \in {"stampStarting", "stampRunning"}
  /\ StampFailed(IF callerPc[c] = "stampStarting" THEN [job EXCEPT !.pid = None] ELSE job)
  /\ CallerTo(c, IF CanTransition(job, "failed") THEN "clear" ELSE "failed")
  /\ UNCHANGED <<files, callerAttempt, runnerVars, provider, cancelVars>>

ClearFiles == spawnIdentity' = None /\ spawnUncertain' = FALSE

ClearAfterStamp(c) ==
  /\ callerPc[c] = "clear"
  /\ ClearFiles
  /\ CallerTo(c, "failed")
  /\ NoWrite
  /\ UNCHANGED <<callerAttempt, runnerVars, provider, cancelVars>>

CallerKilled(c) ==
  /\ "caller" \in Faults
  /\ callerPc[c] \notin {"idle", "launched", "failed", "killed"}
  /\ CallerTo(c, "killed")
  /\ NoWrite
  /\ UNCHANGED <<files, callerAttempt, runnerVars, provider, cancelVars>>

-----------------------------------------------------------------------------
(*                               the runner                                *)

BarrierPass_AnyRunning(r) ==
  /\ runnerPc[r] = "barrier"
  /\ Readable(job) /\ job.state = "running"
  /\ runnerAttempt' = [runnerAttempt EXCEPT ![r] = job.attempt]
  /\ runnerToken' = [runnerToken EXCEPT ![r] = job.lease.owner]
  /\ RunnerTo(r, "admit")
  /\ NoWrite
  /\ UNCHANGED <<files, callerVars, cancelEvent, outcome, provider, cancelVars>>

(* wait_until_parent_running: admitted only to a `running` record that     *)
(* names this process.                                                     *)
BarrierPass(r) ==
  /\ runnerPc[r] = "barrier"
  /\ Readable(job) /\ job.state = "running" /\ job.pid = r
  /\ runnerAttempt' = [runnerAttempt EXCEPT ![r] = job.attempt]
  /\ runnerToken' = [runnerToken EXCEPT ![r] = job.lease.owner]
  /\ RunnerTo(r, "admit")
  /\ NoWrite
  /\ UNCHANGED <<files, callerVars, cancelEvent, outcome, provider, cancelVars>>

BarrierAbort(r) ==
  /\ runnerPc[r] = "barrier"
  /\ RunnerTo(r, "exiting")
  /\ NoWrite
  /\ UNCHANGED <<files, callerVars, runnerAttempt, runnerToken, cancelEvent, outcome,
                 provider, cancelVars>>

(* The runner's owner fence, with what it read at the barrier.             *)
Fenced(r) == OwnerFence(job, runnerAttempt[r], r, runnerToken[r])

(* The owner-fenced attempt_started_at write; only E_JOB_LEASE_FENCED      *)
(* stops the runner, an unreadable record does not.                        *)
Admit(r) ==
  /\ runnerPc[r] = "admit"
  /\ \/ /\ Fenced(r)
        /\ Write(job)
        /\ RunnerTo(r, "adapter")
     \/ /\ ~Fenced(r)
        /\ NoWrite
        /\ RunnerTo(r, IF Readable(job) THEN "exiting" ELSE "adapter")
  /\ UNCHANGED <<files, callerVars, runnerAttempt, runnerToken, cancelEvent, outcome,
                 provider, cancelVars>>

(* renew_owner_lease, in a thread of the runner that is stopped right      *)
(* before the terminal stamp.                                              *)
Heartbeat(r) ==
  /\ runnerPc[r] \in {"adapter", "launching", "spawned", "running", "returned", "stamp"}
  /\ Fenced(r)
  /\ Write(job)
  /\ UNCHANGED <<files, callerVars, runnerVars, provider, cancelVars>>

ReturnWith(r, exit) ==
  /\ outcome' = [outcome EXCEPT ![r] = exit]
  /\ RunnerTo(r, "returned")

(* The exit class of the exception path.                                   *)
ErrorExit(r) == IF cancelEvent[r] THEN "cancelled" ELSE "spawn_error"

MayLaunch_DespiteCancel(r) == Fenced(r) /\ job.pp.state \in {"pending", "launching"}

MayLaunch(r) ==
  /\ Fenced(r)
  /\ ~job.cancel
  /\ job.pp.state \in {"pending", "launching"}

(* _execute_adapter up to the adapter call.  The `fake` adapter runs       *)
(* inside the runner; the others announce the provider they will spawn.    *)
EnterAdapter(r) ==
  /\ runnerPc[r] = "adapter"
  /\ \/ /\ ~BindInner
        /\ RunnerTo(r, "running")
        /\ NoWrite
        /\ UNCHANGED outcome
     \/ /\ BindInner /\ MayLaunch(r)
        /\ Write([job EXCEPT !.pp.state = "launching"])
        /\ RunnerTo(r, "launching")
        /\ UNCHANGED outcome
     \/ /\ BindInner /\ ~MayLaunch(r)
        /\ NoWrite
        /\ ReturnWith(r, ErrorExit(r))
  /\ UNCHANGED <<files, callerVars, runnerAttempt, runnerToken, cancelEvent, provider, cancelVars>>

SpawnProvider(r) ==
  /\ runnerPc[r] = "launching"
  /\ \/ /\ provider' = [provider EXCEPT ![r] = "live"]
        /\ RunnerTo(r, "spawned")
        /\ UNCHANGED outcome
     \/ /\ ReturnWith(r, ErrorExit(r))
        /\ UNCHANGED provider
  /\ NoWrite
  /\ UNCHANGED <<files, callerVars, runnerAttempt, runnerToken, cancelEvent, cancelVars>>

(* bind_provider_process, called back right after Popen; when it refuses,  *)
(* run_provider_process kills the child.                                   *)
BindProvider(r) ==
  /\ runnerPc[r] = "spawned"
  /\ \/ /\ MayLaunch(r)
        /\ Write([job EXCEPT !.pp = [state |-> "bound", pid |-> r]])
        /\ RunnerTo(r, "running")
        /\ UNCHANGED <<outcome, provider>>
     \/ /\ ~MayLaunch(r)
        /\ NoWrite
        /\ provider' = [provider EXCEPT ![r] = "gone"]
        /\ ReturnWith(r, ErrorExit(r))
  /\ UNCHANGED <<files, callerVars, runnerAttempt, runnerToken, cancelEvent, cancelVars>>

(* The adapter call ends, its process group reaped; an adapter may finish  *)
(* its work in spite of a cancel event.                                    *)
AdapterReturns(r) ==
  /\ runnerPc[r] = "running"
  /\ \E exit \in {"success", "timeout", "nonzero"}
                  \cup (IF cancelEvent[r] THEN {"cancelled"} ELSE {}) :
       ReturnWith(r, exit)
  /\ provider' = [provider EXCEPT ![r] = IF BindInner THEN "gone" ELSE @]
  /\ NoWrite
  /\ UNCHANGED <<files, callerVars, runnerAttempt, runnerToken, cancelEvent, cancelVars>>

(* mark_provider_exited has no owner fence.                                *)
MarkExited(r) ==
  /\ runnerPc[r] = "returned"
  /\ IF Readable(job) /\ job.pp.state # "pending"
     THEN Write([job EXCEPT !.pp.state = "exited"])
     ELSE NoWrite
  /\ RunnerTo(r, "stamp")
  /\ UNCHANGED <<files, callerVars, runnerAttempt, runnerToken, cancelEvent, outcome,
                 provider, cancelVars>>

_map_terminal_state_KeepsTimeout(exit) ==
  CASE exit = "success" -> "succeeded"
    [] exit \in {"cancelled", "timeout"} -> exit
    [] OTHER -> "failed"

_map_terminal_state(exit) ==
  CASE exit = "cancelled" -> "cancelled"
    [] exit = "success" -> "succeeded"
    [] OTHER -> "failed"

StampTerminal(r) ==
  /\ runnerPc[r] = "stamp"
  /\ IF Fenced(r)
     THEN Write(TerminalRecord(job, _map_terminal_state(outcome[r]), outcome[r]))
     ELSE NoWrite
  /\ RunnerTo(r, "exiting")
  /\ UNCHANGED <<files, callerVars, runnerAttempt, runnerToken, cancelEvent, outcome,
                 provider, cancelVars>>

RunnerExits(r) ==
  /\ runnerPc[r] = "exiting"
  /\ RunnerTo(r, "gone")
  /\ NoWrite
  /\ UNCHANGED <<files, callerVars, runnerAttempt, runnerToken, cancelEvent, outcome,
                 provider, cancelVars>>

RunnerKilled(r) ==
  /\ "runner" \in Faults
  /\ RunnerAlive(r)
  /\ RunnerTo(r, "gone")
  /\ NoWrite
  /\ UNCHANGED <<files, callerVars, runnerAttempt, runnerToken, cancelEvent, outcome,
                 provider, cancelVars>>

ProviderExits(r) ==
  /\ provider[r] = "live"
  /\ provider' = [provider EXCEPT ![r] = "gone"]
  /\ NoWrite
  /\ UNCHANGED <<files, callerVars, runnerVars, cancelVars>>

-----------------------------------------------------------------------------
(*                                cancel                                   *)

CancelTo(pc) ==
  /\ cancelPc' = pc
  /\ target' = IF pc = "idle" THEN NoTarget ELSE target

(* An unreadable record, or an identity that cannot be proven gone, raises *)
(* and ends the call.                                                      *)
CancelRefused ==
  /\ cancelPc' = "idle"
  /\ target' = NoTarget

(* The request is persisted first.  Then the call refuses when a provider  *)
(* was launched without an identity, or when no identity is known although *)
(* a spawn is uncertain; otherwise the identities are captured, once.      *)
CancelRequest ==
  LET identity == RunnerIdentity(job, spawnIdentity)
      refused == \/ provider_launch_unbound(job)
                 \/ /\ identity = None /\ job.pp.pid = None
                    /\ spawnUncertain
                    /\ job.state \in {"starting", "running"}
  IN
  /\ "cancel" \in Commands
  /\ cancelPc \in {"idle", "returned"}
  /\ Readable(job)
  /\ job.state \in {"queued", "starting", "running", "cancelled"}
  /\ IF job.state = "cancelled" THEN NoWrite ELSE Write([job EXCEPT !.cancel = TRUE])
  /\ \/ /\ refused
        /\ CancelRefused
     \/ /\ ~refused
        /\ cancelPc' = "signal"
        /\ target' = [runner |-> identity, provider |-> job.pp.pid, attempt |-> job.attempt]
  /\ UNCHANGED <<files, callerVars, runnerVars, provider>>

(* SIGTERM kills a runner that has not installed its handlers yet.         *)
CancelSignal ==
  /\ cancelPc = "signal"
  /\ IF target.runner # None /\ ~RunnerGone(target.runner)
     THEN IF runnerPc[target.runner] \in {"barrier", "admit"}
          THEN RunnerTo(target.runner, "gone") /\ UNCHANGED cancelEvent
          ELSE /\ cancelEvent' = [cancelEvent EXCEPT ![target.runner] = TRUE]
               /\ UNCHANGED runnerPc
     ELSE UNCHANGED <<runnerPc, cancelEvent>>
  /\ CancelTo("forceInner")
  /\ NoWrite
  /\ UNCHANGED <<files, callerVars, runnerAttempt, runnerToken, outcome, provider>>

(* After the grace period: the provider is killed first, then the runner.  *)
(* What is not seen to go makes the call refuse, after both were tried.    *)
CancelForceInner ==
  /\ cancelPc = "forceInner"
  /\ \/ /\ ~ProviderGone(target.provider)
        /\ Readable(job)
        /\ provider' = [provider EXCEPT ![target.provider] = "gone"]
        /\ CancelTo("forceOuter")
     \/ /\ ProviderGone(target.provider) \/ "kill" \in Faults
        /\ UNCHANGED provider
        /\ CancelTo("forceOuter")
     \/ /\ ~ProviderGone(target.provider)
        /\ ~Readable(job)
        /\ CancelRefused
        /\ UNCHANGED provider
  /\ NoWrite
  /\ UNCHANGED <<files, callerVars, runnerVars>>

CancelForceOuter ==
  /\ cancelPc = "forceOuter"
  /\ \/ /\ RunnerGone(target.runner)
        /\ UNCHANGED runnerPc
        /\ IF ProviderGone(target.provider) THEN CancelTo("reread") ELSE CancelRefused
     \/ /\ ~RunnerGone(target.runner)
        /\ Readable(job)
        /\ RunnerTo(target.runner, "gone")
        /\ IF ProviderGone(target.provider) THEN CancelTo("reread") ELSE CancelRefused
     \/ /\ ~RunnerGone(target.runner)
        /\ ~Readable(job) \/ "kill" \in Faults
        /\ UNCHANGED runnerPc
        /\ CancelRefused
  /\ NoWrite
  /\ UNCHANGED <<files, callerVars, runnerAttempt, runnerToken, cancelEvent, outcome, provider>>

(* The record is read again, whichever attempt it is at by now.            *)
CancelReread ==
  /\ cancelPc = "reread"
  /\ IF Readable(job)
     THEN CancelTo(CASE Terminal(job) -> "clear"
                     [] job.state = "queued" -> "stampQueued"
                     [] OTHER -> "stamp")
     ELSE CancelRefused
  /\ NoWrite
  /\ UNCHANGED <<files, callerVars, runnerVars, provider>>

(* It is stamped in a critical section of its own (a queued one in two);   *)
(* when it has moved on in between, only a terminal record is accepted.    *)
CancelStamp ==
  LET next == IF cancelPc = "stampQueued" THEN "starting" ELSE "cancelled" IN
  /\ cancelPc \in {"stampQueued", "stamp"}
  /\ \/ /\ cancelPc = "stampQueued"
        /\ CanTransition(job, "starting")
        /\ Write([job EXCEPT !.state = "starting"])
        /\ CancelTo("stamp")
     \/ /\ cancelPc = "stamp"
        /\ CanTransition(job, "cancelled")
        /\ Write(TerminalRecord(job, "cancelled", "cancelled"))
        /\ CancelTo("clear")
     \/ /\ ~CanTransition(job, next)
        /\ NoWrite
        /\ IF Readable(job) /\ Terminal(job) THEN CancelTo("clear") ELSE CancelRefused
  /\ UNCHANGED <<files, callerVars, runnerVars, provider>>

CancelClear ==
  /\ cancelPc = "clear"
  /\ ClearFiles
  /\ CancelTo("returned")
  /\ NoWrite
  /\ UNCHANGED <<callerVars, runnerVars, provider>>

CancellerKilled ==
  /\ "canceller" \in Faults
  /\ cancelPc \notin {"idle", "returned"}
  /\ CancelTo("idle")
  /\ NoWrite
  /\ UNCHANGED <<files, callerVars, runnerVars, provider>>

-----------------------------------------------------------------------------
(*                         recovery and collection                         *)

RecoverableLost_StartingOnly ==
  /\ Readable(job)
  /\ job.state = "starting" /\ RunnerIdentity(job, spawnIdentity) # None
  /\ ~spawnUncertain
  /\ ~provider_launch_unbound(job)
  /\ IdentitiesGone

(* decide_observation = RECOVERABLE_LOST, time permitting: the lease has   *)
(* expired, or the `starting` record is stale.                             *)
RecoverableLost ==
  /\ Readable(job)
  /\ \/ job.state = "starting" /\ RunnerIdentity(job, spawnIdentity) # None
     \/ job.state = "running" /\ ~job.cancel /\ job.lease # NoLease
  /\ ~spawnUncertain
  /\ ~provider_launch_unbound(job)
  /\ IdentitiesGone

(* The snapshot is taken and the identities are probed without the lock.   *)
RecoverObserve ==
  /\ "recover" \in Commands
  /\ snapshot = "none"
  /\ RecoverableLost
  /\ snapshot' = "current"
  /\ UNCHANGED <<job, files, callerVars, runnerVars, provider, cancelVars>>

RecoverCommit_WithoutCompare ==
  /\ snapshot # "none"
  /\ job' = IF CanTransition(job, "lost") THEN TerminalRecord(job, "lost", "lease_lost") ELSE job
  /\ snapshot' = "none"
  /\ UNCHANGED <<files, callerVars, runnerVars, provider, cancelVars>>

(* compare_and_transition_job on the snapshot's generation.                *)
RecoverCommit ==
  /\ snapshot # "none"
  /\ job' = IF snapshot = "current" THEN TerminalRecord(job, "lost", "lease_lost") ELSE job
  /\ snapshot' = "none"
  /\ UNCHANGED <<files, callerVars, runnerVars, provider, cancelVars>>

(* gc_jobs, past the retention period: the job directory is renamed away   *)
(* under the lock, with the files in it.                                   *)
Collect ==
  /\ "gc" \in Commands
  /\ Readable(job) /\ Terminal(job)
  /\ ~spawnUncertain
  /\ ~provider_launch_unbound(job)
  /\ IdentitiesGone
  /\ Write(NoJob)
  /\ ClearFiles
  /\ UNCHANGED <<callerVars, runnerVars, provider, cancelVars>>

-----------------------------------------------------------------------------
Caller(c) ==
  \/ StartJob(c) \/ PreflightRetry(c) \/ PrepareRetry(c) \/ MarkStarting(c)
  \/ Launch(c) \/ SpawnFailed(c) \/ ProbeChild(c) \/ EarlyExit(c)
  \/ WriteSpawnIdentity(c) \/ SpawnIdentityFails(c) \/ CommitRunning(c)
  \/ Cleanup(c) \/ Reconcile(c) \/ StampUnlaunched(c) \/ ClearAfterStamp(c)
  \/ CallerKilled(c)

Runner(r) ==
  \/ BarrierPass(r) \/ BarrierAbort(r) \/ Admit(r) \/ Heartbeat(r)
  \/ EnterAdapter(r) \/ SpawnProvider(r) \/ BindProvider(r) \/ AdapterReturns(r)
  \/ MarkExited(r) \/ StampTerminal(r) \/ RunnerExits(r)
  \/ RunnerKilled(r) \/ ProviderExits(r)

Canceller ==
  \/ CancelRequest \/ CancelSignal \/ CancelForceInner \/ CancelForceOuter
  \/ CancelReread \/ CancelStamp \/ CancelClear \/ CancellerKilled

Operator == RecoverObserve \/ RecoverCommit \/ Collect

Next == (\E c \in Callers : Caller(c) \/ Runner(c)) \/ Canceller \/ Operator

Spec == Init /\ [][Next]_vars

(* Fairness: a process that was not killed goes on; an adapter call is     *)
(* bounded by its timeout and the barrier by its own.  A cancel runs to    *)
(* its end, and is given again while the request stands; recover is given  *)
(* again and again.                                                        *)
CallerStep(c) ==
  \/ PrepareRetry(c) \/ MarkStarting(c) \/ Launch(c) \/ SpawnFailed(c)
  \/ ProbeChild(c) \/ EarlyExit(c) \/ WriteSpawnIdentity(c) \/ CommitRunning(c)
  \/ Cleanup(c) \/ Reconcile(c) \/ StampUnlaunched(c) \/ ClearAfterStamp(c)

RunnerStep(r) ==
  \/ BarrierPass(r) \/ BarrierAbort(r) \/ Admit(r) \/ EnterAdapter(r)
  \/ SpawnProvider(r) \/ BindProvider(r) \/ AdapterReturns(r) \/ MarkExited(r)
  \/ StampTerminal(r) \/ RunnerExits(r)

CancelStep ==
  \/ CancelSignal \/ CancelForceInner \/ CancelForceOuter
  \/ CancelReread \/ CancelStamp \/ CancelClear
  \/ job.cancel /\ CancelRequest

FairSpec ==
  /\ Spec
  /\ \A c \in Callers : WF_vars(CallerStep(c)) /\ WF_vars(RunnerStep(c))
  /\ WF_vars(CancelStep)
  /\ WF_vars(RecoverObserve \/ RecoverCommit)

-----------------------------------------------------------------------------
(*                               properties                                *)

LiveProviders == {r \in Callers : provider[r] = "live"}
InAdapter(r) == runnerPc[r] \in {"launching", "spawned", "running"}

(* Once a cancel request is persisted the attempt never ends in success or *)
(* failure, whichever of the runner, a launcher or recovery stamps it      *)
(* (_coerce_terminal_under_cancel_request on every terminal write).        *)
CancelSticks == job.cancel => job.state \notin {"succeeded", "failed"}

(* Two runners are never admitted to the same attempt, although several    *)
(* launchers may have spawned one for it (the pid check of the barrier).   *)
OneOwnerPerAttempt ==
  \A r, q \in Callers :
    runnerAttempt[r] # 0 /\ runnerAttempt[r] = runnerAttempt[q] => r = q

(* A job never has two provider processes alive, over all its attempts,    *)
(* and none is lost sight of: it is named by the record, or the record     *)
(* says that a launch is under way without an identity, or its runner is   *)
(* between Popen and the bind that will kill it. Retry's identity gates    *)
(* against crashes that orphan a provider.                                 *)
OneLiveProvider ==
  \A r \in LiveProviders :
    /\ LiveProviders = {r}
    /\ \/ job.pp.pid = r
       \/ job.pp.state = "launching" /\ job.pp.pid = None
       \/ runnerPc[r] = "spawned"

(* When cancel_job returns, no provider of the attempt it was asked to     *)
(* cancel is alive, and none will be: the persisted request closes         *)
(* mark_provider_launching and bind_provider_process.                      *)
CancelledAttemptIsQuiet ==
  cancelPc = "returned" =>
    \A r \in Callers : runnerAttempt[r] = target.attempt =>
      provider[r] # "live" /\ runnerPc[r] # "launching"

(* `lost` is only stamped over processes that are gone, although they were *)
(* probed before the lock was taken; a collected job left none behind.     *)
LostIsDead == job.state \in {"lost", Absent} => LiveProviders = {}

(* docs/durable-jobs.md: a live provider whose runner is dead is an orphan *)
(* that recovery must leave to cancel.                                     *)
OrphansBlockRecovery ==
  (\E r \in LiveProviders : ~RunnerAlive(r)) => ~RecoverableLost

Lifecycle == INSTANCE JobLifecycle
  WITH state <- job.state, attempt <- job.attempt,
       admitted <- {runnerAttempt[r] : r \in Callers} \ {0}

(* The job implements the lifecycle it promises.                           *)
ImplementsLifecycle == Lifecycle!Spec

(* Every accepted attempt settles, whichever step of whichever process     *)
(* fails: unless the record became unreadable, or recovery and retry must  *)
(* not touch the job, because a provider may be alive that the record does *)
(* not name, or is alive without its runner.                               *)
JobSettles ==
  (job.state \in JobState) ~>
    \/ Terminal(job) \/ ~Readable(job)
    \/ provider_launch_unbound(job) \/ \E r \in LiveProviders : ~RunnerAlive(r)

=============================================================================
