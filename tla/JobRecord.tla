------------------------------ MODULE JobRecord ------------------------------
(***************************************************************************)
(* The durable record of a background job (`job.json`) as data: its life   *)
(* cycle states, the decoder that decides whether the record can be read   *)
(* back, and the predicates and record updates that every writer of the    *)
(* record shares.  No behaviour: DurableJob and the modules built on it    *)
(* take their guards and their writes from here.                           *)
(*                                                                         *)
(* A process is identified by the caller that spawned it: caller c spawns  *)
(* at most one runner, and that runner at most one provider process, so c  *)
(* names the caller, the runner's pid, the provider's pid and the owner    *)
(* token the caller mints.  Pids are never reused (the start-time          *)
(* fingerprint of ownership.py exists to rule reuse out).                  *)
(***************************************************************************)
EXTENDS Naturals

CONSTANTS Callers,        \* CLI processes that start or retry the job
          None,           \* JSON null
          Budget          \* attempt_budget, immutable after start

ASSUME NoneAssumption == None \notin Callers
ASSUME BudgetAssumption == Budget \in Nat \ {0}

Attempts == 1..Budget
Absent == "absent"        \* no readable job directory: not created yet, or collected

TERMINAL_STATES == {"succeeded", "failed", "cancelled", "lost"}
JobState == {"queued", "starting", "running"} \cup TERMINAL_STATES

LEGAL_TRANSITIONS ==
  [s \in JobState |->
     CASE s = "queued" -> {"starting"}
       [] s = "starting" -> {"running", "failed", "cancelled", "lost"}
       [] s = "running" -> TERMINAL_STATES
       [] OTHER -> {}]

RETRYABLE_TERMINAL_STATES == {"failed", "cancelled", "lost"}
RetryClass == {"automatic", "manual_only", "never", "unknown"}

(* What an adapter run, a launcher or recovery writes as exit.class.       *)
ExitClass == {"success", "timeout", "nonzero", "cancelled", "spawn_error", "lease_lost"}

classify_retry(state, exit) ==
  CASE state = "succeeded" -> "never"
    [] state = "cancelled" -> "manual_only"
    [] state = "lost" -> "unknown"
    [] exit = "success" -> "never"
    [] exit = "cancelled" -> "manual_only"
    [] exit = "timeout" -> "automatic"
    [] OTHER -> "unknown"

-----------------------------------------------------------------------------
Lease == [attempt : Attempts, owner : Callers, active : BOOLEAN]
NoLease == [attempt |-> 0, owner |-> None, active |-> FALSE]
ProviderState == {"pending", "launching", "bound", "exited"}
ProviderProcess == [state : ProviderState, pid : Callers \cup {None}]
NoProvider == [state |-> "pending", pid |-> None]

Job == [state   : JobState \cup {Absent},
        attempt : Attempts \cup {0},
        pid     : Callers \cup {None},
        lease   : Lease \cup {NoLease},
        cancel  : BOOLEAN,              \* cancel_requested_at is set
        pp      : ProviderProcess,
        retry   : RetryClass \cup {None}]

NewJob(state, attempt) ==
  [state |-> state, attempt |-> attempt, pid |-> None, lease |-> NoLease,
   cancel |-> FALSE, pp |-> NoProvider, retry |-> None]

NoJob == NewJob(Absent, 0)

(* The record create_job_dir writes, and the one prepare_retry resets to.  *)
QueuedJob(attempt) == NewJob("queued", attempt)

(* JobRecord.from_dict: a lease must carry the record's attempt, be active *)
(* while the job runs and be released once it is terminal.  A record that  *)
(* breaks one of these raises E_JOB_LEASE_MALFORMED on every read.         *)
Readable(job) ==
  /\ job.state # Absent
  /\ job.lease # NoLease =>
       /\ job.lease.attempt = job.attempt
       /\ job.state \in TERMINAL_STATES => ~job.lease.active
       /\ job.state = "running" => job.lease.active

Terminal(job) == job.state \in TERMINAL_STATES

(* assert_owner_fence: attempt, runner pid and owner token must all match  *)
(* those of a running record.                                              *)
OwnerFence(job, attempt, runner, token) ==
  /\ Readable(job)
  /\ job.state = "running"
  /\ job.attempt = attempt
  /\ job.pid = runner
  /\ job.lease = [attempt |-> attempt, owner |-> token, active |-> TRUE]

(* A provider that was launched, or bound, without a complete pid.         *)
provider_launch_unbound(job) ==
  job.pp.state \in {"launching", "bound"} /\ job.pp.pid = None

release_lease(lease) ==
  [attempt |-> lease.attempt, owner |-> lease.owner, active |-> FALSE]

(* A persisted cancel request turns a racing success or failure into       *)
(* cancelled.                                                              *)
coerce_terminal_IgnoresCancel(job, state) == state

coerce_terminal(job, state) ==
  IF job.cancel /\ state \in {"succeeded", "failed"} THEN "cancelled" ELSE state

(* The record after a terminal transition: state (coerced), released lease *)
(* and the retry class of the exit envelope, in one write.                 *)
TerminalRecord(job, state, exit) ==
  LET final == coerce_terminal(job, state) IN
  [job EXCEPT !.state = final,
              !.lease = release_lease(@),
              !.retry = classify_retry(final, exit)]

CanTransition_FromAny(job, state) == Readable(job)

CanTransition(job, state) ==
  /\ Readable(job)
  /\ coerce_terminal(job, state) \in LEGAL_TRANSITIONS[job.state]

(* assert_retry_admission(intent=explicit) for the attempt asked for.      *)
RetryAdmitted(job, attempt) ==
  /\ Readable(job)
  /\ job.state \in RETRYABLE_TERMINAL_STATES
  /\ attempt = job.attempt + 1
  /\ attempt <= Budget
  /\ job.retry \in RetryClass \ {"never"}

(* The identities cancel, recover, retry and gc look for: the record's     *)
(* pid, or else the one in spawn_identity.json.                            *)
RunnerIdentity(job, spawnIdentity) ==
  IF job.pid # None THEN job.pid ELSE spawnIdentity
=============================================================================
