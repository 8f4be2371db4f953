--------------------------- MODULE DurableJobProofs ---------------------------
(***************************************************************************)
(* What holds of DurableJob for every number of callers, every budget and  *)
(* every choice of commands and faults.                                    *)
(***************************************************************************)
EXTENDS DurableJob, TLAPS

(* A record that is there, with the attempt it is at.                      *)
LiveJob == {j \in Job : j.state # Absent /\ j.attempt # 0}

(* TypeOK, made inductive: a record has an attempt, the record of a        *)
(* snapshot that still matches is the one that was found recoverable, and  *)
(* a launcher about to mint a lease knows the attempt it mints it for.     *)
RecordInv ==
  /\ job = NoJob \/ job \in LiveJob
  /\ snapshot \in {"none", "current", "stale"}
  /\ snapshot = "current" => Readable(job) /\ job.state \in {"starting", "running"}

CallerInv ==
  /\ callerPc \in [Callers -> CallerPc]
  /\ callerAttempt \in [Callers -> Attempts \cup {0}]
  /\ \A c \in Callers :
       callerPc[c] \in {"probe", "identity", "commit"} => callerAttempt[c] # 0

RunnerInv ==
  /\ runnerPc \in [Callers -> RunnerPc]
  /\ runnerAttempt \in [Callers -> Attempts \cup {0}]
  /\ runnerToken \in [Callers -> Callers \cup {None}]
  /\ cancelEvent \in [Callers -> BOOLEAN]
  /\ outcome \in [Callers -> ExitClass \cup {None}]
  /\ provider \in [Callers -> {"none", "live", "gone"}]

OperatorInv ==
  /\ spawnIdentity \in Callers \cup {None}
  /\ spawnUncertain \in BOOLEAN
  /\ cancelPc \in CancelPc
  /\ target \in [runner : Callers \cup {None}, provider : Callers \cup {None},
                 attempt : Attempts \cup {0}]

TypeInv == RecordInv /\ CallerInv /\ RunnerInv /\ OperatorInv

-----------------------------------------------------------------------------
(*                        the updates of the record                        *)

(* Every terminal outcome gets a retry class.                              *)
LEMMA ClassifyType ==
  ASSUME NEW state, NEW exit
  PROVE  classify_retry(state, exit) \in RetryClass
BY DEF classify_retry, RetryClass

(* A record that can be read is there.                                     *)
LEMMA ReadableLive ==
  RecordInv /\ Readable(job) => job \in LiveJob
BY DEF RecordInv, Readable, NoJob, NewJob

(* The empty record, and the one that an attempt starts with, are records. *)
LEMMA NewRecordType ==
  /\ NoJob \in Job
  /\ \A a \in Attempts : QueuedJob(a) \in LiveJob
<1> USE BudgetAssumption DEF Attempts
<1>1. NoLease \in Lease \cup {NoLease} /\ NoProvider \in ProviderProcess
  BY DEF NoProvider, ProviderProcess, ProviderState
<1>2. NewJob(Absent, 0) \in Job
  BY <1>1 DEF NewJob, Job
<1>3. \A a \in Attempts : NewJob("queued", a) \in Job
  BY <1>1 DEF NewJob, Job, JobState
<1>4. \A a \in Attempts : NewJob("queued", a).state # Absent /\ NewJob("queued", a).attempt # 0
  BY DEF NewJob, Absent
<1> QED
  BY <1>2, <1>3, <1>4 DEF NoJob, QueuedJob, LiveJob

(* A terminal transition releases the lease and keeps the attempt, the     *)
(* cancel request and the pid.                                             *)
LEMMA TerminalRecordType ==
  ASSUME NEW j \in LiveJob, NEW state \in TERMINAL_STATES, NEW exit
  PROVE  /\ TerminalRecord(j, state, exit) \in LiveJob
         /\ TerminalRecord(j, state, exit).state = coerce_terminal(j, state)
         /\ TerminalRecord(j, state, exit).attempt = j.attempt
         /\ TerminalRecord(j, state, exit).pid = j.pid
         /\ TerminalRecord(j, state, exit).cancel = j.cancel
         /\ TerminalRecord(j, state, exit).pp = j.pp
         /\ TerminalRecord(j, state, exit).lease = release_lease(j.lease)
<1> DEFINE final == coerce_terminal(j, state)
<1>1. final \in TERMINAL_STATES /\ final \in JobState /\ final # Absent
  BY DEF coerce_terminal, TERMINAL_STATES, JobState, Absent
<1>2. classify_retry(final, exit) \in RetryClass
  BY ClassifyType
<1>3. release_lease(j.lease) \in Lease \cup {NoLease}
  <2>1. j.lease \in Lease \cup {NoLease}
    BY DEF LiveJob, Job
  <2>2. CASE j.lease \in Lease
    BY <2>2 DEF release_lease, Lease
  <2>3. CASE j.lease = NoLease
    BY <2>3 DEF release_lease, NoLease
  <2> QED
    BY <2>1, <2>2, <2>3
<1> HIDE DEF final
<1>4. TerminalRecord(j, state, exit) =
        [j EXCEPT !.state = final, !.lease = release_lease(j.lease),
                  !.retry = classify_retry(final, exit)]
  BY DEF TerminalRecord, final
<1>5. QED
  BY <1>1, <1>2, <1>3, <1>4 DEF LiveJob, Job, final

(* The other updates leave a record, with its attempt.                     *)
LEMMA UpdateType ==
  ASSUME NEW j \in LiveJob
  PROVE  /\ [j EXCEPT !.state = "starting"] \in LiveJob
         /\ [j EXCEPT !.cancel = TRUE] \in LiveJob
         /\ [j EXCEPT !.pid = None] \in LiveJob
         /\ [j EXCEPT !.pp.state = "launching"] \in LiveJob
         /\ [j EXCEPT !.pp.state = "exited"] \in LiveJob
<1> USE DEF Absent
<1>1. [j EXCEPT !.state = "starting"] \in LiveJob
  BY DEF LiveJob, Job, JobState
<1>2. [j EXCEPT !.cancel = TRUE] \in LiveJob
  BY DEF LiveJob, Job
<1>3. [j EXCEPT !.pid = None] \in LiveJob
  BY DEF LiveJob, Job
<1>4. [j EXCEPT !.pp.state = "launching"] \in LiveJob
  BY DEF LiveJob, Job, ProviderProcess, ProviderState
<1>5. [j EXCEPT !.pp.state = "exited"] \in LiveJob
  BY DEF LiveJob, Job, ProviderProcess, ProviderState
<1> QED
  BY <1>1, <1>2, <1>3, <1>4, <1>5

(* So do those that name a process.                                        *)
LEMMA ProcessUpdateType ==
  ASSUME NEW j \in LiveJob, NEW c \in Callers
  PROVE  /\ [j EXCEPT !.pid = c] \in LiveJob
         /\ [j EXCEPT !.pp = [state |-> "bound", pid |-> c]] \in LiveJob
         /\ \A a \in Attempts :
              [j EXCEPT !.state = "running", !.pid = c,
                        !.lease = [attempt |-> a, owner |-> c, active |-> TRUE]] \in LiveJob
<1> USE DEF Absent
<1>1. [j EXCEPT !.pid = c] \in LiveJob
  BY DEF LiveJob, Job
<1>2. [j EXCEPT !.pp = [state |-> "bound", pid |-> c]] \in LiveJob
  <2>1. [state |-> "bound", pid |-> c] \in ProviderProcess
    BY DEF ProviderProcess, ProviderState
  <2> QED
    BY <2>1 DEF LiveJob, Job
<1>3. ASSUME NEW a \in Attempts
      PROVE  [j EXCEPT !.state = "running", !.pid = c,
                       !.lease = [attempt |-> a, owner |-> c, active |-> TRUE]] \in LiveJob
  <2>1. [attempt |-> a, owner |-> c, active |-> TRUE] \in Lease
    BY DEF Lease
  <2> QED
    BY <2>1 DEF LiveJob, Job, JobState
<1> QED
  BY <1>1, <1>2, <1>3

(* A write of a record keeps RecordInv.                                    *)
LEMMA WriteType ==
  ASSUME RecordInv, NEW record, record = NoJob \/ record \in LiveJob, Write(record)
  PROVE  RecordInv'
BY DEF RecordInv, Write

(* So does a step that leaves the record alone.                            *)
LEMMA NoWriteType ==
  ASSUME RecordInv, NoWrite
  PROVE  RecordInv'
BY DEF RecordInv, NoWrite

(* So does an unfenced `failed` stamp.                                     *)
LEMMA StampFailedType ==
  ASSUME RecordInv, NEW record, record = job \/ record = [job EXCEPT !.pid = None],
         StampFailed(record)
  PROVE  RecordInv'
<1>1. CASE CanTransition(job, "failed")
  <2>1. job \in LiveJob
    BY <1>1, ReadableLive DEF CanTransition
  <2>2. record \in LiveJob
    BY <2>1, UpdateType
  <2>3. TerminalRecord(record, "failed", "spawn_error") \in LiveJob
    BY <2>2, TerminalRecordType DEF TERMINAL_STATES
  <2> QED
    BY <1>1, <2>3, WriteType DEF StampFailed
<1>2. CASE ~CanTransition(job, "failed")
  BY <1>2, NoWriteType DEF StampFailed
<1> QED
  BY <1>1, <1>2

-----------------------------------------------------------------------------
(*                              type correctness                           *)

(* Every step keeps the record well-typed.                                 *)
LEMMA RecordStep ==
  ASSUME TypeInv, Next
  PROVE  RecordInv'
<1> USE BudgetAssumption, StarterAssumption DEF Attempts
<1>0. RecordInv
  BY DEF TypeInv
<1>1. ASSUME NEW c \in Callers, Caller(c)
      PROVE  RecordInv'
  <2>1. CASE StartJob(c)
    <3>1. QueuedJob(1) \in LiveJob
      BY NewRecordType
    <3> QED
      BY <1>0, <2>1, <3>1, WriteType DEF StartJob
  <2>2. CASE PreflightRetry(c)
    BY <1>0, <2>2, NoWriteType DEF PreflightRetry
  <2>3. CASE PrepareRetry(c)
    <3>1. CASE RetryAdmitted(job, callerAttempt[c]) /\ Write(QueuedJob(callerAttempt[c]))
      <4>1. job \in LiveJob
        BY <1>0, <3>1, ReadableLive DEF RetryAdmitted
      <4>2. callerAttempt[c] \in Attempts
        BY <4>1, <3>1 DEF RetryAdmitted, LiveJob, Job
      <4> QED
        BY <1>0, <3>1, <4>2, NewRecordType, WriteType
    <3> QED
      BY <1>0, <2>3, <3>1, NoWriteType DEF PrepareRetry
  <2>4. ASSUME CanTransition(job, "starting"), Write([job EXCEPT !.state = "starting"])
        PROVE  RecordInv'
    <3>1. job \in LiveJob
      BY <1>0, <2>4, ReadableLive DEF CanTransition
    <3> QED
      BY <1>0, <2>4, <3>1, UpdateType, WriteType
  <2>5. CASE MarkStarting(c)
    BY <1>0, <2>4, <2>5, NoWriteType DEF MarkStarting
  <2>6. CASE Launch(c)
    BY <1>0, <2>6, NoWriteType DEF Launch
  <2>7. CASE SpawnFailed(c)
    BY <1>0, <2>7, StampFailedType DEF SpawnFailed
  <2>8. CASE ProbeChild(c)
    BY <1>0, <2>8, NoWriteType DEF ProbeChild
  <2>9. CASE EarlyExit(c)
    BY <1>0, <2>4, <2>9, StampFailedType DEF EarlyExit
  <2>10. CASE WriteSpawnIdentity(c) \/ SpawnIdentityFails(c)
    BY <1>0, <2>10, NoWriteType DEF WriteSpawnIdentity, SpawnIdentityFails
  <2>11. CASE CommitRunning(c)
    <3> DEFINE running == [job EXCEPT !.state = "running", !.pid = c,
                                      !.lease = [attempt |-> callerAttempt[c], owner |-> c,
                                                 active |-> TRUE]]
    <3>1. CASE CanTransition(job, "running") /\ Write(running)
      <4>1. job \in LiveJob
        BY <1>0, <3>1, ReadableLive DEF CanTransition
      <4>2. callerAttempt[c] \in Attempts
        BY <2>11 DEF CommitRunning, TypeInv, CallerInv
      <4>3. running \in LiveJob
        BY <4>1, <4>2, ProcessUpdateType
      <4> QED
        BY <1>0, <3>1, <4>3, WriteType
    <3> QED
      BY <1>0, <2>11, <3>1, NoWriteType DEF CommitRunning
  <2>12. CASE Cleanup(c)
    <3>1. CASE Readable(job) /\ Write([job EXCEPT !.pid = c])
      <4>1. job \in LiveJob
        BY <1>0, <3>1, ReadableLive
      <4> QED
        BY <1>0, <3>1, <4>1, ProcessUpdateType, WriteType
    <3> QED
      BY <1>0, <2>12, <3>1, NoWriteType DEF Cleanup
  <2>13. CASE Reconcile(c)
    BY <1>0, <2>4, <2>13, NoWriteType DEF Reconcile
  <2>14. CASE StampUnlaunched(c)
    BY <1>0, <2>14, StampFailedType DEF StampUnlaunched
  <2>15. CASE ClearAfterStamp(c) \/ CallerKilled(c)
    BY <1>0, <2>15, NoWriteType DEF ClearAfterStamp, CallerKilled
  <2> QED
    BY <1>1, <2>1, <2>2, <2>3, <2>5, <2>6, <2>7, <2>8, <2>9, <2>10, <2>11, <2>12, <2>13,
       <2>14, <2>15 DEF Caller
<1>2. ASSUME NEW r \in Callers, Runner(r)
      PROVE  RecordInv'
  <2>1. CASE BarrierPass(r) \/ BarrierAbort(r) \/ SpawnProvider(r) \/ AdapterReturns(r)
             \/ RunnerExits(r) \/ RunnerKilled(r) \/ ProviderExits(r)
    BY <1>0, <2>1, NoWriteType DEF BarrierPass, BarrierAbort, SpawnProvider, AdapterReturns,
       RunnerExits, RunnerKilled, ProviderExits
  <2>2. CASE Admit(r) \/ Heartbeat(r)
    <3>1. job = NoJob \/ job \in LiveJob
      BY <1>0 DEF RecordInv
    <3> QED
      BY <1>0, <2>2, <3>1, WriteType, NoWriteType DEF Admit, Heartbeat
  <2>3. ASSUME MayLaunch(r)
        PROVE  job \in LiveJob
    BY <1>0, <2>3, ReadableLive DEF MayLaunch, Fenced, OwnerFence
  <2>4. CASE EnterAdapter(r)
    <3>1. CASE MayLaunch(r) /\ Write([job EXCEPT !.pp.state = "launching"])
      BY <1>0, <2>3, <3>1, UpdateType, WriteType
    <3> QED
      BY <1>0, <2>4, <3>1, NoWriteType DEF EnterAdapter
  <2>5. CASE BindProvider(r)
    <3>1. CASE MayLaunch(r) /\ Write([job EXCEPT !.pp = [state |-> "bound", pid |-> r]])
      BY <1>0, <2>3, <3>1, ProcessUpdateType, WriteType
    <3> QED
      BY <1>0, <2>5, <3>1, NoWriteType DEF BindProvider
  <2>6. CASE MarkExited(r)
    <3>1. CASE Readable(job) /\ Write([job EXCEPT !.pp.state = "exited"])
      BY <1>0, <3>1, ReadableLive, UpdateType, WriteType
    <3> QED
      BY <1>0, <2>6, <3>1, NoWriteType DEF MarkExited
  <2>7. CASE StampTerminal(r)
    <3>1. CASE Fenced(r)
      <4>1. job \in LiveJob
        BY <1>0, <3>1, ReadableLive DEF Fenced, OwnerFence
      <4>2. _map_terminal_state(outcome[r]) \in TERMINAL_STATES
        BY DEF _map_terminal_state, TERMINAL_STATES
      <4>3. TerminalRecord(job, _map_terminal_state(outcome[r]), outcome[r]) \in LiveJob
        BY <4>1, <4>2, TerminalRecordType
      <4> QED
        BY <1>0, <2>7, <3>1, <4>3, WriteType DEF StampTerminal
    <3> QED
      BY <1>0, <2>7, <3>1, NoWriteType DEF StampTerminal
  <2> QED
    BY <1>2, <2>1, <2>2, <2>4, <2>5, <2>6, <2>7 DEF Runner
<1>3. CASE Canceller
  <2>1. CASE CancelRequest
    <3>1. job \in LiveJob
      BY <1>0, <2>1, ReadableLive DEF CancelRequest
    <3>2. [job EXCEPT !.cancel = TRUE] \in LiveJob
      BY <3>1, UpdateType
    <3> QED
      BY <1>0, <2>1, <3>2, WriteType, NoWriteType DEF CancelRequest
  <2>2. CASE CancelSignal \/ CancelForceInner \/ CancelForceOuter \/ CancelReread
             \/ CancelClear \/ CancellerKilled
    BY <1>0, <2>2, NoWriteType DEF CancelSignal, CancelForceInner, CancelForceOuter,
       CancelReread, CancelClear, CancellerKilled
  <2>3. CASE CancelStamp
    <3>1. CASE Readable(job) /\ Write(TerminalRecord(job, "cancelled", "cancelled"))
      BY <1>0, <3>1, ReadableLive, TerminalRecordType, WriteType DEF TERMINAL_STATES
    <3>2. CASE Readable(job) /\ Write([job EXCEPT !.state = "starting"])
      BY <1>0, <3>2, ReadableLive, UpdateType, WriteType
    <3> QED
      BY <1>0, <2>3, <3>1, <3>2, NoWriteType DEF CancelStamp, CanTransition
  <2> QED
    BY <1>3, <2>1, <2>2, <2>3 DEF Canceller
<1>4. CASE Operator
  <2>1. CASE RecoverObserve
    BY <1>0, <2>1 DEF RecoverObserve, RecoverableLost, RecordInv
  <2>2. CASE RecoverCommit
    BY <1>0, <2>2, ReadableLive, TerminalRecordType DEF RecoverCommit, RecordInv, TERMINAL_STATES
  <2>3. CASE Collect
    BY <1>0, <2>3, WriteType DEF Collect
  <2> QED
    BY <1>4, <2>1, <2>2, <2>3 DEF Operator
<1> QED
  BY <1>1, <1>2, <1>3, <1>4 DEF Next

(* Every step keeps what the processes and the commands hold well-typed.   *)
LEMMA ControlStep ==
  ASSUME TypeInv, Next
  PROVE  CallerInv' /\ RunnerInv' /\ OperatorInv'
<1> USE DEF TypeInv, callerVars, runnerVars, cancelVars, files, CallerTo, RunnerTo
<1>1. CallerInv /\ RunnerInv /\ OperatorInv
  BY DEF TypeInv
<1>2. /\ job.attempt \in Attempts \cup {0}
      /\ job.pid \in Callers \cup {None}
      /\ job.pp.pid \in Callers \cup {None}
      /\ job.state # Absent => job.attempt \in Attempts
      /\ job.lease.owner \in Callers \cup {None}
  <2>1. job \in Job
    BY NewRecordType DEF RecordInv, LiveJob
  <2>2. job.lease.owner \in Callers \cup {None}
    BY <2>1 DEF Job, Lease, NoLease
  <2>3. job.pp.pid \in Callers \cup {None}
    BY <2>1 DEF Job, ProviderProcess
  <2>4. job.state # Absent => job.attempt # 0
    BY DEF RecordInv, LiveJob, NoJob, NewJob
  <2> QED
    BY <2>1, <2>2, <2>3, <2>4 DEF Job
<1>3. ASSUME NEW c \in Callers, Caller(c)
      PROVE  CallerInv' /\ RunnerInv' /\ OperatorInv'
  <2> USE DEF CallerInv, CallerPc
  <2>1. CASE StartJob(c)
    BY <1>1, <2>1 DEF StartJob, RunnerInv, OperatorInv
  <2>2. CASE PreflightRetry(c)
    BY <1>1, <1>2, <2>2, BudgetAssumption DEF PreflightRetry, RetryAdmitted, Readable, Attempts,
       RunnerInv, OperatorInv
  <2>3. CASE PrepareRetry(c) \/ MarkStarting(c) \/ SpawnFailed(c) \/ CallerKilled(c)
    BY <1>1, <2>3 DEF PrepareRetry, MarkStarting, SpawnFailed, CallerKilled, RunnerInv, OperatorInv
  <2>4. CASE Launch(c)
    BY <1>1, <1>2, <2>4, BudgetAssumption DEF Launch, Readable, RunnerInv, RunnerPc, OperatorInv,
       Attempts
  <2>5. CASE ProbeChild(c)
    BY <1>1, <2>5 DEF ProbeChild, RunnerInv, OperatorInv
  <2>6. CASE EarlyExit(c) \/ Reconcile(c)
    BY <1>1, <2>6 DEF EarlyExit, Reconcile, RunnerInv, OperatorInv
  <2>7. CASE WriteSpawnIdentity(c)
    BY <1>1, <2>7 DEF WriteSpawnIdentity, RunnerInv, OperatorInv
  <2>8. CASE SpawnIdentityFails(c)
    BY <1>1, <2>8 DEF SpawnIdentityFails, RunnerInv, RunnerPc, OperatorInv
  <2>9. CASE CommitRunning(c)
    BY <1>1, <2>9 DEF CommitRunning, RunnerInv, OperatorInv
  <2>10. CASE Cleanup(c)
    BY <1>1, <2>10 DEF Cleanup, RunnerInv, RunnerPc, OperatorInv
  <2>11. CASE StampUnlaunched(c) \/ ClearAfterStamp(c)
    BY <1>1, <2>11 DEF StampUnlaunched, ClearAfterStamp, ClearFiles, RunnerInv, OperatorInv
  <2> QED
    BY <1>3, <2>1, <2>2, <2>3, <2>4, <2>5, <2>6, <2>7, <2>8, <2>9, <2>10, <2>11 DEF Caller
<1>4. ASSUME NEW r \in Callers, Runner(r)
      PROVE  CallerInv' /\ RunnerInv' /\ OperatorInv'
  <2> USE DEF RunnerInv, RunnerPc
  <2>1. UNCHANGED callerVars /\ UNCHANGED <<files, cancelVars>>
    BY <1>4 DEF Runner, BarrierPass, BarrierAbort, Admit, Heartbeat, EnterAdapter, SpawnProvider,
       BindProvider, AdapterReturns, MarkExited, StampTerminal, RunnerExits, RunnerKilled,
       ProviderExits
  <2>2. CallerInv' /\ OperatorInv'
    BY <1>1, <2>1 DEF CallerInv, OperatorInv
  <2>3. CASE BarrierPass(r)
    BY <1>1, <1>2, <2>2, <2>3 DEF BarrierPass
  <2>4. CASE \/ BarrierAbort(r) \/ Admit(r) \/ MarkExited(r) \/ StampTerminal(r)
             \/ RunnerExits(r) \/ RunnerKilled(r)
    BY <1>1, <2>2, <2>4 DEF BarrierAbort, Admit, MarkExited, StampTerminal, RunnerExits,
       RunnerKilled
  <2>5. CASE Heartbeat(r) \/ ProviderExits(r)
    BY <1>1, <2>2, <2>5 DEF Heartbeat, ProviderExits
  <2>6. ErrorExit(r) \in ExitClass
    BY DEF ErrorExit, ExitClass
  <2>7. CASE EnterAdapter(r)
    BY <1>1, <2>2, <2>6, <2>7 DEF EnterAdapter, ReturnWith
  <2>8. CASE SpawnProvider(r) \/ BindProvider(r)
    BY <1>1, <2>2, <2>6, <2>8 DEF SpawnProvider, BindProvider, ReturnWith
  <2>9. CASE AdapterReturns(r)
    <3>1. PICK exit \in {"success", "timeout", "nonzero", "cancelled"} : ReturnWith(r, exit)
      BY <2>9 DEF AdapterReturns
    <3>2. exit \in ExitClass
      BY DEF ExitClass
    <3> QED
      BY <1>1, <2>2, <2>9, <3>1, <3>2 DEF AdapterReturns, ReturnWith
  <2> QED
    BY <1>4, <2>2, <2>3, <2>4, <2>5, <2>7, <2>8, <2>9 DEF Runner
<1>5. CASE Canceller
  <2> USE DEF OperatorInv, CancelPc
  <2>1. UNCHANGED callerVars
    BY <1>5 DEF Canceller, CancelRequest, CancelSignal, CancelForceInner, CancelForceOuter,
       CancelReread, CancelStamp, CancelClear, CancellerKilled
  <2>2. CallerInv'
    BY <1>1, <2>1 DEF CallerInv
  <2>3. CASE CancelRequest
    BY <1>1, <1>2, <2>2, <2>3 DEF CancelRequest, CancelRefused, NoTarget, RunnerIdentity, RunnerInv
  <2>4. CASE CancelSignal
    BY <1>1, <2>2, <2>4 DEF CancelSignal, CancelTo, RunnerInv, RunnerPc
  <2>5. CASE CancelForceInner
    BY <1>1, <2>2, <2>5 DEF CancelForceInner, CancelTo, CancelRefused, NoTarget, RunnerInv
  <2>6. CASE CancelForceOuter
    BY <1>1, <2>2, <2>6 DEF CancelForceOuter, CancelTo, CancelRefused, NoTarget, RunnerInv, RunnerPc
  <2>7. CASE CancelReread \/ CancelStamp
    BY <1>1, <2>2, <2>7 DEF CancelReread, CancelStamp, CancelTo, CancelRefused, NoTarget, RunnerInv
  <2>8. CASE CancelClear
    BY <1>1, <2>2, <2>8 DEF CancelClear, CancelTo, ClearFiles, RunnerInv
  <2>9. CASE CancellerKilled
    BY <1>1, <2>2, <2>9 DEF CancellerKilled, CancelTo, NoTarget, RunnerInv
  <2> QED
    BY <1>5, <2>2, <2>3, <2>4, <2>5, <2>6, <2>7, <2>8, <2>9 DEF Canceller
<1>6. CASE Operator
  BY <1>1, <1>6 DEF Operator, RecoverObserve, RecoverCommit, Collect, ClearFiles, CallerInv,
     RunnerInv, OperatorInv
<1> QED
  BY <1>3, <1>4, <1>5, <1>6 DEF Next

(* Initially, every field has its type.                                    *)
LEMMA TypeInit == Init => TypeInv
<1> SUFFICES ASSUME Init PROVE TypeInv
  OBVIOUS
<1>1. RecordInv
  BY DEF Init, RecordInv
<1>2. CallerInv
  BY DEF Init, CallerInv, CallerPc
<1>3. RunnerInv
  BY DEF Init, RunnerInv, RunnerPc
<1>4. OperatorInv
  BY DEF Init, OperatorInv, CancelPc, NoTarget
<1> QED
  BY <1>1, <1>2, <1>3, <1>4 DEF TypeInv

(* TypeInv says all that TypeOK says.                                      *)
LEMMA TypeInvOK == TypeInv => TypeOK
BY NewRecordType DEF TypeInv, RecordInv, CallerInv, RunnerInv, OperatorInv, TypeOK, LiveJob

(* Every step of the system keeps TypeInv: no launcher, runner or operator *)
(* writes a field outside of its type.                                     *)
LEMMA TypeStep == TypeInv /\ [Next]_vars => TypeInv'
<1>1. TypeInv /\ Next => TypeInv'
  BY RecordStep, ControlStep DEF TypeInv
<1>2. TypeInv /\ UNCHANGED vars => TypeInv'
  BY DEF TypeInv, RecordInv, CallerInv, RunnerInv, OperatorInv, vars, files, callerVars,
     runnerVars, cancelVars
<1> QED
  BY <1>1, <1>2

(* TypeInv holds in every reachable state of the system.                   *)
THEOREM TypeInvariant == Spec => []TypeInv
BY TypeInit, TypeStep, PTL DEF Spec

(* The record and every process keep the values the code gives them: the   *)
(* attempt stays within the budget, the lease is NoLease or that of a      *)
(* caller, every program counter is one of its process.                    *)
THEOREM TypeCorrect == Spec => []TypeOK
BY TypeInvariant, TypeInvOK, PTL

-----------------------------------------------------------------------------
(*                      what a step does to the record                     *)

(* A launcher past its child, which was not spawned or is seen to be gone. *)
Aftermath ==
  {"spawnFailed", "earlyExit", "earlyStamp", "reconcile", "stampStarting", "stampRunning", "clear"}

(* The writes of Next, told apart by what they do to the state, the        *)
(* attempt, the cancel request, the pid, the owner of the lease and the    *)
(* provider process.                                                       *)
KeepsAttempt ==
  job'.attempt = job.attempt /\ job'.lease.owner = job.lease.owner

(* Outside of a transition the pid is only written for a child that was    *)
(* not seen to go.                                                         *)
PidWritten ==
  "kill" \in Faults /\ \E c \in Callers : callerPc[c] = "cleanup" /\ job'.pid = c

(* A launch is announced and bound by the runner that holds the attempt,   *)
(* and ended by any runner.                                                *)
ProviderWritten ==
  \E r \in Callers :
    \/ /\ runnerPc[r] = "adapter" /\ MayLaunch(r)
       /\ job'.pp = [job.pp EXCEPT !.state = "launching"]
    \/ /\ runnerPc[r] = "spawned" /\ runnerPc'[r] = "running"
       /\ job'.pp = [state |-> "bound", pid |-> r]
    \/ /\ runnerPc[r] = "returned" /\ job.pp.state # "pending"
       /\ job'.pp = [job.pp EXCEPT !.state = "exited"]

Kept ==
  /\ KeepsAttempt
  /\ job'.state = job.state
  /\ job'.pid = job.pid \/ PidWritten
  /\ job'.pp = job.pp \/ ProviderWritten

Steady == Kept /\ job'.cancel = job.cancel
CancelAsked == Kept /\ job'.cancel /\ job.state \in {"queued", "starting", "running", "cancelled"}

Created ==
  /\ job.state = Absent /\ job' = QueuedJob(1)
  /\ callerPc[Starter] = "idle" /\ callerPc'[Starter] # "idle"

Requeued ==
  \E a \in Attempts :
    /\ RetryAdmitted(job, a) /\ job' = QueuedJob(a)
    /\ \E c \in Callers : callerPc[c] = "admitted" /\ callerAttempt[c] = a

Started ==
  /\ KeepsAttempt
  /\ CanTransition(job, "starting")
  /\ job'.state = "starting" /\ job'.cancel = job.cancel
  /\ job'.pid = job.pid /\ job'.pp = job.pp

Committed ==
  /\ CanTransition(job, "running")
  /\ job'.state = "running" /\ job'.attempt = job.attempt /\ job'.cancel = job.cancel
  /\ \E c \in Callers : callerPc[c] = "commit" /\ job'.pid = c /\ job'.lease.owner = c
  /\ job'.pp = job.pp

Ended ==
  /\ KeepsAttempt
  /\ job'.cancel = job.cancel
  /\ \E s \in TERMINAL_STATES :
       /\ CanTransition(job, s) /\ job'.state = coerce_terminal(job, s)
       /\ s = "lost" => snapshot = "current"
  /\ \/ job'.pid = job.pid
     \/ job'.pid = None /\ \E c \in Callers : callerPc[c] \in Aftermath
  /\ job'.pp = job.pp

Collected ==
  /\ Terminal(job) /\ job' = NoJob
  /\ ~provider_launch_unbound(job) /\ ProviderGone(job.pp.pid)

RecordChange ==
  \/ Steady \/ CancelAsked \/ Created \/ Requeued
  \/ Started \/ Committed \/ Ended \/ Collected

(* A step that does not write the record is a Steady one.                  *)
LEMMA SteadyWrite == UNCHANGED job => Steady
BY DEF Steady, Kept, KeepsAttempt

(* The write of `starting` over a record that may take it is a Started one. *)
LEMMA StartedWrite ==
  ASSUME RecordInv, CanTransition(job, "starting"), Write([job EXCEPT !.state = "starting"])
  PROVE  Started
<1>1. job \in Job
  BY ReadableLive DEF CanTransition, LiveJob
<1> QED
  BY <1>1 DEF Started, KeepsAttempt, Write, Job

(* A terminal write that the life cycle allows is an Ended one.            *)
LEMMA EndedWrite ==
  ASSUME RecordInv, NEW s \in TERMINAL_STATES \ {"lost"}, CanTransition(job, s), NEW exit,
         NEW record,
         \/ record = job
         \/ record = [job EXCEPT !.pid = None] /\ \E c \in Callers : callerPc[c] \in Aftermath,
         Write(TerminalRecord(record, s, exit))
  PROVE  Ended
<1>1. job \in LiveJob
  BY ReadableLive DEF CanTransition
<1>2. record \in LiveJob
  BY <1>1, UpdateType
<1>3. /\ record.attempt = job.attempt
      /\ record.lease = job.lease
      /\ record.cancel = job.cancel
      /\ record.pp = job.pp
      /\ \/ record.pid = job.pid
         \/ record.pid = None /\ \E c \in Callers : callerPc[c] \in Aftermath
  BY <1>1 DEF LiveJob, Job
<1>4. coerce_terminal(record, s) = coerce_terminal(job, s)
  BY <1>3 DEF coerce_terminal
<1>5. release_lease(record.lease).owner = job.lease.owner
  BY <1>3 DEF release_lease
<1>6. job' = TerminalRecord(record, s, exit)
  BY DEF Write
<1> QED
  BY <1>2, <1>3, <1>4, <1>5, <1>6, TerminalRecordType DEF Ended, KeepsAttempt

(* The unfenced `failed` stamp of a launcher ends the attempt or does      *)
(* nothing.                                                                *)
LEMMA StampFailedWrite ==
  ASSUME RecordInv, NEW record,
         \/ record = job
         \/ record = [job EXCEPT !.pid = None] /\ \E c \in Callers : callerPc[c] \in Aftermath,
         StampFailed(record)
  PROVE  Ended \/ Steady
BY EndedWrite, SteadyWrite DEF StampFailed, NoWrite, TERMINAL_STATES

(* Every change of the record is one of the eight in RecordChange: these   *)
(* are all the ways the code writes job.json.                              *)
LEMMA RecordChanges ==
  ASSUME TypeInv, Next
  PROVE  RecordChange
<1>1. RecordInv
  BY DEF TypeInv
<1>2. ASSUME NoWrite PROVE RecordChange
  BY <1>2, SteadyWrite DEF NoWrite, RecordChange
<1>3. ASSUME NEW c \in Callers, Caller(c)
      PROVE  RecordChange
  <2>1. CASE StartJob(c)
    BY <2>1 DEF StartJob, Write, CallerTo, TypeInv, CallerInv, Created, RecordChange
  <2>2. CASE PrepareRetry(c)
    <3>1. CASE RetryAdmitted(job, callerAttempt[c]) /\ Write(QueuedJob(callerAttempt[c]))
      <4>1. job \in LiveJob
        BY <1>1, <3>1, ReadableLive DEF RetryAdmitted
      <4>2. callerAttempt[c] \in Attempts
        BY <4>1, <3>1, BudgetAssumption DEF RetryAdmitted, LiveJob, Job, Attempts
      <4>3. callerPc[c] = "admitted"
        BY <2>2 DEF PrepareRetry
      <4> QED
        BY <3>1, <4>2, <4>3 DEF Write, Requeued, RecordChange
    <3> QED
      BY <1>2, <2>2, <3>1 DEF PrepareRetry
  <2>3. CASE MarkStarting(c) \/ EarlyExit(c) \/ Reconcile(c)
    BY <1>1, <1>2, <2>3, StartedWrite, StampFailedWrite
       DEF MarkStarting, EarlyExit, Reconcile, RecordChange, Aftermath
  <2>4. CASE SpawnFailed(c) \/ StampUnlaunched(c)
    BY <1>1, <2>4, StampFailedWrite DEF SpawnFailed, StampUnlaunched, RecordChange, Aftermath
  <2>5. CASE CommitRunning(c)
    <3> DEFINE running == [job EXCEPT !.state = "running", !.pid = c,
                                      !.lease = [attempt |-> callerAttempt[c], owner |-> c,
                                                 active |-> TRUE]]
    <3>1. CASE CanTransition(job, "running") /\ Write(running)
      <4>1. job \in Job
        BY <1>1, <3>1, ReadableLive DEF CanTransition, LiveJob
      <4>2. callerPc[c] = "commit"
        BY <2>5 DEF CommitRunning
      <4>3. Committed
        BY <3>1, <4>1, <4>2 DEF Committed, Write, Job
      <4> QED
        BY <4>3 DEF RecordChange
    <3> QED
      BY <1>2, <2>5, <3>1 DEF CommitRunning
  <2>6. CASE Cleanup(c)
    <3>1. CASE "kill" \in Faults /\ Readable(job) /\ Write([job EXCEPT !.pid = c])
      <4>1. job \in Job
        BY <1>1, <3>1, ReadableLive DEF LiveJob
      <4>2. callerPc[c] = "cleanup"
        BY <2>6 DEF Cleanup
      <4>3. PidWritten
        BY <3>1, <4>1, <4>2 DEF PidWritten, Write, Job
      <4> QED
        BY <3>1, <4>1, <4>3 DEF Steady, Kept, KeepsAttempt, RecordChange, Write, Job
    <3> QED
      BY <1>2, <2>6, <3>1 DEF Cleanup
  <2> QED
    BY <1>2, <1>3, <2>1, <2>2, <2>3, <2>4, <2>5, <2>6 DEF Caller, PreflightRetry, Launch,
       ProbeChild, WriteSpawnIdentity, SpawnIdentityFails, ClearAfterStamp, CallerKilled
<1>4. ASSUME NEW r \in Callers, Runner(r)
      PROVE  RecordChange
  <2>1. ASSUME Write(job) PROVE RecordChange
    BY <2>1, SteadyWrite DEF Write, RecordChange
  <2>2. ASSUME Readable(job), NEW pp, Write([job EXCEPT !.pp = pp]), job'.pp = pp => ProviderWritten
        PROVE  RecordChange
    <3>1. job \in Job
      BY <1>1, <2>2, ReadableLive DEF LiveJob
    <3>2. ProviderWritten
      BY <2>2, <3>1 DEF Write, Job
    <3> QED
      BY <2>2, <3>1, <3>2 DEF Write, Steady, Kept, KeepsAttempt, RecordChange, Job
  <2>3. ASSUME NEW s, Write([job EXCEPT !.pp.state = s])
        PROVE  Write([job EXCEPT !.pp = [job.pp EXCEPT !.state = s]])
    BY <2>3
  <2>4. CASE Admit(r) \/ Heartbeat(r)
    BY <1>2, <2>1, <2>4 DEF Admit, Heartbeat
  <2>5. CASE EnterAdapter(r)
    <3>1. CASE MayLaunch(r) /\ Write([job EXCEPT !.pp.state = "launching"])
      <4> DEFINE pp == [job.pp EXCEPT !.state = "launching"]
      <4>1. Write([job EXCEPT !.pp = pp])
        BY <2>3, <3>1
      <4>2. job'.pp = pp => ProviderWritten
        BY <2>5, <3>1 DEF EnterAdapter, ProviderWritten
      <4>3. Readable(job)
        BY <3>1 DEF MayLaunch, Fenced, OwnerFence
      <4> QED
        BY <2>2, <4>1, <4>2, <4>3
    <3> QED
      BY <1>2, <2>5, <3>1 DEF EnterAdapter
  <2>6. CASE BindProvider(r)
    <3>1. CASE /\ MayLaunch(r) /\ Write([job EXCEPT !.pp = [state |-> "bound", pid |-> r]])
               /\ RunnerTo(r, "running")
      <4>1. runnerPc[r] = "spawned" /\ runnerPc'[r] = "running"
        BY <2>6, <3>1 DEF BindProvider, RunnerTo, TypeInv, RunnerInv
      <4>2. job'.pp = [state |-> "bound", pid |-> r] => ProviderWritten
        BY <4>1 DEF ProviderWritten
      <4>3. Readable(job)
        BY <3>1 DEF MayLaunch, Fenced, OwnerFence
      <4> QED
        BY <2>2, <3>1, <4>2, <4>3
    <3> QED
      BY <1>2, <2>6, <3>1 DEF BindProvider
  <2>7. CASE MarkExited(r)
    <3>1. CASE Readable(job) /\ job.pp.state # "pending" /\ Write([job EXCEPT !.pp.state = "exited"])
      <4> DEFINE pp == [job.pp EXCEPT !.state = "exited"]
      <4>1. Write([job EXCEPT !.pp = pp])
        BY <2>3, <3>1
      <4>2. job'.pp = pp => ProviderWritten
        BY <2>7, <3>1 DEF MarkExited, ProviderWritten
      <4> QED
        BY <2>2, <3>1, <4>1, <4>2
    <3> QED
      BY <1>2, <2>7, <3>1 DEF MarkExited
  <2>8. CASE StampTerminal(r)
    <3>1. CASE Fenced(r)
      <4> DEFINE s == _map_terminal_state(outcome[r])
      <4>1. s \in TERMINAL_STATES \ {"lost"}
        BY DEF _map_terminal_state, TERMINAL_STATES
      <4>2. CanTransition(job, s)
        BY <3>1 DEF Fenced, OwnerFence, CanTransition, coerce_terminal, LEGAL_TRANSITIONS,
           _map_terminal_state, TERMINAL_STATES, JobState
      <4>3. Write(TerminalRecord(job, s, outcome[r]))
        BY <2>8, <3>1 DEF StampTerminal
      <4> QED
        BY <1>1, <4>1, <4>2, <4>3, EndedWrite DEF RecordChange
    <3> QED
      BY <1>2, <2>8, <3>1 DEF StampTerminal
  <2> QED
    BY <1>2, <1>4, <2>4, <2>5, <2>6, <2>7, <2>8 DEF Runner, BarrierPass, BarrierAbort,
       SpawnProvider, AdapterReturns, RunnerExits, RunnerKilled, ProviderExits
<1>5. CASE Canceller
  <2>1. CASE CancelRequest
    <3>1. job \in Job
      BY <1>1, <2>1, ReadableLive DEF CancelRequest, LiveJob
    <3>2. CASE Write([job EXCEPT !.cancel = TRUE])
      BY <2>1, <3>1, <3>2 DEF CancelRequest, Write, CancelAsked, Kept, KeepsAttempt, RecordChange,
         Job
    <3> QED
      BY <1>2, <2>1, <3>2 DEF CancelRequest
  <2>2. CASE CancelStamp
    BY <1>1, <1>2, <2>2, StartedWrite, EndedWrite DEF CancelStamp, RecordChange, TERMINAL_STATES
  <2> QED
    BY <1>2, <1>5, <2>1, <2>2 DEF Canceller, CancelSignal, CancelForceInner, CancelForceOuter,
       CancelReread, CancelClear, CancellerKilled
<1>6. CASE Operator
  <2>1. CASE RecoverObserve
    BY <2>1, SteadyWrite DEF RecoverObserve, RecordChange
  <2>2. CASE RecoverCommit
    <3>1. CASE snapshot = "current"
      <4>1. CanTransition(job, "lost")
        BY <1>1, <3>1 DEF RecordInv, CanTransition, coerce_terminal, LEGAL_TRANSITIONS, JobState,
           TERMINAL_STATES
      <4>2. job \in LiveJob /\ coerce_terminal(job, "lost") = "lost"
        BY <4>1, <1>1, ReadableLive DEF CanTransition, coerce_terminal
      <4>3. job' = TerminalRecord(job, "lost", "lease_lost")
        BY <2>2, <3>1 DEF RecoverCommit
      <4>4. "lost" \in TERMINAL_STATES
        BY DEF TERMINAL_STATES
      <4>5. /\ job'.state = "lost" /\ job'.attempt = job.attempt /\ job'.cancel = job.cancel
            /\ job'.lease = release_lease(job.lease)
            /\ job'.pid = job.pid /\ job'.pp = job.pp
        BY <4>2, <4>3, <4>4, TerminalRecordType
      <4> QED
        BY <3>1, <4>1, <4>2, <4>4, <4>5 DEF Ended, KeepsAttempt, release_lease, RecordChange
    <3> QED
      BY <2>2, <3>1, SteadyWrite DEF RecoverCommit, RecordChange
  <2>3. CASE Collect
    BY <2>3 DEF Collect, IdentitiesGone, Write, Collected, RecordChange
  <2> QED
    BY <1>6, <2>1, <2>2, <2>3 DEF Operator
<1> QED
  BY <1>3, <1>4, <1>5, <1>6 DEF Next

-----------------------------------------------------------------------------
(*                               cancellation                              *)

(* A change of the record keeps the request of a cancel, coerces the state *)
(* that it stamps, or starts another attempt.                              *)
LEMMA CancelSticksStep ==
  ASSUME TypeInv, CancelSticks, [Next]_vars
  PROVE  CancelSticks'
<1>1. CASE UNCHANGED vars
  BY <1>1 DEF CancelSticks, vars
<1>2. CASE Next
  <2>1. RecordChange
    BY <1>2, RecordChanges
  <2>2. CASE Steady \/ CancelAsked
    BY <2>2 DEF Steady, CancelAsked, Kept, CancelSticks
  <2>3. CASE Created \/ Requeued \/ Collected
    BY <2>3 DEF Created, Requeued, Collected, QueuedJob, NoJob, NewJob, CancelSticks
  <2>4. CASE Started \/ Committed
    BY <2>4 DEF Started, Committed, CancelSticks
  <2>5. CASE Ended
    BY <2>5 DEF Ended, coerce_terminal, CancelSticks
  <2> QED
    BY <2>1, <2>2, <2>3, <2>4, <2>5 DEF RecordChange
<1> QED
  BY <1>1, <1>2

(* For any callers, commands and faults: once a cancel request is          *)
(* persisted, no writer of the record makes the attempt a success or a     *)
(* failure, because each of them coerces the state it stamps.              *)
THEOREM CancelAlwaysSticks == Spec => []CancelSticks
<1>1. Init => CancelSticks
  BY DEF Init, NoJob, NewJob, CancelSticks
<1>2. TypeInv /\ CancelSticks /\ [Next]_vars => CancelSticks'
  BY CancelSticksStep
<1> QED
  BY <1>1, <1>2, TypeInvariant, PTL DEF Spec

-----------------------------------------------------------------------------
(*                what a step does to a runner and a caller                *)

(* The steps of Next, as a runner and its provider see them.               *)
Still(r) ==
  runnerPc'[r] = runnerPc[r] /\ provider'[r] \in {provider[r], "gone"}

Forked(r) ==
  callerPc[r] = "launch" /\ runnerPc'[r] = "barrier" /\ provider'[r] = provider[r]

Left(r) ==
  /\ provider'[r] = provider[r]
  /\ \/ runnerPc'[r] = "gone"
     \/ runnerPc'[r] = "exiting" /\ runnerPc[r] \in {"barrier", "admit", "stamp"}

Advanced(r) ==
  /\ provider'[r] = provider[r]
  /\ \/ /\ runnerPc[r] \in {"admit", "adapter", "launching", "returned"}
        /\ runnerPc'[r] \in {"adapter", "returned", "stamp"}
     \/ runnerPc[r] = "adapter" /\ runnerPc'[r] = "running" /\ ~BindInner

Announced(r) ==
  /\ runnerPc[r] = "adapter" /\ runnerPc'[r] = "launching" /\ provider'[r] = provider[r]
  /\ BindInner /\ MayLaunch(r)
  /\ job' = [job EXCEPT !.pp.state = "launching"] /\ snapshot' # "current"

Spawned(r) ==
  /\ runnerPc[r] = "launching" /\ runnerPc'[r] = "spawned" /\ provider'[r] = "live"
  /\ NoWrite

Bound(r) ==
  /\ runnerPc[r] = "spawned" /\ runnerPc'[r] = "running" /\ provider'[r] = provider[r]
  /\ MayLaunch(r)
  /\ job' = [job EXCEPT !.pp = [state |-> "bound", pid |-> r]]

Returned(r) ==
  /\ runnerPc[r] \in {"spawned", "running"} /\ runnerPc'[r] = "returned"
  /\ \/ provider'[r] = "gone"
     \/ runnerPc[r] = "running" /\ ~BindInner /\ provider'[r] = provider[r]
  /\ NoWrite

RunnerMove(r) ==
  \/ BarrierPass(r)
  \/ /\ runnerAttempt'[r] = runnerAttempt[r]
     /\ \/ Still(r) \/ Forked(r) \/ Left(r) \/ Advanced(r) \/ Announced(r)
        \/ Spawned(r) \/ Bound(r) \/ Returned(r)

(* Whatever a step does to a runner is one of the moves above.             *)
LEMMA RunnerMoves ==
  ASSUME TypeInv, Next
  PROVE  \A r \in Callers : RunnerMove(r)
<1> SUFFICES ASSUME NEW r \in Callers PROVE RunnerMove(r)
  OBVIOUS
<1>0. /\ runnerPc \in [Callers -> RunnerPc]
      /\ runnerAttempt \in [Callers -> Attempts \cup {0}]
      /\ provider \in [Callers -> {"none", "live", "gone"}]
  BY DEF TypeInv, RunnerInv
<1>1. ASSUME UNCHANGED <<runnerPc, runnerAttempt, provider>>
      PROVE  RunnerMove(r)
  BY <1>1 DEF RunnerMove, Still
<1>2. ASSUME UNCHANGED <<runnerAttempt, provider>>, NEW q \in Callers, RunnerTo(q, "gone")
      PROVE  RunnerMove(r)
  BY <1>0, <1>2 DEF RunnerMove, Still, Left, RunnerTo
<1>3. ASSUME NEW c \in Callers, Caller(c)
      PROVE  RunnerMove(r)
  <2>1. CASE Launch(c)
    BY <1>0, <2>1 DEF Launch, RunnerTo, RunnerMove, Still, Forked
  <2>2. CASE SpawnIdentityFails(c) \/ Cleanup(c)
    BY <1>1, <1>2, <2>2 DEF SpawnIdentityFails, Cleanup
  <2> QED
    BY <1>1, <1>3, <2>1, <2>2 DEF Caller, StartJob, PreflightRetry, PrepareRetry, MarkStarting,
       SpawnFailed, ProbeChild, EarlyExit, WriteSpawnIdentity, CommitRunning, Reconcile,
       StampUnlaunched, ClearAfterStamp, CallerKilled, runnerVars
<1>4. ASSUME NEW q \in Callers, Runner(q)
      PROVE  RunnerMove(r)
  <2> USE DEF RunnerTo
  <2>1. CASE q # r
    <3>1. /\ runnerPc'[r] = runnerPc[r] /\ provider'[r] = provider[r]
          /\ runnerAttempt'[r] = runnerAttempt[r]
      BY <1>0, <1>4, <2>1 DEF Runner, BarrierPass, BarrierAbort, Admit, Heartbeat, EnterAdapter,
         SpawnProvider, BindProvider, AdapterReturns, MarkExited, StampTerminal, RunnerExits,
         RunnerKilled, ProviderExits, ReturnWith, runnerVars
    <3> QED
      BY <3>1 DEF RunnerMove, Still
  <2>2. CASE q = r
    <3>1. Runner(r)
      BY <1>4, <2>2
    <3>2. CASE BarrierPass(r)
      BY <3>2 DEF RunnerMove
    <3>3. CASE BarrierAbort(r) \/ RunnerExits(r) \/ RunnerKilled(r)
      BY <1>0, <3>3 DEF BarrierAbort, RunnerExits, RunnerKilled, RunnerMove, Left
    <3>4. CASE Admit(r)
      BY <1>0, <3>4 DEF Admit, RunnerMove, Left, Advanced
    <3>5. CASE Heartbeat(r)
      BY <1>1, <3>5 DEF Heartbeat, runnerVars
    <3>6. CASE EnterAdapter(r)
      <4>1. CASE MayLaunch(r) /\ Write([job EXCEPT !.pp.state = "launching"])
                 /\ RunnerTo(r, "launching") /\ BindInner
        BY <1>0, <3>6, <4>1 DEF EnterAdapter, RunnerMove, Announced, Write
      <4> QED
        BY <1>0, <3>6, <4>1 DEF EnterAdapter, RunnerMove, Advanced, ReturnWith
    <3>7. CASE SpawnProvider(r)
      BY <1>0, <3>7 DEF SpawnProvider, RunnerMove, Advanced, Spawned, ReturnWith
    <3>8. CASE BindProvider(r)
      BY <1>0, <3>8 DEF BindProvider, RunnerMove, Bound, Returned, ReturnWith, Write
    <3>9. CASE AdapterReturns(r)
      BY <1>0, <3>9 DEF AdapterReturns, RunnerMove, Returned, ReturnWith
    <3>10. CASE MarkExited(r) \/ StampTerminal(r)
      BY <1>0, <3>10 DEF MarkExited, StampTerminal, RunnerMove, Advanced, Left
    <3>11. CASE ProviderExits(r)
      BY <1>0, <3>11 DEF ProviderExits, RunnerMove, Still, runnerVars
    <3> QED
      BY <3>1, <3>2, <3>3, <3>4, <3>5, <3>6, <3>7, <3>8, <3>9, <3>10, <3>11 DEF Runner
  <2> QED
    BY <2>1, <2>2
<1>5. CASE Canceller
  <2>0. target.runner \in Callers \cup {None} /\ target.provider \in Callers \cup {None}
    BY DEF TypeInv, OperatorInv
  <2>1. CASE CancelSignal
    BY <1>1, <1>2, <2>0, <2>1 DEF CancelSignal
  <2>2. CASE CancelForceInner
    BY <1>0, <2>0, <2>2 DEF CancelForceInner, RunnerMove, Still, runnerVars
  <2>3. CASE CancelForceOuter
    BY <1>1, <1>2, <2>0, <2>3 DEF CancelForceOuter, RunnerGone
  <2> QED
    BY <1>1, <1>5, <2>1, <2>2, <2>3 DEF Canceller, CancelRequest, CancelReread, CancelStamp,
       CancelClear, CancellerKilled, runnerVars
<1>6. CASE Operator
  BY <1>1, <1>6 DEF Operator, RecoverObserve, RecoverCommit, Collect, runnerVars
<1> QED
  BY <1>3, <1>4, <1>5, <1>6 DEF Next

(* A runner is admitted, once, by the barrier; nothing else touches the    *)
(* attempt it holds.                                                       *)
LEMMA AdmissionStep ==
  ASSUME Next
  PROVE  \/ UNCHANGED runnerAttempt
         \/ \E r \in Callers : BarrierPass(r)
<1>1. ASSUME NEW c \in Callers, Caller(c)
      PROVE  UNCHANGED runnerAttempt
  BY <1>1 DEF Caller, StartJob, PreflightRetry, PrepareRetry, MarkStarting, Launch, SpawnFailed,
     ProbeChild, EarlyExit, WriteSpawnIdentity, SpawnIdentityFails, CommitRunning, Cleanup,
     Reconcile, StampUnlaunched, ClearAfterStamp, CallerKilled, runnerVars
<1>2. ASSUME NEW r \in Callers, Runner(r), ~BarrierPass(r)
      PROVE  UNCHANGED runnerAttempt
  BY <1>2 DEF Runner, BarrierAbort, Admit, Heartbeat, EnterAdapter, SpawnProvider, BindProvider,
     AdapterReturns, MarkExited, StampTerminal, RunnerExits, RunnerKilled, ProviderExits,
     runnerVars
<1>3. ASSUME Canceller \/ Operator
      PROVE  UNCHANGED runnerAttempt
  BY <1>3 DEF Canceller, CancelRequest, CancelSignal, CancelForceInner, CancelForceOuter,
     CancelReread, CancelStamp, CancelClear, CancellerKilled, Operator, RecoverObserve,
     RecoverCommit, Collect, runnerVars
<1> QED
  BY <1>1, <1>2, <1>3 DEF Next

(* A step leaves a caller where it is, unless it is one of that caller.    *)
LEMMA CallerMoves ==
  ASSUME TypeInv, Next
  PROVE  \A c \in Callers :
           \/ callerPc'[c] = callerPc[c] /\ callerAttempt'[c] = callerAttempt[c]
           \/ Caller(c)
<1>0. /\ callerPc \in [Callers -> CallerPc]
      /\ callerAttempt \in [Callers -> Attempts \cup {0}]
  BY DEF TypeInv, CallerInv
<1>1. ASSUME NEW c \in Callers, NEW d \in Callers, Caller(d), c # d
      PROVE  callerPc'[c] = callerPc[c] /\ callerAttempt'[c] = callerAttempt[c]
  BY <1>0, <1>1 DEF Caller, StartJob, PreflightRetry, PrepareRetry, MarkStarting, Launch,
     SpawnFailed, ProbeChild, EarlyExit, WriteSpawnIdentity, SpawnIdentityFails, CommitRunning,
     Cleanup, Reconcile, StampUnlaunched, ClearAfterStamp, CallerKilled, CallerTo
<1>2. ASSUME \/ \E r \in Callers : Runner(r)
             \/ Canceller \/ Operator
      PROVE  UNCHANGED <<callerPc, callerAttempt>>
  BY <1>2 DEF Runner, BarrierPass, BarrierAbort, Admit, Heartbeat, EnterAdapter, SpawnProvider,
     BindProvider, AdapterReturns, MarkExited, StampTerminal, RunnerExits, RunnerKilled,
     ProviderExits, Canceller, CancelRequest, CancelSignal, CancelForceInner, CancelForceOuter,
     CancelReread, CancelStamp, CancelClear, CancellerKilled, Operator, RecoverObserve,
     RecoverCommit, Collect, callerVars
<1> QED
  BY <1>1, <1>2 DEF Next

(* The start command is given once.                                        *)
LEMMA StarterStep ==
  ASSUME TypeInv, Next
  PROVE  callerPc[Starter] # "idle" => callerPc'[Starter] # "idle"
BY CallerMoves, StarterAssumption DEF TypeInv, CallerInv, Caller, StartJob, PreflightRetry,
   PrepareRetry, MarkStarting, Launch, SpawnFailed, ProbeChild, EarlyExit, WriteSpawnIdentity,
   SpawnIdentityFails, CommitRunning, Cleanup, Reconcile, StampUnlaunched, ClearAfterStamp,
   CallerKilled, CallerTo

-----------------------------------------------------------------------------
(*                            the first attempt                            *)

(* A caller spawns its runner once, and a runner that waits at the barrier *)
(* has not been admitted to anything.                                      *)
FreshInv ==
  \A c \in Callers :
    /\ callerPc[c] \in {"idle", "admitted", "queued", "launch", "spawnFailed"} =>
         runnerPc[c] = "none"
    /\ runnerPc[c] \in {"none", "barrier"} => runnerAttempt[c] = 0

(* Every step keeps a runner that has not passed the barrier without an    *)
(* attempt.                                                                *)
LEMMA FreshStep ==
  ASSUME TypeInv, FreshInv, Next
  PROVE  FreshInv'
<1>0. /\ callerPc \in [Callers -> CallerPc]
      /\ runnerPc \in [Callers -> RunnerPc]
      /\ runnerAttempt \in [Callers -> Attempts \cup {0}]
  BY DEF TypeInv, CallerInv, RunnerInv
<1> USE DEF FreshInv, CallerTo, RunnerTo
<1>1. ASSUME NEW c \in Callers, Caller(c)
      PROVE  FreshInv'
  <2>1. CASE Launch(c)
    BY <1>0, <2>1 DEF Launch
  <2>2. CASE SpawnIdentityFails(c) \/ Cleanup(c)
    BY <1>0, <2>2 DEF SpawnIdentityFails, Cleanup
  <2>3. CASE StartJob(c) \/ PreflightRetry(c) \/ PrepareRetry(c) \/ MarkStarting(c)
    BY <1>0, <2>3 DEF StartJob, PreflightRetry, PrepareRetry, MarkStarting, runnerVars
  <2>4. CASE \/ SpawnFailed(c) \/ ProbeChild(c) \/ EarlyExit(c) \/ WriteSpawnIdentity(c)
             \/ CommitRunning(c) \/ Reconcile(c) \/ StampUnlaunched(c) \/ ClearAfterStamp(c)
             \/ CallerKilled(c)
    BY <1>0, <2>4 DEF SpawnFailed, ProbeChild, EarlyExit, WriteSpawnIdentity, CommitRunning,
       Reconcile, StampUnlaunched, ClearAfterStamp, CallerKilled, runnerVars
  <2> QED
    BY <1>1, <2>1, <2>2, <2>3, <2>4 DEF Caller
<1>2. ASSUME NEW r \in Callers, Runner(r)
      PROVE  FreshInv'
  <2>1. CASE BarrierPass(r)
    BY <1>0, <2>1 DEF BarrierPass, callerVars
  <2>2. CASE \/ BarrierAbort(r) \/ Admit(r) \/ MarkExited(r) \/ StampTerminal(r)
             \/ RunnerExits(r) \/ RunnerKilled(r)
    BY <1>0, <2>2 DEF BarrierAbort, Admit, MarkExited, StampTerminal, RunnerExits, RunnerKilled,
       RunnerAlive, callerVars
  <2>3. CASE EnterAdapter(r) \/ SpawnProvider(r) \/ BindProvider(r) \/ AdapterReturns(r)
    BY <1>0, <2>3 DEF EnterAdapter, SpawnProvider, BindProvider, AdapterReturns, ReturnWith,
       callerVars
  <2>4. CASE Heartbeat(r) \/ ProviderExits(r)
    BY <2>4 DEF Heartbeat, ProviderExits, callerVars, runnerVars
  <2> QED
    BY <1>2, <2>1, <2>2, <2>3, <2>4 DEF Runner
<1>3. CASE Canceller
  <2>1. CASE CancelSignal
    BY <1>0, <2>1 DEF CancelSignal, RunnerGone, RunnerAlive, callerVars
  <2>2. CASE CancelForceOuter
    BY <1>0, <2>2 DEF CancelForceOuter, RunnerGone, RunnerAlive, callerVars
  <2>3. CASE CancelRequest \/ CancelForceInner \/ CancelReread \/ CancelStamp
             \/ CancelClear \/ CancellerKilled
    BY <2>3 DEF CancelRequest, CancelForceInner, CancelReread, CancelStamp, CancelClear,
       CancellerKilled, callerVars, runnerVars
  <2> QED
    BY <1>3, <2>1, <2>2, <2>3 DEF Canceller
<1>4. CASE Operator
  BY <1>4 DEF Operator, RecoverObserve, RecoverCommit, Collect, callerVars, runnerVars
<1> QED
  BY <1>1, <1>2, <1>3, <1>4 DEF Next

(* Nobody comes before the start command, and until an attempt is retried  *)
(* only its launcher launches.  A launcher past its child has none alive.  *)
Waiting == {"idle", "admitted", "failed", "killed"}

FirstInv ==
  /\ callerPc[Starter] = "idle" => job.state = Absent /\ \A c \in Callers : callerPc[c] = "idle"
  /\ \A c \in Callers : callerPc[c] \in Aftermath => ~RunnerAlive(c)
  /\ job.state # Absent /\ job.attempt = 1 =>
       /\ \A c \in Callers \ {Starter} : callerPc[c] \in Waiting
       /\ job.lease.owner \in {None, Starter}
       /\ runnerAttempt[Starter] = 1 /\ RunnerAlive(Starter) => job.pid = Starter

(* A runner that is alive and admitted after a step was so before it, or   *)
(* has just passed the barrier.                                            *)
LEMMA AliveStep ==
  ASSUME TypeInv, FreshInv, Next
  PROVE  \A r \in Callers :
           RunnerAlive(r)' /\ runnerAttempt'[r] # 0 =>
             \/ BarrierPass(r)
             \/ RunnerAlive(r) /\ runnerAttempt'[r] = runnerAttempt[r]
BY RunnerMoves DEF FreshInv, RunnerMove, Still, Forked, Left, Advanced, Announced, Spawned, Bound,
   Returned, RunnerAlive

(* A caller that has nothing in hand gets something to launch by a retry   *)
(* of its own alone.                                                       *)
LEMMA WaitingStep ==
  ASSUME TypeInv, Next
  PROVE  \A c \in Callers \ {Starter} :
           callerPc[c] \in Waiting =>
             \/ callerPc'[c] \in Waiting
             \/ \E a \in Attempts : RetryAdmitted(job, a) /\ job' = QueuedJob(a)
<1> SUFFICES ASSUME NEW c \in Callers \ {Starter}, callerPc[c] \in Waiting
             PROVE  \/ callerPc'[c] \in Waiting
                    \/ \E a \in Attempts : RetryAdmitted(job, a) /\ job' = QueuedJob(a)
  OBVIOUS
<1> USE DEF Waiting, CallerTo
<1>0. callerPc \in [Callers -> CallerPc]
  BY DEF TypeInv, CallerInv
<1>1. CASE PrepareRetry(c)
  <2>1. CASE RetryAdmitted(job, callerAttempt[c]) /\ Write(QueuedJob(callerAttempt[c]))
    <3>1. job \in LiveJob
      BY <2>1, ReadableLive DEF RetryAdmitted, TypeInv
    <3>2. callerAttempt[c] \in Attempts
      BY <2>1, <3>1, BudgetAssumption DEF RetryAdmitted, LiveJob, Job, Attempts
    <3> QED
      BY <2>1, <3>2 DEF Write
  <2> QED
    BY <1>0, <1>1, <2>1 DEF PrepareRetry
<1>2. CASE PreflightRetry(c) \/ CallerKilled(c)
  BY <1>0, <1>2 DEF PreflightRetry, CallerKilled
<1> QED
  BY <1>1, <1>2, CallerMoves DEF Caller, StartJob, MarkStarting, Launch, SpawnFailed, ProbeChild,
     EarlyExit, WriteSpawnIdentity, SpawnIdentityFails, CommitRunning, Cleanup, Reconcile,
     StampUnlaunched, ClearAfterStamp

(* A launcher is past its child only when that is not there, or gone.      *)
LEMMA AftermathStep ==
  ASSUME TypeInv, FreshInv, FirstInv, Next
  PROVE  \A c \in Callers : callerPc'[c] \in Aftermath => ~RunnerAlive(c)'
<1>0. /\ callerPc \in [Callers -> CallerPc]
      /\ runnerPc \in [Callers -> RunnerPc]
  BY DEF TypeInv, CallerInv, RunnerInv
<1> SUFFICES ASSUME NEW c \in Callers, callerPc'[c] \in Aftermath
             PROVE  ~RunnerAlive(c)'
  OBVIOUS
<1> USE DEF Aftermath, RunnerAlive
<1>1. CASE callerPc[c] \in Aftermath
  <2>1. ~RunnerAlive(c)
    BY <1>1 DEF FirstInv
  <2> QED
    BY <1>1, <2>1, RunnerMoves DEF RunnerMove, BarrierPass, Still, Forked, Left, Advanced,
       Announced, Spawned, Bound, Returned
<1>2. CASE callerPc[c] \notin Aftermath
  <2> USE DEF CallerTo, RunnerTo
  <2>1. Caller(c)
    BY <1>2, CallerMoves
  <2>2. CASE Launch(c)
    BY <1>0, <2>2 DEF Launch, FreshInv
  <2>3. CASE ProbeChild(c)
    BY <1>0, <2>3 DEF ProbeChild, runnerVars
  <2>4. CASE SpawnIdentityFails(c) \/ Cleanup(c)
    BY <1>0, <2>4 DEF SpawnIdentityFails, Cleanup
  <2> QED
    BY <1>0, <1>2, <2>1, <2>2, <2>3, <2>4 DEF Caller, StartJob, PreflightRetry, PrepareRetry,
       MarkStarting, SpawnFailed, EarlyExit, WriteSpawnIdentity, CommitRunning, Reconcile,
       StampUnlaunched, ClearAfterStamp, CallerKilled
<1> QED
  BY <1>1, <1>2

(* Before the start command there is no job, and nothing acts on it.       *)
LEMMA BeforeStep ==
  ASSUME TypeInv, FirstInv, Next, callerPc'[Starter] = "idle"
  PROVE  job'.state = Absent /\ \A c \in Callers : callerPc'[c] = "idle"
<1>1. callerPc[Starter] = "idle" /\ job.state = Absent /\ \A c \in Callers : callerPc[c] = "idle"
  BY StarterStep DEF FirstInv
<1>2. RecordChange
  BY RecordChanges
<1>3. ~Readable(job) /\ ~Terminal(job)
  BY <1>1 DEF Readable, Terminal, TERMINAL_STATES, Absent
<1>4. job'.state = Absent
  BY <1>1, <1>2, <1>3 DEF RecordChange, Steady, CancelAsked, Kept, Created, Requeued, RetryAdmitted,
     Started, Committed, Ended, CanTransition, Collected, Absent
<1>5. ASSUME NEW c \in Callers PROVE ~Caller(c)
  BY <1>1, <1>3, StarterAssumption DEF TypeInv, CallerInv, CallerTo, Caller, StartJob, PreflightRetry, RetryAdmitted, PrepareRetry, MarkStarting,
     Launch, SpawnFailed, ProbeChild, EarlyExit, WriteSpawnIdentity, SpawnIdentityFails,
     CommitRunning, Cleanup, Reconcile, StampUnlaunched, ClearAfterStamp, CallerKilled
<1>6. \A c \in Callers : callerPc'[c] = "idle"
  BY <1>1, <1>5, CallerMoves
<1> QED
  BY <1>1, <1>4, <1>6

(* Every step keeps the first attempt with the launcher that started it.   *)
LEMMA FirstStep ==
  ASSUME TypeInv, FreshInv, FirstInv, Next
  PROVE  FirstInv'
<1>1. RecordChange
  BY RecordChanges
<1> DEFINE First ==
      /\ \A c \in Callers \ {Starter} : callerPc[c] \in Waiting
      /\ job.lease.owner \in {None, Starter}
      /\ runnerAttempt[Starter] = 1 /\ RunnerAlive(Starter) => job.pid = Starter
<1>2. ASSUME job'.state # Absent, job'.attempt = 1
      PROVE  First'
  <2> USE StarterAssumption, BudgetAssumption
  <2>1. job.state # Absent => job \in LiveJob /\ job.attempt \in Nat \ {0}
    BY DEF TypeInv, RecordInv, NoJob, NewJob, LiveJob, Job, Attempts
  <2>2. ~\E a \in Attempts : RetryAdmitted(job, a) /\ job' = QueuedJob(a)
    BY <1>2, <2>1 DEF RetryAdmitted, Readable, QueuedJob, NewJob
  <2>3. \A c \in Callers \ {Starter} : callerPc[c] \in Waiting => callerPc'[c] \in Waiting
    BY <2>2, WaitingStep
  <2>4. CASE job.state # Absent /\ job.attempt = 1
    <3>1. First
      BY <2>4 DEF FirstInv
    <3>2. \A c \in Callers : callerPc[c] \in {"cleanup", "commit"} \cup Aftermath => c = Starter
      BY <3>1 DEF Waiting, Aftermath
    <3>3. /\ job'.lease.owner \in {job.lease.owner, Starter, None}
          /\ \/ job'.pid \in {job.pid, Starter}
             \/ callerPc[Starter] \in Aftermath
      <4>1. CASE Steady \/ CancelAsked
        BY <3>2, <4>1 DEF Steady, CancelAsked, Kept, KeepsAttempt, PidWritten
      <4>2. CASE Started
        BY <4>2 DEF Started, KeepsAttempt
      <4>3. CASE Committed
        BY <3>2, <4>3 DEF Committed
      <4>4. CASE Ended
        BY <3>2, <4>4 DEF Ended, KeepsAttempt
      <4>5. ~Created /\ ~Requeued /\ ~Collected
        BY <1>2, <2>2, <2>4 DEF Created, Requeued, Collected, NoJob, NewJob
      <4> QED
        BY <1>1, <4>1, <4>2, <4>3, <4>4, <4>5 DEF RecordChange
    <3>4. ASSUME runnerAttempt'[Starter] = 1, RunnerAlive(Starter)'
          PROVE  job'.pid = Starter
      <4>1. CASE BarrierPass(Starter)
        BY <4>1 DEF BarrierPass, NoWrite
      <4>2. CASE RunnerAlive(Starter) /\ runnerAttempt[Starter] = 1
        <5>1. callerPc[Starter] \notin Aftermath
          BY <4>2 DEF FirstInv
        <5> QED
          BY <3>1, <3>3, <4>2, <5>1
      <4> QED
        BY <3>4, <4>1, <4>2, AliveStep
    <3> QED
      BY <2>3, <3>1, <3>3, <3>4
  <2>5. CASE Created
    <3>1. /\ \A c \in Callers : callerPc[c] = "idle"
          /\ job' = QueuedJob(1) /\ job.state = Absent
      BY <2>5 DEF Created, FirstInv
    <3>2. \A c \in Callers \ {Starter} : callerPc'[c] \in Waiting
      BY <2>3, <3>1 DEF Waiting
    <3>3. runnerPc[Starter] = "none" /\ ~BarrierPass(Starter)
      BY <3>1 DEF FreshInv, BarrierPass
    <3>4. ~(runnerAttempt'[Starter] = 1 /\ RunnerAlive(Starter)')
      BY <3>3, AliveStep DEF RunnerAlive
    <3>5. job'.lease.owner = None
      BY <3>1 DEF QueuedJob, NewJob, NoLease
    <3> QED
      BY <3>2, <3>4, <3>5
  <2>6. job.state = Absent => Created
    BY <1>1, <1>2, <2>2 DEF RecordChange, Steady, CancelAsked, Kept, Requeued, Started, Committed,
       Ended, CanTransition, Readable, Collected, NoJob, NewJob
  <2>7. job.state # Absent => job.attempt = 1
    BY <1>1, <1>2, <2>2 DEF RecordChange, Steady, CancelAsked, Kept, KeepsAttempt, Created,
       Requeued, Started, Committed, Ended, Collected, NoJob, NewJob
  <2> QED
    BY <2>4, <2>5, <2>6, <2>7
<1>3. /\ callerPc'[Starter] = "idle" =>
            job'.state = Absent /\ \A c \in Callers : callerPc'[c] = "idle"
      /\ \A c \in Callers : callerPc'[c] \in Aftermath => ~RunnerAlive(c)'
  BY BeforeStep, AftermathStep
<1> QED
  BY <1>2, <1>3 DEF FirstInv

-----------------------------------------------------------------------------
(*                       one owner for each attempt                        *)

(* OneOwnerPerAttempt, made inductive.  The pid that the barrier compares  *)
(* is that of the lease's owner; the owner outlives the run in the         *)
(* released lease, and no earlier attempt comes back.                      *)
OwnerInv ==
  /\ job.state = "running" => job.lease.owner = job.pid /\ job.pid \in Callers
  /\ \A r \in Callers : runnerAttempt[r] # 0 /\ job.state # Absent =>
       /\ runnerAttempt[r] <= job.attempt
       /\ runnerAttempt[r] = job.attempt =>
            job.state \in {"running"} \cup TERMINAL_STATES /\ job.lease.owner = r
  /\ OneOwnerPerAttempt

(* The pid of the running attempt stays that of its owner: a child that is *)
(* not seen to go is written over it in the only attempt alone, by the     *)
(* owner itself.                                                           *)
LEMMA PidKept ==
  ASSUME "kill" \notin Faults \/ Budget = 1, TypeInv, FirstInv, OwnerInv,
         Kept, job.state = "running"
  PROVE  job'.pid = job.pid
<1>1. CASE PidWritten
  <2>1. PICK c \in Callers : callerPc[c] = "cleanup" /\ job'.pid = c
    BY <1>1 DEF PidWritten
  <2>2. job.state # Absent /\ job.attempt = 1
    BY <1>1 DEF PidWritten, TypeInv, RecordInv, NoJob, NewJob, LiveJob, Job, Attempts, Absent
  <2>3. c = Starter /\ job.lease.owner \in {None, Starter}
    BY <2>1, <2>2 DEF FirstInv, Waiting
  <2>4. job.pid = Starter
    BY <2>3, NoneAssumption DEF OwnerInv
  <2> QED
    BY <2>1, <2>3, <2>4
<1> QED
  BY <1>1 DEF Kept

(* Every step keeps the attempts of the runners apart: the one admitted at *)
(* the barrier holds the pid that the record names.                        *)
LEMMA OwnerStep ==
  ASSUME "kill" \notin Faults \/ Budget = 1, TypeInv, FreshInv, FirstInv, OwnerInv, Next
  PROVE  OwnerInv'
<1>1. /\ RecordChange
      /\ callerPc[Starter] # "idle" => callerPc'[Starter] # "idle"
  BY RecordChanges, StarterStep
<1>2. CASE UNCHANGED runnerAttempt
  <2>1. OneOwnerPerAttempt'
    BY <1>2 DEF OwnerInv, OneOwnerPerAttempt
  <2>2. CASE Steady \/ CancelAsked
    <3>1. Kept /\ (job.state = "running" => job'.pid = job.pid)
      BY <2>2, PidKept DEF Steady, CancelAsked
    <3> QED
      BY <1>2, <2>1, <3>1 DEF Kept, KeepsAttempt, OwnerInv
  <2>3. CASE Created
    <3>1. \A r \in Callers : runnerAttempt[r] = 0
      BY <2>3 DEF Created, FirstInv, FreshInv
    <3> QED
      BY <1>2, <2>1, <2>3, <3>1 DEF Created, OwnerInv, QueuedJob, NewJob
  <2>4. CASE Requeued
    <3>1. PICK a \in Attempts : RetryAdmitted(job, a) /\ job' = QueuedJob(a)
      BY <2>4 DEF Requeued
    <3>2. job'.state = "queued" /\ job'.attempt = job.attempt + 1 /\ job.state # Absent
      BY <3>1 DEF QueuedJob, NewJob, RetryAdmitted, Readable
    <3>3. /\ job.attempt \in Nat
          /\ \A r \in Callers : runnerAttempt[r] \in Nat
      BY NewRecordType, BudgetAssumption
         DEF TypeInv, RecordInv, RunnerInv, LiveJob, Job, Attempts
    <3> QED
      BY <1>1, <1>2, <2>1, <3>2, <3>3 DEF OwnerInv
  <2>5. CASE Started
    BY <1>1, <1>2, <2>1, <2>5 DEF Started, KeepsAttempt, CanTransition, Readable, OwnerInv,
       coerce_terminal, LEGAL_TRANSITIONS, JobState, TERMINAL_STATES
  <2>6. CASE Committed
    BY <1>1, <1>2, <2>1, <2>6 DEF Committed, CanTransition, Readable, OwnerInv, coerce_terminal,
       LEGAL_TRANSITIONS, JobState, TERMINAL_STATES
  <2>7. CASE Ended
    BY <1>1, <1>2, <2>1, <2>7 DEF Ended, KeepsAttempt, CanTransition, Readable, OwnerInv,
       coerce_terminal, TERMINAL_STATES
  <2>8. CASE Collected
    BY <1>1, <1>2, <2>1, <2>8 DEF Collected, NoJob, NewJob, OwnerInv, Absent
  <2> QED
    BY <1>1, <2>2, <2>3, <2>4, <2>5, <2>6, <2>7, <2>8 DEF RecordChange
<1>3. CASE \E r \in Callers : BarrierPass(r)
  <2>1. PICK r \in Callers : BarrierPass(r)
    BY <1>3
  <2>2. /\ UNCHANGED <<job, callerPc>>
        /\ job.state = "running" /\ job.lease.owner = r
        /\ runnerAttempt' = [runnerAttempt EXCEPT ![r] = job.attempt]
    BY <2>1 DEF BarrierPass, NoWrite, callerVars, OwnerInv
  <2>3. runnerAttempt \in [Callers -> Attempts \cup {0}]
    BY DEF TypeInv, RunnerInv
  <2>4. \A q \in Callers : q # r => runnerAttempt[q] = 0 \/ runnerAttempt[q] # job.attempt
    BY <2>2 DEF OwnerInv, Absent
  <2>5. job.state # Absent /\ job.attempt \in Nat
    BY <2>2, NewRecordType DEF TypeInv, RecordInv, LiveJob, Job, Attempts, Absent
  <2>6. job.attempt # 0
    BY <2>5 DEF TypeInv, RecordInv, LiveJob, NoJob, NewJob
  <2>7. OneOwnerPerAttempt'
    BY <2>2, <2>3, <2>4, <2>6 DEF OwnerInv, OneOwnerPerAttempt
  <2> QED
    BY <2>2, <2>3, <2>5, <2>7 DEF OwnerInv
<1> QED
  BY <1>2, <1>3, AdmissionStep

OwnedInv == TypeInv /\ FreshInv /\ FirstInv /\ OwnerInv

(* They hold of a job that was never started.                              *)
LEMMA OwnedInit == Init => OwnedInv
<1>1. Init => FreshInv /\ FirstInv /\ OwnerInv
  BY DEF Init, FreshInv, FirstInv, OwnerInv, OneOwnerPerAttempt, NoJob, NewJob, Absent, Aftermath
<1> QED
  BY <1>1, TypeInit DEF OwnedInv

(* All four hold in every reachable state.                                 *)
LEMMA OwnedAlways ==
  ASSUME "kill" \notin Faults \/ Budget = 1
  PROVE  Spec => []OwnedInv
<1>1. OwnedInv /\ [Next]_vars => OwnedInv'
  <2>1. OwnedInv /\ Next => OwnedInv'
    BY TypeStep, FreshStep, FirstStep, OwnerStep DEF OwnedInv
  <2>2. FreshInv /\ FirstInv /\ OwnerInv /\ UNCHANGED vars => FreshInv' /\ FirstInv' /\ OwnerInv'
    BY DEF FreshInv, FirstInv, OwnerInv, OneOwnerPerAttempt, RunnerAlive, vars, callerVars,
       runnerVars
  <2> QED
    BY <2>1, <2>2, TypeStep DEF OwnedInv
<1> QED
  BY <1>1, OwnedInit, PTL DEF Spec

(* For any number of callers that start and retry the job at once, and     *)
(* whatever is cancelled, recovered, collected or killed: no two runners   *)
(* are admitted to the same attempt, as long as a process that was         *)
(* SIGKILLed can be seen to be gone, or the job has one attempt only.      *)
THEOREM OneOwnerAlways ==
  ASSUME "kill" \notin Faults \/ Budget = 1
  PROVE  Spec => []OneOwnerPerAttempt
<1>1. OwnedInv => OneOwnerPerAttempt
  BY DEF OwnedInv, OwnerInv
<1> QED
  BY <1>1, OwnedAlways, PTL

-----------------------------------------------------------------------------
(*                              the lifecycle                              *)

(* A change of the record is a step of the lifecycle, or none of its own.  *)
LEMMA LifecycleRecord ==
  ASSUME TypeInv, RecordChange, UNCHANGED runnerAttempt
  PROVE  [Lifecycle!Next]_(Lifecycle!vars)
<1> USE DEF Lifecycle!Next, Lifecycle!vars
<1>1. CASE Steady \/ CancelAsked
  BY <1>1 DEF Steady, CancelAsked, Kept, KeepsAttempt
<1>2. CASE Created
  BY <1>2 DEF Created, QueuedJob, NewJob, Lifecycle!Create, Lifecycle!Absent, Absent
<1>3. CASE Requeued
  <2>1. PICK a \in Attempts : RetryAdmitted(job, a) /\ job' = QueuedJob(a)
    BY <1>3 DEF Requeued
  <2>2. /\ job.state \in RETRYABLE_TERMINAL_STATES /\ job'.state = "queued"
        /\ job'.attempt = job.attempt + 1 /\ job.attempt + 1 <= Budget
    BY <2>1 DEF QueuedJob, NewJob, RetryAdmitted
  <2>3. job.attempt \in Nat
    BY NewRecordType, BudgetAssumption DEF TypeInv, RecordInv, LiveJob, Job, Attempts
  <2> QED
    BY <2>2, <2>3, BudgetAssumption
       DEF Lifecycle!Requeue, Lifecycle!RETRYABLE_TERMINAL_STATES, RETRYABLE_TERMINAL_STATES
<1>4. CASE Started \/ Committed \/ Ended
  <2>1. /\ job.state \in JobState /\ job'.state \in LEGAL_TRANSITIONS[job.state]
        /\ job'.attempt = job.attempt
    <3>1. job.state \in JobState
      BY <1>4, ReadableLive DEF Started, Committed, Ended, CanTransition, TypeInv, LiveJob, Job
    <3> QED
      BY <1>4, <3>1 DEF Started, Committed, Ended, CanTransition, coerce_terminal, KeepsAttempt
  <2>2. Lifecycle!JobState = JobState /\ Lifecycle!LEGAL_TRANSITIONS = LEGAL_TRANSITIONS
    BY DEF Lifecycle!JobState, JobState, Lifecycle!LEGAL_TRANSITIONS, LEGAL_TRANSITIONS,
       Lifecycle!TERMINAL_STATES, TERMINAL_STATES
  <2> QED
    BY <2>1, <2>2 DEF Lifecycle!Advance
<1>5. CASE Collected
  BY <1>5 DEF Collected, Terminal, NoJob, NewJob, Lifecycle!Collect, Lifecycle!Absent, Absent,
     Lifecycle!TERMINAL_STATES, TERMINAL_STATES
<1> QED
  BY <1>1, <1>2, <1>3, <1>4, <1>5 DEF RecordChange

(* Passing the barrier hands the attempt's prompt out, for the first time. *)
LEMMA LifecycleAdmit ==
  ASSUME TypeInv, OwnerInv, FreshInv, NEW r \in Callers, BarrierPass(r)
  PROVE  Lifecycle!Next
<1>1. /\ UNCHANGED job
      /\ job.state = "running" /\ job.lease.owner = r
      /\ runnerAttempt[r] = 0
      /\ runnerAttempt' = [runnerAttempt EXCEPT ![r] = job.attempt]
  BY DEF BarrierPass, NoWrite, OwnerInv, FreshInv
<1>2. runnerAttempt \in [Callers -> Attempts \cup {0}]
  BY DEF TypeInv, RunnerInv
<1>3. job.attempt # 0
  BY <1>1 DEF TypeInv, RecordInv, LiveJob, NoJob, NewJob, Absent
<1>4. job.attempt \notin {runnerAttempt[q] : q \in Callers} \ {0}
  BY <1>1, <1>3 DEF OwnerInv, Absent
<1>5. {runnerAttempt'[q] : q \in Callers} \ {0} =
        ({runnerAttempt[q] : q \in Callers} \ {0}) \cup {job.attempt}
  BY <1>1, <1>2, <1>3
<1> QED
  BY <1>1, <1>4, <1>5 DEF Lifecycle!Next, Lifecycle!Admit

(* For any number of callers: what the record and the barrier do is what   *)
(* the lifecycle promises, the prompt of an attempt being handed out at    *)
(* most once, and only while the attempt runs.                             *)
THEOREM JobImplementsLifecycle ==
  ASSUME "kill" \notin Faults \/ Budget = 1
  PROVE  Spec => ImplementsLifecycle
<1>1. Init => Lifecycle!Init
  BY DEF Init, Lifecycle!Init, Lifecycle!Absent, NoJob, NewJob, Absent
<1>2. OwnedInv /\ [Next]_vars => [Lifecycle!Next]_(Lifecycle!vars)
  <2>1. OwnedInv /\ Next => [Lifecycle!Next]_(Lifecycle!vars)
    BY AdmissionStep, RecordChanges, LifecycleRecord, LifecycleAdmit DEF OwnedInv
  <2>2. UNCHANGED vars => UNCHANGED Lifecycle!vars
    BY DEF vars, runnerVars, Lifecycle!vars
  <2> QED
    BY <2>1, <2>2
<1> QED
  BY <1>1, <1>2, OwnedAlways, PTL DEF Spec, ImplementsLifecycle, Lifecycle!Spec
-----------------------------------------------------------------------------
(*                              the providers                              *)

(* A caller that has a launch in hand, from the record that it created or  *)
(* requeued to the end of the command.                                     *)
Launching == CallerPc \ (Waiting \cup {"launched"})

(* Commands that launch are given one after the other: none requeues the   *)
(* job before the command that launched it has ended, or was killed.       *)
OneAtATime ==
  \A c, d \in Callers : callerPc[c] \in Launching /\ callerPc[d] \in Launching => c = d

(* The jobs whose every process can be traced: a killed process is seen to *)
(* go, and no retry overtakes the launcher of the attempt it follows,      *)
(* because commands do not overlap, or because a second attempt is the     *)
(* last; or there is no second attempt.                                    *)
Traceable == Budget = 1 \/ ("kill" \notin Faults /\ (Budget = 2 \/ OneAtATime))

(* Where a runner holds the attempt it was admitted to.                    *)
Holding == {"admit", "adapter", "launching", "spawned", "running", "returned", "stamp"}

(* A provider is spawned by a runner that holds an attempt, and outlives   *)
(* the adapter call only if the runner is killed in it.                    *)
HoldInv ==
  \A r \in Callers :
    /\ provider[r] = "live" => runnerPc[r] \in {"spawned", "running", "gone"}
    /\ runnerPc[r] \in {"launching", "spawned"} \/ provider[r] = "live" => BindInner
    /\ provider[r] = "live" \/ runnerPc[r] \in Holding => runnerAttempt[r] # 0

Over(r) == runnerPc[r] = "gone" /\ provider[r] # "live"

(* Whoever launches owns the attempt, and the record names its runner for  *)
(* as long as that is alive.                                               *)
SoloInv ==
  job.state # Absent =>
    /\ \A c \in Callers : callerPc[c] \in Launching =>
         /\ job.pid \in {None, c}
         /\ \A r \in Callers : runnerAttempt[r] = job.attempt => r = c
    /\ \A r \in Callers : runnerAttempt[r] = job.attempt /\ RunnerAlive(r) => job.pid = r

(* It is needed where an attempt may be retried that was itself a retry.   *)
ApartInv == Budget > 2 => SoloInv

(* The processes of earlier attempts are gone, and so are those of this    *)
(* one once a retry of it was admitted.                                    *)
OldInv ==
  job.state # Absent =>
    /\ \A r \in Callers : runnerAttempt[r] \notin {0, job.attempt} => Over(r)
    /\ \A c \in Callers : callerPc[c] = "admitted" =>
         /\ callerAttempt[c] <= job.attempt + 1
         /\ callerAttempt[c] = job.attempt + 1 =>
              Terminal(job) /\ \A r \in Callers : runnerAttempt[r] # 0 => Over(r)

Unbound == [state |-> "launching", pid |-> None]

(* From the announcement of a launch to its bind the record says that a    *)
(* provider without an identity may be there, and then it names it.        *)
NameInv ==
  job.state # Absent =>
    /\ job.pp.state \in {"pending", "launching"} => job.pp.pid = None
    /\ \A r \in Callers :
         /\ runnerPc[r] \in {"launching", "spawned"} => job.pp = Unbound
         /\ provider[r] = "live" => job.pp.pid = r \/ job.pp = Unbound

(* No provider is alive, and no runner about to spawn one.                 *)
Quiet == \A r \in Callers : provider[r] # "live" /\ runnerPc[r] # "launching"

(* A snapshot that still matches the record was taken of a quiet job.      *)
QuietInv == job.state \in {"lost", Absent} \/ snapshot = "current" => Quiet

(* A cancel under way: its request stands on the attempt it was made for,  *)
(* or that is over; nobody of that attempt launches a provider any more,   *)
(* and one that is alive is the one the cancel captured.                   *)
Asked ==
  /\ callerPc[Starter] # "idle" /\ target.attempt # 0
  /\ job.state # Absent =>
       /\ target.attempt <= job.attempt
       /\ job.attempt = target.attempt => job.cancel \/ Terminal(job)
  /\ \A r \in Callers : runnerAttempt[r] = target.attempt =>
       /\ runnerPc[r] \notin {"launching", "spawned"}
       /\ provider[r] = "live" => target.provider = r

Stopped == \A r \in Callers : runnerAttempt[r] = target.attempt => provider[r] # "live"

StopInv ==
  cancelPc # "idle" =>
    Asked /\ (cancelPc \notin {"signal", "forceInner", "forceOuter"} => Stopped)

ProviderInv == OwnedInv /\ ApartInv /\ HoldInv /\ OldInv /\ NameInv /\ QuietInv /\ StopInv

(* A record that is there is at an attempt.                                *)
LEMMA ThereAttempt ==
  ASSUME TypeInv, job.state # Absent
  PROVE  job \in LiveJob /\ job.attempt \in Nat \ {0} /\ job.attempt \in Attempts
BY BudgetAssumption DEF TypeInv, RecordInv, NoJob, NewJob, LiveJob, Job, Attempts

(* No transition leaves a terminal state.                                  *)
LEMMA TerminalStays ==
  ASSUME NEW s, Terminal(job)
  PROVE  ~CanTransition(job, s)
BY DEF Terminal, TERMINAL_STATES, CanTransition, LEGAL_TRANSITIONS, JobState

(* A job that a step leaves there was there, unless the step created it.   *)
LEMMA ThereStep ==
  ASSUME TypeInv, RecordChange, job'.state # Absent, ~Created
  PROVE  /\ job.state # Absent
         /\ ~Requeued => job'.attempt = job.attempt
BY DEF RecordChange, Steady, CancelAsked, Kept, KeepsAttempt, Requeued, RetryAdmitted, Started,
   Committed, Ended, CanTransition, Readable, Collected, NoJob, NewJob

(* Every step keeps a provider with a runner that holds an attempt.        *)
LEMMA HoldStep ==
  ASSUME TypeInv, FreshInv, HoldInv, Next
  PROVE  HoldInv'
<1> SUFFICES ASSUME NEW r \in Callers
             PROVE  /\ provider'[r] = "live" => runnerPc'[r] \in {"spawned", "running", "gone"}
                    /\ runnerPc'[r] \in {"launching", "spawned"} \/ provider'[r] = "live" =>
                         BindInner
                    /\ provider'[r] = "live" \/ runnerPc'[r] \in Holding => runnerAttempt'[r] # 0
  BY DEF HoldInv
<1>1. RunnerMove(r)
  BY RunnerMoves
<1>2. /\ provider[r] = "live" => runnerPc[r] \in {"spawned", "running", "gone"}
      /\ runnerPc[r] \in {"launching", "spawned"} \/ provider[r] = "live" => BindInner
      /\ provider[r] = "live" \/ runnerPc[r] \in Holding => runnerAttempt[r] # 0
  BY DEF HoldInv
<1>3. CASE BarrierPass(r)
  <2>1. /\ runnerPc[r] = "barrier" /\ runnerPc'[r] = "admit" /\ provider' = provider
        /\ runnerAttempt'[r] = job.attempt
    BY <1>3 DEF BarrierPass, RunnerTo, TypeInv, RunnerInv
  <2>2. job.attempt # 0
    BY <1>3, ThereAttempt DEF BarrierPass, Readable
  <2> QED
    BY <1>2, <2>1, <2>2
<1>4. CASE Forked(r) /\ runnerAttempt'[r] = runnerAttempt[r]
  <2>1. runnerPc[r] = "none"
    BY <1>4 DEF Forked, FreshInv
  <2> QED
    BY <1>2, <1>4, <2>1 DEF Forked, Holding
<1>5. CASE /\ runnerAttempt'[r] = runnerAttempt[r]
           /\ \/ Still(r) \/ Left(r) \/ Advanced(r) \/ Announced(r)
              \/ Spawned(r) \/ Bound(r) \/ Returned(r)
  BY <1>2, <1>5 DEF Still, Left, Advanced, Announced, Spawned, Bound, Returned, Holding
<1> QED
  BY <1>1, <1>3, <1>4, <1>5 DEF RunnerMove

(* What is over stays over.                                                *)
LEMMA OverStep ==
  ASSUME TypeInv, FreshInv, Next
  PROVE  \A r \in Callers : Over(r) => Over(r)'
BY RunnerMoves DEF FreshInv, RunnerMove, BarrierPass, Still, Forked, Left, Advanced, Announced,
   Spawned, Bound, Returned, Over

(* Whoever acts for a provider holds the attempt of the record, so there   *)
(* is only one of them.                                                    *)
Acts(r) == runnerPc[r] \in Holding \/ provider[r] = "live"

LEMMA HolderUnique ==
  ASSUME TypeInv, OwnerInv, HoldInv, OldInv, job.state # Absent,
         NEW r \in Callers, Acts(r), NEW q \in Callers, Acts(q)
  PROVE  r = q
<1>1. ASSUME NEW p \in Callers, Acts(p)
      PROVE  runnerAttempt[p] = job.attempt /\ runnerAttempt[p] # 0
  BY <1>1 DEF Acts, HoldInv, OldInv, Over, Holding
<1> QED
  BY <1>1 DEF OwnerInv, OneOwnerPerAttempt

(* A runner admitted by a step was admitted before it, or is by it.        *)
LEMMA AttemptStep ==
  ASSUME TypeInv, Next
  PROVE  \A r \in Callers :
           \/ runnerAttempt'[r] = runnerAttempt[r]
           \/ BarrierPass(r) /\ runnerAttempt'[r] = job.attempt
BY RunnerMoves DEF RunnerMove, BarrierPass, TypeInv, RunnerInv

(* A job that a step creates has no runner yet.                            *)
LEMMA CreatedFresh ==
  ASSUME TypeInv, FreshInv, FirstInv, Created
  PROVE  /\ \A c \in Callers : callerPc[c] = "idle" /\ runnerAttempt[c] = 0
         /\ ~Readable(job)
BY DEF Created, FirstInv, FreshInv, Readable

(* A caller gets something to launch by a start or a retry of its own.     *)
LEMMA LaunchingStep ==
  ASSUME TypeInv, Next
  PROVE  \A c \in Callers : callerPc'[c] \in Launching =>
           \/ callerPc[c] \in Launching
           \/ job.state = Absent
           \/ \E a \in Attempts \cup {0} : RetryAdmitted(job, a) /\ job' = QueuedJob(a)
<1> SUFFICES ASSUME NEW c \in Callers, callerPc'[c] \in Launching, callerPc[c] \notin Launching
             PROVE  \/ job.state = Absent
                    \/ \E a \in Attempts \cup {0} : RetryAdmitted(job, a) /\ job' = QueuedJob(a)
  OBVIOUS
<1> USE DEF Launching, Waiting, CallerTo
<1>1. /\ callerPc \in [Callers -> CallerPc]
      /\ callerAttempt[c] \in Attempts \cup {0}
  BY DEF TypeInv, CallerInv
<1>2. callerPc[c] \in {"idle", "admitted", "failed", "killed", "launched"}
  BY <1>1
<1>3. Caller(c)
  BY CallerMoves
<1>4. CASE StartJob(c)
  BY <1>4 DEF StartJob
<1>5. CASE PrepareRetry(c)
  <2>1. CASE RetryAdmitted(job, callerAttempt[c]) /\ Write(QueuedJob(callerAttempt[c]))
    BY <1>1, <2>1 DEF Write
  <2> QED
    BY <1>1, <1>5, <2>1 DEF PrepareRetry
<1>6. CASE PreflightRetry(c) \/ CallerKilled(c)
  BY <1>1, <1>6 DEF PreflightRetry, CallerKilled
<1> QED
  BY <1>2, <1>3, <1>4, <1>5, <1>6 DEF Caller, MarkStarting, Launch, SpawnFailed, ProbeChild,
     EarlyExit, WriteSpawnIdentity, SpawnIdentityFails, CommitRunning, Cleanup, Reconcile,
     StampUnlaunched, ClearAfterStamp

(* Every step of commands that do not overlap keeps the attempt with its   *)
(* launcher: a stamp that erases the pid is that of the launcher itself,   *)
(* whose child is gone.                                                    *)
LEMMA SoloStep ==
  ASSUME "kill" \notin Faults, OneAtATime,
         TypeInv, FreshInv, FirstInv, OwnerInv, SoloInv, Next
  PROVE  SoloInv'
<1> SUFFICES ASSUME job'.state # Absent
             PROVE  /\ \A c \in Callers : callerPc'[c] \in Launching =>
                         /\ job'.pid \in {None, c}
                         /\ \A r \in Callers : runnerAttempt'[r] = job'.attempt => r = c
                    /\ \A r \in Callers :
                         runnerAttempt'[r] = job'.attempt /\ RunnerAlive(r)' => job'.pid = r
  BY DEF SoloInv
<1>1. RecordChange
  BY RecordChanges
<1>2. CASE Created
  <2>1. \A r \in Callers : runnerAttempt'[r] = 0
    BY <1>2, CreatedFresh, AttemptStep DEF BarrierPass
  <2>2. job'.pid = None /\ job'.attempt = 1
    BY <1>2 DEF Created, QueuedJob, NewJob
  <2> QED
    BY <2>1, <2>2
<1>3. CASE Requeued
  <2>1. PICK a \in Attempts : RetryAdmitted(job, a) /\ job' = QueuedJob(a)
    BY <1>3 DEF Requeued
  <2>2. job'.pid = None /\ job'.attempt = job.attempt + 1 /\ job.state # Absent
    BY <2>1 DEF QueuedJob, NewJob, RetryAdmitted, Readable
  <2>3. job.attempt \in Nat \ {0}
    BY <2>2, ThereAttempt
  <2>4. \A r \in Callers : runnerAttempt[r] \in Nat /\ runnerAttempt[r] <= job.attempt
    BY <2>2, <2>3, BudgetAssumption DEF TypeInv, RunnerInv, Attempts, OwnerInv
  <2>5. \A r \in Callers : runnerAttempt'[r] # job'.attempt
    BY <2>2, <2>3, <2>4, AttemptStep
  <2> QED
    BY <2>2, <2>5
<1>4. CASE ~Created /\ ~Requeued
  <2>1. job.state # Absent /\ job'.attempt = job.attempt
    BY <1>1, <1>4, ThereStep
  <2>2. job.attempt \in Nat \ {0}
    BY <2>1, ThereAttempt
  <2>3. \A c \in Callers : callerPc[c] \in {"commit"} \cup Aftermath => callerPc[c] \in Launching
    BY DEF Launching, Waiting, Aftermath, CallerPc
  <2>4. \/ job'.pid = job.pid
        \/ /\ job.state = "starting"
           /\ \E d \in Callers : callerPc[d] = "commit" /\ job'.pid = d
        \/ job'.pid = None /\ \E d \in Callers : callerPc[d] \in Aftermath
    <3>1. CASE Steady \/ CancelAsked
      BY <3>1 DEF Steady, CancelAsked, Kept, PidWritten
    <3>2. CASE Started \/ Ended
      BY <3>2 DEF Started, Ended
    <3>3. CASE Committed
      <4>1. job.state = "starting"
        BY <3>3 DEF Committed, CanTransition, coerce_terminal, Readable, LEGAL_TRANSITIONS,
           JobState, TERMINAL_STATES, TypeInv, RecordInv, LiveJob, Job, NoJob, NewJob
      <4> QED
        BY <3>3, <4>1 DEF Committed
    <3>4. ~Collected
      BY DEF Collected, NoJob, NewJob
    <3> QED
      BY <1>1, <1>4, <3>1, <3>2, <3>3, <3>4 DEF RecordChange
  <2>5. ASSUME NEW c \in Callers, callerPc'[c] \in Launching
        PROVE  /\ job'.pid \in {None, c}
               /\ \A r \in Callers : runnerAttempt'[r] = job'.attempt => r = c
    <3>1. ~\E a \in Attempts \cup {0} : RetryAdmitted(job, a) /\ job' = QueuedJob(a)
      <4>1. ASSUME NEW a \in Attempts \cup {0}, RetryAdmitted(job, a), job' = QueuedJob(a)
            PROVE  FALSE
        BY <2>1, <2>2, <4>1 DEF RetryAdmitted, QueuedJob, NewJob
      <4> QED
        BY <4>1
    <3>2. callerPc[c] \in Launching
      BY <2>1, <2>5, <3>1, LaunchingStep
    <3>3. job.pid \in {None, c} /\ \A r \in Callers : runnerAttempt[r] = job.attempt => r = c
      BY <2>1, <3>2 DEF SoloInv
    <3>4. job'.pid \in {None, c}
      BY <2>3, <2>4, <3>2, <3>3 DEF OneAtATime
    <3>5. \A r \in Callers : BarrierPass(r) => r = c
      BY <3>3, NoneAssumption DEF BarrierPass
    <3> QED
      BY <2>1, <3>3, <3>4, <3>5, AttemptStep
  <2>6. ASSUME NEW r \in Callers, runnerAttempt'[r] = job'.attempt, RunnerAlive(r)'
        PROVE  job'.pid = r
    <3>1. CASE BarrierPass(r)
      BY <3>1 DEF BarrierPass, NoWrite
    <3>2. CASE RunnerAlive(r) /\ runnerAttempt[r] = job.attempt
      <4>1. job.pid = r
        BY <2>1, <3>2 DEF SoloInv
      <4>2. job.state # "starting"
        BY <2>1, <2>2, <3>2 DEF OwnerInv, TERMINAL_STATES
      <4>3. ASSUME NEW d \in Callers, callerPc[d] \in Aftermath
            PROVE  FALSE
        <5>1. r = d
          BY <2>1, <2>3, <3>2, <4>3 DEF SoloInv
        <5> QED
          BY <3>2, <4>3, <5>1 DEF FirstInv
      <4> QED
        BY <2>4, <4>1, <4>2, <4>3
    <3> QED
      BY <2>1, <2>2, <2>6, <3>1, <3>2, AliveStep
  <2> QED
    BY <2>5, <2>6
<1> QED
  BY <1>2, <1>3, <1>4

(* The gates of a retry: when they are passed, the attempt that is retried *)
(* has left nothing alive.  Only its launcher can have launched it, so its *)
(* runner is the one that the record names.                                *)
LEMMA RetryGates ==
  ASSUME TypeInv, FreshInv, FirstInv, OwnerInv, ApartInv, OldInv, NameInv,
         NEW c \in Callers, PreflightRetry(c)
  PROVE  /\ job.state # Absent /\ Terminal(job)
         /\ \A r \in Callers : runnerAttempt[r] # 0 => Over(r)
<1>1. /\ RetryAdmitted(job, job.attempt + 1)
      /\ ~provider_launch_unbound(job)
      /\ RunnerGone(RunnerIdentity(job, spawnIdentity))
      /\ ProviderGone(job.pp.pid)
  BY DEF PreflightRetry, IdentitiesGone
<1>2. job.state # Absent /\ Terminal(job)
  BY <1>1 DEF RetryAdmitted, Readable, Terminal, RETRYABLE_TERMINAL_STATES, TERMINAL_STATES
<1>3. ASSUME NEW r \in Callers, runnerAttempt[r] = job.attempt, RunnerAlive(r)
      PROVE  RunnerIdentity(job, spawnIdentity) = r
  <2>1. job.attempt \in Nat \ {0}
    BY <1>2, ThereAttempt
  <2>2. CASE Budget > 2
    BY <1>2, <1>3, <2>2, NoneAssumption DEF ApartInv, SoloInv, RunnerIdentity
  <2>3. CASE ~(Budget > 2)
    <3>1. job.attempt = 1
      BY <1>1, <2>1, <2>3, BudgetAssumption DEF RetryAdmitted
    <3>2. r = Starter
      BY <1>2, <1>3, <3>1, NoneAssumption DEF OwnerInv, FirstInv
    <3> QED
      BY <1>2, <1>3, <3>1, <3>2, NoneAssumption DEF FirstInv, RunnerIdentity
  <2> QED
    BY <2>2, <2>3
<1>4. ASSUME NEW r \in Callers, runnerAttempt[r] # 0
      PROVE  Over(r)
  <2>1. CASE runnerAttempt[r] # job.attempt
    BY <1>2, <1>4, <2>1 DEF OldInv
  <2>2. CASE runnerAttempt[r] = job.attempt
    <3>1. ~RunnerAlive(r)
      BY <1>1, <1>3, <2>2, NoneAssumption DEF RunnerGone
    <3>2. runnerPc[r] = "gone"
      BY <1>4, <3>1 DEF RunnerAlive, FreshInv
    <3>3. provider[r] # "live"
      BY <1>1, <1>2, NoneAssumption DEF NameInv, Unbound, provider_launch_unbound, ProviderGone
    <3> QED
      BY <3>2, <3>3 DEF Over
  <2> QED
    BY <2>1, <2>2
<1> QED
  BY <1>2, <1>4

(* A caller is admitted by the gates, and then keeps its attempt.          *)
LEMMA AdmittedStep ==
  ASSUME TypeInv, Next
  PROVE  \A c \in Callers : callerPc'[c] = "admitted" =>
           \/ callerPc[c] = "admitted" /\ callerAttempt'[c] = callerAttempt[c]
           \/ PreflightRetry(c) /\ callerAttempt'[c] = job.attempt + 1
BY CallerMoves DEF TypeInv, CallerInv, Caller, StartJob, PreflightRetry, PrepareRetry,
   MarkStarting, Launch, SpawnFailed, ProbeChild, EarlyExit, WriteSpawnIdentity,
   SpawnIdentityFails, CommitRunning, Cleanup, Reconcile, StampUnlaunched, ClearAfterStamp,
   CallerKilled, CallerTo

(* Every step keeps the processes of earlier attempts gone.                *)
LEMMA OldStep ==
  ASSUME TypeInv, FreshInv, FirstInv, OwnerInv, ApartInv, OldInv, NameInv, Next
  PROVE  OldInv'
<1> SUFFICES ASSUME job'.state # Absent
             PROVE  /\ \A r \in Callers : runnerAttempt'[r] \notin {0, job'.attempt} => Over(r)'
                    /\ \A c \in Callers : callerPc'[c] = "admitted" =>
                         /\ callerAttempt'[c] <= job'.attempt + 1
                         /\ callerAttempt'[c] = job'.attempt + 1 =>
                              /\ Terminal(job)'
                              /\ \A r \in Callers : runnerAttempt'[r] # 0 => Over(r)'
  BY DEF OldInv
<1>1. RecordChange
  BY RecordChanges
<1>2. \A r \in Callers : Over(r) => Over(r)'
  BY OverStep
<1>3. ASSUME Terminal(job), \A r \in Callers : runnerAttempt[r] # 0 => Over(r)
      PROVE  \A r \in Callers : runnerAttempt'[r] # 0 => Over(r)'
  <2>1. ~\E r \in Callers : BarrierPass(r)
    BY <1>3 DEF BarrierPass, Terminal, TERMINAL_STATES
  <2> QED
    BY <1>2, <1>3, <2>1, AttemptStep
<1>4. CASE job.state # Absent /\ job'.attempt = job.attempt
  <2>1. \A r \in Callers : runnerAttempt'[r] \notin {0, job'.attempt} => Over(r)'
    BY <1>2, <1>4, AttemptStep DEF OldInv
  <2>2. Terminal(job) => Terminal(job)'
    <3>1. CASE Steady \/ CancelAsked
      BY <3>1 DEF Steady, CancelAsked, Kept, Terminal
    <3>2. CASE Created \/ Requeued \/ Collected
      <4>1. job.attempt \in Nat
        BY <1>4, ThereAttempt
      <4> QED
        BY <1>4, <3>2, <4>1 DEF Created, Requeued, RetryAdmitted, Collected, QueuedJob, NoJob,
           NewJob
    <3>3. CASE Started \/ Committed \/ Ended
      BY <3>3, TerminalStays DEF Started, Committed, Ended
    <3> QED
      BY <1>1, <3>1, <3>2, <3>3 DEF RecordChange
  <2>3. ASSUME NEW c \in Callers, callerPc'[c] = "admitted"
        PROVE  /\ callerAttempt'[c] <= job'.attempt + 1
               /\ callerAttempt'[c] = job'.attempt + 1 =>
                    /\ Terminal(job)'
                    /\ \A r \in Callers : runnerAttempt'[r] # 0 => Over(r)'
    <3>1. CASE callerPc[c] = "admitted" /\ callerAttempt'[c] = callerAttempt[c]
      BY <1>3, <1>4, <2>2, <3>1 DEF OldInv
    <3>2. CASE PreflightRetry(c) /\ callerAttempt'[c] = job.attempt + 1
      <4>1. Terminal(job) /\ \A r \in Callers : runnerAttempt[r] # 0 => Over(r)
        BY <3>2, RetryGates
      <4>2. job.attempt \in Nat
        BY <1>4, ThereAttempt
      <4> QED
        BY <1>3, <1>4, <2>2, <3>2, <4>1, <4>2
    <3> QED
      BY <2>3, <3>1, <3>2, AdmittedStep
  <2> QED
    BY <2>1, <2>3
<1>5. CASE Requeued
  <2>1. PICK a \in Attempts :
          /\ RetryAdmitted(job, a) /\ job' = QueuedJob(a)
          /\ \E c \in Callers : callerPc[c] = "admitted" /\ callerAttempt[c] = a
    BY <1>5 DEF Requeued
  <2>2. job.state # Absent /\ job'.attempt = job.attempt + 1 /\ job.attempt \in Nat
    BY <2>1, ThereAttempt DEF RetryAdmitted, Readable, QueuedJob, NewJob
  <2>3. Terminal(job) /\ \A r \in Callers : runnerAttempt[r] # 0 => Over(r)
    BY <2>1, <2>2 DEF OldInv, RetryAdmitted
  <2>4. ASSUME NEW c \in Callers, callerPc'[c] = "admitted"
        PROVE  callerAttempt'[c] <= job'.attempt
    <3>1. ~PreflightRetry(c)
      BY <2>2 DEF PreflightRetry, NoWrite
    <3> QED
      BY <2>2, <2>4, <3>1, AdmittedStep DEF OldInv
  <2>5. \A c \in Callers : callerAttempt'[c] <= job'.attempt =>
          callerAttempt'[c] <= job'.attempt + 1 /\ callerAttempt'[c] # job'.attempt + 1
    <3>1. TypeInv'
      BY TypeStep
    <3>2. callerAttempt' \in [Callers -> Attempts \cup {0}]
      BY <3>1 DEF TypeInv, CallerInv
    <3> QED
      BY <2>2, <3>2, BudgetAssumption DEF Attempts
  <2> QED
    BY <1>3, <2>3, <2>4, <2>5
<1>6. CASE Created
  <2>1. /\ \A c \in Callers : callerPc[c] = "idle" /\ runnerAttempt[c] = 0
        /\ ~Readable(job)
    BY <1>6, CreatedFresh
  <2>2. \A r \in Callers : runnerAttempt'[r] = 0
    BY <2>1, AttemptStep DEF BarrierPass
  <2>3. \A c \in Callers : callerPc'[c] # "admitted"
    BY <2>1, AdmittedStep DEF PreflightRetry, RetryAdmitted
  <2> QED
    BY <2>2, <2>3
<1> QED
  BY <1>1, <1>4, <1>5, <1>6, ThereStep

(* Every step keeps the record naming the provider.                        *)
LEMMA NameStep ==
  ASSUME TypeInv, FreshInv, FirstInv, OwnerInv, HoldInv, OldInv, NameInv, Next
  PROVE  NameInv'
<1> SUFFICES ASSUME job'.state # Absent
             PROVE  /\ job'.pp.state \in {"pending", "launching"} => job'.pp.pid = None
                    /\ \A r \in Callers :
                         /\ runnerPc'[r] \in {"launching", "spawned"} => job'.pp = Unbound
                         /\ provider'[r] = "live" => job'.pp.pid = r \/ job'.pp = Unbound
  BY DEF NameInv
<1>1. RecordChange /\ \A r \in Callers : RunnerMove(r)
  BY RecordChanges, RunnerMoves
<1> DEFINE Launched(r) == runnerPc[r] \in {"launching", "spawned"}
<1>2. ASSUME NEW r \in Callers
      PROVE  /\ provider'[r] = "live" => provider[r] = "live" \/ Spawned(r)
             /\ runnerPc'[r] \in {"launching", "spawned"} =>
                  (Launched(r) /\ runnerPc'[r] = runnerPc[r]) \/ Spawned(r) \/ Announced(r)
  <2>1. CASE BarrierPass(r)
    <3>1. provider' = provider /\ runnerPc'[r] = "admit"
      BY <2>1 DEF BarrierPass, RunnerTo, TypeInv, RunnerInv
    <3> QED
      BY <3>1
  <2>2. CASE Still(r) \/ Forked(r) \/ Left(r) \/ Advanced(r) \/ Bound(r) \/ Returned(r)
    BY <2>2 DEF Still, Forked, Left, Advanced, Bound, Returned
  <2>3. CASE Spawned(r)
    BY <2>3 DEF Spawned
  <2>4. CASE Announced(r)
    BY <2>4 DEF Announced
  <2> QED
    BY <1>1, <2>1, <2>2, <2>3, <2>4 DEF RunnerMove
<1>3. ASSUME NEW r \in Callers, Announced(r), job.state # Absent
      PROVE  job'.pp = Unbound
  <2>1. job.pp.pid = None /\ job.pp \in ProviderProcess /\ job \in Job
    BY <1>3, ThereAttempt DEF Announced, MayLaunch, NameInv, LiveJob, Job
  <2>2. job'.pp = [job.pp EXCEPT !.state = "launching"]
    BY <1>3, <2>1 DEF Announced, Job
  <2> QED
    BY <2>1, <2>2 DEF ProviderProcess, Unbound
<1>4. CASE job.state # Absent /\ job'.pp = job.pp
  <2>1. ASSUME NEW r \in Callers
        PROVE  /\ runnerPc'[r] \in {"launching", "spawned"} => job'.pp = Unbound
               /\ provider'[r] = "live" => job'.pp.pid = r \/ job'.pp = Unbound
    <3>1. Spawned(r) \/ Launched(r) => job'.pp = Unbound
      BY <1>4 DEF Spawned, NameInv
    <3>2. provider[r] = "live" => job'.pp.pid = r \/ job'.pp = Unbound
      BY <1>4 DEF NameInv
    <3> QED
      BY <1>2, <1>3, <1>4, <3>1, <3>2
  <2> QED
    BY <1>4, <2>1 DEF NameInv
<1>5. CASE job.state # Absent /\ ProviderWritten
  <2>1. PICK q \in Callers :
          \/ /\ runnerPc[q] = "adapter" /\ MayLaunch(q)
             /\ job'.pp = [job.pp EXCEPT !.state = "launching"]
          \/ /\ runnerPc[q] = "spawned" /\ runnerPc'[q] = "running"
             /\ job'.pp = [state |-> "bound", pid |-> q]
          \/ /\ runnerPc[q] = "returned" /\ job.pp.state # "pending"
             /\ job'.pp = [job.pp EXCEPT !.state = "exited"]
    BY <1>5 DEF ProviderWritten
  <2>2. job.pp \in ProviderProcess /\ Acts(q)
    BY <1>5, <2>1, ThereAttempt DEF LiveJob, Job, Acts, Holding
  <2>3. CASE runnerPc[q] = "adapter" /\ MayLaunch(q)
             /\ job'.pp = [job.pp EXCEPT !.state = "launching"]
    <3>1. job'.pp = Unbound
      BY <1>5, <2>2, <2>3 DEF MayLaunch, NameInv, ProviderProcess, Unbound
    <3> QED
      BY <3>1 DEF Unbound
  <2>4. ASSUME runnerPc[q] \in {"spawned", "returned"},
               runnerPc[q] = "spawned" => runnerPc'[q] = "running",
               job'.pp.state \in {"bound", "exited"}
        PROVE  \A r \in Callers :
                 /\ runnerPc'[r] \notin {"launching", "spawned"}
                 /\ provider'[r] = "live" => r = q /\ runnerPc[q] = "spawned"
    <3> SUFFICES ASSUME NEW r \in Callers
                 PROVE  /\ runnerPc'[r] \notin {"launching", "spawned"}
                        /\ provider'[r] = "live" => r = q /\ runnerPc[q] = "spawned"
      OBVIOUS
    <3>1. Launched(r) \/ provider[r] = "live" => r = q
      BY <1>5, <2>2, HolderUnique DEF Acts, Holding
    <3>2. ~Spawned(r)
      <4>1. Spawned(r) => r = q
        BY <3>1 DEF Spawned
      <4> QED
        BY <2>4, <4>1 DEF Spawned
    <3>3. ~Announced(r)
      BY <1>3, <1>5, <2>4 DEF Unbound
    <3>4. provider[q] = "live" => runnerPc[q] = "spawned"
      BY <2>4 DEF HoldInv
    <3> QED
      BY <1>2, <2>4, <3>1, <3>2, <3>3, <3>4
  <2>5. CASE runnerPc[q] = "spawned" /\ runnerPc'[q] = "running"
             /\ job'.pp = [state |-> "bound", pid |-> q]
    BY <2>4, <2>5
  <2>6. CASE runnerPc[q] = "returned" /\ job'.pp = [job.pp EXCEPT !.state = "exited"]
    <3>1. job'.pp.state = "exited"
      BY <2>2, <2>6 DEF ProviderProcess
    <3> QED
      BY <2>4, <2>6, <3>1
  <2> QED
    BY <2>1, <2>3, <2>5, <2>6
<1>6. CASE Created \/ Requeued
  <2>1. job'.pp = NoProvider /\ job' # job
    <3>1. CASE Created
      BY <3>1 DEF Created, QueuedJob, NewJob, Absent
    <3>2. CASE Requeued
      BY <3>2 DEF Requeued, RetryAdmitted, QueuedJob, NewJob, RETRYABLE_TERMINAL_STATES
    <3> QED
      BY <1>6, <3>1, <3>2
  <2>2. ~(Readable(job) /\ job.state = "running")
    BY <1>6 DEF Created, Requeued, RetryAdmitted, RETRYABLE_TERMINAL_STATES, Absent
  <2>3. ASSUME NEW r \in Callers
        PROVE  provider[r] # "live" /\ ~Launched(r)
    <3>1. CASE Created
      BY <3>1, CreatedFresh DEF HoldInv, Holding
    <3>2. CASE Requeued
      <4>1. runnerAttempt[r] # 0 => Over(r)
        BY <3>2 DEF Requeued, RetryAdmitted, Readable, OldInv
      <4> QED
        BY <4>1 DEF Over, HoldInv, Holding
    <3> QED
      BY <1>6, <3>1, <3>2
  <2>4. \A r \in Callers : ~Spawned(r) /\ ~Announced(r)
    BY <2>1, <2>2 DEF Spawned, NoWrite, Announced, MayLaunch, Fenced, OwnerFence
  <2> QED
    BY <1>2, <2>1, <2>3, <2>4 DEF NoProvider
<1>7. CASE job.state # Absent /\ ~Created /\ ~Requeued
  <2>1. job'.pp = job.pp \/ ProviderWritten
    BY <1>1, <1>7 DEF RecordChange, Steady, CancelAsked, Kept, Started, Committed, Ended,
       Collected, NoJob, NewJob
  <2> QED
    BY <1>4, <1>5, <1>7, <2>1
<1> QED
  BY <1>1, <1>6, <1>7, ThereStep

(* Recovery, retry and gc find a job quiet when no launch is without an    *)
(* identity and the provider that is named is gone.                        *)
LEMMA GatesQuiet ==
  ASSUME TypeInv, NameInv, job.state # Absent,
         ~provider_launch_unbound(job), ProviderGone(job.pp.pid)
  PROVE  Quiet
<1>1. job.pp # Unbound
  BY DEF Unbound, provider_launch_unbound
<1> SUFFICES ASSUME NEW r \in Callers
             PROVE  provider[r] # "live" /\ runnerPc[r] # "launching"
  BY DEF Quiet
<1>2. r # None
  BY NoneAssumption
<1> QED
  BY <1>1, <1>2 DEF NameInv, ProviderGone

(* A snapshot matches the record after a step if it did before it, or if   *)
(* it is taken by it.                                                      *)
LEMMA SnapshotStep ==
  ASSUME Next, snapshot' = "current"
  PROVE  snapshot = "current" \/ RecoverObserve
<1> USE DEF Write, NoWrite, StampFailed
<1>1. ASSUME NEW c \in Callers, Caller(c)
      PROVE  snapshot = "current"
  BY <1>1 DEF Caller, StartJob, PreflightRetry, PrepareRetry, MarkStarting, Launch, SpawnFailed,
     ProbeChild, EarlyExit, WriteSpawnIdentity, SpawnIdentityFails, CommitRunning, Cleanup,
     Reconcile, StampUnlaunched, ClearAfterStamp, CallerKilled
<1>2. ASSUME NEW r \in Callers, Runner(r)
      PROVE  snapshot = "current"
  BY <1>2 DEF Runner, BarrierPass, BarrierAbort, Admit, Heartbeat, EnterAdapter, SpawnProvider,
     BindProvider, AdapterReturns, MarkExited, StampTerminal, RunnerExits, RunnerKilled,
     ProviderExits
<1>3. CASE Canceller
  BY <1>3 DEF Canceller, CancelRequest, CancelSignal, CancelForceInner, CancelForceOuter,
     CancelReread, CancelStamp, CancelClear, CancellerKilled
<1>4. CASE Operator
  BY <1>4 DEF Operator, RecoverCommit, Collect
<1> QED
  BY <1>1, <1>2, <1>3, <1>4 DEF Next

(* A quiet job is quiet until a runner announces a launch.                 *)
LEMMA QuietKept ==
  ASSUME TypeInv, Quiet, Next, ~\E r \in Callers : Announced(r)
  PROVE  Quiet'
<1> SUFFICES ASSUME NEW r \in Callers
             PROVE  provider'[r] # "live" /\ runnerPc'[r] # "launching"
  BY DEF Quiet
<1>1. RunnerMove(r) /\ ~Announced(r)
  BY RunnerMoves
<1>2. CASE BarrierPass(r)
  <2>1. provider' = provider /\ runnerPc'[r] = "admit"
    BY <1>2 DEF BarrierPass, RunnerTo, TypeInv, RunnerInv
  <2> QED
    BY <2>1 DEF Quiet
<1> QED
  BY <1>1, <1>2 DEF Quiet, RunnerMove, Still, Forked, Left, Advanced, Spawned, Bound, Returned

(* Every step keeps a lost job, a collected one and one with a snapshot    *)
(* that matches, quiet.                                                    *)
LEMMA QuietStep ==
  ASSUME TypeInv, NameInv, QuietInv, Next
  PROVE  QuietInv'
<1> SUFFICES ASSUME job'.state \in {"lost", Absent} \/ snapshot' = "current"
             PROVE  Quiet'
  BY DEF QuietInv
<1>1. RecordChange
  BY RecordChanges
<1>2. Quiet
  <2>1. CASE job'.state = "lost"
    <3>1. job.state = "lost" \/ snapshot = "current"
      <4>1. CASE Ended
        BY <2>1, <4>1 DEF Ended, coerce_terminal
      <4>2. CASE ~Ended
        BY <1>1, <2>1, <4>2 DEF RecordChange, Steady, CancelAsked, Kept, Created, Requeued,
           Started, Committed, Collected, QueuedJob, NoJob, NewJob, Absent
      <4> QED
        BY <4>1, <4>2
    <3> QED
      BY <3>1 DEF QuietInv
  <2>2. CASE job'.state = Absent
    <3>1. CASE Collected
      <4>1. job.state # Absent
        BY <3>1 DEF Collected, Terminal, TERMINAL_STATES, Absent
      <4> QED
        BY <3>1, <4>1, GatesQuiet DEF Collected
    <3>2. CASE ~Collected
      <4>1. job.state = Absent
        BY <1>1, <2>2, <3>2 DEF RecordChange, Steady, CancelAsked, Kept, Created, Requeued,
           Started, Committed, Ended, coerce_terminal, TERMINAL_STATES, QueuedJob, NewJob, Absent
      <4> QED
        BY <4>1 DEF QuietInv
    <3> QED
      BY <3>1, <3>2
  <2>3. CASE snapshot' = "current"
    <3>1. CASE RecoverObserve
      BY <3>1, GatesQuiet DEF RecoverObserve, RecoverableLost, IdentitiesGone, Readable
    <3> QED
      BY <2>3, <3>1, SnapshotStep DEF QuietInv
  <2> QED
    BY <2>1, <2>2, <2>3
<1>3. ~\E r \in Callers : Announced(r)
  <2> SUFFICES ASSUME NEW r \in Callers, Announced(r) PROVE FALSE
    OBVIOUS
  <2>1. job.state = "running" /\ job \in Job
    BY ThereAttempt DEF Announced, MayLaunch, Fenced, OwnerFence, Readable, LiveJob
  <2>2. job'.state = "running" /\ snapshot' # "current"
    BY <2>1 DEF Announced, Job
  <2> QED
    BY <2>2 DEF Absent
<1> QED
  BY <1>2, <1>3, QuietKept

(* A request that was persisted keeps its attempt from launching, whatever *)
(* happens next.                                                           *)
LEMMA AskedStep ==
  ASSUME TypeInv, FreshInv, FirstInv, HoldInv, Asked, Next, target' = target
  PROVE  Asked' /\ (Stopped => Stopped')
<1>1. RecordChange /\ \A r \in Callers : RunnerMove(r)
  BY RecordChanges, RunnerMoves
<1>2. callerPc'[Starter] # "idle" /\ target'.attempt # 0
  BY StarterStep DEF Asked
<1>3. ~Created
  BY DEF Asked, Created
<1>4. ASSUME job'.state # Absent
      PROVE  /\ target.attempt <= job'.attempt
             /\ job'.attempt = target.attempt => job'.cancel \/ Terminal(job)'
  <2>1. job.state # Absent /\ job.attempt \in Nat
    BY <1>1, <1>3, <1>4, ThereStep, ThereAttempt
  <2>2. target.attempt \in Nat /\ target.attempt <= job.attempt
    BY <2>1, BudgetAssumption DEF Asked, TypeInv, OperatorInv, Attempts
  <2>3. CASE Requeued
    <3>1. job'.attempt = job.attempt + 1
      BY <2>3 DEF Requeued, RetryAdmitted, QueuedJob, NewJob
    <3> QED
      BY <2>1, <2>2, <3>1
  <2>4. CASE ~Requeued
    <3>1. job'.attempt = job.attempt
      BY <1>1, <1>3, <1>4, <2>4, ThereStep
    <3>2. job.cancel => job'.cancel
      <4>1. CASE Steady \/ Started \/ Committed \/ Ended
        BY <4>1 DEF Steady, Started, Committed, Ended
      <4>2. CASE CancelAsked
        BY <4>2 DEF CancelAsked
      <4>3. ~Collected
        BY <1>4 DEF Collected, NoJob, NewJob
      <4> QED
        BY <1>1, <1>3, <2>4, <4>1, <4>2, <4>3 DEF RecordChange
    <3>3. Terminal(job) => Terminal(job)'
      BY <1>1, <1>3, <1>4, <2>4, TerminalStays DEF RecordChange, Steady, CancelAsked, Kept,
         Terminal, Started, Committed, Ended, Collected, NoJob, NewJob
    <3> QED
      BY <2>1, <2>2, <3>1, <3>2, <3>3 DEF Asked
  <2> QED
    BY <2>3, <2>4
<1>5. ASSUME NEW r \in Callers, runnerAttempt'[r] = target.attempt
      PROVE  /\ runnerPc'[r] \notin {"launching", "spawned"}
             /\ provider'[r] = "live" =>
                  runnerAttempt[r] = target.attempt /\ provider[r] = "live"
  <2>1. CASE BarrierPass(r)
    <3>1. provider' = provider /\ runnerPc'[r] = "admit" /\ runnerAttempt[r] = 0
      BY <2>1 DEF BarrierPass, RunnerTo, TypeInv, RunnerInv, FreshInv
    <3> QED
      BY <3>1 DEF HoldInv
  <2>2. CASE runnerAttempt'[r] = runnerAttempt[r] /\ ~BarrierPass(r)
    <3>1. runnerPc[r] \notin {"launching", "spawned"}
      BY <1>5, <2>2 DEF Asked
    <3>2. ~Announced(r)
      <4> SUFFICES ASSUME Announced(r) PROVE FALSE
        OBVIOUS
      <4>1. /\ job.state = "running" /\ job.attempt = runnerAttempt[r] /\ ~job.cancel
        BY DEF Announced, MayLaunch, Fenced, OwnerFence
      <4> QED
        BY <1>5, <2>2, <4>1 DEF Asked, Terminal, TERMINAL_STATES, Absent
    <3> QED
      BY <1>1, <1>5, <2>2, <3>1, <3>2 DEF RunnerMove, Still, Forked, Left, Advanced, Spawned,
         Bound, Returned
  <2> QED
    BY <1>1, <2>1, <2>2 DEF RunnerMove
<1>6. Asked'
  BY <1>2, <1>4, <1>5 DEF Asked
<1> QED
  BY <1>5, <1>6 DEF Stopped

(* Every step keeps what a cancel under way knows.                         *)
LEMMA StopStep ==
  ASSUME TypeInv, FreshInv, FirstInv, HoldInv, NameInv, StopInv, Next
  PROVE  StopInv'
<1> DEFINE Signals == {"signal", "forceInner", "forceOuter"}
<1>1. ASSUME cancelPc # "idle", target' = target
      PROVE  Asked' /\ (Stopped => Stopped')
  BY <1>1, AskedStep DEF StopInv
<1>2. CASE UNCHANGED cancelVars
  BY <1>1, <1>2 DEF StopInv, cancelVars
<1>3. CASE Canceller
  <2> USE DEF CancelTo, CancelRefused
  <2>1. CASE CancelRequest
    <3>1. CASE cancelPc' = "idle"
      BY <3>1 DEF StopInv
    <3>2. CASE cancelPc' # "idle"
      <4>1. /\ cancelPc' = "signal" /\ Readable(job) /\ ~provider_launch_unbound(job)
            /\ target'.attempt = job.attempt /\ target'.provider = job.pp.pid
            /\ UNCHANGED <<callerVars, runnerVars, provider>>
            /\ job.state \in {"queued", "starting", "running", "cancelled"}
        BY <2>1, <3>2 DEF CancelRequest
      <4>2. job.state # Absent /\ job \in LiveJob /\ job.attempt \in Nat \ {0}
        BY <4>1, ThereAttempt DEF Readable
      <4>3. job'.attempt = job.attempt /\ (job'.cancel \/ Terminal(job)')
        <5>1. CASE job' = job /\ job.state = "cancelled"
          BY <5>1 DEF Terminal, TERMINAL_STATES
        <5>2. CASE job' = [job EXCEPT !.cancel = TRUE]
          BY <4>2, <5>2 DEF LiveJob, Job
        <5> QED
          BY <2>1, <5>1, <5>2 DEF CancelRequest, Write, NoWrite
      <4>4. callerPc'[Starter] # "idle"
        BY <4>1, <4>2 DEF FirstInv, callerVars
      <4>5. ASSUME NEW r \in Callers
            PROVE  /\ runnerPc'[r] \notin {"launching", "spawned"}
                   /\ provider'[r] = "live" => target'.provider = r
        BY <4>1, <4>2 DEF NameInv, Unbound, provider_launch_unbound, runnerVars
      <4>6. Asked'
        BY <4>1, <4>2, <4>3, <4>4, <4>5 DEF Asked
      <4> QED
        BY <4>1, <4>6 DEF StopInv
    <3> QED
      BY <3>1, <3>2
  <2>2. CASE CancelSignal \/ CancelForceInner
    BY <1>1, <2>2 DEF CancelSignal, CancelForceInner, StopInv
  <2>3. CASE CancelForceOuter
    <3>1. CASE cancelPc' = "idle"
      BY <3>1 DEF StopInv
    <3>2. CASE cancelPc' # "idle"
      <4>1. cancelPc = "forceOuter" /\ cancelPc' = "reread" /\ target' = target
            /\ ProviderGone(target.provider)
        BY <2>3, <3>2 DEF CancelForceOuter
      <4>2. Stopped
        BY <4>1, NoneAssumption DEF StopInv, Asked, Stopped, ProviderGone
      <4> QED
        BY <1>1, <4>1, <4>2 DEF StopInv
    <3> QED
      BY <3>1, <3>2
  <2>4. CASE CancelReread \/ CancelStamp \/ CancelClear
    <3>1. CASE cancelPc' = "idle"
      BY <3>1 DEF StopInv
    <3>2. CASE cancelPc' # "idle"
      <4>1. cancelPc \in {"reread", "stampQueued", "stamp", "clear"} /\ target' = target
        BY <2>4, <3>2 DEF CancelReread, CancelStamp, CancelClear
      <4> QED
        BY <1>1, <4>1 DEF StopInv
    <3> QED
      BY <3>1, <3>2
  <2>5. CASE CancellerKilled
    BY <2>5 DEF CancellerKilled, StopInv
  <2> QED
    BY <1>3, <2>1, <2>2, <2>3, <2>4, <2>5 DEF Canceller
<1>4. ASSUME NEW c \in Callers, Caller(c)
      PROVE  UNCHANGED cancelVars
  BY <1>4 DEF Caller, StartJob, PreflightRetry, PrepareRetry, MarkStarting, Launch, SpawnFailed,
     ProbeChild, EarlyExit, WriteSpawnIdentity, SpawnIdentityFails, CommitRunning, Cleanup,
     Reconcile, StampUnlaunched, ClearAfterStamp, CallerKilled
<1>5. ASSUME NEW r \in Callers, Runner(r)
      PROVE  UNCHANGED cancelVars
  BY <1>5 DEF Runner, BarrierPass, BarrierAbort, Admit, Heartbeat, EnterAdapter, SpawnProvider,
     BindProvider, AdapterReturns, MarkExited, StampTerminal, RunnerExits, RunnerKilled,
     ProviderExits
<1>6. Operator => UNCHANGED cancelVars
  BY DEF Operator, RecoverObserve, RecoverCommit, Collect
<1> QED
  BY <1>2, <1>3, <1>4, <1>5, <1>6 DEF Next

(* They all hold in every reachable state of a traceable job.              *)
LEMMA ProviderAlways == Spec /\ []Traceable => []ProviderInv
<1>1. Init => ProviderInv
  <2>1. Init => ApartInv /\ HoldInv /\ OldInv /\ NameInv /\ QuietInv /\ StopInv
    BY DEF Init, ApartInv, SoloInv, HoldInv, Holding, OldInv, NameInv, QuietInv, Quiet, StopInv, NoJob, NewJob
  <2> QED
    BY <2>1, OwnedInit DEF ProviderInv
<1>2. ProviderInv /\ Traceable /\ [Next]_vars => ProviderInv'
  <2>1. ProviderInv /\ Traceable /\ Next => ProviderInv'
    <3> SUFFICES ASSUME ProviderInv, Traceable, Next PROVE ProviderInv'
      OBVIOUS
    <3>1. "kill" \notin Faults \/ Budget = 1
      BY DEF Traceable
    <3>2. OwnedInv'
      BY <3>1, TypeStep, FreshStep, FirstStep, OwnerStep DEF ProviderInv, OwnedInv
    <3>3. Budget > 2 => "kill" \notin Faults /\ OneAtATime
      BY BudgetAssumption DEF Traceable
    <3>4. ApartInv'
      BY <3>3, SoloStep DEF ProviderInv, OwnedInv, ApartInv
    <3>5. HoldInv' /\ OldInv' /\ NameInv' /\ QuietInv' /\ StopInv'
      BY HoldStep, OldStep, NameStep, QuietStep, StopStep DEF ProviderInv, OwnedInv
    <3> QED
      BY <3>2, <3>4, <3>5 DEF ProviderInv
  <2>2. ProviderInv /\ UNCHANGED vars => ProviderInv'
    <3> SUFFICES ASSUME ProviderInv, UNCHANGED vars PROVE ProviderInv'
      OBVIOUS
    <3>1. /\ UNCHANGED <<job, snapshot, callerPc, callerAttempt, runnerPc, runnerAttempt>>
          /\ UNCHANGED <<provider, cancelPc, target>>
      BY DEF vars, callerVars, runnerVars, cancelVars
    <3>2. TypeInv'
      BY TypeStep DEF ProviderInv, OwnedInv
    <3>3. FreshInv' /\ FirstInv' /\ OwnerInv'
      BY <3>1 DEF ProviderInv, OwnedInv, FreshInv, FirstInv, OwnerInv, OneOwnerPerAttempt,
         RunnerAlive
    <3>6. ApartInv'
      BY <3>1 DEF ProviderInv, ApartInv, SoloInv, RunnerAlive
    <3>4. HoldInv' /\ OldInv' /\ NameInv' /\ QuietInv'
      BY <3>1 DEF ProviderInv, HoldInv, OldInv, Over, NameInv, QuietInv, Quiet
    <3>5. StopInv'
      BY <3>1 DEF ProviderInv, StopInv, Asked, Stopped
    <3> QED
      BY <3>2, <3>3, <3>4, <3>5, <3>6 DEF ProviderInv, OwnedInv
  <2> QED
    BY <2>1, <2>2
<1> QED
  BY <1>1, <1>2, PTL DEF Spec

(* For any number of callers and of attempts, and whatever is cancelled,   *)
(* recovered, collected or killed: a job that can be traced never has two  *)
(* provider processes alive, over all its attempts, and never loses sight  *)
(* of one, because retry asks the record for the runner and the provider   *)
(* of the attempt before.                                                  *)
THEOREM OneLiveProviderAlways ==
  Spec /\ []Traceable => []OneLiveProvider
<1>1. ProviderInv => OneLiveProvider
  <2> SUFFICES ASSUME ProviderInv, NEW r \in Callers, provider[r] = "live"
               PROVE  /\ \A q \in Callers : provider[q] = "live" => q = r
                      /\ \/ job.pp.pid = r
                         \/ job.pp.state = "launching" /\ job.pp.pid = None
                         \/ runnerPc[r] = "spawned"
    BY DEF OneLiveProvider, LiveProviders
  <2>1. job.state # Absent
    BY DEF ProviderInv, QuietInv, Quiet
  <2>2. \A q \in Callers : provider[q] = "live" => q = r
    BY <2>1, HolderUnique DEF ProviderInv, OwnedInv, Acts
  <2>3. job.pp.pid = r \/ job.pp = Unbound
    BY <2>1 DEF ProviderInv, NameInv
  <2> QED
    BY <2>2, <2>3 DEF Unbound
<1> QED
  BY <1>1, ProviderAlways, PTL

(* Recovery never declares a traceable job lost, nor does gc collect it,   *)
(* while a provider of it is alive, although both probe before they lock.  *)
THEOREM LostAlwaysDead ==
  Spec /\ []Traceable => []LostIsDead
<1>1. ProviderInv => LostIsDead
  BY DEF ProviderInv, QuietInv, Quiet, LostIsDead, LiveProviders
<1> QED
  BY <1>1, ProviderAlways, PTL

(* When a cancel of a traceable job returns, no provider of the attempt    *)
(* that it was asked to cancel is alive, and none will be.                 *)
THEOREM CancelledAlwaysQuiet ==
  Spec /\ []Traceable => []CancelledAttemptIsQuiet
<1>1. ProviderInv => CancelledAttemptIsQuiet
  BY DEF ProviderInv, StopInv, Asked, Stopped, CancelledAttemptIsQuiet
<1> QED
  BY <1>1, ProviderAlways, PTL

(* Recovery leaves a traceable job with an orphaned provider to cancel, as *)
(* docs/durable-jobs.md says of every job.                                 *)
THEOREM OrphansAlwaysBlock ==
  Spec /\ []Traceable => []OrphansBlockRecovery
<1>1. ProviderInv => OrphansBlockRecovery
  <2>1. ASSUME ProviderInv, RecoverableLost
        PROVE  Quiet
    BY <2>1, GatesQuiet DEF ProviderInv, OwnedInv, RecoverableLost, IdentitiesGone, Readable
  <2> QED
    BY <2>1 DEF OrphansBlockRecovery, LiveProviders, Quiet
<1> QED
  BY <1>1, ProviderAlways, PTL
===============================================================================
