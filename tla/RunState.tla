-------------------------------- MODULE RunState --------------------------------
(***************************************************************************)
(* The strict-v2 runs of state.py, and the commands that meet on them: a   *)
(* driver that launches the host (`grok`) again and again, `omg cancel`,   *)
(* `omg accept`, and the creation of a run over an active one.  A step is  *)
(* one critical section of a run's transition lock, or one file or process *)
(* operation outside of it.                                                *)
(*                                                                         *)
(* The driver of a ralph run (modes.run_mode) holds the execution lease    *)
(* from its first to its last step; that of an autopilot run               *)
(* (autopilot.run_autopilot) takes it for each transition and launches     *)
(* without it.  The lease is a flock: a process that was killed holds      *)
(* none.  Its generation is counted up by every acquisition; what depends  *)
(* on it is only whether a cancel request was made under the newest one    *)
(* (`current`) or before it (`overtaken`).                                 *)
(***************************************************************************)
EXTENDS Naturals, FiniteSets

CONSTANTS
  Runs,         \* run ids
  Procs,        \* terminals: each runs one command after the other
  None,
  Autopilots,   \* the runs that are autopilot runs; the others are ralph runs
  MaxHosts,     \* launches, over all runs
  MaxCommands,  \* commands given, resumes of a run with a pending cancel aside
  MaxKills      \* commands killed

ASSUME RunAssumption ==
  /\ None \notin Runs \cup Procs
  /\ Autopilots \subseteq Runs
  /\ MaxHosts \in Nat /\ MaxCommands \in Nat /\ MaxKills \in Nat

VARIABLES
  status,      \* status.json of a run
  request,     \* cancel.request.json: none, or made at the current generation or not
  pid,         \* pid.json: the host it names, 0 if there is none
  lease,       \* who holds execution.lock
  guard,       \* who holds transition.lock over more than one step
  active,      \* active.json
  pointed,     \* the runs that active.json has named (history)
  createLock,  \* who holds create.lock
  hostRun, hostState,  \* the hosts launched
  pc, cmd,     \* the command each terminal is running, and where it is
  launched,    \* the host a driver launched last
  targets,     \* the hosts a cancel found
  commands, kills,
  orphans      \* the hosts whose driver was killed before pid.json named them (history)

files == <<status, request, pid, active, pointed>>
locks == <<lease, guard, createLock>>
hosts == <<hostRun, hostState>>
progress == <<pc, cmd, launched, targets>>
bounds == <<commands, kills, orphans>>
vars == <<files, locks, hosts, progress, bounds>>

Hosts == 1..MaxHosts
Terminal == {"cancelled", "verified"}
NonTerminal == {"initialized", "running", "blocked"}
Request == {"none", "current", "overtaken"}

Pc == {"idle", "returned", "write", "point", "acquire", "check", "start", "launch",
       "publish", "wait", "after", "accept", "verify", "block",
       "cancel", "signal", "finalize", "clear"}

(* A host is unpublished from Popen until pid.json names it.  One that a   *)
(* cancel passed over, as its start time could not be read, is skipped.    *)
Published == {"live", "signalled", "skipped"}
HostState == {"none", "unpublished", "gone"} \cup Published

(* `then` is what the command does after a cancel it had to do first.      *)
Cmd == [then : {"return", "create", "drive"}, run : Runs \cup {None}, new : Runs \cup {None}]

NoCmd == [then |-> "return", run |-> None, new |-> None]

VarTypes ==
  /\ status \in [Runs -> {"absent"} \cup NonTerminal \cup Terminal]
  /\ request \in [Runs -> Request]
  /\ pid \in [Runs -> 0..MaxHosts]
  /\ lease \in [Runs -> Procs \cup {None}] /\ guard \in [Runs -> Procs \cup {None}]
  /\ active \in Runs \cup {None} /\ pointed \subseteq Runs
  /\ createLock \in Procs \cup {None}
  /\ hostRun \in [Hosts -> Runs \cup {None}] /\ hostState \in [Hosts -> HostState]
  /\ pc \in [Procs -> Pc] /\ cmd \in [Procs -> Cmd]
  /\ launched \in [Procs -> 0..MaxHosts] /\ targets \in [Procs -> SUBSET Hosts]
  /\ commands \in 0..MaxCommands /\ kills \in 0..MaxKills /\ orphans \subseteq Hosts

(* The locks of a run are held by commands on that run, and its transition *)
(* lock over several steps only by a launch.                               *)
TypeOK ==
  /\ VarTypes
  /\ \A r \in Runs, p \in Procs :
       /\ guard[r] = p => pc[p] = "publish" /\ cmd[p].run = r
       /\ lease[r] = p => cmd[p].run = r

Init ==
  /\ status = [r \in Runs |-> "absent"]
  /\ request = [r \in Runs |-> "none"]
  /\ pid = [r \in Runs |-> 0]
  /\ lease = [r \in Runs |-> None] /\ guard = [r \in Runs |-> None]
  /\ active = None /\ pointed = {} /\ createLock = None
  /\ hostRun = [h \in Hosts |-> None] /\ hostState = [h \in Hosts |-> "none"]
  /\ pc = [p \in Procs |-> "idle"] /\ cmd = [p \in Procs |-> NoCmd]
  /\ launched = [p \in Procs |-> 0] /\ targets = [p \in Procs |-> {}]
  /\ commands = 0 /\ kills = 0 /\ orphans = {}

-----------------------------------------------------------------------------
At(p, l) == pc[p] = l
Run(p) == cmd[p].run
Autopilot(p) == cmd[p].run \in Autopilots
To(p, l) == pc' = [pc EXCEPT ![p] = l] /\ UNCHANGED <<cmd, launched, targets>>

(* A command begins.                                                       *)
Begin(p, l, then, run, new) ==
  /\ pc' = [pc EXCEPT ![p] = l]
  /\ cmd' = [cmd EXCEPT ![p] = [then |-> then, run |-> run, new |-> new]]
  /\ launched' = [launched EXCEPT ![p] = 0]
  /\ targets' = [targets EXCEPT ![p] = {}]

Free(lock, p) == [r \in Runs |-> IF lock[r] = p THEN None ELSE lock[r]]

(* The command ends; its lease is released.                                *)
Exit(p) == Begin(p, "idle", "return", None, None) /\ lease' = Free(lease, p)

Given == commands < MaxCommands /\ commands' = commands + 1 /\ UNCHANGED <<kills, orphans>>
Resting(p) == pc[p] \in {"idle", "returned"}

CanCommit_IgnoresRequest(r) == status[r] \notin Terminal

(* _commit_strict_status_locked, for every status but cancelled: a pending *)
(* request and the two absorbing statuses refuse it.                       *)
CanCommit(r) == request[r] = "none" /\ status[r] \notin Terminal

(* write_status under the transition lock; a refusal ends the command.     *)
WriteStatus(p, s, next) ==
  /\ guard[Run(p)] = None
  /\ IF CanCommit(Run(p))
       THEN status' = [status EXCEPT ![Run(p)] = s] /\ next
       ELSE UNCHANGED status /\ Exit(p)
  /\ UNCHANGED <<request, pid, active, pointed, guard, createLock, hosts, bounds>>

-----------------------------------------------------------------------------
(*                                create_run                               *)

(* is_stale_run: pid.json names a host that is gone.                       *)
Stale(r) == pid[r] # 0 /\ hostState[pid[r]] = "gone"

Blocking == active # None /\ status[active] \in NonTerminal

(* create.lock is held from here until active.json is written, over the    *)
(* cancel of the run that was active.                                      *)
CreateRun(p, r, force) ==
  /\ Resting(p) /\ Given
  /\ status[r] = "absent" /\ \A q \in Procs : cmd[q].new # r
  /\ createLock = None
  /\ Blocking => force \/ Stale(active)
  /\ createLock' = p
  /\ IF Blocking THEN Begin(p, "cancel", "create", active, r)
                 ELSE Begin(p, "write", "create", r, r)
  /\ UNCHANGED <<files, lease, guard, hosts>>

WriteRun(p) ==
  /\ At(p, "write")
  /\ status' = [status EXCEPT ![cmd[p].new] = "initialized"]
  /\ To(p, "point")
  /\ UNCHANGED <<request, pid, active, pointed, locks, hosts, bounds>>

(* The command goes on as the driver of the new run.                       *)
PointActive(p) ==
  /\ At(p, "point")
  /\ active' = cmd[p].new
  /\ pointed' = pointed \cup {cmd[p].new}
  /\ createLock' = None
  /\ Begin(p, "acquire", "drive", cmd[p].new, None)
  /\ UNCHANGED <<status, request, pid, lease, guard, hosts, bounds>>

-----------------------------------------------------------------------------
(*                             ExecutionLease                              *)

Driven(r) == \E q \in Procs : cmd[q].run = r /\ cmd[q].then = "drive"

Pending(r) == request[r] # "none" /\ status[r] \notin Terminal

(* `omg ralph --resume`, `omg autopilot run --resume`; the latter refuses  *)
(* a terminal run and a second driver, and launches without the lease.  It *)
(* takes the lease first to leave a phase that is complete, as a blocked   *)
(* run does, by a transition given by hand.                                *)
Resume(p, r) ==
  /\ Resting(p) /\ status[r] # "absent"
  /\ r \in Autopilots => status[r] \notin Terminal /\ ~Driven(r)
  /\ IF Pending(r) THEN UNCHANGED bounds ELSE Given
  /\ \E l \in {"acquire", IF r \in Autopilots /\ status[r] # "blocked" THEN "launch" ELSE "acquire"} :
       Begin(p, l, "drive", r, None)
  /\ UNCHANGED <<files, locks, hosts>>

(* `omg accept`, after acceptance has passed: set_verified takes a lease.  *)
AcceptRun(p, r) ==
  /\ Resting(p) /\ Given
  /\ status[r] # "absent"
  /\ Begin(p, "acquire", "return", r, None)
  /\ UNCHANGED <<files, locks, hosts>>

(* The new generation overtakes a request that is pending.                 *)
Acquire(p) ==
  /\ At(p, "acquire")
  /\ lease[Run(p)] = None
  /\ lease' = [lease EXCEPT ![Run(p)] = p]
  /\ request' = [request EXCEPT ![Run(p)] = IF @ = "none" THEN "none" ELSE "overtaken"]
  /\ To(p, IF cmd[p].then = "drive" THEN "check" ELSE "verify")
  /\ UNCHANGED <<status, pid, active, pointed, guard, createLock, hosts, bounds>>

AcquireBusy(p) ==
  /\ At(p, "acquire")
  /\ lease[Run(p)] # None
  /\ Exit(p)
  /\ UNCHANGED <<files, guard, createLock, hosts, bounds>>

-----------------------------------------------------------------------------
(*                               the drivers                               *)

Check_NoFinalizer(p) ==
  /\ At(p, "check")
  /\ IF CanCommit(Run(p)) THEN To(p, "start") /\ UNCHANGED lease ELSE Exit(p)
  /\ UNCHANGED <<files, guard, createLock, hosts, bounds>>

(* Under the lease: run_mode finalizes a pending cancel, a transition of   *)
(* the autopilot refuses it.  A ralph run whose session binding is lost or *)
(* whose iterations are used up is blocked.                                *)
Check(p) ==
  /\ At(p, "check")
  /\ \/ Pending(Run(p)) /\ ~Autopilot(p) /\ To(p, "cancel") /\ UNCHANGED lease
     \/ ~CanCommit(Run(p)) /\ (Pending(Run(p)) => Autopilot(p)) /\ Exit(p)
     \/ /\ CanCommit(Run(p))
        /\ \E l \in {"start", IF Autopilot(p) THEN "verify" ELSE "block"} : To(p, l)
        /\ UNCHANGED lease
  /\ UNCHANGED <<files, guard, createLock, hosts, bounds>>

(* The autopilot releases the lease after its transition.                  *)
Start(p) ==
  /\ At(p, "start")
  /\ \/ WriteStatus(p, "running",
          /\ To(p, "launch")
          /\ IF Autopilot(p) THEN lease' = Free(lease, p) ELSE UNCHANGED lease)
     \/ Autopilot(p) /\ WriteStatus(p, "blocked", Exit(p))

(* live_leader_pid_conflict                                                *)
LeaderLive(r) == pid[r] # 0 /\ hostState[pid[r]] # "gone"

LaunchRefused_TerminalOnly(r) == status[r] \in Terminal \/ LeaderLive(r)
LaunchRefused_LeaderUnseen(r) == ~CanCommit(r)

(* launch_refused_for_cancel, prepare_leader_spawn                         *)
LaunchRefused(r) == ~CanCommit(r) \/ LeaderLive(r)

Unlaunched == {h \in Hosts : hostState[h] = "none"}
NextHost == CHOOSE h \in Unlaunched : TRUE

(* A launch that failed (rc # 0): ralph writes blocked.                    *)
LaunchFailed(p) ==
  IF Autopilot(p) THEN Exit(p) ELSE To(p, "block") /\ UNCHANGED lease

(* The launch is refused, or the stale pid.json is cleared and Popen fails. *)
SpawnFails(p) ==
  /\ At(p, "launch") /\ guard[Run(p)] = None
  /\ pid' = IF LaunchRefused(Run(p)) THEN pid ELSE [pid EXCEPT ![Run(p)] = 0]
  /\ LaunchFailed(p)
  /\ UNCHANGED <<status, request, active, pointed, guard, createLock, hosts, bounds>>

(* The transition lock is held from the checks until pid.json is there.    *)
Spawn(p) ==
  /\ At(p, "launch") /\ guard[Run(p)] = None
  /\ ~LaunchRefused(Run(p)) /\ Unlaunched # {}
  /\ guard' = [guard EXCEPT ![Run(p)] = p]
  /\ pid' = [pid EXCEPT ![Run(p)] = 0]
  /\ hostRun' = [hostRun EXCEPT ![NextHost] = Run(p)]
  /\ hostState' = [hostState EXCEPT ![NextHost] = "unpublished"]
  /\ pc' = [pc EXCEPT ![p] = "publish"]
  /\ launched' = [launched EXCEPT ![p] = NextHost]
  /\ UNCHANGED <<cmd, targets, status, request, active, pointed, lease, createLock, bounds>>

(* A host may be gone already when its pid is published.                   *)
Publish(p) ==
  LET h == launched[p] IN
  /\ At(p, "publish")
  /\ guard' = [guard EXCEPT ![Run(p)] = None]
  /\ pid' = [pid EXCEPT ![Run(p)] = h]
  /\ hostState' = [hostState EXCEPT ![h] = IF @ = "unpublished" THEN "live" ELSE @]
  /\ To(p, "wait")
  /\ UNCHANGED <<hostRun, status, request, active, pointed, lease, createLock, bounds>>

PublishFails_KeepsChild(p) ==
  /\ At(p, "publish")
  /\ guard' = [guard EXCEPT ![Run(p)] = None]
  /\ LaunchFailed(p)
  /\ UNCHANGED <<files, hosts, createLock, bounds>>

(* The start time of the child cannot be read, or a file not be written,   *)
(* perhaps after pid.json: the child is killed.                            *)
PublishFails(p) ==
  /\ At(p, "publish")
  /\ guard' = [guard EXCEPT ![Run(p)] = None]
  /\ hostState' = [hostState EXCEPT ![launched[p]] = "gone"]
  /\ pid' \in {pid, [pid EXCEPT ![Run(p)] = launched[p]]}
  /\ LaunchFailed(p)
  /\ UNCHANGED <<hostRun, status, request, active, pointed, createLock, bounds>>

(* After its timeout the host is killed, which is a failed launch.         *)
WaitHost(p) ==
  /\ At(p, "wait")
  /\ \/ hostState[launched[p]] # "gone" /\ LaunchFailed(p)
     \/ /\ hostState[launched[p]] = "gone"
        /\ \/ LaunchFailed(p)
           \/ ~Autopilot(p) /\ To(p, "after") /\ UNCHANGED lease
           \/ /\ Autopilot(p)
              /\ \E l \in {"acquire", "launch"} : To(p, l)
              /\ UNCHANGED lease
           \/ Autopilot(p) /\ Exit(p)
  /\ hostState' = [hostState EXCEPT ![launched[p]] = "gone"]
  /\ UNCHANGED <<hostRun, files, guard, createLock, bounds>>

AfterHost(p) == At(p, "after") /\ WriteStatus(p, "running", To(p, "accept") /\ UNCHANGED lease)

(* Acceptance does not pass: the next iteration, or the ceiling.           *)
NotAccepted(p) ==
  /\ At(p, "accept")
  /\ \E l \in {"start", "block"} : To(p, l)
  /\ UNCHANGED <<files, locks, hosts, bounds>>

(* Acceptance passes, and set_verified commits with the driver's lease; a  *)
(* refusal counts as not accepted.                                         *)
Accepted(p) ==
  /\ At(p, "accept") /\ guard[Run(p)] = None /\ CanCommit(Run(p))
  /\ status' = [status EXCEPT ![Run(p)] = "verified"]
  /\ Exit(p)
  /\ UNCHANGED <<request, pid, active, pointed, guard, createLock, hosts, bounds>>

Verify(p) == At(p, "verify") /\ WriteStatus(p, "verified", Exit(p))

Block(p) == At(p, "block") /\ WriteStatus(p, "blocked", Exit(p))

-----------------------------------------------------------------------------
(*                           _cancel_run_strict                            *)

CancelRun(p, r) ==
  /\ Resting(p) /\ Given
  /\ status[r] # "absent"
  /\ Begin(p, "cancel", "return", r, None)
  /\ UNCHANGED <<files, locks, hosts>>

(* What follows a cancel: it returns, a creation goes on, a driver ends.   *)
CancelDone(p) ==
  IF cmd[p].then = "drive" THEN Exit(p)
  ELSE /\ To(p, IF cmd[p].then = "create" THEN "write" ELSE "returned")
       /\ UNCHANGED lease

(* _cancel_targets_snapshot                                                *)
Targets(r) == IF pid[r] = 0 THEN {} ELSE {pid[r]}

(* The request and the snapshot of the hosts, in one critical section.     *)
CancelRequest(p) ==
  LET r == Run(p) IN
  /\ At(p, "cancel") /\ guard[r] = None
  /\ IF status[r] \in Terminal
       THEN CancelDone(p) /\ UNCHANGED request
       ELSE /\ request' = [request EXCEPT ![r] = IF @ = "none" THEN "current" ELSE @]
            /\ pc' = [pc EXCEPT ![p] = "signal"]
            /\ targets' = [targets EXCEPT ![p] = Targets(r)]
            /\ UNCHANGED <<lease, cmd, launched>>
  /\ UNCHANGED <<status, pid, active, pointed, guard, createLock, hosts, bounds>>

(* _kill_from_pid_meta skips a host whose start time it cannot read.       *)
CancelSignal(p) ==
  /\ At(p, "signal")
  /\ \E outcome \in {"signalled", "skipped"} :
       hostState' = [h \in Hosts |-> IF h \in targets[p] /\ hostState[h] \in {"live", "skipped"}
                                      THEN outcome ELSE hostState[h]]
  /\ To(p, "finalize")
  /\ UNCHANGED <<hostRun, files, locks, bounds>>

(* Without a lease only a request made at the current generation may be    *)
(* finalized; otherwise the outcome is "cancellation requested".           *)
MayFinalize(p) == lease[Run(p)] = p \/ request[Run(p)] = "current"

CancelFinalize(p) ==
  /\ At(p, "finalize") /\ guard[Run(p)] = None
  /\ IF status[Run(p)] \notin Terminal /\ MayFinalize(p)
       THEN status' = [status EXCEPT ![Run(p)] = "cancelled"] /\ To(p, "clear") /\ UNCHANGED lease
       ELSE UNCHANGED status /\ CancelDone(p)
  /\ UNCHANGED <<request, pid, active, pointed, guard, createLock, hosts, bounds>>

Cleared_Unconditionally(r) == None

(* _clear_active_unlocked                                                  *)
Cleared(r) == IF active = r THEN None ELSE active

(* clear_active, under create.lock, which a creation holds already.        *)
CancelClear(p) ==
  /\ At(p, "clear")
  /\ createLock \in {None, p}
  /\ active' = Cleared(Run(p))
  /\ CancelDone(p)
  /\ UNCHANGED <<status, request, pid, pointed, guard, createLock, hosts, bounds>>

-----------------------------------------------------------------------------
HostEnds(h) ==
  /\ hostState[h] \in {"unpublished"} \cup Published
  /\ hostState' = [hostState EXCEPT ![h] = "gone"]
  /\ UNCHANGED <<hostRun, files, locks, progress, bounds>>

(* Every lock of the process is freed with it; its host lives on, and      *)
(* nothing names it if it was not published.                               *)
Killed(p) ==
  /\ ~Resting(p)
  /\ kills < MaxKills
  /\ kills' = kills + 1
  /\ orphans' = IF At(p, "publish") THEN orphans \cup {launched[p]} ELSE orphans
  /\ Exit(p)
  /\ guard' = Free(guard, p)
  /\ createLock' = IF createLock = p THEN None ELSE createLock
  /\ UNCHANGED <<files, hosts, commands>>

Command(p) ==
  \E r \in Runs :
    \/ \E force \in BOOLEAN : CreateRun(p, r, force)
    \/ Resume(p, r) \/ AcceptRun(p, r) \/ CancelRun(p, r)

Step(p) ==
  \/ WriteRun(p) \/ PointActive(p)
  \/ Acquire(p) \/ AcquireBusy(p) \/ Check(p) \/ Start(p)
  \/ SpawnFails(p) \/ Spawn(p) \/ Publish(p) \/ PublishFails(p) \/ WaitHost(p)
  \/ AfterHost(p) \/ NotAccepted(p) \/ Accepted(p) \/ Verify(p) \/ Block(p)
  \/ CancelRequest(p) \/ CancelSignal(p) \/ CancelFinalize(p) \/ CancelClear(p)

Next ==
  \/ \E p \in Procs : Command(p) \/ Step(p) \/ Killed(p)
  \/ \E h \in Hosts : HostEnds(h)

Spec == Init /\ [][Next]_vars

(* A command that was not killed goes on, and each run whose cancel is     *)
(* pending is resumed again and again.                                     *)
FairSpec ==
  /\ Spec
  /\ \A p \in Procs : WF_vars(Step(p))
  /\ \A r \in Runs : SF_vars(\E p \in Procs : Pending(r) /\ Resume(p, r))

-----------------------------------------------------------------------------
(*                               properties                                *)

(* Once a cancel request is persisted, no driver and no accept commits a   *)
(* status any more: the run can only become cancelled.                     *)
RequestDecides ==
  [][\A r \in Runs :
       status'[r] # status[r] /\ status[r] # "absent" =>
         /\ status[r] \notin Terminal
         /\ request[r] # "none" => status'[r] = "cancelled"]_vars

(* When a cancel has returned, every host of its run that pid.json ever    *)
(* named is gone, was signalled, or was skipped because its start time     *)
(* could not be read, and none will be launched.                           *)
CancelReachesHosts ==
  \A p \in Procs : At(p, "returned") /\ status[Run(p)] # "verified" =>
    \A h \in Hosts : hostRun[h] = Run(p) => hostState[h] # "live"

(* A run never has two published leaders that are not gone, although       *)
(* drivers are killed and leave theirs behind, and cancels pass them over. *)
OneLeader ==
  \A h, g \in Hosts :
    hostRun[h] = hostRun[g] /\ {hostState[h], hostState[g]} \subseteq Published => h = g

(* "Do not leave an orphan without cancel-visible pid.json": a host that   *)
(* is not gone is named by pid.json, or its driver still holds the         *)
(* transition lock and is about to name or kill it.  Only the kill of a    *)
(* driver at that point leaves a host that no file names.                  *)
HostsAccounted ==
  /\ TypeOK
  /\ \A h \in Hosts :
       /\ hostState[h] \in Published => pid[hostRun[h]] = h
       /\ hostState[h] = "unpublished" /\ h \notin orphans =>
            \E p \in Procs : guard[hostRun[h]] = p /\ launched[p] = h

(* A run that was started, and neither ended nor was asked to be cancelled *)
(* is the active one: two of them never run beside each other, and no      *)
(* late cancel of another takes it out of active.json.                     *)
OneActiveRun ==
  \A r \in pointed : status[r] \in NonTerminal /\ request[r] = "none" => active = r

(* The cancel of a ralph run is finalized in the end: by the process that  *)
(* asked for it, or by the next owner of the lease.                        *)
CancelFinalizes ==
  \A r \in Runs \ Autopilots : (request[r] # "none") ~> (status[r] = "cancelled")

(* What the refusal of an overtaken request says of every run: "the        *)
(* current or next owner must finalize it".                                *)
NextOwnerFinalizes ==
  \A r \in Runs : (request[r] # "none") ~> (status[r] = "cancelled")
================================================================================
