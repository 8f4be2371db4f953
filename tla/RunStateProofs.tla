---------------------------- MODULE RunStateProofs ----------------------------
(***************************************************************************)
(* What holds of RunState for every set of runs and of terminals, however  *)
(* many commands are given, hosts launched and commands killed.            *)
(***************************************************************************)
EXTENDS RunState, TLAPS

Closed(r) == ~CanCommit(r)
Quiet(r) == \A h \in Hosts : hostRun[h] = r => hostState[h] # "live"
Settled(r) == status[r] \in NonTerminal => request[r] # "none"

Cancelling == {"cancel", "signal", "finalize", "clear"}

(* A command works on a run that is there; a creation holds create.lock,   *)
(* and its own run is not there until it writes it.                        *)
ProcInv ==
  /\ \A p \in Procs :
       /\ pc[p] \notin {"idle", "write", "point"} =>
            cmd[p].run \in Runs /\ status[cmd[p].run] # "absent"
       /\ pc[p] \in {"write", "point"} => cmd[p].then = "create"
       /\ cmd[p].then = "create" =>
            /\ createLock = p
            /\ pc[p] \in Cancelling \cup {"write", "point"}
            /\ cmd[p].new \in Runs
            /\ (pc[p] = "point") <=> (status[cmd[p].new] # "absent")
       /\ pc[p] = "check" => cmd[p].then = "drive"
  /\ \A r \in pointed : status[r] # "absent"

(* The transition lock is held over several steps by a launch alone; the   *)
(* lease, by a driver, or by the command that is about to verify.          *)
LockInv ==
  \A r \in Runs, p \in Procs :
    /\ guard[r] = p <=> pc[p] = "publish" /\ cmd[p].run = r
    /\ lease[r] = p =>
         /\ cmd[p].run = r
         /\ pc[p] \notin {"idle", "returned"}
         /\ cmd[p].then = "drive" \/ pc[p] = "verify"

(* A published host is the one that pid.json names until it is gone.       *)
(* Between Popen and pid.json there is no pid on file, and no cancel       *)
(* request has come in.                                                    *)
HostInv ==
  /\ \A h \in Hosts : hostState[h] \in Published => hostRun[h] \in Runs /\ pid[hostRun[h]] = h
  /\ \A p \in Procs : pc[p] = "publish" =>
       /\ CanCommit(cmd[p].run) /\ pid[cmd[p].run] = 0
       /\ launched[p] \in Hosts
       /\ hostRun[launched[p]] = cmd[p].run
       /\ hostState[launched[p]] \in {"unpublished", "gone"}

(* An unpublished host is that of the launch that holds the transition     *)
(* lock of its run.                                                        *)
OrphanInv ==
  \A h \in Hosts : hostState[h] = "unpublished" /\ h \notin orphans =>
    /\ hostRun[h] \in Runs /\ guard[hostRun[h]] \in Procs
    /\ launched[guard[hostRun[h]]] = h

(* From its request on a cancel has closed the run to every other commit   *)
(* and to launches; once it has signalled what pid.json named, no host of  *)
(* the run is left that was not.                                           *)
CancelInv ==
  /\ \A p \in Procs :
       /\ pc[p] = "signal" =>
            /\ request[cmd[p].run] # "none"
            /\ \A h \in Hosts :
                 hostRun[h] = cmd[p].run /\ hostState[h] = "live" => h \in targets[p]
       /\ pc[p] = "finalize" => request[cmd[p].run] # "none" /\ Quiet(cmd[p].run)
       /\ pc[p] = "clear" => status[cmd[p].run] = "cancelled"
       /\ pc[p] = "returned" =>
            \/ status[cmd[p].run] = "verified"
            \/ Closed(cmd[p].run) /\ Quiet(cmd[p].run)
  /\ \A r \in Runs : status[r] = "cancelled" => Quiet(r)

(* While a run is created, every run that active.json ever named is ended  *)
(* or was asked to end, the one being superseded as soon as its cancel has *)
(* committed the request.                                                  *)
ActiveInv ==
  /\ OneActiveRun
  /\ \A p \in Procs : cmd[p].then = "create" =>
       \A r \in pointed : Settled(r) \/ (pc[p] = "cancel" /\ r = cmd[p].run)

IndInv == VarTypes /\ ProcInv /\ LockInv /\ HostInv /\ OrphanInv /\ CancelInv /\ ActiveInv

-----------------------------------------------------------------------------
(*                    what the steps of a command come to                  *)

(* The command ends without having written anything.                       *)
Refuses(p) ==
  /\ pc[p] \in {"acquire", "check", "start", "after", "accept", "verify", "block"}
  /\ Exit(p)
  /\ UNCHANGED <<files, guard, createLock, hosts, bounds>>

(* It commits a status, and ends or goes on.                               *)
Commits(p, s) ==
  /\ pc[p] \in {"start", "after", "accept", "verify", "block"}
  /\ guard[Run(p)] = None /\ CanCommit(Run(p))
  /\ status' = [status EXCEPT ![Run(p)] = s]
  /\ \/ Exit(p)
     \/ /\ To(p, IF pc[p] = "start" THEN "launch" ELSE "accept")
        /\ pc[p] \in {"start", "after"}
        /\ lease' \in {lease, Free(lease, p)}
  /\ UNCHANGED <<request, pid, active, pointed, guard, createLock, hosts, bounds>>

(* It goes on without having written anything.                             *)
Goes(p) ==
  /\ At(p, "check")
  /\ \E l \in {"cancel", "start", "verify", "block"} : To(p, l)
  /\ UNCHANGED <<files, locks, hosts, bounds>>

(* Every write of a status that is no cancel is one of the two.            *)
LEMMA Writes ==
  ASSUME NEW p \in Procs,
         Start(p) \/ AfterHost(p) \/ Accepted(p) \/ Verify(p) \/ Block(p)
  PROVE  Refuses(p) \/ \E s \in {"running", "blocked", "verified"} : Commits(p, s)
<1> USE DEF Refuses, Commits, WriteStatus, At, Exit, To, files
<1>1. CASE Start(p)
  BY <1>1 DEF Start
<1>2. CASE AfterHost(p)
  BY <1>2 DEF AfterHost
<1>3. CASE Accepted(p)
  BY <1>3 DEF Accepted
<1>4. CASE Verify(p)
  BY <1>4 DEF Verify
<1>5. CASE Block(p)
  BY <1>5 DEF Block
<1> QED
  BY <1>1, <1>2, <1>3, <1>4, <1>5

(* A check under the lease goes on or ends.                                *)
LEMMA Checks ==
  ASSUME NEW p \in Procs, Check(p)
  PROVE  Refuses(p) \/ Goes(p)
BY DEF Check, Refuses, Goes, At, locks

(* A step, with the writes of a status told apart by what becomes of them. *)
Change ==
  \/ \E p \in Procs :
       \/ \E r \in Runs : \/ \E force \in BOOLEAN : CreateRun(p, r, force)
                          \/ Resume(p, r) \/ AcceptRun(p, r) \/ CancelRun(p, r)
       \/ Refuses(p) \/ \E s \in {"running", "blocked", "verified"} : Commits(p, s)
       \/ WriteRun(p) \/ PointActive(p) \/ Acquire(p) \/ Goes(p)
       \/ SpawnFails(p) \/ Spawn(p) \/ Publish(p) \/ PublishFails(p) \/ WaitHost(p)
       \/ NotAccepted(p)
       \/ CancelRequest(p) \/ CancelSignal(p) \/ CancelFinalize(p) \/ CancelClear(p)
       \/ Killed(p)
  \/ \E h \in Hosts : HostEnds(h)

(* Every step is one of these.                                             *)
LEMMA Changes == Next => Change
<1>1. ASSUME NEW p \in Procs, AcquireBusy(p)
      PROVE  Refuses(p)
  BY <1>1 DEF AcquireBusy, Refuses, At
<1> QED
  BY <1>1, Writes, Checks DEF Next, Command, Step, Change

-----------------------------------------------------------------------------
(*                                  types                                  *)

(* VarTypes, by what the variables stand for.                              *)
FileTypes ==
  /\ status \in [Runs -> {"absent"} \cup NonTerminal \cup Terminal]
  /\ request \in [Runs -> Request]
  /\ pid \in [Runs -> 0..MaxHosts]
  /\ active \in Runs \cup {None} /\ pointed \subseteq Runs

LockTypes ==
  /\ lease \in [Runs -> Procs \cup {None}] /\ guard \in [Runs -> Procs \cup {None}]
  /\ createLock \in Procs \cup {None}

HostTypes == hostRun \in [Hosts -> Runs \cup {None}] /\ hostState \in [Hosts -> HostState]

ProgressTypes ==
  /\ pc \in [Procs -> Pc] /\ cmd \in [Procs -> Cmd]
  /\ launched \in [Procs -> 0..MaxHosts] /\ targets \in [Procs -> SUBSET Hosts]

BoundTypes ==
  commands \in 0..MaxCommands /\ kills \in 0..MaxKills /\ orphans \subseteq Hosts

(* However a command moves on or ends, its variables keep their types.     *)
LEMMA ProgressStep ==
  ASSUME VarTypes, NEW p \in Procs
  PROVE  /\ \A l \in Pc : To(p, l) => ProgressTypes'
         /\ \A l \in Pc, then \in {"return", "create", "drive"},
               run \in Runs \cup {None}, new \in Runs \cup {None} :
              Begin(p, l, then, run, new) => ProgressTypes'
         /\ Exit(p) \/ LaunchFailed(p) \/ CancelDone(p) =>
              ProgressTypes' /\ lease' \in [Runs -> Procs \cup {None}]
<1> USE RunAssumption DEF VarTypes, ProgressTypes, Pc, Cmd
<1>1. \A l \in Pc : To(p, l) => ProgressTypes'
  BY DEF To
<1>2. \A l \in Pc, then \in {"return", "create", "drive"},
         run \in Runs \cup {None}, new \in Runs \cup {None} :
        Begin(p, l, then, run, new) => ProgressTypes'
  BY DEF Begin
<1>3. Exit(p) => ProgressTypes' /\ lease' \in [Runs -> Procs \cup {None}]
  <2>1. ASSUME Begin(p, "idle", "return", None, None)
        PROVE  ProgressTypes'
    BY <2>1 DEF Begin
  <2>2. Free(lease, p) \in [Runs -> Procs \cup {None}]
    BY DEF Free
  <2> QED
    BY <2>1, <2>2 DEF Exit
<1>4. LaunchFailed(p) \/ CancelDone(p) =>
        ProgressTypes' /\ lease' \in [Runs -> Procs \cup {None}]
  BY <1>3 DEF LaunchFailed, CancelDone, To
<1> QED
  BY <1>1, <1>2, <1>3, <1>4

(* The files keep their types.                                             *)
LEMMA FileStep ==
  ASSUME IndInv, Change
  PROVE  FileTypes'
<1> USE RunAssumption DEF IndInv, VarTypes, FileTypes, files, Terminal, NonTerminal, Cmd
<1>1. ASSUME NEW p \in Procs, NEW s \in {"running", "blocked", "verified"}, Commits(p, s)
      PROVE  FileTypes'
  BY <1>1 DEF Commits, Run
<1>2. ASSUME NEW p \in Procs, WriteRun(p)
      PROVE  FileTypes'
  BY <1>2 DEF WriteRun, ProcInv, At
<1>3. ASSUME NEW p \in Procs, PointActive(p)
      PROVE  FileTypes'
  BY <1>3 DEF PointActive, ProcInv, At, Cancelling
<1>4. ASSUME NEW p \in Procs, Acquire(p)
      PROVE  FileTypes'
  BY <1>4 DEF Acquire, Request
<1>5. ASSUME NEW p \in Procs, SpawnFails(p)
      PROVE  FileTypes'
  <2>1. pid' \in {pid, [pid EXCEPT ![Run(p)] = 0]}
    BY <1>5 DEF SpawnFails
  <2>2. 0 \in 0..MaxHosts
    OBVIOUS
  <2>3. pid' \in [Runs -> 0..MaxHosts]
    BY <2>1, <2>2
  <2> QED
    BY <1>5, <2>3 DEF SpawnFails
<1>6. ASSUME NEW p \in Procs, Spawn(p)
      PROVE  FileTypes'
  <2>1. pid' \in {pid, [pid EXCEPT ![Run(p)] = 0]}
    BY <1>6 DEF Spawn
  <2>2. 0 \in 0..MaxHosts
    OBVIOUS
  <2>3. pid' \in [Runs -> 0..MaxHosts]
    BY <2>1, <2>2
  <2> QED
    BY <1>6, <2>3 DEF Spawn
<1>7. ASSUME NEW p \in Procs, Publish(p)
      PROVE  FileTypes'
  BY <1>7 DEF Publish
<1>8. ASSUME NEW p \in Procs, CancelRequest(p)
      PROVE  FileTypes'
  BY <1>8 DEF CancelRequest, Request
<1>9. ASSUME NEW p \in Procs, CancelFinalize(p)
      PROVE  FileTypes'
  BY <1>9 DEF CancelFinalize
<1>10. ASSUME NEW p \in Procs, CancelClear(p)
      PROVE  FileTypes'
  BY <1>10 DEF CancelClear, Cleared
<1>11. ASSUME NEW p \in Procs, PublishFails(p)
      PROVE  FileTypes'
  <2>1. pid' \in [Runs -> 0..MaxHosts]
    BY <1>11 DEF PublishFails
  <2> QED
    BY <1>11, <2>1 DEF PublishFails
<1> QED
  BY <1>1, <1>2, <1>3, <1>4, <1>5, <1>6, <1>7, <1>8, <1>9, <1>10, <1>11 DEF Change, CreateRun, Resume,
     AcceptRun, CancelRun, Refuses, Goes, WaitHost, NotAccepted, CancelSignal,
     Killed, HostEnds

(* The locks keep their types.                                             *)
LEMMA LockTypeStep ==
  ASSUME IndInv, Change
  PROVE  LockTypes'
<1> USE RunAssumption DEF IndInv, VarTypes, LockTypes, locks, Exit, Free
<1>1. ASSUME NEW p \in Procs, NEW r \in Runs, NEW force \in BOOLEAN, CreateRun(p, r, force)
      PROVE  LockTypes'
  BY <1>1 DEF CreateRun
<1>2. ASSUME NEW p \in Procs, Refuses(p)
      PROVE  LockTypes'
  BY <1>2 DEF Refuses
<1>3. ASSUME NEW p \in Procs, NEW s \in {"running", "blocked", "verified"}, Commits(p, s)
      PROVE  LockTypes'
  BY <1>3 DEF Commits, To
<1>4. ASSUME NEW p \in Procs, PointActive(p)
      PROVE  LockTypes'
  BY <1>4 DEF PointActive
<1>5. ASSUME NEW p \in Procs, Acquire(p)
      PROVE  LockTypes'
  BY <1>5 DEF Acquire
<1>6. ASSUME NEW p \in Procs, SpawnFails(p)
      PROVE  LockTypes'
  BY <1>6, ProgressStep DEF SpawnFails
<1>7. ASSUME NEW p \in Procs, Spawn(p)
      PROVE  LockTypes'
  BY <1>7 DEF Spawn
<1>8. ASSUME NEW p \in Procs, Publish(p)
      PROVE  LockTypes'
  BY <1>8 DEF Publish
<1>9. ASSUME NEW p \in Procs, PublishFails(p)
      PROVE  LockTypes'
  BY <1>9, ProgressStep DEF PublishFails
<1>10. ASSUME NEW p \in Procs, WaitHost(p)
      PROVE  LockTypes'
  BY <1>10, ProgressStep DEF WaitHost
<1>11. ASSUME NEW p \in Procs, CancelRequest(p)
      PROVE  LockTypes'
  BY <1>11, ProgressStep DEF CancelRequest
<1>12. ASSUME NEW p \in Procs, CancelFinalize(p)
      PROVE  LockTypes'
  BY <1>12, ProgressStep DEF CancelFinalize
<1>13. ASSUME NEW p \in Procs, CancelClear(p)
      PROVE  LockTypes'
  BY <1>13, ProgressStep DEF CancelClear
<1>14. ASSUME NEW p \in Procs, Killed(p)
      PROVE  LockTypes'
  BY <1>14 DEF Killed
<1> QED
  BY <1>1, <1>2, <1>3, <1>4, <1>5, <1>6, <1>7, <1>8, <1>9, <1>10, <1>11, <1>12, <1>13, <1>14 DEF
     Change, Resume, AcceptRun, CancelRun, WriteRun, Goes, NotAccepted, CancelSignal, HostEnds

(* The hosts keep their types.                                             *)
LEMMA HostTypeStep ==
  ASSUME IndInv, Change
  PROVE  HostTypes'
<1> USE RunAssumption DEF IndInv, VarTypes, HostTypes, HostState, Published, hosts, Unlaunched, NextHost,
   Run, Cmd, Request
<1>1. ASSUME NEW p \in Procs, Spawn(p)
      PROVE  HostTypes'
  BY <1>1 DEF Spawn
<1>2. ASSUME NEW p \in Procs, Publish(p)
      PROVE  HostTypes'
  BY <1>2 DEF Publish
<1>3. ASSUME NEW p \in Procs, PublishFails(p)
      PROVE  HostTypes'
  BY <1>3 DEF PublishFails
<1>4. ASSUME NEW p \in Procs, WaitHost(p)
      PROVE  HostTypes'
  BY <1>4 DEF WaitHost
<1>5. ASSUME NEW p \in Procs, CancelSignal(p)
      PROVE  HostTypes'
  BY <1>5 DEF CancelSignal
<1>6. ASSUME NEW h \in Hosts, HostEnds(h)
      PROVE  HostTypes'
  BY <1>6 DEF HostEnds
<1> QED
  BY <1>1, <1>2, <1>3, <1>4, <1>5, <1>6 DEF Change, CreateRun, Resume, AcceptRun, CancelRun,
     Refuses, Commits, WriteRun, PointActive, Acquire, Goes, SpawnFails, NotAccepted,
     CancelRequest, CancelFinalize, CancelClear, Killed

(* The commands keep their types.                                          *)
LEMMA ProgressTypeStep ==
  ASSUME IndInv, Change
  PROVE  ProgressTypes'
<1> USE RunAssumption DEF IndInv, VarTypes, ProgressTypes, Pc, progress
<1>1. ASSUME NEW p \in Procs, NEW r \in Runs, NEW force \in BOOLEAN, CreateRun(p, r, force)
      PROVE  ProgressTypes'
  BY <1>1, ProgressStep DEF CreateRun, Blocking, FileTypes
<1>2. ASSUME NEW p \in Procs, NEW r \in Runs, Resume(p, r)
      PROVE  ProgressTypes'
  BY <1>2, ProgressStep DEF Resume
<1>3. ASSUME NEW p \in Procs, NEW r \in Runs, AcceptRun(p, r)
      PROVE  ProgressTypes'
  BY <1>3, ProgressStep DEF AcceptRun
<1>4. ASSUME NEW p \in Procs, NEW r \in Runs, CancelRun(p, r)
      PROVE  ProgressTypes'
  BY <1>4, ProgressStep DEF CancelRun
<1>5. ASSUME NEW p \in Procs, Refuses(p)
      PROVE  ProgressTypes'
  BY <1>5, ProgressStep DEF Refuses
<1>6. ASSUME NEW p \in Procs, NEW s \in {"running", "blocked", "verified"}, Commits(p, s)
      PROVE  ProgressTypes'
  BY <1>6, ProgressStep DEF Commits
<1>7. ASSUME NEW p \in Procs, WriteRun(p)
      PROVE  ProgressTypes'
  BY <1>7, ProgressStep DEF WriteRun
<1>8. ASSUME NEW p \in Procs, PointActive(p)
      PROVE  ProgressTypes'
  <2>1. cmd[p].new \in Runs
    BY <1>8 DEF PointActive, ProcInv, At, Cancelling
  <2>2. Begin(p, "acquire", "drive", cmd[p].new, None)
    BY <1>8 DEF PointActive
  <2> QED
    BY <2>1, <2>2, ProgressStep
<1>9. ASSUME NEW p \in Procs, Acquire(p)
      PROVE  ProgressTypes'
  BY <1>9, ProgressStep DEF Acquire
<1>10. ASSUME NEW p \in Procs, Goes(p)
      PROVE  ProgressTypes'
  BY <1>10, ProgressStep DEF Goes
<1>11. ASSUME NEW p \in Procs, SpawnFails(p)
      PROVE  ProgressTypes'
  BY <1>11, ProgressStep DEF SpawnFails
<1>12. ASSUME NEW p \in Procs, Spawn(p)
      PROVE  ProgressTypes'
  BY <1>12 DEF Spawn, ProgressTypes, Unlaunched, NextHost, Hosts
<1>13. ASSUME NEW p \in Procs, Publish(p)
      PROVE  ProgressTypes'
  BY <1>13, ProgressStep DEF Publish
<1>14. ASSUME NEW p \in Procs, PublishFails(p)
      PROVE  ProgressTypes'
  BY <1>14, ProgressStep DEF PublishFails
<1>15. ASSUME NEW p \in Procs, WaitHost(p)
      PROVE  ProgressTypes'
  BY <1>15, ProgressStep DEF WaitHost
<1>16. ASSUME NEW p \in Procs, NotAccepted(p)
      PROVE  ProgressTypes'
  BY <1>16, ProgressStep DEF NotAccepted
<1>17. ASSUME NEW p \in Procs, CancelRequest(p)
      PROVE  ProgressTypes'
  <2>1. CASE CancelDone(p)
    BY <2>1, ProgressStep
  <2>2. ASSUME pc' = [pc EXCEPT ![p] = "signal"],
               targets' = [targets EXCEPT ![p] = Targets(Run(p))],
               UNCHANGED <<cmd, launched>>
        PROVE  ProgressTypes'
    <3>1. Run(p) \in Runs
      BY <1>17 DEF CancelRequest, ProcInv, At, Run
    <3>2. Targets(Run(p)) \in SUBSET Hosts
      BY <3>1 DEF Targets, Hosts
    <3> QED
      BY <2>2, <3>2 DEF ProgressTypes
  <2> QED
    BY <1>17, <2>1, <2>2 DEF CancelRequest
<1>18. ASSUME NEW p \in Procs, CancelSignal(p)
      PROVE  ProgressTypes'
  BY <1>18, ProgressStep DEF CancelSignal
<1>19. ASSUME NEW p \in Procs, CancelFinalize(p)
      PROVE  ProgressTypes'
  BY <1>19, ProgressStep DEF CancelFinalize
<1>20. ASSUME NEW p \in Procs, CancelClear(p)
      PROVE  ProgressTypes'
  BY <1>20, ProgressStep DEF CancelClear
<1>21. ASSUME NEW p \in Procs, Killed(p)
      PROVE  ProgressTypes'
  BY <1>21, ProgressStep DEF Killed
<1> QED
  BY <1>1, <1>2, <1>3, <1>4, <1>5, <1>6, <1>7, <1>8, <1>9, <1>10, <1>11, <1>12, <1>13, <1>14,
     <1>15, <1>16, <1>17, <1>18, <1>19, <1>20, <1>21 DEF Change, HostEnds

(* The bounds are kept.                                                    *)
LEMMA BoundTypeStep ==
  ASSUME IndInv, Change
  PROVE  BoundTypes'
<1> USE RunAssumption DEF IndInv, VarTypes, BoundTypes, bounds, Given
<1>1. ASSUME NEW p \in Procs, NEW r \in Runs, NEW force \in BOOLEAN, CreateRun(p, r, force)
      PROVE  BoundTypes'
  BY <1>1 DEF CreateRun
<1>2. ASSUME NEW p \in Procs, NEW r \in Runs, Resume(p, r)
      PROVE  BoundTypes'
  BY <1>2 DEF Resume
<1>3. ASSUME NEW p \in Procs, NEW r \in Runs, AcceptRun(p, r)
      PROVE  BoundTypes'
  BY <1>3 DEF AcceptRun
<1>4. ASSUME NEW p \in Procs, NEW r \in Runs, CancelRun(p, r)
      PROVE  BoundTypes'
  BY <1>4 DEF CancelRun
<1>5. ASSUME NEW p \in Procs, Killed(p)
      PROVE  BoundTypes'
  BY <1>5 DEF Killed, HostInv, At
<1> QED
  BY <1>1, <1>2, <1>3, <1>4, <1>5 DEF Change, Refuses, Commits, WriteRun, PointActive, Acquire,
     Goes, SpawnFails, Spawn, Publish, PublishFails, WaitHost, NotAccepted, CancelRequest,
     CancelSignal, CancelFinalize, CancelClear, HostEnds

(* Every step preserves the types of all variables.                        *)
LEMMA VarStep ==
  ASSUME IndInv, Change
  PROVE  VarTypes'
BY FileStep, LockTypeStep, HostTypeStep, ProgressTypeStep, BoundTypeStep
   DEF VarTypes, FileTypes, LockTypes, HostTypes, ProgressTypes, BoundTypes

-----------------------------------------------------------------------------
(*                          the inductive invariant                        *)

(* Each command stays where its run, and create.lock, allow it to be.      *)
LEMMA ProcStep ==
  ASSUME IndInv, Change
  PROVE  ProcInv'
<1> USE RunAssumption DEF At, To, Run, Autopilot, Begin, Exit, Free, Resting, files, locks,
   hosts, progress, bounds, Given, IndInv, VarTypes, Cmd, ProcInv, Cancelling, Terminal,
   NonTerminal
<1>1. ASSUME NEW p \in Procs, NEW r \in Runs, NEW force \in BOOLEAN, CreateRun(p, r, force)
      PROVE  ProcInv'
  BY <1>1 DEF CreateRun, Blocking
<1>2. ASSUME NEW p \in Procs, NEW r \in Runs, Resume(p, r)
      PROVE  ProcInv'
  BY <1>2 DEF Resume
<1>3. ASSUME NEW p \in Procs, NEW r \in Runs, AcceptRun(p, r)
      PROVE  ProcInv'
  BY <1>3 DEF AcceptRun
<1>4. ASSUME NEW p \in Procs, NEW r \in Runs, CancelRun(p, r)
      PROVE  ProcInv'
  BY <1>4 DEF CancelRun
<1>5. ASSUME NEW p \in Procs, Refuses(p)
      PROVE  ProcInv'
  BY <1>5 DEF Refuses
<1>6. ASSUME NEW p \in Procs, NEW s \in {"running", "blocked", "verified"}, Commits(p, s)
      PROVE  ProcInv'
  BY <1>6 DEF Commits
<1>7. ASSUME NEW p \in Procs, WriteRun(p)
      PROVE  ProcInv'
  BY <1>7 DEF WriteRun
<1>8. ASSUME NEW p \in Procs, PointActive(p)
      PROVE  ProcInv'
  BY <1>8 DEF PointActive
<1>9. ASSUME NEW p \in Procs, Acquire(p)
      PROVE  ProcInv'
  BY <1>9 DEF Acquire
<1>10. ASSUME NEW p \in Procs, Goes(p)
      PROVE  ProcInv'
  BY <1>10 DEF Goes
<1>11. ASSUME NEW p \in Procs, SpawnFails(p)
      PROVE  ProcInv'
  <2>1. CASE Exit(p)
    BY <1>11, <2>1 DEF SpawnFails
  <2>2. CASE To(p, "block") /\ UNCHANGED lease
    BY <1>11, <2>2 DEF SpawnFails
  <2> QED
    BY <1>11, <2>1, <2>2 DEF SpawnFails, LaunchFailed
<1>12. ASSUME NEW p \in Procs, Spawn(p)
      PROVE  ProcInv'
  BY <1>12 DEF Spawn, LaunchRefused, LeaderLive
<1>13. ASSUME NEW p \in Procs, Publish(p)
      PROVE  ProcInv'
  BY <1>13 DEF Publish
<1>14. ASSUME NEW p \in Procs, PublishFails(p)
      PROVE  ProcInv'
  BY <1>14 DEF PublishFails, LaunchFailed
<1>15. ASSUME NEW p \in Procs, WaitHost(p)
      PROVE  ProcInv'
  BY <1>15 DEF WaitHost, LaunchFailed
<1>16. ASSUME NEW p \in Procs, NotAccepted(p)
      PROVE  ProcInv'
  BY <1>16 DEF NotAccepted
<1>17. ASSUME NEW p \in Procs, CancelRequest(p)
      PROVE  ProcInv'
  BY <1>17 DEF CancelRequest, CancelDone
<1>18. ASSUME NEW p \in Procs, CancelSignal(p)
      PROVE  ProcInv'
  BY <1>18 DEF CancelSignal
<1>19. ASSUME NEW p \in Procs, CancelFinalize(p)
      PROVE  ProcInv'
  <2>1. CASE To(p, "clear")
    BY <1>19, <2>1 DEF CancelFinalize, CancelDone
  <2>2. CASE Exit(p)
    BY <1>19, <2>2 DEF CancelFinalize, CancelDone
  <2>3. CASE To(p, "write")
    BY <1>19, <2>3 DEF CancelFinalize, CancelDone
  <2>4. CASE To(p, "returned")
    BY <1>19, <2>4 DEF CancelFinalize, CancelDone
  <2> QED
    BY <1>19, <2>1, <2>2, <2>3, <2>4 DEF CancelFinalize, CancelDone
<1>20. ASSUME NEW p \in Procs, CancelClear(p)
      PROVE  ProcInv'
  <2>1. CASE Exit(p)
    BY <1>20, <2>1 DEF CancelClear, CancelDone
  <2>2. CASE To(p, "write")
    BY <1>20, <2>2 DEF CancelClear, CancelDone
  <2>3. CASE To(p, "returned")
    BY <1>20, <2>3 DEF CancelClear, CancelDone
  <2> QED
    BY <1>20, <2>1, <2>2, <2>3 DEF CancelClear, CancelDone
<1>21. ASSUME NEW p \in Procs, Killed(p)
      PROVE  ProcInv'
  BY <1>21 DEF Killed
<1>22. ASSUME NEW h \in Hosts, HostEnds(h)
      PROVE  ProcInv'
  BY <1>22 DEF HostEnds
<1> QED
  BY <1>1, <1>2, <1>3, <1>4, <1>5, <1>6, <1>7, <1>8, <1>9, <1>10, <1>11, <1>12, <1>13, <1>14,
     <1>15, <1>16, <1>17, <1>18, <1>19, <1>20, <1>21, <1>22 DEF Change

(* A command that moves on or ends lets go of the locks it must not keep.  *)
LEMMA LockStep ==
  ASSUME IndInv, Change
  PROVE  LockInv'
<1> USE RunAssumption DEF At, To, Run, Autopilot, Begin, Exit, Free, Resting, files, locks,
   hosts, progress, bounds, Given, IndInv, VarTypes, Cmd, ProcInv, LockInv, Cancelling
<1>1. ASSUME NEW p \in Procs, NEW r \in Runs, NEW force \in BOOLEAN, CreateRun(p, r, force)
      PROVE  LockInv'
  BY <1>1 DEF CreateRun, Blocking
<1>2. ASSUME NEW p \in Procs, NEW r \in Runs, Resume(p, r)
      PROVE  LockInv'
  BY <1>2 DEF Resume
<1>3. ASSUME NEW p \in Procs, NEW r \in Runs, AcceptRun(p, r)
      PROVE  LockInv'
  BY <1>3 DEF AcceptRun
<1>4. ASSUME NEW p \in Procs, NEW r \in Runs, CancelRun(p, r)
      PROVE  LockInv'
  BY <1>4 DEF CancelRun
<1>5. ASSUME NEW p \in Procs, Refuses(p)
      PROVE  LockInv'
  BY <1>5 DEF Refuses
<1>6. ASSUME NEW p \in Procs, NEW s \in {"running", "blocked", "verified"}, Commits(p, s)
      PROVE  LockInv'
  BY <1>6 DEF Commits
<1>7. ASSUME NEW p \in Procs, WriteRun(p)
      PROVE  LockInv'
  BY <1>7 DEF WriteRun
<1>8. ASSUME NEW p \in Procs, PointActive(p)
      PROVE  LockInv'
  BY <1>8 DEF PointActive
<1>9. ASSUME NEW p \in Procs, Acquire(p)
      PROVE  LockInv'
  BY <1>9 DEF Acquire
<1>10. ASSUME NEW p \in Procs, Goes(p)
      PROVE  LockInv'
  BY <1>10 DEF Goes
<1>11. ASSUME NEW p \in Procs, SpawnFails(p)
      PROVE  LockInv'
  <2>1. CASE Exit(p)
    BY <1>11, <2>1 DEF SpawnFails
  <2>2. CASE To(p, "block") /\ UNCHANGED lease
    BY <1>11, <2>2 DEF SpawnFails
  <2> QED
    BY <1>11, <2>1, <2>2 DEF SpawnFails, LaunchFailed
<1>12. ASSUME NEW p \in Procs, Spawn(p)
      PROVE  LockInv'
  BY <1>12 DEF Spawn, LaunchRefused, LeaderLive
<1>13. ASSUME NEW p \in Procs, Publish(p)
      PROVE  LockInv'
  BY <1>13 DEF Publish
<1>14. ASSUME NEW p \in Procs, PublishFails(p)
      PROVE  LockInv'
  BY <1>14 DEF PublishFails, LaunchFailed
<1>15. ASSUME NEW p \in Procs, WaitHost(p)
      PROVE  LockInv'
  BY <1>15 DEF WaitHost, LaunchFailed
<1>16. ASSUME NEW p \in Procs, NotAccepted(p)
      PROVE  LockInv'
  BY <1>16 DEF NotAccepted
<1>17. ASSUME NEW p \in Procs, CancelRequest(p)
      PROVE  LockInv'
  BY <1>17 DEF CancelRequest, CancelDone
<1>18. ASSUME NEW p \in Procs, CancelSignal(p)
      PROVE  LockInv'
  BY <1>18 DEF CancelSignal
<1>19. ASSUME NEW p \in Procs, CancelFinalize(p)
      PROVE  LockInv'
  BY <1>19 DEF CancelFinalize, CancelDone
<1>20. ASSUME NEW p \in Procs, CancelClear(p)
      PROVE  LockInv'
  BY <1>20 DEF CancelClear, CancelDone
<1>21. ASSUME NEW p \in Procs, Killed(p)
      PROVE  LockInv'
  BY <1>21 DEF Killed
<1>22. ASSUME NEW h \in Hosts, HostEnds(h)
      PROVE  LockInv'
  BY <1>22 DEF HostEnds
<1> QED
  BY <1>1, <1>2, <1>3, <1>4, <1>5, <1>6, <1>7, <1>8, <1>9, <1>10, <1>11, <1>12, <1>13, <1>14,
     <1>15, <1>16, <1>17, <1>18, <1>19, <1>20, <1>21, <1>22 DEF Change

(* The host of a launch is a new one.                                      *)
LEMMA NextHostIsNew ==
  ASSUME Unlaunched # {}
  PROVE  NextHost \in Hosts /\ hostState[NextHost] = "none"
BY DEF Unlaunched, NextHost

(* A host becomes live only by the launch that holds the transition lock,  *)
(* on a run that has none.                                                 *)
LEMMA HostStep ==
  ASSUME IndInv, Change
  PROVE  HostInv'
<1> USE RunAssumption DEF At, To, Run, Autopilot, Begin, Exit, Free, Resting, files, locks,
   hosts, progress, bounds, Given, IndInv, VarTypes, Cmd, Hosts, ProcInv, LockInv, HostInv,
   Published, CanCommit, Cancelling, Terminal, NonTerminal
<1>1. ASSUME NEW p \in Procs, NEW r \in Runs, NEW force \in BOOLEAN, CreateRun(p, r, force)
      PROVE  HostInv'
  <2>1. /\ UNCHANGED <<status, request, pid, hostRun, hostState>>
        /\ pc' = [pc EXCEPT ![p] = pc'[p]] /\ pc'[p] \in {"cancel", "write"}
        /\ cmd' = [cmd EXCEPT ![p] = cmd'[p]]
        /\ launched' = [launched EXCEPT ![p] = 0]
    BY <1>1 DEF CreateRun
  <2> QED
    BY <2>1
<1>2. ASSUME NEW p \in Procs, NEW r \in Runs, Resume(p, r)
      PROVE  HostInv'
  BY <1>2 DEF Resume
<1>3. ASSUME NEW p \in Procs, NEW r \in Runs, AcceptRun(p, r)
      PROVE  HostInv'
  BY <1>3 DEF AcceptRun
<1>4. ASSUME NEW p \in Procs, NEW r \in Runs, CancelRun(p, r)
      PROVE  HostInv'
  BY <1>4 DEF CancelRun
<1>5. ASSUME NEW p \in Procs, Refuses(p)
      PROVE  HostInv'
  BY <1>5 DEF Refuses
<1>6. ASSUME NEW p \in Procs, NEW s \in {"running", "blocked", "verified"}, Commits(p, s)
      PROVE  HostInv'
  <2>1. CASE Exit(p)
    BY <1>6, <2>1 DEF Commits
  <2>2. CASE \E l \in {"launch", "accept"} : To(p, l)
    BY <1>6, <2>2 DEF Commits
  <2> QED
    BY <1>6, <2>1, <2>2 DEF Commits
<1>7. ASSUME NEW p \in Procs, WriteRun(p)
      PROVE  HostInv'
  BY <1>7 DEF WriteRun
<1>8. ASSUME NEW p \in Procs, PointActive(p)
      PROVE  HostInv'
  BY <1>8 DEF PointActive
<1>9. ASSUME NEW p \in Procs, Acquire(p)
      PROVE  HostInv'
  BY <1>9 DEF Acquire
<1>10. ASSUME NEW p \in Procs, Goes(p)
      PROVE  HostInv'
  BY <1>10 DEF Goes
<1>11. ASSUME NEW p \in Procs, SpawnFails(p)
      PROVE  HostInv'
  <2>1. CASE Exit(p)
    BY <1>11, <2>1 DEF SpawnFails, LaunchRefused, LeaderLive
  <2>2. CASE To(p, "block") /\ UNCHANGED lease
    BY <1>11, <2>2 DEF SpawnFails, LaunchRefused, LeaderLive
  <2> QED
    BY <1>11, <2>1, <2>2 DEF SpawnFails, LaunchFailed
<1>12. ASSUME NEW p \in Procs, Spawn(p)
      PROVE  HostInv'
  <2>1. PICK h \in Hosts : h = NextHost /\ hostState[h] = "none"
    BY <1>12, NextHostIsNew DEF Spawn
  <2>2. PICK r \in Runs : r = cmd[p].run
    BY <1>12 DEF Spawn
  <2>3. /\ pid' = [pid EXCEPT ![r] = 0]
        /\ hostRun' = [hostRun EXCEPT ![h] = r]
        /\ hostState' = [hostState EXCEPT ![h] = "unpublished"]
        /\ pc' = [pc EXCEPT ![p] = "publish"] /\ launched' = [launched EXCEPT ![p] = h]
        /\ guard[r] = None /\ CanCommit(r)
        /\ pid[r] = 0 \/ hostState[pid[r]] = "gone"
        /\ UNCHANGED <<cmd, status, request>>
    BY <1>12, <2>1, <2>2 DEF Spawn, LaunchRefused, LeaderLive
  <2>4. \A g \in Hosts : hostState'[g] \in Published =>
          hostRun'[g] \in Runs /\ pid'[hostRun'[g]] = g
    <3> SUFFICES ASSUME NEW g \in Hosts, hostState'[g] \in Published
                 PROVE  hostRun'[g] \in Runs /\ pid'[hostRun'[g]] = g
      OBVIOUS
    <3>1. g # h /\ hostState[g] \in Published /\ hostRun'[g] = hostRun[g]
      BY <2>3
    <3>2. hostRun[g] \in Runs /\ pid[hostRun[g]] = g
      BY <3>1
    <3>3. hostRun[g] # r
      BY <2>3, <3>1, <3>2
    <3> QED
      BY <2>3, <3>1, <3>2, <3>3
  <2>5. ASSUME NEW q \in Procs, pc'[q] = "publish", q # p
        PROVE  /\ CanCommit(cmd[q].run) /\ pid'[cmd[q].run] = 0
               /\ launched'[q] \in Hosts
               /\ hostRun'[launched'[q]] = cmd[q].run
               /\ hostState'[launched'[q]] \in {"unpublished", "gone"}
    <3>1. pc[q] = "publish" /\ launched'[q] = launched[q]
      BY <2>3, <2>5
    <3>2. launched[q] # h /\ cmd[q].run \in Runs
      BY <2>1, <3>1
    <3> QED
      BY <2>3, <3>1, <3>2
  <2> QED
    BY <2>1, <2>2, <2>3, <2>4, <2>5
<1>13. ASSUME NEW p \in Procs, Publish(p)
      PROVE  HostInv'
  <2>1. PICK h \in Hosts, r \in Runs : h = launched[p] /\ r = cmd[p].run
    BY <1>13 DEF Publish
  <2>2. /\ pid' = [pid EXCEPT ![r] = h]
        /\ hostState' = [hostState EXCEPT ![h] = IF @ = "unpublished" THEN "live" ELSE @]
        /\ pc[p] = "publish" /\ pc' = [pc EXCEPT ![p] = "wait"]
        /\ hostRun[h] = r /\ pid[r] = 0
        /\ UNCHANGED <<cmd, launched, hostRun, status, request>>
    BY <1>13, <2>1 DEF Publish
  <2>3. \A g \in Hosts : hostState'[g] \in Published =>
          hostRun[g] \in Runs /\ pid'[hostRun[g]] = g
    <3> SUFFICES ASSUME NEW g \in Hosts, hostState'[g] \in Published, g # h
                 PROVE  hostRun[g] \in Runs /\ pid'[hostRun[g]] = g
      BY <2>2
    <3>1. hostRun[g] \in Runs /\ pid[hostRun[g]] = g
      BY <2>2
    <3>2. hostRun[g] # r
      BY <2>2, <3>1
    <3> QED
      BY <2>2, <3>1, <3>2
  <2>4. ASSUME NEW q \in Procs, pc'[q] = "publish"
        PROVE  q # p /\ pc[q] = "publish" /\ cmd[q].run \in Runs /\ cmd[q].run # r
    <3>1. q # p /\ pc[q] = "publish"
      BY <2>2, <2>4
    <3>2. guard[r] = p /\ cmd[q].run \in Runs /\ guard[cmd[q].run] = q
      BY <2>1, <2>2, <3>1
    <3> QED
      BY <3>1, <3>2
  <2>5. ASSUME NEW q \in Procs, pc'[q] = "publish"
        PROVE  launched[q] # h
    BY <2>1, <2>2, <2>4, <2>5
  <2> QED
    BY <2>2, <2>3, <2>4, <2>5
<1>14. ASSUME NEW p \in Procs, PublishFails(p)
      PROVE  HostInv'
  <2>1. PICK h \in Hosts, r \in Runs : h = launched[p] /\ r = cmd[p].run
    BY <1>14 DEF PublishFails
  <2>2. /\ pid' \in {pid, [pid EXCEPT ![r] = h]}
        /\ hostState' = [hostState EXCEPT ![h] = "gone"]
        /\ pc[p] = "publish" /\ pid[r] = 0
        /\ UNCHANGED <<hostRun, status, request>>
    BY <1>14, <2>1 DEF PublishFails
  <2>3. \A q \in Procs : pc'[q] = "publish" =>
          q # p /\ pc[q] = "publish" /\ cmd'[q] = cmd[q] /\ launched'[q] = launched[q]
    <3>1. CASE Exit(p)
      BY <3>1
    <3>2. CASE To(p, "block")
      BY <3>2
    <3> QED
      BY <1>14, <3>1, <3>2 DEF PublishFails, LaunchFailed
  <2>4. \A g \in Hosts : hostState'[g] \in Published =>
          hostRun[g] \in Runs /\ pid'[hostRun[g]] = g
    <3> SUFFICES ASSUME NEW g \in Hosts, hostState'[g] \in Published
                 PROVE  hostRun[g] \in Runs /\ pid'[hostRun[g]] = g
      OBVIOUS
    <3>1. hostRun[g] \in Runs /\ pid[hostRun[g]] = g
      BY <2>2
    <3>2. hostRun[g] # r
      BY <2>2, <3>1
    <3> QED
      BY <2>2, <3>1, <3>2
  <2>5. ASSUME NEW q \in Procs, pc'[q] = "publish"
        PROVE  cmd[q].run \in Runs /\ cmd[q].run # r
    <3>1. q # p /\ pc[q] = "publish"
      BY <2>3, <2>5
    <3>2. guard[r] = p
      BY <2>1, <2>2
    <3>4. cmd[q].run \in Runs
      BY <3>1
    <3>3. guard[cmd[q].run] = q
      BY <3>1, <3>4
    <3> QED
      BY <3>1, <3>2, <3>3
  <2> QED
    BY <2>2, <2>3, <2>4, <2>5
<1>15. ASSUME NEW p \in Procs, WaitHost(p)
      PROVE  HostInv'
  BY <1>15 DEF WaitHost, LaunchFailed
<1>16. ASSUME NEW p \in Procs, NotAccepted(p)
      PROVE  HostInv'
  BY <1>16 DEF NotAccepted
<1>17. ASSUME NEW p \in Procs, CancelRequest(p)
      PROVE  HostInv'
  BY <1>17 DEF CancelRequest, CancelDone
<1>18. ASSUME NEW p \in Procs, CancelSignal(p)
      PROVE  HostInv'
  BY <1>18 DEF CancelSignal
<1>19. ASSUME NEW p \in Procs, CancelFinalize(p)
      PROVE  HostInv'
  <2>1. CASE To(p, "clear")
    BY <1>19, <2>1 DEF CancelFinalize, CancelDone
  <2>2. CASE Exit(p)
    BY <1>19, <2>2 DEF CancelFinalize, CancelDone
  <2>3. CASE To(p, "write")
    BY <1>19, <2>3 DEF CancelFinalize, CancelDone
  <2>4. CASE To(p, "returned")
    BY <1>19, <2>4 DEF CancelFinalize, CancelDone
  <2> QED
    BY <1>19, <2>1, <2>2, <2>3, <2>4 DEF CancelFinalize, CancelDone
<1>20. ASSUME NEW p \in Procs, CancelClear(p)
      PROVE  HostInv'
  <2>1. CASE Exit(p)
    BY <1>20, <2>1 DEF CancelClear, CancelDone
  <2>2. CASE To(p, "write")
    BY <1>20, <2>2 DEF CancelClear, CancelDone
  <2>3. CASE To(p, "returned")
    BY <1>20, <2>3 DEF CancelClear, CancelDone
  <2> QED
    BY <1>20, <2>1, <2>2, <2>3 DEF CancelClear, CancelDone
<1>21. ASSUME NEW p \in Procs, Killed(p)
      PROVE  HostInv'
  BY <1>21 DEF Killed
<1>22. ASSUME NEW h \in Hosts, HostEnds(h)
      PROVE  HostInv'
  BY <1>22 DEF HostEnds
<1> QED
  BY <1>1, <1>2, <1>3, <1>4, <1>5, <1>6, <1>7, <1>8, <1>9, <1>10, <1>11, <1>12, <1>13, <1>14,
     <1>15, <1>16, <1>17, <1>18, <1>19, <1>20, <1>21, <1>22 DEF Change

(* A launch that is over has published its host or killed it.              *)
LEMMA OrphanStep ==
  ASSUME IndInv, Change
  PROVE  OrphanInv'
<1> USE RunAssumption DEF At, To, Run, Begin, Exit, Free, Resting, files, locks, hosts,
   progress, bounds, Given, IndInv, VarTypes, Cmd, Hosts, LockInv, HostInv, OrphanInv, Published
<1>1. ASSUME NEW p \in Procs, NEW r \in Runs, NEW force \in BOOLEAN, CreateRun(p, r, force)
      PROVE  OrphanInv'
  BY <1>1 DEF CreateRun
<1>12. ASSUME NEW p \in Procs, NEW r \in Runs, Resume(p, r) \/ AcceptRun(p, r) \/ CancelRun(p, r)
      PROVE  OrphanInv'
  BY <1>12 DEF Resume, AcceptRun, CancelRun
<1>2. ASSUME NEW p \in Procs, Refuses(p) \/ WriteRun(p) \/ PointActive(p) \/ Acquire(p) \/ Goes(p)
      PROVE  OrphanInv'
  BY <1>2 DEF Refuses, WriteRun, PointActive, Acquire, Goes
<1>3. ASSUME NEW p \in Procs, NEW s \in {"running", "blocked", "verified"}, Commits(p, s)
      PROVE  OrphanInv'
  BY <1>3 DEF Commits
<1>4. ASSUME NEW p \in Procs, SpawnFails(p)
      PROVE  OrphanInv'
  BY <1>4 DEF SpawnFails, LaunchFailed
<1>5. ASSUME NEW p \in Procs, Spawn(p)
      PROVE  OrphanInv'
  <2>1. PICK h \in Hosts : h = NextHost /\ hostState[h] = "none"
    BY <1>5, NextHostIsNew DEF Spawn
  <2>0. PICK r \in Runs : r = cmd[p].run
    BY <1>5 DEF Spawn, ProcInv
  <2>2. /\ hostRun' = [hostRun EXCEPT ![h] = r]
        /\ hostState' = [hostState EXCEPT ![h] = "unpublished"]
        /\ guard' = [guard EXCEPT ![r] = p] /\ launched' = [launched EXCEPT ![p] = h]
        /\ guard[r] = None /\ pc[p] # "publish"
        /\ UNCHANGED orphans
    BY <1>5, <2>1, <2>0 DEF Spawn
  <2>3. \A q \in Runs : guard[q] # p
    BY <2>2
  <2> QED
    BY <2>1, <2>0, <2>2, <2>3
<1>6. ASSUME NEW p \in Procs, Publish(p) \/ PublishFails(p)
      PROVE  OrphanInv'
  <2>0. pc[p] = "publish"
    BY <1>6 DEF Publish, PublishFails
  <2>5. launched[p] \in Hosts
    BY <2>0
  <2>6. cmd[p].run \in Runs
    BY <2>0 DEF ProcInv
  <2>7. PICK h \in Hosts : h = launched[p]
    BY <2>5
  <2>8. PICK r \in Runs : r = cmd[p].run
    BY <2>6
  <2>1. h = launched[p] /\ r = cmd[p].run
    BY <2>7, <2>8
  <2>2. /\ UNCHANGED <<hostRun, orphans>> /\ guard[r] = p
        /\ guard' = [guard EXCEPT ![r] = None]
        /\ hostState'[h] # "unpublished"
        /\ \A g \in Hosts : g # h => hostState'[g] = hostState[g]
    BY <1>6, <2>1 DEF Publish, PublishFails
  <2>3. \A q \in Procs : q # p => launched'[q] = launched[q]
    BY <1>6 DEF Publish, PublishFails, LaunchFailed
  <2>4. \A g \in Hosts : hostState[g] = "unpublished" /\ g # h /\ g \notin orphans =>
          hostRun[g] # r /\ guard[hostRun[g]] # p
    BY <2>1, <2>2
  <2> QED
    BY <2>1, <2>2, <2>3, <2>4
<1>7. ASSUME NEW p \in Procs, WaitHost(p)
      PROVE  OrphanInv'
  BY <1>7 DEF WaitHost, LaunchFailed
<1>8. ASSUME NEW p \in Procs, NotAccepted(p) \/ CancelSignal(p)
      PROVE  OrphanInv'
  BY <1>8 DEF NotAccepted, CancelSignal
<1>9. ASSUME NEW p \in Procs, CancelRequest(p) \/ CancelFinalize(p) \/ CancelClear(p)
      PROVE  OrphanInv'
  BY <1>9 DEF CancelRequest, CancelFinalize, CancelClear, CancelDone
<1>10. ASSUME NEW p \in Procs, Killed(p)
      PROVE  OrphanInv'
  BY <1>10 DEF Killed
<1>11. ASSUME NEW h \in Hosts, HostEnds(h)
      PROVE  OrphanInv'
  BY <1>11 DEF HostEnds
<1> QED
  BY <1>1, <1>2, <1>3, <1>4, <1>5, <1>6, <1>7, <1>8, <1>9, <1>10, <1>11, <1>12 DEF Change

(* Nothing re-opens a run that a cancel has closed.                        *)
LEMMA CancelStep ==
  ASSUME IndInv, Change
  PROVE  CancelInv'
<1> USE RunAssumption DEF At, To, Run, Autopilot, Begin, Exit, Free, Resting, files, locks,
   hosts, progress, bounds, Given, IndInv, VarTypes, Cmd, Hosts, ProcInv, LockInv, HostInv,
   Published, CancelInv, CanCommit, Closed, Quiet, Cancelling, Terminal, NonTerminal
<1>1. ASSUME NEW p \in Procs, NEW r \in Runs, NEW force \in BOOLEAN, CreateRun(p, r, force)
      PROVE  CancelInv'
  <2>1. /\ UNCHANGED <<status, request, hostRun, hostState>>
        /\ pc' = [pc EXCEPT ![p] = pc'[p]] /\ pc'[p] \in {"cancel", "write"}
        /\ cmd' = [cmd EXCEPT ![p] = cmd'[p]]
        /\ targets' = [targets EXCEPT ![p] = {}]
    BY <1>1 DEF CreateRun
  <2> QED
    BY <2>1
<1>2. ASSUME NEW p \in Procs, NEW r \in Runs, Resume(p, r)
      PROVE  CancelInv'
  BY <1>2 DEF Resume
<1>3. ASSUME NEW p \in Procs, NEW r \in Runs, AcceptRun(p, r)
      PROVE  CancelInv'
  BY <1>3 DEF AcceptRun
<1>4. ASSUME NEW p \in Procs, NEW r \in Runs, CancelRun(p, r)
      PROVE  CancelInv'
  BY <1>4 DEF CancelRun
<1>5. ASSUME NEW p \in Procs, Refuses(p)
      PROVE  CancelInv'
  BY <1>5 DEF Refuses
<1>6. ASSUME NEW p \in Procs, NEW s \in {"running", "blocked", "verified"}, Commits(p, s)
      PROVE  CancelInv'
  <2>1. CASE Exit(p)
    BY <1>6, <2>1 DEF Commits
  <2>2. CASE \E l \in {"launch", "accept"} : To(p, l)
    BY <1>6, <2>2 DEF Commits
  <2> QED
    BY <1>6, <2>1, <2>2 DEF Commits
<1>7. ASSUME NEW p \in Procs, WriteRun(p)
      PROVE  CancelInv'
  BY <1>7 DEF WriteRun
<1>8. ASSUME NEW p \in Procs, PointActive(p)
      PROVE  CancelInv'
  BY <1>8 DEF PointActive
<1>9. ASSUME NEW p \in Procs, Acquire(p)
      PROVE  CancelInv'
  BY <1>9 DEF Acquire
<1>10. ASSUME NEW p \in Procs, Goes(p)
      PROVE  CancelInv'
  BY <1>10 DEF Goes
<1>11. ASSUME NEW p \in Procs, SpawnFails(p)
      PROVE  CancelInv'
  <2>1. CASE Exit(p)
    BY <1>11, <2>1 DEF SpawnFails
  <2>2. CASE To(p, "block") /\ UNCHANGED lease
    BY <1>11, <2>2 DEF SpawnFails
  <2> QED
    BY <1>11, <2>1, <2>2 DEF SpawnFails, LaunchFailed
<1>12. ASSUME NEW p \in Procs, Spawn(p)
      PROVE  CancelInv'
  BY <1>12 DEF Spawn, LaunchRefused, LeaderLive, Unlaunched, NextHost
<1>13. ASSUME NEW p \in Procs, Publish(p)
      PROVE  CancelInv'
  BY <1>13 DEF Publish
<1>14. ASSUME NEW p \in Procs, PublishFails(p)
      PROVE  CancelInv'
  <2>1. CASE Exit(p)
    BY <1>14, <2>1 DEF PublishFails, LaunchFailed
  <2>2. CASE To(p, "block") /\ UNCHANGED lease
    BY <1>14, <2>2 DEF PublishFails, LaunchFailed
  <2> QED
    BY <1>14, <2>1, <2>2 DEF PublishFails, LaunchFailed
<1>15. ASSUME NEW p \in Procs, WaitHost(p)
      PROVE  CancelInv'
  <2>1. /\ UNCHANGED <<status, request, hostRun>>
        /\ hostState' = [hostState EXCEPT ![launched[p]] = "gone"]
    BY <1>15 DEF WaitHost
  <2>2. \A q \in Procs : pc'[q] \in Cancelling \cup {"returned"} =>
          pc'[q] = pc[q] /\ cmd'[q] = cmd[q] /\ targets'[q] = targets[q]
    <3>1. CASE Exit(p)
      BY <3>1
    <3>2. CASE \E l \in {"block", "after", "acquire", "launch"} : To(p, l)
      BY <3>2
    <3> QED
      BY <1>15, <3>1, <3>2 DEF WaitHost, LaunchFailed
  <2> QED
    BY <2>1, <2>2
<1>16. ASSUME NEW p \in Procs, NotAccepted(p)
      PROVE  CancelInv'
  BY <1>16 DEF NotAccepted
<1>17. ASSUME NEW p \in Procs, CancelRequest(p)
      PROVE  CancelInv'
  <2>1. CASE status[cmd[p].run] \in Terminal
    <3>1. UNCHANGED <<status, request, hostRun, hostState>>
      BY <1>17, <2>1 DEF CancelRequest
    <3>2. CASE Exit(p)
      BY <3>1, <3>2
    <3>3. CASE To(p, "write")
      BY <3>1, <3>3
    <3>4. CASE To(p, "returned")
      <4>1. /\ cmd[p].run \in Runs
            /\ status[cmd[p].run] = "verified"
               \/ (Closed(cmd[p].run) /\ Quiet(cmd[p].run))
        BY <1>17, <2>1 DEF CancelRequest
      <4> QED
        BY <3>1, <3>4, <4>1
    <3> QED
      BY <1>17, <2>1, <3>2, <3>3, <3>4 DEF CancelRequest, CancelDone
  <2>2. CASE status[cmd[p].run] \notin Terminal
    <3>1. /\ UNCHANGED <<status, cmd, hosts>>
          /\ request' = [request EXCEPT ![cmd[p].run] = IF @ = "none" THEN "current" ELSE @]
          /\ pc' = [pc EXCEPT ![p] = "signal"]
          /\ targets' = [targets EXCEPT ![p] = Targets(cmd[p].run)]
      BY <1>17, <2>2 DEF CancelRequest
    <3>2. \A h \in Hosts : hostRun[h] = cmd[p].run /\ hostState[h] = "live" =>
            h \in Targets(cmd[p].run)
      BY DEF Targets
    <3> QED
      BY <1>17, <3>1, <3>2 DEF CancelRequest
  <2> QED
    BY <2>1, <2>2
<1>18. ASSUME NEW p \in Procs, CancelSignal(p)
      PROVE  CancelInv'
  BY <1>18 DEF CancelSignal
<1>19. ASSUME NEW p \in Procs, CancelFinalize(p)
      PROVE  CancelInv'
  <2>1. CASE To(p, "clear")
    BY <1>19, <2>1 DEF CancelFinalize, CancelDone
  <2>2. CASE Exit(p)
    BY <1>19, <2>2 DEF CancelFinalize, CancelDone
  <2>3. CASE To(p, "write")
    BY <1>19, <2>3 DEF CancelFinalize, CancelDone
  <2>4. CASE To(p, "returned")
    BY <1>19, <2>4 DEF CancelFinalize, CancelDone
  <2> QED
    BY <1>19, <2>1, <2>2, <2>3, <2>4 DEF CancelFinalize, CancelDone
<1>20. ASSUME NEW p \in Procs, CancelClear(p)
      PROVE  CancelInv'
  <2>1. CASE Exit(p)
    BY <1>20, <2>1 DEF CancelClear, CancelDone
  <2>2. CASE To(p, "write")
    BY <1>20, <2>2 DEF CancelClear, CancelDone
  <2>3. CASE To(p, "returned")
    BY <1>20, <2>3 DEF CancelClear, CancelDone
  <2> QED
    BY <1>20, <2>1, <2>2, <2>3 DEF CancelClear, CancelDone
<1>21. ASSUME NEW p \in Procs, Killed(p)
      PROVE  CancelInv'
  BY <1>21 DEF Killed
<1>22. ASSUME NEW h \in Hosts, HostEnds(h)
      PROVE  CancelInv'
  BY <1>22 DEF HostEnds
<1> QED
  BY <1>1, <1>2, <1>3, <1>4, <1>5, <1>6, <1>7, <1>8, <1>9, <1>10, <1>11, <1>12, <1>13, <1>14,
     <1>15, <1>16, <1>17, <1>18, <1>19, <1>20, <1>21, <1>22 DEF Change

(* A creation points active.json at its run when every other is ended or   *)
(* asked to end.                                                           *)
LEMMA ActiveStep ==
  ASSUME IndInv, Change
  PROVE  ActiveInv'
<1> USE RunAssumption DEF At, To, Run, Autopilot, Begin, Exit, Free, Resting, files, locks,
   hosts, progress, bounds, Given, IndInv, VarTypes, Cmd, Request, ProcInv, CancelInv,
   ActiveInv, OneActiveRun, Settled, CanCommit, Cancelling, Terminal, NonTerminal
<1>1. ASSUME NEW p \in Procs, NEW r \in Runs, NEW force \in BOOLEAN, CreateRun(p, r, force)
      PROVE  ActiveInv'
  BY <1>1 DEF CreateRun, Blocking
<1>2. ASSUME NEW p \in Procs, NEW r \in Runs, Resume(p, r)
      PROVE  ActiveInv'
  BY <1>2 DEF Resume
<1>3. ASSUME NEW p \in Procs, NEW r \in Runs, AcceptRun(p, r)
      PROVE  ActiveInv'
  BY <1>3 DEF AcceptRun
<1>4. ASSUME NEW p \in Procs, NEW r \in Runs, CancelRun(p, r)
      PROVE  ActiveInv'
  BY <1>4 DEF CancelRun
<1>5. ASSUME NEW p \in Procs, Refuses(p)
      PROVE  ActiveInv'
  BY <1>5 DEF Refuses
<1>6. ASSUME NEW p \in Procs, NEW s \in {"running", "blocked", "verified"}, Commits(p, s)
      PROVE  ActiveInv'
  <2>1. CASE Exit(p)
    BY <1>6, <2>1 DEF Commits
  <2>2. CASE \E l \in {"launch", "accept"} : To(p, l)
    BY <1>6, <2>2 DEF Commits
  <2> QED
    BY <1>6, <2>1, <2>2 DEF Commits
<1>7. ASSUME NEW p \in Procs, WriteRun(p)
      PROVE  ActiveInv'
  BY <1>7 DEF WriteRun
<1>8. ASSUME NEW p \in Procs, PointActive(p)
      PROVE  ActiveInv'
  BY <1>8 DEF PointActive
<1>9. ASSUME NEW p \in Procs, Acquire(p)
      PROVE  ActiveInv'
  BY <1>9 DEF Acquire
<1>10. ASSUME NEW p \in Procs, Goes(p)
      PROVE  ActiveInv'
  BY <1>10 DEF Goes
<1>11. ASSUME NEW p \in Procs, SpawnFails(p)
      PROVE  ActiveInv'
  <2>1. CASE Exit(p)
    BY <1>11, <2>1 DEF SpawnFails
  <2>2. CASE To(p, "block") /\ UNCHANGED lease
    BY <1>11, <2>2 DEF SpawnFails
  <2> QED
    BY <1>11, <2>1, <2>2 DEF SpawnFails, LaunchFailed
<1>12. ASSUME NEW p \in Procs, Spawn(p)
      PROVE  ActiveInv'
  BY <1>12 DEF Spawn, LaunchRefused, LeaderLive
<1>13. ASSUME NEW p \in Procs, Publish(p)
      PROVE  ActiveInv'
  BY <1>13 DEF Publish
<1>14. ASSUME NEW p \in Procs, PublishFails(p)
      PROVE  ActiveInv'
  <2>1. CASE Exit(p)
    BY <1>14, <2>1 DEF PublishFails, LaunchFailed
  <2>2. CASE To(p, "block") /\ UNCHANGED lease
    BY <1>14, <2>2 DEF PublishFails, LaunchFailed
  <2> QED
    BY <1>14, <2>1, <2>2 DEF PublishFails, LaunchFailed
<1>15. ASSUME NEW p \in Procs, WaitHost(p)
      PROVE  ActiveInv'
  BY <1>15 DEF WaitHost, LaunchFailed
<1>16. ASSUME NEW p \in Procs, NotAccepted(p)
      PROVE  ActiveInv'
  BY <1>16 DEF NotAccepted
<1>17. ASSUME NEW p \in Procs, CancelRequest(p)
      PROVE  ActiveInv'
  BY <1>17 DEF CancelRequest, CancelDone
<1>18. ASSUME NEW p \in Procs, CancelSignal(p)
      PROVE  ActiveInv'
  BY <1>18 DEF CancelSignal
<1>19. ASSUME NEW p \in Procs, CancelFinalize(p)
      PROVE  ActiveInv'
  BY <1>19 DEF CancelFinalize, CancelDone
<1>20. ASSUME NEW p \in Procs, CancelClear(p)
      PROVE  ActiveInv'
  BY <1>20 DEF CancelClear, CancelDone, Cleared
<1>21. ASSUME NEW p \in Procs, Killed(p)
      PROVE  ActiveInv'
  BY <1>21 DEF Killed
<1>22. ASSUME NEW h \in Hosts, HostEnds(h)
      PROVE  ActiveInv'
  BY <1>22 DEF HostEnds
<1> QED
  BY <1>1, <1>2, <1>3, <1>4, <1>5, <1>6, <1>7, <1>8, <1>9, <1>10, <1>11, <1>12, <1>13, <1>14,
     <1>15, <1>16, <1>17, <1>18, <1>19, <1>20, <1>21, <1>22 DEF Change
-----------------------------------------------------------------------------
(*                               the theorems                              *)

(* IndInv is an inductive invariant.                                       *)
THEOREM Inductive == Spec => []IndInv
<1>1. Init => IndInv
  <2> SUFFICES ASSUME Init
               PROVE  IndInv
    OBVIOUS
  <2> USE RunAssumption DEF Init, NoCmd
  <2>1. VarTypes
    BY DEF VarTypes, Request, HostState, Published, Pc, Cmd
  <2>2. ProcInv /\ LockInv
    BY DEF ProcInv, LockInv, Cancelling
  <2>3. HostInv /\ OrphanInv /\ CancelInv /\ ActiveInv
    BY DEF HostInv, OrphanInv, Published, CancelInv, ActiveInv, OneActiveRun, Quiet
  <2> QED
    BY <2>1, <2>2, <2>3 DEF IndInv
<1>2. IndInv /\ [Next]_vars => IndInv'
  <2>1. ASSUME IndInv, Next
        PROVE  IndInv'
    BY <2>1, Changes, VarStep, ProcStep, LockStep, HostStep, OrphanStep, CancelStep, ActiveStep DEF IndInv
  <2>2. ASSUME IndInv, UNCHANGED vars
        PROVE  IndInv'
    <3> USE <2>2 DEF vars, files, locks, hosts, progress, bounds
    <3>1. VarTypes' /\ ProcInv' /\ LockInv'
      BY DEF IndInv, VarTypes, ProcInv, LockInv
    <3>2. HostInv' /\ OrphanInv'
      BY DEF IndInv, HostInv, OrphanInv, CanCommit
    <3>3. CancelInv' /\ ActiveInv'
      BY DEF IndInv, CancelInv, ActiveInv, OneActiveRun, Closed, CanCommit, Quiet, Settled
    <3> QED
      BY <3>1, <3>2, <3>3 DEF IndInv
  <2> QED
    BY <2>1, <2>2
<1> QED
  BY <1>1, <1>2, PTL DEF Spec

(* _spawn_grok_process leaves no host that pid.json does not name, unless  *)
(* the driver is killed in the middle of it; and the variables have their  *)
(* types, and a lock of a run is held by a command on that run.            *)
THEOREM HostsAlwaysAccounted == Spec => []HostsAccounted
<1>1. IndInv => HostsAccounted
  BY DEF IndInv, LockInv, HostInv, OrphanInv, TypeOK, HostsAccounted
<1> QED
  BY <1>1, Inductive, PTL

(* _cancel_run_strict has reached every published host of its run when it  *)
(* returns, whatever drivers, creations and kills came in between.         *)
THEOREM CancelAlwaysReaches == Spec => []CancelReachesHosts
<1>1. IndInv => CancelReachesHosts
  BY DEF IndInv, CancelInv, CancelReachesHosts, Quiet, At, Run
<1> QED
  BY <1>1, Inductive, PTL

(* prepare_leader_spawn never lets a second leader be launched beside a    *)
(* live one, although a killed driver leaves its host behind.              *)
THEOREM OneLeaderAlways == Spec => []OneLeader
<1>1. IndInv => OneLeader
  BY DEF IndInv, HostInv, Published, OneLeader
<1> QED
  BY <1>1, Inductive, PTL

(* create_run and clear_active keep active.json on the one run that goes   *)
(* on.                                                                     *)
THEOREM OneActiveAlways == Spec => []OneActiveRun
<1>1. IndInv => OneActiveRun
  BY DEF IndInv, ActiveInv
<1> QED
  BY <1>1, Inductive, PTL

(* After a cancel request _commit_strict_status_locked commits nothing but *)
(* the cancel, and an ended run stays as it ended.                         *)
THEOREM RequestAlwaysDecides == Spec => RequestDecides
<1> DEFINE Decides ==
      \A r \in Runs :
        status'[r] # status[r] /\ status[r] # "absent" =>
          /\ status[r] \notin Terminal
          /\ request[r] # "none" => status'[r] = "cancelled"
<1>1. IndInv /\ Next => Decides
  <2> SUFFICES ASSUME IndInv, Change
               PROVE  Decides
    BY Changes
  <2> USE DEF IndInv, VarTypes
  <2>1. ASSUME NEW p \in Procs, WriteRun(p)
        PROVE  Decides
    BY <2>1 DEF WriteRun, At, ProcInv
  <2>2. ASSUME NEW p \in Procs, NEW s \in {"running", "blocked", "verified"}, Commits(p, s)
        PROVE  Decides
    BY <2>2 DEF Commits, CanCommit, Run
  <2>3. ASSUME NEW p \in Procs, CancelFinalize(p)
        PROVE  Decides
    BY <2>3 DEF CancelFinalize, Run
  <2>4. ASSUME UNCHANGED status
        PROVE  Decides
    BY <2>4
  <2> QED
    BY <2>1, <2>2, <2>3, <2>4 DEF Change, files, CreateRun, Resume, AcceptRun, CancelRun,
       Refuses,
       PointActive, Acquire, Goes, SpawnFails, Spawn, Publish, PublishFails, WaitHost, NotAccepted,
       CancelRequest, CancelSignal, CancelClear, Killed, HostEnds
<1>2. UNCHANGED vars => Decides
  BY DEF vars, files
<1>3. IndInv /\ [Next]_vars => [Decides]_vars
  BY <1>1, <1>2
<1> QED
  BY <1>3, Inductive, PTL DEF Spec, RequestDecides
===============================================================================
