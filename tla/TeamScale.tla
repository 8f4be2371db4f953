------------------------------- MODULE TeamScale -------------------------------
(***************************************************************************)
(* Adding, removing and relaunching the panes of a live team, and stopping *)
(* it (team/scaling.py, and stop_team of team/plane.py).                   *)
(* Each of the operations holds the scale lock. A scale-up or a relaunch   *)
(* publishes a write-ahead log of its generation, launches the panes,      *)
(* writes the immutable identity receipt of the generation, and commits    *)
(* both in team.json. A scale-down writes its receipt first, kills, and    *)
(* commits. An operation that fails or is killed leaves its files behind:  *)
(* only the same request is let through then, and takes them up again.     *)
(* Abstracted: the probes that tell a pane from another that reuses its    *)
(* id, dry runs, worker_topology "job" (see TeamReplacement), claims that  *)
(* refuse a stop, status and layout. The tmux session of a team stays      *)
(* until the team's stop ends it; a pane that ended is gone.               *)
(***************************************************************************)
EXTENDS Integers, FiniteSets

CONSTANTS Launched,     \* number of workers the team was launched with
          MaxWorkers,   \* max_workers_cap, and a bound on worker indices
          Sizes,        \* the values of --add
          Views,        \* view modes of the team
          AddViews,     \* those in which it is scaled up
          MaxPanes, MaxGeneration, MaxEnds, MaxFaults, MaxKills   \* bounds

ASSUME LaunchedAssumption == Launched \in Nat \ {0} /\ MaxWorkers \in Nat /\ Launched <= MaxWorkers
ASSUME SizesAssumption == Sizes \subseteq Nat \ {0}
ASSUME ViewsAssumption ==
  AddViews \subseteq Views /\ Views \subseteq {"legacy_windows", "same_window", "detached_session"}
ASSUME BoundAssumption ==
  /\ MaxPanes \in Nat /\ Launched <= MaxPanes
  /\ MaxGeneration \in Nat /\ MaxEnds \in Nat /\ MaxFaults \in Nat /\ MaxKills \in Nat

Workers == 1..MaxWorkers
Panes == 1..MaxPanes
NoPane == 0
Generations == 1..MaxGeneration

VARIABLES
  team,       \* team.json
  wal,        \* the write-ahead log of each generation
  receipt,    \* the identity receipt of each generation, 0 is the launch
  panes,      \* every pane ever created
  transport,  \* the session (or window) the panes of the team live in
  op,         \* who holds the scale lock, and how far it got
  spent       \* panes that ended, faults and kills so far

vars == <<team, wal, receipt, panes, transport, op, spent>>

StopState == {"", "stopping", "stopped", "stop_refused"}
Operation == {"none", "add", "remove", "relaunch"}
Pc == {"idle", "wal", "launch", "receipt", "kill", "commit",
       "verify", "signal", "teardown", "stopped", "refuse"}

Roster == [Workers -> Panes \cup {NoPane}]
NoWal == [op |-> "none", who |-> {}]
NoRoster == [w \in Workers |-> NoPane]
NoReceipt == [op |-> "none", roster |-> NoRoster]
NotCreated == [state |-> "absent", worker |-> 0, generation |-> 0]
Idle == [pc |-> "idle", kind |-> "none", todo |-> {}, bound |-> NoRoster,
         retry |-> FALSE, failed |-> FALSE]

(* Types, and that the holder's step has its files on disk.                *)
TypeOK ==
  /\ team \in [view : Views, own : BOOLEAN, generation : 0..MaxGeneration, roster : Roster,
               next : 1..(MaxWorkers + 1), stop : StopState, stopped : BOOLEAN]
  /\ wal \in [Generations -> [op : Operation, who : SUBSET Workers]]
  /\ receipt \in [0..MaxGeneration -> [op : Operation \cup {"launch"}, roster : Roster]]
  /\ panes \in [Panes -> [state : {"absent", "live", "ended"}, worker : 0..MaxWorkers,
                          generation : 0..MaxGeneration]]
  /\ transport \in {"up", "gone"}
  /\ op \in [pc : Pc, kind : Operation \cup {"stop"}, todo : SUBSET Workers, bound : Roster,
             retry : BOOLEAN, failed : BOOLEAN]
  /\ spent \in [ends : 0..MaxEnds, faults : 0..MaxFaults, kills : 0..MaxKills]
  /\ op.pc = "launch" => wal[team.generation + 1].op = op.kind
  /\ op.pc \in {"kill", "commit"} => receipt[team.generation + 1].op = op.kind

Init ==
  /\ \E view \in Views, own \in BOOLEAN :
       /\ view = "same_window" => ~own
       /\ view = "detached_session" => own
       /\ team = [view |-> view, own |-> own, generation |-> 0, next |-> Launched + 1,
                  roster |-> [w \in Workers |-> IF w <= Launched THEN w ELSE NoPane],
                  stop |-> "", stopped |-> FALSE]
  /\ wal = [g \in Generations |-> NoWal]
  /\ receipt = [g \in 0..MaxGeneration |->
                  IF g = 0 THEN [op |-> "launch", roster |-> team.roster] ELSE NoReceipt]
  /\ panes = [p \in Panes |-> IF p <= Launched THEN [state |-> "live", worker |-> p, generation |-> 0]
                                               ELSE NotCreated]
  /\ transport = "up"
  /\ op = Idle
  /\ spent = [ends |-> 0, faults |-> 0, kills |-> 0]

-----------------------------------------------------------------------------
(* Rows that are not scaled_down.                                          *)
Active == {w \in Workers : team.roster[w] # NoPane}

Live == {p \in Panes : panes[p].state = "live"}

PanesOf(roster) == {roster[w] : w \in Workers} \ {NoPane}

(* The generation the next operation uses, or a pending one has begun.     *)
Coming == team.generation + 1

PendingWal == Coming \in Generations /\ wal[Coming].op # "none"

PendingReceipt == Coming \in Generations /\ receipt[Coming].op # "none"

Pending == PendingWal \/ PendingReceipt

Running == team.stop = "" /\ ~team.stopped

Legacy == team.view = "legacy_windows"

Step(pc) == op' = [op EXCEPT !.pc = pc]

Return == op' = Idle

Fault == spent.faults < MaxFaults /\ spent' = [spent EXCEPT !.faults = @ + 1]

End(S) == panes' = [p \in Panes |-> IF p \in S THEN [panes[p] EXCEPT !.state = "ended"] ELSE panes[p]]

-----------------------------------------------------------------------------
(*                        scale-up and relaunch                            *)

AddRequest(n) ==
  /\ op = Idle /\ Running /\ ~Pending
  /\ team.view \in AddViews
  /\ Coming \in Generations
  /\ Cardinality(Active) + n <= MaxWorkers
  /\ team.next + n - 1 <= MaxWorkers
  /\ op' = [Idle EXCEPT !.pc = "wal", !.kind = "add", !.todo = team.next..(team.next + n - 1)]
  /\ UNCHANGED <<team, wal, receipt, panes, transport, spent>>

(* Only panes that are proven absent are relaunched, and of those the ones *)
(* whose board task is open and whose worktree is clean. Whether the team  *)
(* is being stopped is not asked; rows that are `stopped` are terminal.    *)
RelaunchRequest(C) ==
  /\ op = Idle /\ ~Pending
  /\ ~Legacy /\ transport = "up" /\ ~team.stopped
  /\ Coming \in Generations
  /\ C # {} /\ \A w \in C : team.roster[w] \notin Live
  /\ op' = [Idle EXCEPT !.pc = "wal", !.kind = "relaunch", !.todo = C]
  /\ UNCHANGED <<team, wal, receipt, panes, transport, spent>>

PublishWal ==
  /\ op.pc = "wal"
  /\ wal' = [wal EXCEPT ![Coming] = [op |-> op.kind, who |-> op.todo]]
  /\ Step("launch")
  /\ UNCHANGED <<team, receipt, panes, transport, spent>>

(* A request that is not the one of the log is refused. With the receipt   *)
(* written, its panes are adopted, live or ended.                          *)
WalRetry ==
  /\ op = Idle
  /\ PendingWal
  /\ op' = [Idle EXCEPT !.pc = IF PendingReceipt THEN "commit" ELSE "launch",
                        !.kind = wal[Coming].op, !.todo = wal[Coming].who]
  /\ UNCHANGED <<team, wal, receipt, panes, transport, spent>>

Orphans_Ignored(w) == {}

(* Panes that carry the nonce the log planned for the worker.              *)
Orphans(w) ==
  {p \in Live : panes[p].worker = w /\ panes[p].generation = Coming}

(* Scaling up a split view splits without having looked.                   *)
Found(w) == IF op.kind = "add" /\ ~Legacy THEN {} ELSE Orphans(w)

NextWorker(w) == op.pc = "launch" /\ w \in op.todo /\ \A v \in op.todo : w <= v

Bind(w, p) == op' = [op EXCEPT !.todo = @ \ {w}, !.bound[w] = p]

AdoptPane(w) ==
  /\ NextWorker(w)
  /\ \E p \in Found(w) : Found(w) = {p} /\ Bind(w, p)
  /\ UNCHANGED <<team, wal, receipt, panes, transport, spent>>

CreatePane(w) ==
  /\ NextWorker(w)
  /\ Found(w) = {}
  /\ \E p \in Panes :
       /\ panes[p].state = "absent"
       /\ \A q \in 1..(p - 1) : panes[q].state # "absent"
       /\ panes' = [panes EXCEPT ![p] = [state |-> "live", worker |-> w, generation |-> Coming]]
       /\ Bind(w, p)
  /\ UNCHANGED <<team, wal, receipt, transport, spent>>

(* Best-effort rollback of the panes of this attempt; a relaunch has none. *)
RollBack(kills) ==
  IF kills /\ op.kind = "add" THEN \E S \in {{}, PanesOf(op.bound)} : End(S) ELSE UNCHANGED panes

(* The look for windows of a legacy scale-up refuses a session that has a  *)
(* window without the launch nonce, as the leader's own session has, again *)
(* and again. That one comes up between two looks is a fault.              *)
Unstamped == op.kind = "add" /\ Legacy /\ ~team.own /\ op.bound = NoRoster

LaunchFails ==
  /\ op.pc = "launch" /\ op.todo # {}
  /\ Fault \/ (Unstamped /\ UNCHANGED spent)
  /\ RollBack(TRUE)
  /\ Return
  /\ UNCHANGED <<team, wal, receipt, transport>>

BindIdentities ==
  /\ op.pc = "launch" /\ op.todo = {}
  /\ PanesOf(op.bound) \subseteq Live
  /\ Step("receipt")
  /\ UNCHANGED <<team, wal, receipt, panes, transport, spent>>

(* A pane has ended already, or a probe failed. This rollback looks for    *)
(* windows of the legacy view only.                                        *)
BindFails ==
  /\ op.pc = "launch" /\ op.todo = {}
  /\ \/ ~(PanesOf(op.bound) \subseteq Live) /\ UNCHANGED spent
     \/ Fault
  /\ RollBack(Legacy)
  /\ Return
  /\ UNCHANGED <<team, wal, receipt, transport>>

-----------------------------------------------------------------------------
(*                              scale-down                                 *)

RemoveRequest(V) ==
  /\ op = Idle /\ Running /\ ~Pending
  /\ Coming \in Generations
  /\ V # {} /\ V # Active
  /\ op' = [Idle EXCEPT !.pc = "receipt", !.kind = "remove", !.todo = V]
  /\ UNCHANGED <<team, wal, receipt, panes, transport, spent>>

(* The receipt names the victims, they are not chosen again.               *)
RemoveRetry ==
  /\ op = Idle /\ Running
  /\ ~PendingWal /\ PendingReceipt
  /\ op' = [Idle EXCEPT !.pc = "kill", !.kind = "remove", !.retry = TRUE,
                        !.todo = {w \in Active : receipt[Coming].roster[w] = NoPane}]
  /\ UNCHANGED <<team, wal, receipt, panes, transport, spent>>

KillVictim_AlwaysStrict(w) ==
  /\ op.pc = "kill" /\ w \in op.todo
  /\ End({team.roster[w]})
  /\ op' = [op EXCEPT !.todo = @ \ {w}, !.failed = @ \/ team.roster[w] \notin Live]
  /\ UNCHANGED <<team, wal, receipt, transport, spent>>

(* A first attempt insists on a live pane, a retry adopts one that is gone. *)
KillVictim(w) ==
  /\ op.pc = "kill" /\ w \in op.todo
  /\ End({team.roster[w]})
  /\ op' = [op EXCEPT !.todo = @ \ {w},
                      !.failed = @ \/ (~op.retry /\ team.roster[w] \notin Live)]
  /\ UNCHANGED <<team, wal, receipt, transport, spent>>

KillFails(w) ==
  /\ op.pc = "kill" /\ w \in op.todo
  /\ Fault
  /\ op' = [op EXCEPT !.todo = @ \ {w}, !.failed = TRUE]
  /\ UNCHANGED <<team, wal, receipt, panes, transport>>

AllKilled_IgnoresErrors ==
  /\ op.pc = "kill" /\ op.todo = {}
  /\ Step("commit")
  /\ UNCHANGED <<team, wal, receipt, panes, transport, spent>>

AllKilled ==
  /\ op.pc = "kill" /\ op.todo = {}
  /\ IF op.failed THEN Return ELSE Step("commit")
  /\ UNCHANGED <<team, wal, receipt, panes, transport, spent>>

-----------------------------------------------------------------------------
(*                        receipt and commit                               *)

PersistReceipt ==
  /\ op.pc = "receipt"
  /\ receipt' = [receipt EXCEPT ![Coming] =
       [op |-> op.kind,
        roster |-> [w \in Workers |->
                      IF op.kind = "remove" THEN (IF w \in op.todo THEN NoPane ELSE team.roster[w])
                      ELSE IF op.bound[w] # NoPane THEN op.bound[w] ELSE team.roster[w]]]]
  /\ Step(IF op.kind = "remove" THEN "kill" ELSE "commit")
  /\ UNCHANGED <<team, wal, panes, transport, spent>>

ReceiptFails ==
  /\ op.pc = "receipt"
  /\ Fault
  /\ RollBack(Legacy)
  /\ Return
  /\ UNCHANGED <<team, wal, receipt, transport>>

Commit_FromBound ==
  /\ op.pc = "commit"
  /\ team' = [team EXCEPT !.generation = Coming,
                !.roster = [w \in Workers |->
                              IF op.kind = "remove" THEN receipt[Coming].roster[w]
                              ELSE IF op.bound[w] # NoPane THEN op.bound[w] ELSE team.roster[w]],
                !.next = @ + IF op.kind = "add" THEN Cardinality(wal[Coming].who) ELSE 0]
  /\ Return
  /\ UNCHANGED <<wal, receipt, panes, transport, spent>>

(* The stop state cannot have changed since the request: stop takes the    *)
(* same lock. A relaunch does not look at it.                              *)
Commit ==
  /\ op.pc = "commit"
  /\ team' = [team EXCEPT !.generation = Coming, !.roster = receipt[Coming].roster,
                !.next = @ + IF op.kind = "add" THEN Cardinality(wal[Coming].who) ELSE 0]
  /\ Return
  /\ UNCHANGED <<wal, receipt, panes, transport, spent>>

(* Not committed, or not known to be: everything is kept for the retry.    *)
CommitFails ==
  /\ op.pc = "commit"
  /\ Fault
  /\ Return
  /\ UNCHANGED <<team, wal, receipt, panes, transport>>

-----------------------------------------------------------------------------
(*                                 stop                                    *)

StopRequest_DespitePending ==
  /\ op = Idle
  /\ team' = [team EXCEPT !.stop = IF @ = "stopped" THEN @ ELSE "stopping"]
  /\ op' = [Idle EXCEPT !.pc = "verify", !.kind = "stop"]
  /\ UNCHANGED <<wal, receipt, panes, transport, spent>>

StopRequest ==
  /\ op = Idle /\ ~Pending
  /\ team' = [team EXCEPT !.stop = IF @ = "stopped" THEN @ ELSE "stopping"]
  /\ op' = [Idle EXCEPT !.pc = "verify", !.kind = "stop"]
  /\ UNCHANGED <<wal, receipt, panes, transport, spent>>

(* A stop has relabelled the rows that were scaled down: they count as     *)
(* active then, and the rows differ from the receipts.                     *)
ChainMatches ==
  /\ receipt[team.generation].roster = team.roster
  /\ team.stopped => Cardinality(Active) = team.next - 1

StopVerify ==
  /\ op.pc = "verify"
  /\ transport = "up" /\ ChainMatches
  /\ op' = [op EXCEPT !.pc = "signal", !.todo = Active]
  /\ UNCHANGED <<team, wal, receipt, panes, transport, spent>>

StopVerifyFails ==
  /\ op.pc = "verify"
  /\ transport = "gone" \/ ~ChainMatches
  /\ Step("refuse")
  /\ UNCHANGED <<team, wal, receipt, panes, transport, spent>>

StopSignal(w) ==
  /\ op.pc = "signal" /\ w \in op.todo
  /\ \/ /\ End({team.roster[w]})
        /\ op' = [op EXCEPT !.todo = @ \ {w}]
        /\ UNCHANGED spent
     \/ /\ Fault
        /\ op' = [op EXCEPT !.todo = @ \ {w}, !.failed = TRUE]
        /\ UNCHANGED panes
  /\ UNCHANGED <<team, wal, receipt, transport>>

StopSignalled ==
  /\ op.pc = "signal" /\ op.todo = {}
  /\ Step(IF op.failed THEN "refuse" ELSE "teardown")
  /\ UNCHANGED <<team, wal, receipt, panes, transport, spent>>

(* A session or window of the team's own goes with everything in it; in    *)
(* the leader's session the panes of the rows are gone already.            *)
StopTeardown ==
  /\ op.pc = "teardown"
  /\ IF team.own THEN transport' = "gone" /\ End(Live) ELSE UNCHANGED <<transport, panes>>
  /\ Step("stopped")
  /\ UNCHANGED <<team, wal, receipt, spent>>

(* tmux is not seen to have removed it.                                    *)
StopTeardownFails ==
  /\ op.pc = "teardown"
  /\ Fault
  /\ Step("refuse")
  /\ UNCHANGED <<team, wal, receipt, panes, transport>>

StopCommit ==
  /\ op.pc = "stopped"
  /\ team' = [team EXCEPT !.stop = "stopped", !.stopped = TRUE]
  /\ Return
  /\ UNCHANGED <<wal, receipt, panes, transport, spent>>

StopRefuse ==
  /\ op.pc = "refuse"
  /\ team' = [team EXCEPT !.stop = "stop_refused"]
  /\ Return
  /\ UNCHANGED <<wal, receipt, panes, transport, spent>>

-----------------------------------------------------------------------------
(* The lock holder dies. The lock is a file lock of the process.           *)
Kill ==
  /\ op # Idle
  /\ spent.kills < MaxKills
  /\ spent' = [spent EXCEPT !.kills = @ + 1]
  /\ Return
  /\ UNCHANGED <<team, wal, receipt, panes, transport>>

WorkerEnds(p) ==
  /\ p \in Live
  /\ spent.ends < MaxEnds
  /\ End({p})
  /\ spent' = [spent EXCEPT !.ends = @ + 1]
  /\ UNCHANGED <<team, wal, receipt, transport, op>>

Retry == WalRetry \/ RemoveRetry

Operator ==
  \/ \E n \in Sizes : AddRequest(n)
  \/ \E C \in SUBSET Active : RelaunchRequest(C) \/ RemoveRequest(C)
  \/ Retry
  \/ StopRequest

Holder ==
  \/ PublishWal
  \/ \E w \in Workers : AdoptPane(w) \/ CreatePane(w)
  \/ LaunchFails \/ BindIdentities \/ BindFails
  \/ \E w \in Workers : KillVictim(w) \/ KillFails(w)
  \/ AllKilled
  \/ PersistReceipt \/ ReceiptFails \/ Commit \/ CommitFails
  \/ StopVerify \/ StopVerifyFails
  \/ \E w \in Workers : StopSignal(w)
  \/ StopSignalled \/ StopTeardown \/ StopTeardownFails \/ StopCommit \/ StopRefuse

Next == Operator \/ Holder \/ Kill \/ \E p \in Panes : WorkerEnds(p)

Spec == Init /\ [][Next]_vars

(* The holder of the lock runs on unless it is killed, and an operation    *)
(* that was left pending is retried some day.                              *)
FairSpec == Spec /\ WF_vars(Holder) /\ WF_vars(Retry)

-----------------------------------------------------------------------------
(*                              properties                                 *)

(* docs/security-model.md: a retry adopts what it finds instead of         *)
(* spawning a duplicate. No worker is ever run by two panes.               *)
LaunchedOnce ==
  \A p, q \in Live : panes[p].worker = panes[q].worker => p = q

(* When nothing is under way or pending, team.json names every live pane:  *)
(* what a stop or a scale-down cannot name it cannot kill.                 *)
NothingOrphaned ==
  (op = Idle /\ ~Pending) => Live \subseteq PanesOf(team.roster)

(* team.json never disagrees with the receipt of its generation, only one  *)
(* generation is ever ahead of it, and a generation belongs to one         *)
(* operation: otherwise every later scale and stop is refused for good.    *)
ChainFollowsTeam ==
  /\ TypeOK
  /\ receipt[team.generation].roster = team.roster
  /\ \A g \in Generations :
       /\ g > Coming => receipt[g] = NoReceipt /\ wal[g] = NoWal
       /\ wal[g].op # "none" /\ receipt[g].op # "none" => wal[g].op = receipt[g].op

(* A team that is reported stopped has no worker left, whatever scale-ups, *)
(* relaunches and stops were interrupted before.                           *)
StoppedIsQuiet == team.stopped => Live = {}

(* What a scale-up in a session of the team's own, a relaunch or a scale-  *)
(* down left pending ends up committed, so that it does not block every    *)
(* later operation.                                                        *)
PendingCommits == \A g \in Generations :
  (/\ team.generation < g /\ (wal[g].op # "none" \/ receipt[g].op # "none")
   /\ wal[g].op = "add" => team.own \/ ~Legacy) ~> team.generation >= g
=============================================================================
