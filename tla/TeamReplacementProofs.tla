------------------------- MODULE TeamReplacementProofs -------------------------
(***************************************************************************)
(* The safety properties of TeamReplacement, for any number of keys, jobs, *)
(* kills and agents. Type correctness holds of all callers; that the       *)
(* worker is executed once at a time, and by whom its task is claimed, is  *)
(* proved of careful callers, as the run checks it.                        *)
(***************************************************************************)
EXTENDS TeamReplacement, FiniteSetTheorems, TLAPS

(* The lock and the logs, whoever the callers are: what a resumed leader   *)
(* still has to take up is pending, and not what it is at.                 *)
LockInv ==
  /\ op.todo \subseteq Pending \ {op.key}
  /\ op.pc = "idle" => op = Free
  /\ \A k \in Keys : log[k].state # "absent" =>
       log[k].attempt \in Nat \ {0} /\ log[k].generation \in Nat \ {0}

TypeInv == TypeOK /\ LockInv

-----------------------------------------------------------------------------
(* Careful callers have at most one replacement pending, and it is the one *)
(* the holder of the lock is at.                                           *)
PendingInv ==
  /\ \A k, l \in Pending : k = l
  /\ op.key # None =>
       Pending \subseteq {op.key} /\ op.todo = {} /\ op.dry = log[op.key].dry

Ahead(k) == log[k].attempt = row.attempt + 1 /\ log[k].generation = row.generation + 1

(* A pending log is one ahead of the row, until the row is written.        *)
RowInv ==
  /\ \A k \in Keys :
       /\ log[k].state \in {"intent", "fenced"} => Ahead(k)
       /\ log[k].state = "launched" =>
            \/ Ahead(k)
            \/ row.job = log[k].job /\ row.attempt = log[k].attempt
       /\ log[k].attempt <= row.attempt + 1
  /\ op.key # None => row.attempt <= log[op.key].attempt

Created == {j \in Jobs : jobs[j].key # None}

(* A key creates one job at most, and only after it fenced.                *)
JobInv ==
  /\ \A j \in Created :
       LET k == jobs[j].key IN
       /\ jobs[j].state # "absent"
       /\ jobs[j].attempt = log[k].attempt /\ jobs[j].generation = log[k].generation
       /\ log[k].state \notin {"absent", "intent"} /\ ~log[k].dry
       /\ row.topology = "job"
  /\ \A i, j \in Created : jobs[i].key = jobs[j].key => i = j
  /\ row.job # NoJob => jobs[row.job].state # "absent"
  /\ op.pc \in {"start", "launched"} => op.job \in Jobs /\ jobs[op.job].key = op.key
  /\ op.pc = "start" => jobs[op.job].state = "created"
  /\ \A k \in Keys : log[k].state = "launched" =>
       log[k].job \in Jobs /\ jobs[log[k].job].key = k
  /\ op.pc = "committed" => row.job = log[op.key].job

(* The executions that live or may still be started.                       *)
Alive == {j \in Jobs : jobs[j].state \in {"created", "live"}}

(* There is one of them at most: the row names it, or it is that of the    *)
(* pending replacement, which then has fenced what the row names.          *)
LiveInv ==
  /\ \A i, j \in Alive : i = j
  /\ \A j \in Alive : row.job = j \/ jobs[j].key \in Pending
  /\ \A k \in Keys :
       /\ log[k].state = "fenced" => row.job \notin Alive
       /\ log[k].state = "launched" => row.job \notin Alive \ {log[k].job}
  /\ op.pc \in {"invalidate", "fenced", "dryCommit", "fail", "mark"} => Alive = {}

Fenced(k) == log[k].state \in {"fenced", "launched", "committed"}

(* Who may claim the task, or has claimed it, is at least as new as every  *)
(* replacement that fenced.                                                *)
ClaimInv ==
  /\ \A j \in Jobs : j \in Alive \/ (board.claim # None /\ board.claim.by = j) =>
       \A k \in Keys : Fenced(k) => log[k].attempt <= jobs[j].attempt
  /\ op.pc = "fenced" /\ board.claim # None => board.claim.by \notin Jobs

CarefulInv == TypeInv /\ PendingInv /\ RowInv /\ JobInv /\ LiveInv /\ ClaimInv

-----------------------------------------------------------------------------
LEMMA StateAtStep ==
  /\ \A pc \in {"fence", "invalidate", "fenced"} : StateAt(pc) = {"intent"}
  /\ \A pc \in {"launch", "start", "launched"} : StateAt(pc) = {"fenced"}
  /\ \A pc \in {"commit", "committed"} : StateAt(pc) = {"launched"}
  /\ StateAt("dryCommit") = {"committed"}
  /\ StateAt("fail") = {"intent", "fenced", "launched"}
  /\ StateAt("mark") = {"failed"}
  /\ StateAt("idle") = {} /\ StateAt("resume") = {}
  BY DEF StateAt

LEMMA EntryPointAt ==
  ASSUME NEW state \in PendingStates
  PROVE  /\ EntryPoint(state) \in {"fence", "launch", "commit"}
         /\ StateAt(EntryPoint(state)) = {state}
  BY StateAtStep DEF EntryPoint, PendingStates

(* Who is at a step holds a key, and its log is where the step expects it. *)
LEMMA AtStep ==
  ASSUME TypeOK
  PROVE  /\ op.pc \notin {"idle", "resume"} => op.key \in Keys
         /\ op.pc \in {"fence", "invalidate", "fenced"} => log[op.key].state = "intent"
         /\ op.pc \in {"launch", "start", "launched"} => log[op.key].state = "fenced"
         /\ op.pc \in {"commit", "committed"} => log[op.key].state = "launched"
         /\ op.pc = "dryCommit" => log[op.key].state = "committed"
         /\ op.pc = "fail" => log[op.key].state \in {"intent", "fenced", "launched"}
         /\ op.pc = "mark" => log[op.key].state = "failed"
         /\ op.pc \in {"idle", "resume"} => op.key = None
  <1>1. op.key # None => op.key \in Keys /\ log[op.key].state \in StateAt(op.pc)
    BY DEF TypeOK
  <1>2. op.pc \in {"idle", "resume"} => op.key = None
    BY <1>1, StateAtStep
  <1>3. op.key = None => op.pc \in {"idle", "resume"}
    BY DEF TypeOK
  <1> QED BY <1>1, <1>2, <1>3, StateAtStep

LEMMA LogWritten ==
  ASSUME TypeOK, NEW k \in Keys, NEW state \in LogState, WriteLog(k, state)
  PROVE  /\ log' \in [Keys -> [state : LogState, mode : Modes \cup {None}, dry : BOOLEAN,
                               attempt : Nat, generation : Nat, job : Jobs \cup {NoJob}]]
         /\ log'[k].state = state
         /\ \A l \in Keys :
              /\ l # k => log'[l] = log[l]
              /\ log'[l].dry = log[l].dry /\ log'[l].job = log[l].job
              /\ log'[l].attempt = log[l].attempt /\ log'[l].generation = log[l].generation
  <1>1. log[k] \in [state : LogState, mode : Modes \cup {None}, dry : BOOLEAN,
                    attempt : Nat, generation : Nat, job : Jobs \cup {NoJob}]
    BY DEF TypeOK
  <1>2. log' = [log EXCEPT ![k] = [log[k] EXCEPT !.state = state]]
    BY DEF WriteLog, TypeOK
  <1>3. /\ [log[k] EXCEPT !.state = state] \in
             [state : LogState, mode : Modes \cup {None}, dry : BOOLEAN,
              attempt : Nat, generation : Nat, job : Jobs \cup {NoJob}]
        /\ [log[k] EXCEPT !.state = state].state = state
        /\ [log[k] EXCEPT !.state = state].dry = log[k].dry
        /\ [log[k] EXCEPT !.state = state].job = log[k].job
        /\ [log[k] EXCEPT !.state = state].attempt = log[k].attempt
        /\ [log[k] EXCEPT !.state = state].generation = log[k].generation
    BY <1>1
  <1> DEFINE written == [log[k] EXCEPT !.state = state]
  <1> HIDE DEF written
  <1>4. log' = [log EXCEPT ![k] = written]
    BY <1>2 DEF written
  <1>5. DOMAIN log = Keys
    BY DEF TypeOK
  <1>6. log'[k] = written /\ \A l \in Keys : l # k => log'[l] = log[l]
    BY <1>4, <1>5
  <1>7. log' \in [Keys -> [state : LogState, mode : Modes \cup {None}, dry : BOOLEAN,
                          attempt : Nat, generation : Nat, job : Jobs \cup {NoJob}]]
    BY <1>3, <1>4 DEF TypeOK, written
  <1> QED BY <1>3, <1>6, <1>7 DEF written

LEMMA LaunchedWritten ==
  ASSUME TypeOK, WriteLaunched
  PROVE  /\ log' \in [Keys -> [state : LogState, mode : Modes \cup {None}, dry : BOOLEAN,
                               attempt : Nat, generation : Nat, job : Jobs \cup {NoJob}]]
         /\ op.key \in Keys /\ log[op.key].state = "fenced"
         /\ log'[op.key].state = "launched" /\ log'[op.key].job = op.job
         /\ \A l \in Keys :
              /\ l # op.key => log'[l] = log[l]
              /\ log'[l].dry = log[l].dry
              /\ log'[l].attempt = log[l].attempt /\ log'[l].generation = log[l].generation
  <1>1. op.key \in Keys /\ log[op.key].state = "fenced" /\ op.job \in Jobs \cup {NoJob}
    BY AtStep DEF WriteLaunched, TypeOK
  <1> DEFINE record == [state : LogState, mode : Modes \cup {None}, dry : BOOLEAN,
                        attempt : Nat, generation : Nat, job : Jobs \cup {NoJob}]
             written == [[log[op.key] EXCEPT !.state = "launched"] EXCEPT !.job = op.job]
  <1>2. log' = [log EXCEPT ![op.key] = written]
    BY <1>1 DEF WriteLaunched, TypeOK
  <1>4. log \in [Keys -> record] /\ log[op.key] \in record /\ "launched" \in LogState
    BY <1>1 DEF TypeOK, LogState
  <1>3. /\ written \in record /\ written.state = "launched" /\ written.job = op.job
        /\ written.dry = log[op.key].dry
        /\ written.attempt = log[op.key].attempt /\ written.generation = log[op.key].generation
    <2>1. written \in record
      BY <1>1, <1>4
    <2>2. written.state = "launched" /\ written.job = op.job
      BY <1>4
    <2>3. /\ written.dry = log[op.key].dry
          /\ written.attempt = log[op.key].attempt /\ written.generation = log[op.key].generation
      BY <1>4
    <2> QED BY <2>1, <2>2, <2>3
  <1> HIDE DEF written, record
  <1>5. log' \in [Keys -> record] /\ log'[op.key] = written /\
        \A l \in Keys : l # op.key => log'[l] = log[l]
    BY <1>1, <1>2, <1>3, <1>4
  <1> QED BY <1>1, <1>3, <1>5 DEF record

LEMMA Stepped ==
  ASSUME TypeOK, NEW pc \in Pc, Step(pc)
  PROVE  /\ op' \in [pc : {pc}, key : Keys \cup {None}, dry : BOOLEAN,
                     job : Jobs \cup {NoJob}, todo : SUBSET Keys]
         /\ op'.key = op.key /\ op'.dry = op.dry /\ op'.job = op.job /\ op'.todo = op.todo
  BY DEF TypeOK, Step

LEMMA DoneStep ==
  ASSUME TypeOK, Done
  PROVE  /\ op' \in [pc : {"idle", "resume"}, key : {None}, dry : BOOLEAN,
                     job : Jobs \cup {NoJob}, todo : SUBSET Keys]
         /\ op'.todo = op.todo
         /\ op'.pc = "idle" => op' = Free
         /\ op.todo = {} => op' = Free
  <1>1. op.todo \in SUBSET Keys
    BY DEF TypeOK
  <1>2. Free = [pc |-> "idle", key |-> None, dry |-> FALSE, job |-> NoJob, todo |-> {}]
    BY DEF Free
  <1>3. op.todo = {} => op' = Free
    <2>1. op.todo = {} => op' = [pc |-> "idle", key |-> None, dry |-> FALSE, job |-> NoJob,
                                 todo |-> {}]
      BY <1>2 DEF Done
    <2> QED BY <1>2, <2>1
  <1>4. op.todo # {} => op' = [pc |-> "resume", key |-> None, dry |-> FALSE, job |-> NoJob,
                              todo |-> op.todo]
    BY <1>2 DEF Done
  <1>5. /\ Free \in [pc : {"idle", "resume"}, key : {None}, dry : BOOLEAN,
                      job : Jobs \cup {NoJob}, todo : SUBSET Keys]
        /\ Free.todo = {}
    BY <1>2
  <1>6. CASE op.todo = {}
    BY <1>3, <1>5, <1>6
  <1>7. CASE op.todo # {}
    <2>1. \A todo \in SUBSET Keys :
            LET resumed == [pc |-> "resume", key |-> None, dry |-> FALSE, job |-> NoJob,
                            todo |-> todo]
            IN  /\ resumed \in [pc : {"idle", "resume"}, key : {None}, dry : BOOLEAN,
                                job : Jobs \cup {NoJob}, todo : SUBSET Keys]
                /\ resumed.todo = todo /\ resumed.pc = "resume"
      OBVIOUS
    <2> QED BY <1>1, <1>4, <1>7, <2>1
  <1> QED BY <1>6, <1>7

-----------------------------------------------------------------------------
LEMMA TypeInit == Init => TypeInv
  <1> SUFFICES ASSUME Init PROVE TypeInv
    OBVIOUS
  <1> USE BoundAssumption, KeysAssumption DEF Init
  <1>1. row \in [topology : Topologies, attempt : Nat \ {0}, generation : Nat \ {0},
                job : Jobs \cup {NoJob}, prior : BOOLEAN]
    BY DEF Jobs
  <1>2. board \in [status : {"pending", "in_progress", "completed"}, attempt : Nat \ {0},
                  claim : [by : Agents, attempt : Nat \ {0}] \cup {None}]
    OBVIOUS
  <1>3. log \in [Keys -> [state : LogState, mode : Modes \cup {None}, dry : BOOLEAN,
                         attempt : Nat, generation : Nat, job : Jobs \cup {NoJob}]]
    BY DEF NoLog, LogState
  <1>4. jobs \in [Jobs -> [state : {"absent", "created", "live", "ended"},
                          key : Keys \cup {None}, attempt : Nat, generation : Nat]]
    BY DEF NotCreated
  <1>5. op \in [pc : Pc, key : Keys \cup {None}, dry : BOOLEAN, job : Jobs \cup {NoJob},
               todo : SUBSET Keys]
    BY DEF Free, Pc
  <1>6. op.key = None /\ op.pc = "idle" /\ op.todo = {} /\ op = Free
    BY DEF Free
  <1>7. kills \in 0..MaxKills
    OBVIOUS
  <1>8. \A k \in Keys : log[k].state = "absent"
    BY DEF NoLog
  <1> HIDE DEF Init
  <1> QED BY <1>1, <1>2, <1>3, <1>4, <1>5, <1>6, <1>7, <1>8 DEF TypeInv, TypeOK, LockInv

(* TypeOK and LockInv, in the parts that an action touches.                *)
RowType ==
  row \in [topology : Topologies, attempt : Nat \ {0}, generation : Nat \ {0},
          job : Jobs \cup {NoJob}, prior : BOOLEAN]

BoardType ==
  board \in [status : {"pending", "in_progress", "completed"}, attempt : Nat \ {0},
            claim : [by : Agents, attempt : Nat \ {0}] \cup {None}]

JobsType ==
  jobs \in [Jobs -> [state : {"absent", "created", "live", "ended"},
                    key : Keys \cup {None}, attempt : Nat, generation : Nat]]

LogType ==
  /\ log \in [Keys -> [state : LogState, mode : Modes \cup {None}, dry : BOOLEAN,
                       attempt : Nat, generation : Nat, job : Jobs \cup {NoJob}]]
  /\ \A k \in Keys : log[k].state # "absent" =>
       log[k].attempt \in Nat \ {0} /\ log[k].generation \in Nat \ {0}

HolderType ==
  /\ op \in [pc : Pc, key : Keys \cup {None}, dry : BOOLEAN, job : Jobs \cup {NoJob},
             todo : SUBSET Keys]
  /\ op.key # None => log[op.key].state \in StateAt(op.pc)
  /\ op.key = None => op.pc \in {"idle", "resume"}
  /\ op.todo \subseteq Pending \ {op.key}
  /\ op.pc = "idle" => op = Free

LEMMA TypeParts ==
  TypeInv <=> RowType /\ BoardType /\ JobsType /\ LogType /\ HolderType /\ kills \in 0..MaxKills
  BY DEF TypeInv, TypeOK, LockInv, RowType, BoardType, JobsType, LogType, HolderType

LEMMA PendingIs ==
  ASSUME NEW k \in Keys
  PROVE  /\ k \in Pending <=> log[k].state \in {"intent", "fenced", "launched"}
         /\ k \in Pending <=> log[k].state \in PendingStates
  BY DEF Pending, PendingStates

(* The holder goes on to its next step, its log unchanged or written on.   *)
LEMMA HolderSteps ==
  ASSUME TypeInv, op.key \in Keys, NEW pc \in Pc \ {"idle", "resume"}, Step(pc),
         log' = log \/ \E state \in LogState : WriteLog(op.key, state),
         log'[op.key].state \in StateAt(pc)
  PROVE  HolderType'
  <1>1. /\ op' \in [pc : {pc}, key : Keys \cup {None}, dry : BOOLEAN,
                    job : Jobs \cup {NoJob}, todo : SUBSET Keys]
        /\ op'.key = op.key /\ op'.todo = op.todo
    BY Stepped DEF TypeInv
  <1>2. \A l \in Keys : l # op.key => log'[l] = log[l]
    BY LogWritten DEF TypeInv
  <1>3. op.todo \subseteq Pending' \ {op.key}
    BY <1>2 DEF TypeInv, LockInv, Pending
  <1>4. op' \in [pc : Pc, key : Keys \cup {None}, dry : BOOLEAN,
                 job : Jobs \cup {NoJob}, todo : SUBSET Keys]
    BY <1>1
  <1> QED BY <1>1, <1>3, <1>4, KeysAssumption DEF HolderType

(* The holder is done with its key.                                        *)
LEMMA HolderIsDone ==
  ASSUME TypeInv, op.key \in Keys, Done,
         \A l \in Keys : l # op.key => log'[l] = log[l]
  PROVE  HolderType'
  <1>1. /\ op' \in [pc : {"idle", "resume"}, key : {None}, dry : BOOLEAN,
                    job : Jobs \cup {NoJob}, todo : SUBSET Keys]
        /\ op'.todo = op.todo
        /\ op'.pc = "idle" => op' = Free
    BY DoneStep DEF TypeInv
  <1>2. op' \in [pc : Pc, key : Keys \cup {None}, dry : BOOLEAN,
                 job : Jobs \cup {NoJob}, todo : SUBSET Keys]
    BY <1>1 DEF Pc
  <1>3. op'.key = None /\ op'.pc \in {"idle", "resume"}
    BY <1>1
  <1>4. op.todo \subseteq Pending' \ {None}
    BY KeysAssumption DEF TypeInv, LockInv, Pending
  <1> QED BY <1>1, <1>2, <1>3, <1>4 DEF HolderType

LEMMA FreeHolder ==
  ASSUME op' = Free
  PROVE  HolderType'
  BY DEF HolderType, Free, Pc

LEMMA LogTypeWritten ==
  ASSUME TypeInv, NEW k \in Keys, log[k].state # "absent", NEW state \in LogState,
         WriteLog(k, state)
  PROVE  LogType'
  BY LogWritten DEF TypeInv, LockInv, LogType

LEMMA RequestTypes ==
  ASSUME TypeInv, NEW k \in Keys, NEW mode \in Modes, NEW dry \in DryRuns, Request(k, mode, dry)
  PROVE  /\ LogType' /\ HolderType'
         /\ log'[k] = [state |-> "intent", mode |-> mode, dry |-> dry, attempt |-> row.attempt + 1,
                       generation |-> row.generation + 1, job |-> NoJob]
         /\ \A l \in Keys : l # k => log'[l] = log[l]
         /\ op' \in [pc : {"fence"}, key : {k}, dry : {dry}, job : Jobs \cup {NoJob}, todo : {{}}]
  <1>0. RowType /\ LogType
    BY TypeParts
  <1> DEFINE begun == [state |-> "intent", mode |-> mode, dry |-> dry,
                       attempt |-> row.attempt + 1, generation |-> row.generation + 1,
                       job |-> NoJob]
  <1>1. begun \in [state : LogState, mode : Modes \cup {None}, dry : BOOLEAN,
                   attempt : Nat, generation : Nat, job : Jobs \cup {NoJob}]
    BY <1>0, FlagsAssumption DEF RowType, LogState
  <1>2. begun.attempt \in Nat \ {0} /\ begun.generation \in Nat \ {0} /\ begun.state = "intent"
    BY <1>0 DEF RowType
  <1>3. log' = [log EXCEPT ![k] = begun]
    BY DEF Request
  <1>4. op' = [Free EXCEPT !.pc = "fence", !.key = k, !.dry = dry]
    BY DEF Request
  <1>5. op' \in [pc : {"fence"}, key : {k}, dry : {dry}, job : Jobs \cup {NoJob}, todo : {{}}]
    BY <1>4 DEF Free
  <1>6. op' \in [pc : Pc, key : Keys \cup {None}, dry : BOOLEAN, job : Jobs \cup {NoJob},
                 todo : SUBSET Keys]
    BY <1>5, FlagsAssumption DEF Pc
  <1>9. log'[k] = begun
    BY <1>0, <1>3 DEF LogType
  <1> HIDE DEF begun
  <1>7. LogType' /\ log'[k].state = "intent" /\ \A l \in Keys : l # k => log'[l] = log[l]
    BY <1>0, <1>1, <1>2, <1>3 DEF LogType
  <1>8. HolderType'
    BY <1>5, <1>6, <1>7, StateAtStep, KeysAssumption DEF HolderType
  <1> QED BY <1>5, <1>7, <1>8, <1>9 DEF begun

LEMMA TakenUpTypes ==
  ASSUME TypeInv, NEW k \in Pending, NEW job \in Jobs \cup {NoJob}, NEW dry \in BOOLEAN,
         NEW todo \in SUBSET (Pending \ {k}), UNCHANGED log,
         op' = [pc |-> EntryPoint(log[k].state), key |-> k, dry |-> dry, job |-> job, todo |-> todo]
  PROVE  HolderType'
  <1>1. k \in Keys /\ log[k].state \in PendingStates
    BY DEF Pending
  <1>2. EntryPoint(log[k].state) \in {"fence", "launch", "commit"} /\
        log[k].state \in StateAt(EntryPoint(log[k].state))
    BY <1>1, EntryPointAt
  <1>3. EntryPoint(log[k].state) \in Pc /\ EntryPoint(log[k].state) # "idle"
    BY <1>2 DEF Pc
  <1>4. todo \subseteq Keys
    BY DEF Pending
  <1>5. op' \in [pc : Pc, key : Keys \cup {None}, dry : BOOLEAN, job : Jobs \cup {NoJob},
                 todo : SUBSET Keys]
    BY <1>1, <1>3, <1>4
  <1>6. /\ op'.pc = EntryPoint(log[k].state) /\ op'.key = k /\ op'.todo = todo
        /\ k # None
    BY <1>1, KeysAssumption
  <1> QED BY <1>2, <1>3, <1>5, <1>6 DEF HolderType, Pending

(* What the operator leaves the holder with.                               *)
LEMMA RetryHolder ==
  ASSUME TypeInv, NEW k \in Keys, NEW dry \in DryRuns, Retry(k, dry)
  PROVE  op' = [pc |-> EntryPoint(log[k].state), key |-> k, dry |-> dry \/ log[k].dry,
                job |-> log[k].job, todo |-> {}]
  BY DEF Retry, Free

LEMMA ResumeNextHolder ==
  ASSUME TypeInv, NEW k \in Keys, ResumeNext(k)
  PROVE  op' = [pc |-> EntryPoint(log[k].state), key |-> k, dry |-> log[k].dry,
                job |-> log[k].job, todo |-> op.todo \ {k}]
  BY DEF ResumeNext, TypeInv, TypeOK

LEMMA TakeUpType ==
  ASSUME TypeInv, NEW k \in Keys,
         ResumeNext(k) \/ \E dry \in DryRuns : Retry(k, dry)
  PROVE  k \in Pending /\ HolderType'
  <1>0. LogType
    BY TypeParts
  <1>1. ASSUME ResumeNext(k) PROVE k \in Pending /\ HolderType'
    <2>1. k \in Pending /\ op.todo \ {k} \in SUBSET (Pending \ {k}) /\ UNCHANGED log
      BY <1>1 DEF ResumeNext, TypeInv, LockInv
    <2>2. log[k].job \in Jobs \cup {NoJob} /\ log[k].dry \in BOOLEAN
      BY <1>0 DEF LogType
    <2> QED BY <1>1, <2>1, <2>2, ResumeNextHolder, TakenUpTypes
  <1>2. ASSUME NEW dry \in DryRuns, Retry(k, dry) PROVE k \in Pending /\ HolderType'
    <2> DEFINE flag == dry \/ log[k].dry
    <2>1. k \in Pending /\ UNCHANGED log
      BY <1>2 DEF Retry
    <2>2. log[k].job \in Jobs \cup {NoJob} /\ flag \in BOOLEAN
      BY <1>0 DEF LogType
    <2>3. op' = [pc |-> EntryPoint(log[k].state), key |-> k, dry |-> flag, job |-> log[k].job,
                 todo |-> {}]
      BY <1>2, RetryHolder
    <2> HIDE DEF flag
    <2> QED BY <2>1, <2>2, <2>3, TakenUpTypes
  <1> QED BY <1>1, <1>2

(* The steps that write one of the executions, or the row.                 *)
LEMMA JobsWritten ==
  ASSUME JobsType, NEW j, NEW state \in {"created", "live", "ended"},
         jobs' = [jobs EXCEPT ![j].state = state]
  PROVE  /\ JobsType'
         /\ j \in Jobs => jobs'[j].state = state
         /\ \A i \in Jobs :
              /\ i # j => jobs'[i] = jobs[i]
              /\ jobs'[i].key = jobs[i].key /\ jobs'[i].attempt = jobs[i].attempt
              /\ jobs'[i].generation = jobs[i].generation
  BY DEF JobsType

LEMMA TypeStep == TypeInv /\ [Next]_vars => TypeInv'
  <1> SUFFICES ASSUME TypeInv, [Next]_vars PROVE TypeInv'
    OBVIOUS
  <1>0. /\ RowType /\ BoardType /\ JobsType /\ LogType /\ HolderType /\ kills \in 0..MaxKills
        /\ TypeOK
    BY TypeParts DEF TypeInv
  <1>a. UNCHANGED row => RowType'
    BY <1>0 DEF RowType
  <1>b. UNCHANGED board => BoardType'
    BY <1>0 DEF BoardType
  <1>c. UNCHANGED jobs => JobsType'
    BY <1>0 DEF JobsType
  <1>d. UNCHANGED log => LogType'
    BY <1>0 DEF LogType
  <1>e. UNCHANGED <<log, op>> => HolderType'
    BY <1>0 DEF HolderType, Pending
  <1>f. RowType' /\ BoardType' /\ JobsType' /\ LogType' /\ HolderType' /\ kills' \in 0..MaxKills
          => TypeInv'
    BY DEF TypeInv, TypeOK, LockInv, RowType, BoardType, JobsType, LogType, HolderType
  <1>1. ASSUME NEW k \in Keys, NEW mode \in Modes, NEW dry \in DryRuns, Request(k, mode, dry)
        PROVE  TypeInv'
    BY <1>0, <1>a, <1>b, <1>c, <1>f, <1>1, RequestTypes DEF Request
  <1>2. ASSUME NEW k \in Keys, ResumeNext(k) \/ \E dry \in DryRuns : Retry(k, dry)
        PROVE  TypeInv'
    <2>1. UNCHANGED <<row, board, log, jobs, kills>>
      BY <1>2 DEF ResumeNext, Retry
    <2> QED BY <1>0, <1>a, <1>b, <1>c, <1>d, <1>f, <1>2, <2>1, TakeUpType
  <1>3. CASE Resume
    <2>1. op' \in [pc : {"resume"}, key : {None}, dry : BOOLEAN, job : Jobs \cup {NoJob},
                  todo : {Pending}] /\ UNCHANGED <<row, board, log, jobs, kills>>
      BY <1>3 DEF Resume, Free
    <2>2. HolderType'
      BY <2>1, KeysAssumption DEF HolderType, Pending, Pc
    <2> QED BY <1>0, <1>a, <1>b, <1>c, <1>d, <1>f, <2>1, <2>2
  <1>4. CASE Fence
    <2>1. op.key \in Keys /\ log[op.key].state \in StateAt("invalidate")
      BY <1>0, <1>4, AtStep, StateAtStep DEF Fence
    <2>2. JobsType'
      <3>1. UNCHANGED jobs \/ \E j : jobs' = [jobs EXCEPT ![j].state = "ended"]
        BY <1>4 DEF Fence
      <3> QED BY <1>0, <1>c, <3>1, JobsWritten
    <2>3. HolderType'
      BY <1>4, <2>1, HolderSteps DEF Fence, Pc
    <2> QED BY <1>0, <1>a, <1>b, <1>d, <1>f, <1>4, <2>2, <2>3 DEF Fence
  <1>5. CASE FenceFails
    <2>1. op.key \in Keys /\ log' = [log EXCEPT ![op.key] = NoLog]
      BY <1>0, <1>5, AtStep DEF FenceFails
    <2>2. NoLog \in [state : {"absent"}, mode : Modes \cup {None}, dry : BOOLEAN,
                     attempt : Nat, generation : Nat, job : Jobs \cup {NoJob}]
      BY DEF NoLog
    <2>3. LogType' /\ \A l \in Keys : l # op.key => log'[l] = log[l]
      BY <1>0, <2>1, <2>2 DEF LogType, LogState
    <2>4. HolderType'
      BY <1>5, <2>1, <2>3, HolderIsDone DEF FenceFails
    <2> QED BY <1>0, <1>a, <1>b, <1>c, <1>f, <1>5, <2>3, <2>4 DEF FenceFails
  <1>6. CASE InvalidateClaim
    <2>1. op.key \in Keys /\ log[op.key].state \in StateAt("fenced") /\ log[op.key].state # "absent"
      BY <1>0, <1>6, AtStep, StateAtStep DEF InvalidateClaim
    <2>2. BoardType'
      BY <1>0, <1>6, <2>1 DEF InvalidateClaim, BoardType, LogType
    <2>3. HolderType'
      BY <1>6, <2>1, HolderSteps DEF InvalidateClaim, Pc
    <2> QED BY <1>0, <1>a, <1>c, <1>d, <1>f, <1>6, <2>2, <2>3 DEF InvalidateClaim
  <1>22. CASE InvalidateRefused
    <2>1. op.key \in Keys /\ log[op.key].state \in StateAt("fail")
      BY <1>0, <1>22, AtStep, StateAtStep DEF InvalidateRefused
    <2>2. HolderType'
      BY <1>22, <2>1, HolderSteps DEF InvalidateRefused, Pc
    <2> QED BY <1>0, <1>a, <1>b, <1>c, <1>d, <1>f, <1>22, <2>2 DEF InvalidateRefused
  <1>7. CASE WriteFenced
    <2>1. op.key \in Keys /\ log[op.key].state # "absent" /\ WriteLog(op.key, "fenced")
      BY <1>0, <1>7, AtStep DEF WriteFenced
    <2>2. "fenced" \in LogState
      BY DEF LogState
    <2>3. LogType' /\ log'[op.key].state \in StateAt("launch")
      BY <1>0, <2>1, <2>2, LogTypeWritten, LogWritten, StateAtStep
    <2>4. HolderType'
      BY <1>7, <2>1, <2>2, <2>3, HolderSteps DEF WriteFenced, Pc
    <2> QED BY <1>0, <1>a, <1>b, <1>c, <1>f, <1>7, <2>3, <2>4 DEF WriteFenced
  <1>8. CASE AdoptOrphan \/ CreateJob
    <2>1. op.key \in Keys /\ log[op.key].state = "fenced"
      BY <1>0, <1>8, AtStep DEF AdoptOrphan, CreateJob
    <2>2. PICK j \in Jobs, pc \in {"start", "launched"} : op' = [op EXCEPT !.pc = pc, !.job = j]
      BY <1>8 DEF AdoptOrphan, CreateJob, Orphans
    <2>3. HolderType'
      <3>1. /\ op' \in [pc : {pc}, key : Keys \cup {None}, dry : BOOLEAN,
                        job : Jobs \cup {NoJob}, todo : SUBSET Keys]
            /\ op'.key = op.key /\ op'.todo = op.todo /\ op'.pc = pc
        BY <1>0, <2>2 DEF HolderType
      <3>2. UNCHANGED log
        BY <1>8 DEF AdoptOrphan, CreateJob
      <3>3. op' \in [pc : Pc, key : Keys \cup {None}, dry : BOOLEAN,
                     job : Jobs \cup {NoJob}, todo : SUBSET Keys]
        BY <3>1 DEF Pc
      <3> QED BY <1>0, <2>1, <3>1, <3>2, <3>3, StateAtStep, KeysAssumption DEF HolderType, Pending
    <2>4. JobsType'
      <3>1. CASE AdoptOrphan
        BY <1>c, <3>1 DEF AdoptOrphan
      <3>2. CASE CreateJob
        <4>1. log[op.key].attempt \in Nat /\ log[op.key].generation \in Nat
          BY <1>0, <2>1 DEF LogType
        <4> DEFINE created == [state |-> "created", key |-> op.key,
                               attempt |-> log[op.key].attempt,
                               generation |-> log[op.key].generation]
        <4>2. PICK i \in Jobs : jobs' = [jobs EXCEPT ![i] = created]
          BY <3>2 DEF CreateJob
        <4> DEFINE records == [state : {"absent", "created", "live", "ended"},
                               key : Keys \cup {None}, attempt : Nat, generation : Nat]
        <4>3. created \in records
          BY <2>1, <4>1
        <4>4. jobs \in [Jobs -> records]
          BY <1>0 DEF JobsType
        <4> HIDE DEF created, records
        <4>5. jobs' \in [Jobs -> records]
          BY <4>2, <4>3, <4>4
        <4> QED BY <4>5 DEF JobsType, records
      <3> QED BY <1>8, <3>1, <3>2
    <2> QED BY <1>0, <1>a, <1>b, <1>d, <1>f, <1>8, <2>3, <2>4 DEF AdoptOrphan, CreateJob
  <1>9. CASE StartJob
    <2>1. op.key \in Keys /\ log[op.key].state \in StateAt("launched") \cap StateAt("fail")
      BY <1>0, <1>9, AtStep, StateAtStep DEF StartJob
    <2>2. JobsType'
      BY <1>0, <1>9, JobsWritten DEF StartJob
    <2>3. HolderType'
      BY <1>9, <2>1, HolderSteps DEF StartJob, Pc
    <2> QED BY <1>0, <1>a, <1>b, <1>d, <1>f, <1>9, <2>2, <2>3 DEF StartJob
  <1>10. CASE LaunchFails
    <2>1. op.key \in Keys /\ log[op.key].state \in StateAt("fail")
      BY <1>0, <1>10, AtStep, StateAtStep DEF LaunchFails
    <2>2. HolderType'
      BY <1>10, <2>1, HolderSteps DEF LaunchFails, Pc
    <2> QED BY <1>0, <1>a, <1>b, <1>c, <1>d, <1>f, <1>10, <2>2 DEF LaunchFails
  <1>11. CASE WriteLaunched
    <2>1. LogType'
      BY <1>0, <1>11, LaunchedWritten DEF LogType
    <2>2. HolderType'
      <3>1. /\ op' \in [pc : {"commit"}, key : Keys \cup {None}, dry : BOOLEAN,
                        job : Jobs \cup {NoJob}, todo : SUBSET Keys]
            /\ op'.key = op.key /\ op'.todo = op.todo
        BY <1>0, <1>11, Stepped DEF WriteLaunched, Pc
      <3>2. op' \in [pc : Pc, key : Keys \cup {None}, dry : BOOLEAN,
                     job : Jobs \cup {NoJob}, todo : SUBSET Keys]
        BY <3>1 DEF Pc
      <3> QED BY <1>0, <1>11, <3>1, <3>2, LaunchedWritten, StateAtStep, KeysAssumption
              DEF HolderType, Pending
    <2> QED BY <1>0, <1>a, <1>b, <1>c, <1>f, <1>11, <2>1, <2>2 DEF WriteLaunched
  <1>12. CASE CommitRow
    <2>1. /\ op.key \in Keys /\ log[op.key].state # "absent"
          /\ log[op.key].state \in StateAt("committed") \cap StateAt("fail")
      BY <1>0, <1>12, AtStep, StateAtStep DEF CommitRow
    <2>2. RowType'
      BY <1>0, <1>12, <2>1 DEF CommitRow, RowType, LogType
    <2>3. HolderType'
      BY <1>12, <2>1, HolderSteps DEF CommitRow, Pc
    <2> QED BY <1>0, <1>b, <1>c, <1>d, <1>f, <1>12, <2>2, <2>3 DEF CommitRow
  <1>13. CASE WriteCommitted
    <2>1. op.key \in Keys /\ log[op.key].state # "absent" /\ WriteLog(op.key, "committed")
      BY <1>0, <1>13, AtStep DEF WriteCommitted
    <2>2. "committed" \in LogState
      BY DEF LogState
    <2>3. LogType' /\ \A l \in Keys : l # op.key => log'[l] = log[l]
      BY <1>0, <2>1, <2>2, LogTypeWritten, LogWritten
    <2>4. HolderType'
      BY <1>13, <2>1, <2>3, HolderIsDone DEF WriteCommitted
    <2> QED BY <1>0, <1>a, <1>b, <1>c, <1>f, <1>13, <2>3, <2>4 DEF WriteCommitted
  <1>14. CASE DryCommit
    <2>1. op.key \in Keys /\ log[op.key].state # "absent" /\ WriteLog(op.key, "committed")
      BY <1>0, <1>14, AtStep DEF DryCommit
    <2>2. "committed" \in LogState
      BY DEF LogState
    <2>3. LogType' /\ log'[op.key].state \in StateAt("dryCommit")
      BY <1>0, <2>1, <2>2, LogTypeWritten, LogWritten, StateAtStep
    <2>4. HolderType'
      BY <1>14, <2>1, <2>2, <2>3, HolderSteps DEF DryCommit, Pc
    <2> QED BY <1>0, <1>a, <1>b, <1>c, <1>f, <1>14, <2>3, <2>4 DEF DryCommit
  <1>15. CASE DryCommitRow
    <2>1. op.key \in Keys /\ log[op.key].state # "absent"
      BY <1>0, <1>15, AtStep DEF DryCommitRow
    <2>2. RowType'
      BY <1>0, <1>15, <2>1 DEF DryCommitRow, RowType, LogType
    <2>3. HolderType'
      BY <1>15, <2>1, HolderIsDone DEF DryCommitRow
    <2> QED BY <1>0, <1>b, <1>c, <1>d, <1>f, <1>15, <2>2, <2>3 DEF DryCommitRow
  <1>16. CASE WriteFailed
    <2>1. op.key \in Keys /\ log[op.key].state # "absent" /\ WriteLog(op.key, "failed")
      BY <1>0, <1>16, AtStep DEF WriteFailed
    <2>2. "failed" \in LogState
      BY DEF LogState
    <2>3. LogType' /\ log'[op.key].state \in StateAt("mark")
      BY <1>0, <2>1, <2>2, LogTypeWritten, LogWritten, StateAtStep
    <2>4. HolderType'
      BY <1>16, <2>1, <2>2, <2>3, HolderSteps DEF WriteFailed, Pc
    <2> QED BY <1>0, <1>a, <1>b, <1>c, <1>f, <1>16, <2>3, <2>4 DEF WriteFailed
  <1>17. CASE MarkFailed
    <2>1. op.key \in Keys /\ log[op.key].state # "absent"
      BY <1>0, <1>17, AtStep DEF MarkFailed
    <2>2. RowType'
      BY <1>0, <1>17, <2>1 DEF MarkFailed, RowType, LogType
    <2>3. HolderType'
      BY <1>17, <2>1, HolderIsDone DEF MarkFailed
    <2> QED BY <1>0, <1>b, <1>c, <1>d, <1>f, <1>17, <2>2, <2>3 DEF MarkFailed
  <1>18. CASE Kill
    <2>1. kills' \in 0..MaxKills
      BY <1>0, <1>18, BoundAssumption DEF Kill
    <2> QED BY <1>0, <1>a, <1>b, <1>c, <1>d, <1>f, <1>18, <2>1, FreeHolder DEF Kill
  <1>19. ASSUME NEW j \in Jobs, JobEnds(j) PROVE TypeInv'
    BY <1>0, <1>a, <1>b, <1>d, <1>e, <1>f, <1>19, JobsWritten DEF JobEnds
  <1>20. ASSUME NEW a \in Agents, Claim(a) \/ Finish(a) \/ Release(a) PROVE TypeInv'
    <2>1. BoardType'
      <3>1. CASE Claim(a)
        <4>1. [by |-> a, attempt |-> board.attempt] \in [by : Agents, attempt : Nat \ {0}]
          BY <1>0 DEF BoardType
        <4> QED BY <1>0, <3>1, <4>1 DEF BoardType, Claim
      <3>2. CASE Finish(a)
        BY <1>0, <3>2 DEF BoardType, Finish
      <3>3. CASE Release(a)
        BY <1>0, <3>3 DEF BoardType, Release
      <3> QED BY <1>20, <3>1, <3>2, <3>3
    <2> QED BY <1>0, <1>a, <1>c, <1>d, <1>e, <1>f, <1>20, <2>1 DEF Claim, Finish, Release
  <1>21. CASE UNCHANGED vars
    BY <1>0, <1>a, <1>b, <1>c, <1>d, <1>e, <1>f, <1>21 DEF vars
  <1> QED
    BY <1>1, <1>2, <1>3, <1>4, <1>5, <1>6, <1>7, <1>8, <1>9, <1>10, <1>11, <1>12, <1>13,
       <1>14, <1>15, <1>16, <1>17, <1>18, <1>19, <1>20, <1>21, <1>22
    DEF Next, Operator, Holder, Agent

(* Whatever is killed and taken up again, by whom, the holder of the lock  *)
(* and the log on disk agree on how far the replacement got.               *)
THEOREM TypeCorrect == Spec => []TypeOK
  <1>1. TypeInv => TypeOK
    BY DEF TypeInv
  <1> QED BY <1>1, TypeInit, TypeStep, PTL DEF Spec

-----------------------------------------------------------------------------
CarefulParts == PendingInv /\ RowInv /\ JobInv /\ LiveInv /\ ClaimInv

(* What the invariant says of the replacement that is being carried out.   *)
LEMMA AtKey ==
  ASSUME CarefulInv, op.key # None
  PROVE  /\ op.key \in Keys /\ op.todo = {} /\ op.dry = log[op.key].dry
         /\ \A k \in Pending : k = op.key
         /\ \A j \in Alive : row.job = j \/ (j \in Created /\ jobs[j].key = op.key)
  <1>1. op.key \in Keys /\ op.todo = {} /\ op.dry = log[op.key].dry /\ Pending \subseteq {op.key}
    BY DEF CarefulInv, TypeInv, TypeOK, PendingInv
  <1>2. \A j \in Alive : row.job = j \/ jobs[j].key \in Pending
    BY DEF CarefulInv, LiveInv
  <1> QED BY <1>1, <1>2, KeysAssumption DEF Created, Alive, Pending

(* No execution was created for a replacement that has not fenced.         *)
LEMMA IntentHasNoJob ==
  ASSUME CarefulInv, NEW k \in Keys, log[k].state \in {"absent", "intent"}
  PROVE  \A j \in Created : jobs[j].key # k
  BY DEF CarefulInv, JobInv

LEMMA RequestKeeps ==
  ASSUME Careful, CarefulInv, TypeInv', NEW k \in Keys, NEW mode \in Modes, NEW dry \in DryRuns,
         Request(k, mode, dry)
  PROVE  CarefulParts'
  <1>1. /\ Pending = {} /\ UNCHANGED <<row, board, jobs>> /\ log[k].state = "absent"
        /\ op.pc = "idle"
    BY DEF Request, Free
  <1>2. /\ log'[k].state = "intent" /\ log'[k].dry = dry
        /\ log'[k].attempt = row.attempt + 1 /\ log'[k].generation = row.generation + 1
        /\ \A l \in Keys : l # k => log'[l] = log[l]
        /\ op'.pc = "fence" /\ op'.key = k /\ op'.dry = dry /\ op'.todo = {}
    <2>1. TypeInv
      BY DEF CarefulInv
    <2>2. /\ log'[k] = [state |-> "intent", mode |-> mode, dry |-> dry, attempt |-> row.attempt + 1,
                        generation |-> row.generation + 1, job |-> NoJob]
          /\ \A l \in Keys : l # k => log'[l] = log[l]
          /\ op' \in [pc : {"fence"}, key : {k}, dry : {dry}, job : Jobs \cup {NoJob}, todo : {{}}]
      BY <2>1, RequestTypes
    <2> QED BY <2>2
  <1>3. Pending' = {k} /\ \A l \in Keys : log[l].state \notin {"intent", "fenced", "launched"}
    BY <1>1, <1>2 DEF Pending, PendingStates
  <1>4. PendingInv'
    BY <1>2, <1>3 DEF PendingInv
  <1>5. RowInv'
    BY <1>1, <1>2, <1>3 DEF CarefulInv, RowInv, Ahead, TypeInv, TypeOK
  <1>6. JobInv'
    BY <1>1, <1>2, <1>3, IntentHasNoJob DEF CarefulInv, JobInv, Created, TypeInv, TypeOK
  <1>7. LiveInv'
    BY <1>1, <1>2, <1>3 DEF CarefulInv, LiveInv, Alive
  <1>8. ClaimInv'
    BY <1>1, <1>2 DEF CarefulInv, ClaimInv, Alive, Fenced
  <1> QED BY <1>4, <1>5, <1>6, <1>7, <1>8 DEF CarefulParts

(* A pending replacement is taken up again.                                *)
LEMMA TakeUpKeeps ==
  ASSUME Careful, CarefulInv, TypeInv', NEW k \in Keys,
         ResumeNext(k) \/ \E dry \in DryRuns : Retry(k, dry)
  PROVE  CarefulParts'
  <1>0. TypeInv /\ UNCHANGED <<row, board, log, jobs>> /\ k \in Pending
    BY TakeUpType DEF CarefulInv, ResumeNext, Retry
  <1>1. log[k].state \in PendingStates /\ \A l \in Pending : l = k
    BY <1>0 DEF CarefulInv, PendingInv, Pending
  <1>2. op'.pc = EntryPoint(log[k].state) /\ op'.key = k /\ op'.todo = {} /\ op'.dry = log[k].dry
    <2>1. CASE ResumeNext(k)
      <3>1. op.todo \ {k} = {}
        BY <1>0, <1>1 DEF TypeInv, LockInv
      <3> QED BY <1>0, <2>1, <3>1, ResumeNextHolder
    <2>2. CASE \E dry \in DryRuns : Retry(k, dry)
      <3>1. PICK dry \in DryRuns : Retry(k, dry)
        BY <2>2
      <3>2. dry = log[k].dry /\ log[k].dry \in BOOLEAN
        BY <1>0, <3>1 DEF Retry, TypeInv, TypeOK
      <3>3. (dry \/ log[k].dry) = log[k].dry
        BY <3>2
      <3> QED BY <1>0, <3>1, <3>3, RetryHolder
    <2> QED BY <2>1, <2>2
  <1>3. op'.pc \in {"fence", "launch", "commit"}
    BY <1>1, <1>2, EntryPointAt
  <1>4. PendingInv'
    BY <1>0, <1>1, <1>2 DEF PendingInv, Pending
  <1>5. RowInv'
    BY <1>0, <1>1, <1>2 DEF CarefulInv, RowInv, Ahead, PendingStates, TypeInv, TypeOK
  <1>6. JobInv'
    BY <1>0, <1>3 DEF CarefulInv, JobInv, Created
  <1>7. LiveInv'
    BY <1>0, <1>3 DEF CarefulInv, LiveInv, Alive, Pending
  <1>8. ClaimInv'
    BY <1>0, <1>3 DEF CarefulInv, ClaimInv, Alive, Fenced
  <1> QED BY <1>4, <1>5, <1>6, <1>7, <1>8 DEF CarefulParts

(* Nobody holds a key: a resumed leader starts, or the holder was killed.  *)
LEMMA NoKeyKeeps ==
  ASSUME CarefulInv, Resume \/ Kill
  PROVE  CarefulParts'
  <1>1. UNCHANGED <<row, board, log, jobs>> /\ op'.key = None /\ op'.pc \in {"idle", "resume"}
    <2>1. CASE Resume
      BY <2>1 DEF Resume, Free
    <2>2. CASE Kill
      BY <2>2 DEF Kill, Free
    <2> QED BY <2>1, <2>2
  <1>2. PendingInv'
    BY <1>1 DEF CarefulInv, PendingInv, Pending
  <1>3. RowInv'
    BY <1>1 DEF CarefulInv, RowInv, Ahead
  <1>4. JobInv'
    BY <1>1 DEF CarefulInv, JobInv, Created
  <1>5. LiveInv'
    BY <1>1 DEF CarefulInv, LiveInv, Alive, Pending
  <1>6. ClaimInv'
    BY <1>1 DEF CarefulInv, ClaimInv, Alive, Fenced
  <1> QED BY <1>2, <1>3, <1>4, <1>5, <1>6 DEF CarefulParts

(* Where the holder of a key goes to.                                      *)
LEMMA CarefulStepped ==
  ASSUME CarefulInv, NEW pc \in Pc, Step(pc)
  PROVE  /\ op'.pc = pc
         /\ op'.key = op.key /\ op'.dry = op.dry /\ op'.job = op.job /\ op'.todo = op.todo
  BY Stepped DEF CarefulInv, TypeInv

LEMMA CarefulDone ==
  ASSUME CarefulInv, op.key # None, Done
  PROVE  op' = Free /\ op'.pc = "idle" /\ op'.key = None
  BY AtKey, DoneStep DEF CarefulInv, TypeInv, Free

LEMMA FenceKeeps ==
  ASSUME CarefulInv, Fence
  PROVE  CarefulParts'
  <1>1. op.key \in Keys /\ log[op.key].state = "intent" /\ op.key # None
    BY AtStep, KeysAssumption DEF Fence, CarefulInv, TypeInv
  <1>2. /\ UNCHANGED <<row, board, log>> /\ op'.pc = "invalidate"
        /\ op'.key = op.key /\ op'.dry = op.dry /\ op'.todo = op.todo
    BY CarefulStepped DEF Fence, Pc
  <1>3. JobsType
    BY DEF CarefulInv, TypeInv, TypeOK, JobsType
  <1>4. \A j \in Jobs :
          /\ j # row.job => jobs'[j] = jobs[j]
          /\ jobs'[j].key = jobs[j].key /\ jobs'[j].attempt = jobs[j].attempt
          /\ jobs'[j].generation = jobs[j].generation
          /\ j = row.job => jobs'[j].state = "ended"
    <2>1. CASE Ended(row.job)
      BY <2>1, BoundAssumption DEF Fence, Ended, Jobs, NoJob
    <2>2. CASE ~Ended(row.job)
      BY <1>3, <2>2, JobsWritten DEF Fence
    <2> QED BY <2>1, <2>2
  <1>5. Created' = Created /\ Alive' = Alive \ {row.job}
    BY <1>4 DEF Created, Alive
  <1>6. Alive' = {}
    BY <1>1, <1>5, AtKey, IntentHasNoJob
  <1>7. PendingInv'
    BY <1>2 DEF CarefulInv, PendingInv, Pending
  <1>8. RowInv'
    BY <1>2 DEF CarefulInv, RowInv, Ahead
  <1>9. JobInv'
    <2>1. \A j \in Jobs : jobs[j].state # "absent" => jobs'[j].state # "absent"
      BY <1>4
    <2>2. row'.job # NoJob => jobs'[row'.job].state # "absent"
      BY <1>2, <1>4, <2>1 DEF CarefulInv, JobInv, TypeInv, TypeOK
    <2> QED BY <1>2, <1>4, <1>5, <2>1, <2>2 DEF CarefulInv, JobInv, Created
  <1>10. LiveInv'
    BY <1>6 DEF LiveInv
  <1>11. ClaimInv'
    BY <1>2, <1>4, <1>6 DEF CarefulInv, ClaimInv, Fenced
  <1> QED BY <1>7, <1>8, <1>9, <1>10, <1>11 DEF CarefulParts

LEMMA FenceFailsKeeps ==
  ASSUME CarefulInv, FenceFails
  PROVE  CarefulParts'
  <1>1. op.key \in Keys /\ log[op.key].state = "intent" /\ op.key # None
    BY AtStep, KeysAssumption DEF FenceFails, CarefulInv, TypeInv
  <1>2. UNCHANGED <<row, board, jobs>> /\ op'.pc = "idle" /\ op'.key = None
    BY <1>1, CarefulDone DEF FenceFails
  <1>3. /\ log'[op.key].state = "absent" /\ log'[op.key].attempt = 0
        /\ \A l \in Keys : l # op.key => log'[l] = log[l]
    BY <1>1 DEF FenceFails, NoLog, CarefulInv, TypeInv, TypeOK
  <1>4. Pending' = {}
    BY <1>1, <1>3, AtKey DEF Pending, PendingStates
  <1>5. PendingInv'
    BY <1>2, <1>4 DEF PendingInv
  <1>6. RowInv'
    BY <1>1, <1>2, <1>3 DEF CarefulInv, TypeInv, TypeOK, RowInv, Ahead
  <1>7. JobInv'
    <2>1. Created' = Created /\ \A j \in Created : jobs[j].key \in Keys \ {op.key}
      BY <1>1, <1>2, IntentHasNoJob DEF Created, CarefulInv, TypeInv, TypeOK
    <2>2. \A k \in Keys : log'[k].state = "launched" => log'[k] = log[k]
      BY <1>1, <1>3
    <2> QED BY <1>1, <1>2, <1>3, <2>1, <2>2 DEF CarefulInv, JobInv
  <1>8. LiveInv'
    BY <1>1, <1>2, <1>3, AtKey, IntentHasNoJob DEF CarefulInv, LiveInv, Alive
  <1>9. ClaimInv'
    BY <1>1, <1>2, <1>3 DEF CarefulInv, ClaimInv, Alive, Fenced
  <1> QED BY <1>5, <1>6, <1>7, <1>8, <1>9 DEF CarefulParts

LEMMA InvalidateClaimKeeps ==
  ASSUME CarefulInv, InvalidateClaim
  PROVE  CarefulParts'
  <1>1. /\ UNCHANGED <<row, log, jobs>> /\ op.pc = "invalidate" /\ op'.pc = "fenced"
        /\ op'.key = op.key /\ op'.dry = op.dry /\ op'.todo = op.todo /\ board'.claim = None
    BY CarefulStepped DEF InvalidateClaim, Pc
  <1>2. PendingInv'
    BY <1>1 DEF CarefulInv, PendingInv, Pending
  <1>3. RowInv'
    BY <1>1 DEF CarefulInv, RowInv, Ahead
  <1>4. JobInv'
    BY <1>1 DEF CarefulInv, JobInv, Created
  <1>5. LiveInv'
    BY <1>1 DEF CarefulInv, LiveInv, Alive, Pending
  <1>6. ClaimInv'
    BY <1>1 DEF CarefulInv, ClaimInv, Alive, Fenced
  <1> QED BY <1>2, <1>3, <1>4, <1>5, <1>6 DEF CarefulParts

LEMMA InvalidateRefusedKeeps ==
  ASSUME CarefulInv, InvalidateRefused
  PROVE  CarefulParts'
  <1>1. /\ UNCHANGED <<row, board, log, jobs>> /\ op.pc = "invalidate" /\ op'.pc = "fail"
        /\ op'.key = op.key /\ op'.dry = op.dry /\ op'.todo = op.todo
    BY CarefulStepped DEF InvalidateRefused, Pc
  <1>2. PendingInv'
    BY <1>1 DEF CarefulInv, PendingInv, Pending
  <1>3. RowInv'
    BY <1>1 DEF CarefulInv, RowInv, Ahead
  <1>4. JobInv'
    BY <1>1 DEF CarefulInv, JobInv, Created
  <1>5. LiveInv'
    BY <1>1 DEF CarefulInv, LiveInv, Alive, Pending
  <1>6. ClaimInv'
    BY <1>1 DEF CarefulInv, ClaimInv, Alive, Fenced
  <1> QED BY <1>2, <1>3, <1>4, <1>5, <1>6 DEF CarefulParts

LEMMA WriteFencedKeeps ==
  ASSUME CarefulInv, WriteFenced
  PROVE  CarefulParts'
  <1>1. op.key \in Keys /\ log[op.key].state = "intent" /\ op.pc = "fenced"
    BY AtStep DEF WriteFenced, CarefulInv, TypeInv
  <1>2. /\ UNCHANGED <<row, board, jobs>> /\ op'.pc = "launch"
        /\ op'.key = op.key /\ op'.dry = op.dry /\ op'.todo = op.todo
    BY CarefulStepped DEF WriteFenced, Pc
  <1>3. /\ log'[op.key].state = "fenced"
        /\ \A l \in Keys :
             /\ l # op.key => log'[l] = log[l]
             /\ log'[l].dry = log[l].dry /\ log'[l].job = log[l].job
             /\ log'[l].attempt = log[l].attempt /\ log'[l].generation = log[l].generation
    BY <1>1, LogWritten DEF WriteFenced, CarefulInv, TypeInv, LogState
  <1>4. Pending' = Pending /\ Alive' = {}
    BY <1>1, <1>2, <1>3 DEF Pending, PendingStates, Alive, CarefulInv, LiveInv
  <1>5. PendingInv'
    BY <1>2, <1>3, <1>4 DEF CarefulInv, TypeInv, TypeOK, PendingInv
  <1>6. RowInv'
    BY <1>1, <1>2, <1>3 DEF CarefulInv, RowInv, Ahead
  <1>7. JobInv'
    <2>1. Created' = Created /\ \A j \in Created : jobs[j].key \in Keys \ {op.key}
      BY <1>1, <1>2, IntentHasNoJob DEF Created, CarefulInv, TypeInv, TypeOK
    <2>2. \A k \in Keys : log'[k].state = "launched" => log'[k] = log[k]
      BY <1>1, <1>3
    <2> QED BY <1>1, <1>2, <1>3, <2>1, <2>2 DEF CarefulInv, JobInv
  <1>8. LiveInv'
    BY <1>4 DEF LiveInv
  <1>9. ClaimInv'
    BY <1>1, <1>2, <1>3, <1>4 DEF CarefulInv, ClaimInv, Fenced
  <1> QED BY <1>5, <1>6, <1>7, <1>8, <1>9 DEF CarefulParts

(* Before a replacement is launched nothing lives but what was created for *)
(* it, and its orphans are all of that.                                    *)
LEMMA BeforeLaunch ==
  ASSUME CarefulInv, op.pc = "launch"
  PROVE  /\ op.key \in Keys /\ log[op.key].state = "fenced" /\ Ahead(op.key)
         /\ op.dry = log[op.key].dry
         /\ \A j \in Created : jobs[j].key = op.key => j \in Orphans /\ row.topology = "job" /\ ~op.dry
         /\ \A j \in Alive : j \in Created /\ jobs[j].key = op.key
  <1>1. op.key \in Keys /\ log[op.key].state = "fenced" /\ op.key # None
    BY AtStep, KeysAssumption DEF CarefulInv, TypeInv
  <1>2. Ahead(op.key) /\ op.dry = log[op.key].dry /\ row.job \notin Alive
    BY <1>1, AtKey DEF CarefulInv, RowInv, LiveInv
  <1>3. \A j \in Created : jobs[j].key = op.key => j \in Orphans /\ row.topology = "job" /\ ~op.dry
    BY <1>1, <1>2 DEF CarefulInv, JobInv, Created, Orphans
  <1>4. \A j \in Alive : j \in Created /\ jobs[j].key = op.key
    BY <1>1, <1>2, AtKey
  <1> QED BY <1>1, <1>2, <1>3, <1>4

LEMMA AdoptOrphanKeeps ==
  ASSUME CarefulInv, AdoptOrphan
  PROVE  CarefulParts'
  <1>1. PICK j \in Orphans : op' = [op EXCEPT !.pc = "launched", !.job = j]
    BY DEF AdoptOrphan
  <1>2. /\ UNCHANGED <<row, board, log, jobs>> /\ op'.pc = "launched" /\ op'.job = j
        /\ op'.key = op.key /\ op'.dry = op.dry /\ op'.todo = op.todo
    BY <1>1 DEF AdoptOrphan, CarefulInv, TypeInv, TypeOK
  <1>3. j \in Jobs /\ jobs[j].key = op.key
    BY DEF Orphans
  <1>4. PendingInv'
    BY <1>2 DEF CarefulInv, PendingInv, Pending
  <1>5. RowInv'
    BY <1>2 DEF CarefulInv, RowInv, Ahead
  <1>6. JobInv'
    BY <1>2, <1>3 DEF CarefulInv, JobInv, Created
  <1>7. LiveInv'
    BY <1>2 DEF CarefulInv, LiveInv, Alive, Pending
  <1>8. ClaimInv'
    BY <1>2 DEF CarefulInv, ClaimInv, Alive, Fenced
  <1> QED BY <1>4, <1>5, <1>6, <1>7, <1>8 DEF CarefulParts

LEMMA CreateJobKeeps ==
  ASSUME CarefulInv, CreateJob
  PROVE  CarefulParts'
  <1> DEFINE new(key, attempt, generation) ==
        [state |-> "created", key |-> key, attempt |-> attempt, generation |-> generation]
  <1>1. PICK j \in Jobs : /\ jobs[j].state = "absent"
                          /\ jobs' = [jobs EXCEPT ![j] = new(op.key, log[op.key].attempt,
                                                             log[op.key].generation)]
                          /\ op' = [op EXCEPT !.pc = "start", !.job = j]
    BY DEF CreateJob
  <1>2. /\ UNCHANGED <<row, board, log>> /\ op'.pc = "start" /\ op'.job = j
        /\ op'.key = op.key /\ op'.dry = op.dry /\ op'.todo = op.todo
    BY <1>1 DEF CreateJob, CarefulInv, TypeInv, TypeOK
  <1>3. /\ op.key \in Keys /\ log[op.key].state = "fenced" /\ Ahead(op.key)
        /\ ~log[op.key].dry /\ row.topology = "job"
        /\ \A i \in Created : jobs[i].key # op.key
        /\ Alive = {}
    BY BeforeLaunch DEF CreateJob
  <1>4. jobs'[j] = new(op.key, log[op.key].attempt, log[op.key].generation)
        /\ \A i \in Jobs : i # j => jobs'[i] = jobs[i]
    BY <1>1 DEF CarefulInv, TypeInv, TypeOK
  <1>5. /\ jobs'[j].state = "created" /\ jobs'[j].key = op.key
        /\ jobs'[j].attempt = log[op.key].attempt
        /\ jobs'[j].generation = log[op.key].generation
        /\ \A i \in Jobs : i # j => jobs'[i] = jobs[i]
    BY <1>4
  <1>6. j \notin Created
    BY <1>1 DEF CarefulInv, JobInv
  <1>7. Created' = Created \cup {j} /\ Alive' = {j}
    BY <1>3, <1>5, KeysAssumption DEF Created, Alive
  <1>8. row.job # j
    BY <1>1, BoundAssumption DEF CarefulInv, JobInv, Jobs, NoJob
  <1>9. PendingInv'
    BY <1>2 DEF CarefulInv, PendingInv, Pending
  <1>10. RowInv'
    BY <1>2 DEF CarefulInv, RowInv, Ahead
  <1>11. JobInv'
    <2>1. \A i \in Created : i \in Jobs /\ i # j /\ jobs'[i] = jobs[i] /\ jobs'[i].key # op.key
      BY <1>3, <1>5, <1>6 DEF Created
    <2>2. \A k \in Keys : log[k].state = "launched" => log[k].job \in Created
      BY KeysAssumption DEF CarefulInv, JobInv, Created
    <2>3. \A i \in Created' :
            LET k == jobs'[i].key IN
            /\ jobs'[i].state # "absent"
            /\ jobs'[i].attempt = log[k].attempt /\ jobs'[i].generation = log[k].generation
            /\ log[k].state \notin {"absent", "intent"} /\ ~log[k].dry
            /\ row.topology = "job"
      BY <1>3, <1>5, <1>7, <2>1 DEF CarefulInv, JobInv
    <2>4. \A h, i \in Created' : jobs'[h].key = jobs'[i].key => h = i
      BY <1>5, <1>7, <2>1 DEF CarefulInv, JobInv
    <2>5. row.job # NoJob => jobs'[row.job].state # "absent"
      BY <1>5, <1>8 DEF CarefulInv, JobInv, TypeInv, TypeOK
    <2>6. \A k \in Keys : log[k].state = "launched" =>
            log[k].job \in Jobs /\ jobs'[log[k].job].key = k
      BY <2>1, <2>2 DEF CarefulInv, JobInv
    <2> QED BY <1>2, <1>5, <2>3, <2>4, <2>5, <2>6 DEF JobInv
  <1>12. LiveInv'
    BY <1>2, <1>3, <1>5, <1>7, <1>8 DEF LiveInv, Pending, PendingStates
  <1>13. ClaimInv'
    <2>1. \A k \in Keys : log[k].attempt <= jobs'[j].attempt
      BY <1>3, <1>5 DEF CarefulInv, RowInv, Ahead
    <2> QED BY <1>2, <1>5, <1>7, <2>1 DEF CarefulInv, ClaimInv, Fenced
  <1> QED BY <1>9, <1>10, <1>11, <1>12, <1>13 DEF CarefulParts

LEMMA StartJobKeeps ==
  ASSUME CarefulInv, StartJob
  PROVE  CarefulParts'
  <1>1. PICK pc \in {"launched", "fail"}, state \in {"live", "ended"} :
          /\ jobs' = [jobs EXCEPT ![op.job].state = state] /\ Step(pc)
          /\ pc = "fail" => state = "ended"
    BY DEF StartJob
  <1>2. /\ UNCHANGED <<row, board, log>> /\ op'.pc = pc /\ op'.job = op.job
        /\ op'.key = op.key /\ op'.dry = op.dry /\ op'.todo = op.todo
    BY <1>1, CarefulStepped DEF StartJob, Pc
  <1>3. op.job \in Jobs /\ jobs[op.job].key = op.key /\ op.job \in Alive
    BY DEF StartJob, CarefulInv, JobInv, Alive
  <1>4. /\ jobs'[op.job].state = state
        /\ \A i \in Jobs :
             /\ i # op.job => jobs'[i] = jobs[i]
             /\ jobs'[i].key = jobs[i].key /\ jobs'[i].attempt = jobs[i].attempt
             /\ jobs'[i].generation = jobs[i].generation
    <2>1. JobsType /\ state \in {"created", "live", "ended"}
      BY DEF CarefulInv, TypeInv, TypeOK, JobsType
    <2> QED BY <1>1, <1>3, <2>1, JobsWritten
  <1>5. Created' = Created /\ Alive' \subseteq Alive /\ (pc = "fail" => Alive' = {})
    BY <1>1, <1>3, <1>4 DEF Created, Alive, CarefulInv, LiveInv
  <1>6. PendingInv'
    BY <1>2 DEF CarefulInv, PendingInv, Pending
  <1>7. RowInv'
    BY <1>2 DEF CarefulInv, RowInv, Ahead
  <1>8. JobInv'
    <2>1. \A i \in Jobs : jobs[i].state # "absent" => jobs'[i].state # "absent"
      BY <1>3, <1>4
    <2>2. row.job # NoJob => jobs'[row.job].state # "absent"
      BY <2>1 DEF CarefulInv, JobInv, TypeInv, TypeOK
    <2>3. \A j \in Created : j \in Jobs /\ jobs'[j].state # "absent"
      BY <2>1 DEF CarefulInv, JobInv, Created
    <2> QED BY <1>2, <1>3, <1>4, <1>5, <2>2, <2>3 DEF CarefulInv, JobInv
  <1>9. LiveInv'
    <2>1. \A j \in Alive : jobs'[j].key = jobs[j].key
      BY <1>4 DEF Alive
    <2> QED BY <1>2, <1>5, <2>1 DEF CarefulInv, LiveInv, Pending
  <1>10. ClaimInv'
    BY <1>2, <1>4, <1>5 DEF CarefulInv, ClaimInv, Fenced
  <1> QED BY <1>6, <1>7, <1>8, <1>9, <1>10 DEF CarefulParts

LEMMA LaunchFailsKeeps ==
  ASSUME CarefulInv, LaunchFails
  PROVE  CarefulParts'
  <1>1. /\ UNCHANGED <<row, board, log, jobs>> /\ op'.pc = "fail"
        /\ op'.key = op.key /\ op'.dry = op.dry /\ op'.todo = op.todo
    BY CarefulStepped DEF LaunchFails, Pc
  <1>2. Alive = {}
    <2>1. SUFFICES ASSUME NEW j \in Alive PROVE FALSE
      OBVIOUS
    <2>2. j \in Orphans /\ row.topology = "job" /\ jobs[j].key = op.key
      BY BeforeLaunch DEF LaunchFails
    <2>3. op.key # None
      BY BeforeLaunch, KeysAssumption DEF LaunchFails
    <2>4. Orphans = {j}
      BY <2>2, <2>3 DEF Orphans, Created, CarefulInv, JobInv
    <2>5. Cardinality(Orphans) = 1
      BY <2>4, FS_Singleton
    <2> QED BY <2>2, <2>5 DEF LaunchFails
  <1>3. PendingInv'
    BY <1>1 DEF CarefulInv, PendingInv, Pending
  <1>4. RowInv'
    BY <1>1 DEF CarefulInv, RowInv, Ahead
  <1>5. JobInv'
    BY <1>1 DEF CarefulInv, JobInv, Created
  <1>6. LiveInv'
    BY <1>1, <1>2 DEF LiveInv, Alive
  <1>7. ClaimInv'
    BY <1>1 DEF CarefulInv, ClaimInv, Alive, Fenced
  <1> QED BY <1>3, <1>4, <1>5, <1>6, <1>7 DEF CarefulParts

LEMMA WriteLaunchedKeeps ==
  ASSUME CarefulInv, WriteLaunched
  PROVE  CarefulParts'
  <1>1. /\ op.key \in Keys /\ log[op.key].state = "fenced"
        /\ log'[op.key].state = "launched" /\ log'[op.key].job = op.job
        /\ \A l \in Keys :
             /\ l # op.key => log'[l] = log[l]
             /\ log'[l].dry = log[l].dry
             /\ log'[l].attempt = log[l].attempt /\ log'[l].generation = log[l].generation
    BY LaunchedWritten DEF CarefulInv, TypeInv
  <1>2. /\ UNCHANGED <<row, board, jobs>> /\ op'.pc = "commit"
        /\ op'.key = op.key /\ op'.dry = op.dry /\ op'.todo = op.todo
    BY CarefulStepped DEF WriteLaunched, Pc
  <1>3. op.job \in Jobs /\ jobs[op.job].key = op.key
    BY DEF WriteLaunched, CarefulInv, JobInv
  <1>4. Pending' = Pending
    BY <1>1 DEF Pending, PendingStates
  <1>5. PendingInv'
    BY <1>1, <1>2, <1>4 DEF CarefulInv, PendingInv
  <1>6. RowInv'
    BY <1>1, <1>2 DEF CarefulInv, RowInv, Ahead
  <1>7. JobInv'
    <2>1. Created' = Created /\ \A j \in Created : jobs[j].key \in Keys
      BY <1>2 DEF Created, CarefulInv, TypeInv, TypeOK
    <2>2. \A k \in Keys : log[k].state \notin {"absent", "intent"} =>
                          log'[k].state \notin {"absent", "intent"}
      BY <1>1
    <2> QED BY <1>1, <1>2, <1>3, <2>1, <2>2 DEF CarefulInv, JobInv
  <1>8. LiveInv'
    BY <1>1, <1>2, <1>4 DEF CarefulInv, LiveInv, Alive
  <1>9. ClaimInv'
    BY <1>1, <1>2 DEF CarefulInv, ClaimInv, Alive, Fenced
  <1> QED BY <1>5, <1>6, <1>7, <1>8, <1>9 DEF CarefulParts

LEMMA CommitRowKeeps ==
  ASSUME CarefulInv, TypeInv', CommitRow
  PROVE  CarefulParts'
  <1> DEFINE entry == log[op.key]
  <1>1. op.key \in Keys /\ entry.state = "launched" /\ op.key # None
    BY AtStep, KeysAssumption DEF CommitRow, CarefulInv, TypeInv
  <1>2. Ahead(op.key) \/ (row.job = entry.job /\ row.attempt = entry.attempt)
    BY <1>1 DEF CarefulInv, RowInv
  <1>3. ~Duplicate
    BY <1>1, <1>2 DEF Duplicate, Ahead, CarefulInv, TypeInv, TypeOK
  <1>4. /\ row' = [row EXCEPT !.attempt = entry.attempt, !.job = entry.job,
                            !.generation = entry.generation, !.prior = TRUE]
        /\ UNCHANGED <<board, log, jobs>> /\ Step("committed")
    BY <1>3 DEF CommitRow
  <1>5. /\ row'.attempt = entry.attempt /\ row'.job = entry.job
        /\ row'.topology = row.topology
    BY <1>4 DEF CarefulInv, TypeInv, TypeOK
  <1>6. /\ op'.pc = "committed" /\ op'.key = op.key /\ op'.dry = op.dry /\ op'.todo = op.todo
    BY <1>4, CarefulStepped DEF Pc
  <1>7. entry.job \in Created /\ jobs[entry.job].key = op.key
    BY <1>1, KeysAssumption DEF CarefulInv, JobInv, Created
  <1>8. \A k \in Keys : log[k].state \in {"intent", "fenced", "launched"} => k = op.key
    BY <1>1, AtKey DEF Pending, PendingStates
  <1>9. PendingInv'
    BY <1>4, <1>6 DEF CarefulInv, PendingInv, Pending
  <1>10. RowInv'
    <2>1. row.attempt <= entry.attempt
      BY <1>1 DEF CarefulInv, RowInv
    <2>2. \A k \in Keys : log[k].attempt <= entry.attempt + 1
      <3>1. \A k \in Keys : log[k].attempt <= row.attempt + 1
        BY DEF CarefulInv, RowInv
      <3>2. row.attempt \in Nat /\ entry.attempt \in Nat /\ \A k \in Keys : log[k].attempt \in Nat
        BY <1>1 DEF CarefulInv, TypeInv, TypeOK
      <3> QED BY <2>1, <3>1, <3>2
    <2>3. entry.attempt \in Nat
      BY <1>1 DEF CarefulInv, TypeInv, TypeOK
    <2> QED BY <1>1, <1>4, <1>5, <1>6, <1>8, <2>2, <2>3 DEF RowInv
  <1>11. JobInv'
    BY <1>1, <1>4, <1>5, <1>6, <1>7 DEF CarefulInv, JobInv, Created
  <1>12. LiveInv'
    <2>1. \A j \in Alive : row'.job = j \/ jobs[j].key \in Pending
      BY <1>1, <1>5 DEF CarefulInv, LiveInv
    <2> QED BY <1>1, <1>4, <1>5, <1>6, <1>8, <2>1 DEF CarefulInv, LiveInv, Alive, Pending
  <1>13. ClaimInv'
    BY <1>4, <1>6 DEF CarefulInv, ClaimInv, Alive, Fenced
  <1> QED BY <1>9, <1>10, <1>11, <1>12, <1>13 DEF CarefulParts

(* A pending log is closed: committed by a launch or a dry run, or failed. *)
LEMMA Closed ==
  ASSUME CarefulInv, op.key \in Keys, log[op.key].state \in {"intent", "fenced", "launched"},
         NEW state \in {"committed", "failed"}, WriteLog(op.key, state),
         log[op.key].state = "intent" => state = "failed",
         UNCHANGED <<row, board, jobs>>,
         op'.key \in {None, op.key}, op'.todo = {}, op'.dry = op.dry \/ op'.key = None,
         op'.pc \in {"idle", "dryCommit", "mark"},
         \A j \in Alive : row.job = j,
         op'.pc \in {"dryCommit", "mark"} => Alive = {}
  PROVE  CarefulParts'
  <1>0. op.key # None
    BY KeysAssumption
  <1>1. /\ log'[op.key].state = state
        /\ \A l \in Keys :
             /\ l # op.key => log'[l] = log[l]
             /\ log'[l].dry = log[l].dry /\ log'[l].job = log[l].job
             /\ log'[l].attempt = log[l].attempt /\ log'[l].generation = log[l].generation
    BY LogWritten DEF CarefulInv, TypeInv, LogState
  <1>2. Pending' = {}
    BY <1>0, <1>1, AtKey DEF Pending, PendingStates
  <1>3. \A k \in Keys : log'[k].state \notin {"intent", "fenced", "launched"}
    BY <1>2 DEF Pending, PendingStates
  <1>4. PendingInv'
    BY <1>0, <1>1, <1>2, AtKey DEF PendingInv
  <1>5. RowInv'
    BY <1>0, <1>1, <1>3 DEF CarefulInv, RowInv
  <1>6. JobInv'
    <2>1. Created' = Created /\ \A j \in Created : jobs[j].key \in Keys
      BY DEF Created, CarefulInv, TypeInv, TypeOK
    <2>2. \A k \in Keys : log[k].state \notin {"absent", "intent"} =>
                          log'[k].state \notin {"absent", "intent"}
      BY <1>1
    <2> QED BY <1>1, <1>3, <2>1, <2>2 DEF CarefulInv, JobInv
  <1>7. LiveInv'
    BY <1>3 DEF CarefulInv, LiveInv, Alive
  <1>8. ClaimInv'
    <2>1. \A k \in Keys : Fenced(k)' => Fenced(k)
      <3>1. state = "committed" => Fenced(op.key)
        BY DEF Fenced
      <3> QED BY <1>1, <3>1 DEF Fenced
    <2> QED BY <1>1, <2>1 DEF CarefulInv, ClaimInv, Alive
  <1> QED BY <1>4, <1>5, <1>6, <1>7, <1>8 DEF CarefulParts

LEMMA WriteCommittedKeeps ==
  ASSUME CarefulInv, WriteCommitted
  PROVE  CarefulParts'
  <1>1. op.key \in Keys /\ log[op.key].state = "launched" /\ op.key # None
    BY AtStep, KeysAssumption DEF WriteCommitted, CarefulInv, TypeInv
  <1>2. /\ WriteLog(op.key, "committed") /\ UNCHANGED <<row, board, jobs>>
        /\ op'.pc = "idle" /\ op'.key = None /\ op'.todo = {}
    BY <1>1, CarefulDone DEF WriteCommitted, Free
  <1>3. \A j \in Alive : row.job = j
    BY <1>1, AtKey, KeysAssumption DEF WriteCommitted, CarefulInv, JobInv, Created
  <1> QED BY <1>1, <1>2, <1>3, Closed

LEMMA DryCommitKeeps ==
  ASSUME CarefulInv, DryCommit
  PROVE  CarefulParts'
  <1>1. op.key \in Keys /\ log[op.key].state = "fenced" /\ op.key # None /\ op.todo = {}
    BY AtStep, AtKey, KeysAssumption DEF DryCommit, CarefulInv, TypeInv
  <1>2. /\ WriteLog(op.key, "committed") /\ UNCHANGED <<row, board, jobs>>
        /\ op'.pc = "dryCommit" /\ op'.key = op.key /\ op'.todo = {} /\ op'.dry = op.dry
    BY <1>1, CarefulStepped DEF DryCommit, Pc
  <1>3. Alive = {}
    BY BeforeLaunch DEF DryCommit
  <1> QED BY <1>1, <1>2, <1>3, Closed

LEMMA WriteFailedKeeps ==
  ASSUME CarefulInv, WriteFailed
  PROVE  CarefulParts'
  <1>1. /\ op.key \in Keys /\ log[op.key].state \in {"intent", "fenced", "launched"}
        /\ op.key # None /\ op.todo = {}
    BY AtStep, AtKey, KeysAssumption DEF WriteFailed, CarefulInv, TypeInv
  <1>2. /\ WriteLog(op.key, "failed") /\ UNCHANGED <<row, board, jobs>>
        /\ op'.pc = "mark" /\ op'.key = op.key /\ op'.todo = {} /\ op'.dry = op.dry
    BY <1>1, CarefulStepped DEF WriteFailed, Pc
  <1>3. Alive = {}
    BY DEF WriteFailed, CarefulInv, LiveInv
  <1> QED BY <1>1, <1>2, <1>3, Closed

(* The row is written although nothing was launched.                       *)
LEMMA RowWithoutJob ==
  ASSUME CarefulInv, DryCommitRow \/ MarkFailed
  PROVE  CarefulParts'
  <1>1. /\ op.key \in Keys /\ log[op.key].state \in {"committed", "failed"}
        /\ op.key # None /\ Alive = {}
    BY AtStep, KeysAssumption DEF DryCommitRow, MarkFailed, CarefulInv, TypeInv, LiveInv
  <1>2. UNCHANGED <<board, log, jobs>> /\ op'.pc = "idle" /\ op'.key = None
    BY <1>1, CarefulDone DEF DryCommitRow, MarkFailed
  <1>3. /\ row'.attempt = log[op.key].attempt /\ row'.job \in {row.job, NoJob}
        /\ row'.topology = row.topology
    BY DEF DryCommitRow, MarkFailed, CarefulInv, TypeInv, TypeOK
  <1>4. \A k \in Keys : log[k].state \notin {"intent", "fenced", "launched"}
    BY <1>1, AtKey DEF Pending, PendingStates
  <1>5. PendingInv'
    BY <1>2 DEF CarefulInv, PendingInv, Pending
  <1>6. RowInv'
    <2>1. row.attempt <= row'.attempt /\ \A k \in Keys : log[k].attempt <= row.attempt + 1
      BY <1>1, <1>3 DEF CarefulInv, RowInv
    <2>2. row.attempt \in Nat /\ row'.attempt \in Nat /\ \A k \in Keys : log[k].attempt \in Nat
      BY <1>1, <1>3 DEF CarefulInv, TypeInv, TypeOK
    <2>3. \A k \in Keys : log[k].attempt <= row'.attempt + 1
      BY <2>1, <2>2
    <2> QED BY <1>2, <1>4, <2>3 DEF RowInv
  <1>7. JobInv'
    BY <1>2, <1>3 DEF CarefulInv, JobInv, Created
  <1>8. LiveInv'
    BY <1>1, <1>2, <1>4 DEF LiveInv, Alive
  <1>9. ClaimInv'
    BY <1>2 DEF CarefulInv, ClaimInv, Alive, Fenced
  <1> QED BY <1>5, <1>6, <1>7, <1>8, <1>9 DEF CarefulParts

LEMMA JobEndsKeeps ==
  ASSUME CarefulInv, NEW j \in Jobs, JobEnds(j)
  PROVE  CarefulParts'
  <1>1. j \in Alive /\ UNCHANGED <<row, board, log, op>> /\ jobs[j].state = "live"
    BY DEF JobEnds, Live, Alive
  <1>2. /\ jobs'[j].state = "ended"
        /\ \A i \in Jobs :
             /\ i # j => jobs'[i] = jobs[i]
             /\ jobs'[i].key = jobs[i].key /\ jobs'[i].attempt = jobs[i].attempt
             /\ jobs'[i].generation = jobs[i].generation
    BY JobsWritten DEF JobEnds, CarefulInv, TypeInv, TypeOK, JobsType
  <1>3. Created' = Created /\ Alive' \subseteq Alive
    BY <1>2 DEF Created, Alive
  <1>4. PendingInv'
    BY <1>1 DEF CarefulInv, PendingInv, Pending
  <1>5. RowInv'
    BY <1>1 DEF CarefulInv, RowInv, Ahead
  <1>6. JobInv'
    <2>1. \A i \in Jobs : jobs[i].state # "absent" => jobs'[i].state # "absent"
      BY <1>2
    <2>2. row.job # NoJob => jobs'[row.job].state # "absent"
      BY <2>1 DEF CarefulInv, JobInv, TypeInv, TypeOK
    <2>3. \A i \in Created : i \in Jobs /\ jobs'[i].state # "absent"
      BY <2>1 DEF CarefulInv, JobInv, Created
    <2>4. op.pc = "start" => op.job # j /\ op.job \in Jobs
      BY <1>1 DEF CarefulInv, JobInv
    <2> QED BY <1>1, <1>2, <1>3, <2>2, <2>3, <2>4 DEF CarefulInv, JobInv
  <1>7. LiveInv'
    BY <1>1, <1>2, <1>3 DEF CarefulInv, LiveInv, Pending, Alive
  <1>8. ClaimInv'
    BY <1>1, <1>2, <1>3 DEF CarefulInv, ClaimInv, Fenced
  <1> QED BY <1>4, <1>5, <1>6, <1>7, <1>8 DEF CarefulParts

LEMMA BoardKeeps ==
  ASSUME CarefulInv, NEW a \in Agents, Claim(a) \/ Finish(a) \/ Release(a)
  PROVE  CarefulParts'
  <1>1. UNCHANGED <<row, log, jobs, op>>
    BY DEF Claim, Finish, Release
  <1>2. board'.claim # None => board'.claim.by = a /\ (a \in Jobs => a \in Alive)
    <2>1. CASE Claim(a)
      <3>1. board'.claim = [by |-> a, attempt |-> board.attempt]
        BY <2>1 DEF Claim, CarefulInv, TypeInv, TypeOK
      <3> QED BY <2>1, <3>1, BystanderAssumption DEF Claim, Working, Live, Alive
    <2>2. CASE Finish(a) \/ Release(a)
      BY <2>2 DEF Finish, Release, CarefulInv, TypeInv, TypeOK
    <2> QED BY <2>1, <2>2
  <1>3. PendingInv'
    BY <1>1 DEF CarefulInv, PendingInv, Pending
  <1>4. RowInv'
    BY <1>1 DEF CarefulInv, RowInv, Ahead
  <1>5. JobInv'
    BY <1>1 DEF CarefulInv, JobInv, Created
  <1>6. LiveInv'
    BY <1>1 DEF CarefulInv, LiveInv, Alive, Pending
  <1>7. ClaimInv'
    BY <1>1, <1>2 DEF CarefulInv, LiveInv, ClaimInv, Fenced, Alive
  <1> QED BY <1>3, <1>4, <1>5, <1>6, <1>7 DEF CarefulParts

LEMMA CarefulInit == Init => CarefulInv
  <1> SUFFICES ASSUME Init PROVE CarefulInv
    OBVIOUS
  <1>1. TypeInv
    BY TypeInit
  <1>2. /\ \A k \in Keys : log[k] = NoLog
        /\ row.attempt = 1 /\ row.job = 1 /\ board.claim = None /\ op = Free
    BY DEF Init
  <1>3. /\ \A k \in Keys : log[k].state = "absent" /\ log[k].attempt = 0
        /\ op.key = None /\ op.pc = "idle"
    BY <1>2 DEF NoLog, Free
  <1>4. \A j \in Jobs : jobs[j].key = None /\ (jobs[j].state = "live" <=> j = 1)
                        /\ jobs[j].state \in {"absent", "live"}
    BY DEF Init, NotCreated
  <1>5. 1 \in Jobs /\ Created = {} /\ Alive = {1} /\ Pending = {}
    BY <1>3, <1>4, BoundAssumption DEF Jobs, Created, Alive, Pending, PendingStates
  <1>6. PendingInv
    BY <1>3, <1>5 DEF PendingInv
  <1>7. RowInv
    BY <1>2, <1>3 DEF RowInv
  <1>8. JobInv
    BY <1>2, <1>3, <1>4, <1>5 DEF JobInv
  <1>9. LiveInv
    BY <1>2, <1>3, <1>5 DEF LiveInv
  <1>10. ClaimInv
    BY <1>2, <1>3 DEF ClaimInv, Fenced
  <1> QED BY <1>1, <1>6, <1>7, <1>8, <1>9, <1>10 DEF CarefulInv

LEMMA CarefulStep == Careful /\ CarefulInv /\ [Next]_vars => CarefulInv'
  <1> SUFFICES ASSUME Careful, CarefulInv, [Next]_vars PROVE CarefulInv'
    OBVIOUS
  <1>1. TypeInv'
    BY TypeStep DEF CarefulInv
  <1>2. CarefulParts' => CarefulInv'
    BY <1>1 DEF CarefulParts, CarefulInv
  <1>3. CASE Operator
    BY <1>1, <1>2, <1>3, RequestKeeps, TakeUpKeeps, NoKeyKeeps DEF Operator
  <1>4. CASE Holder
    BY <1>1, <1>2, <1>4, TakeUpKeeps, FenceKeeps, FenceFailsKeeps, InvalidateRefusedKeeps,
       InvalidateClaimKeeps, WriteFencedKeeps, AdoptOrphanKeeps, CreateJobKeeps, StartJobKeeps, LaunchFailsKeeps,
       WriteLaunchedKeeps, CommitRowKeeps, WriteCommittedKeeps, DryCommitKeeps,
       WriteFailedKeeps, RowWithoutJob
    DEF Holder
  <1>5. CASE Kill
    BY <1>2, <1>5, NoKeyKeeps
  <1>6. CASE Agent
    BY <1>2, <1>6, JobEndsKeeps, BoardKeeps DEF Agent
  <1>7. CASE UNCHANGED vars
    BY <1>7 DEF vars, CarefulInv, TypeInv, TypeOK, LockInv, PendingInv, Pending, RowInv, Ahead,
                JobInv, Created, LiveInv, Alive, ClaimInv, Fenced
  <1> QED BY <1>3, <1>4, <1>5, <1>6, <1>7 DEF Next

-----------------------------------------------------------------------------
(* Whatever the holders of the lock were killed at, and whoever took the   *)
(* replacement up again: the worker is executed once at a time, and the    *)
(* team metadata names the execution when no replacement is pending.       *)
THEOREM OneLiveAlways == ASSUME Careful PROVE Spec => []OneLiveExecution
  <1>1. CarefulInv => OneLiveExecution
    <2> SUFFICES ASSUME CarefulInv, NEW j \in Live
                 PROVE  Live = {j} /\ (op = Free /\ Pending = {} => row.job = j)
      BY DEF OneLiveExecution
    <2>1. Live \subseteq Alive
      BY DEF Live, Alive
    <2> QED BY <2>1 DEF CarefulInv, LiveInv
  <1>2. CarefulInv /\ [Next]_vars => CarefulInv'
    BY CarefulStep
  <1> QED BY <1>1, <1>2, CarefulInit, PTL DEF Spec

(* From `fenced` on the execution that was replaced does not hold the      *)
(* claim of the board task, however late it is to claim it.                *)
THEOREM ReplacedNeverClaims == ASSUME Careful PROVE Spec => []ReplacedHoldsNoClaim
  <1>1. CarefulInv => ReplacedHoldsNoClaim
    <2> SUFFICES ASSUME CarefulInv, NEW k \in Keys, Fenced(k),
                        board.claim # None, board.claim.by \in Jobs
                 PROVE  jobs[board.claim.by].attempt >= log[k].attempt
      BY DEF ReplacedHoldsNoClaim, Fenced
    <2>1. log[k].attempt <= jobs[board.claim.by].attempt
      BY DEF CarefulInv, ClaimInv
    <2> QED BY <2>1 DEF CarefulInv, TypeInv, TypeOK
  <1>2. CarefulInv /\ [Next]_vars => CarefulInv'
    BY CarefulStep
  <1> QED BY <1>1, <1>2, CarefulInit, PTL DEF Spec

(* An idempotency key creates one execution at most, however often the     *)
(* request is killed between the creation and the log that records it.     *)
OneJobPerKey ==
  \A i, j \in Jobs : jobs[i].key # None /\ jobs[i].key = jobs[j].key => i = j

THEOREM KeysAreIdempotent == ASSUME Careful PROVE Spec => []OneJobPerKey
  <1>1. CarefulInv => OneJobPerKey
    BY DEF CarefulInv, JobInv, Created, OneJobPerKey
  <1>2. CarefulInv /\ [Next]_vars => CarefulInv'
    BY CarefulStep
  <1> QED BY <1>1, <1>2, CarefulInit, PTL DEF Spec
================================================================================
