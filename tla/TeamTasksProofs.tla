----------------------------- MODULE TeamTasksProofs -----------------------------
(***************************************************************************)
(* The safety properties of TeamTasks, for any number of workers, tasks,   *)
(* batch tasks, claims and kills and for any lease.                        *)
(***************************************************************************)
EXTENDS TeamTasks, WellFoundedInduction, TLAPS

(* A task that is not visible yet is one of a batch that is on record, and *)
(* is as it was written.                                                   *)
HiddenInv ==
  \A t \in TaskIds : task[t].batch # 0 =>
    /\ batch.state # "none"
    /\ batch.state = "prepared" => task[t].status = "pending"

(* The files of the keys up to this one are there.                         *)
WrittenBelow(key) ==
  \A k \in BatchKeys : k < key => task[batch.ids[k]].batch = k

(* What the leader holds in memory while it admits a batch agrees with the *)
(* record on disk.                                                         *)
BatchInv ==
  /\ batch.state # "none" => \A k \in BatchKeys : batch.ids[k] \in TaskIds
  /\ batch.state = "committed" => WrittenBelow(BatchSize + 1)
  /\ leader.pc = "prepare" =>
       batch.state = "none" /\ \A k \in BatchKeys : leader.ids[k] \in TaskIds
  /\ leader.pc = "write" =>
       batch.state = "prepared" /\ leader.key \in BatchKeys /\ WrittenBelow(leader.key)
  /\ leader.pc = "commit" => batch.state = "prepared" /\ WrittenBelow(BatchSize + 1)

Claimed(t) == task[t].claim # NoClaim

(* A token stands in the file of at most one task, and never again after   *)
(* it was presented.                                                       *)
TokenInv ==
  /\ presented \subseteq 1..minted
  /\ \A t \in TaskIds : Claimed(t) =>
       task[t].claim.token \in (1..minted) \ presented
  /\ \A t, u \in TaskIds : Claimed(t) /\ Claimed(u) /\ t # u =>
       task[t].claim.token # task[u].claim.token

(* The cutoff of a reconciliation is not in the future.                    *)
ResumeInv == resume.pc = "release" => resume.due # {} /\ resume.cutoff <= now

BoardInv == ClaimsCoherent /\ HiddenInv /\ BatchInv

InductiveInv == BoardInv /\ TokenInv /\ ResumeInv /\ DependenciesFirst

-----------------------------------------------------------------------------
LEMMA LeastExists ==
  ASSUME NEW S, S \subseteq Nat, S # {}
  PROVE  \E x \in S : \A y \in S : x <= y
  <1>1. \E x \in S : \A y \in S : ~(<<y, x>> \in OpToRel(<, Nat))
    BY NatLessThanWellFounded, WFMin
  <1>2. \A x, y \in Nat : y < x => <<y, x>> \in OpToRel(<, Nat)
    BY DEF OpToRel
  <1>3. PICK x \in S : \A y \in S : ~(<<y, x>> \in OpToRel(<, Nat))
    BY <1>1
  <1>4. ASSUME NEW y \in S PROVE x <= y
    <2>1. x \in Nat /\ y \in Nat
      BY <1>4
    <2>2. ~(y < x)
      BY <1>2, <1>3, <2>1
    <2> QED BY <2>1, <2>2
  <1> QED BY <1>4

(* The files that the operations write.                                    *)
Coherent(record) ==
  /\ record.status = "in_progress" <=> record.claim # NoClaim
  /\ record.status = "in_progress" => record.owner = record.claim.owner

File(record) == record \in Task \cup {NoFile} /\ Coherent(record)

LEMMA FileOf ==
  ASSUME ClaimsCoherent, NEW t \in TaskIds
  PROVE  /\ File(task[t])
         /\ Exists(t) <=> task[t] \in Task
  BY DEF ClaimsCoherent, TypeOK, File, Coherent, Exists, Task, NoFile, Status

LEMMA WriteFile ==
  ASSUME ClaimsCoherent, NEW t \in TaskIds, NEW record, File(record), WriteTask(t, record)
  PROVE  /\ task' \in [TaskIds -> Task \cup {NoFile}]
         /\ \A u \in TaskIds : Coherent(task'[u])
         /\ task'[t] = record
         /\ \A u \in TaskIds : u # t => task'[u] = task[u]
  BY FileOf DEF WriteTask, File, ClaimsCoherent, TypeOK

LEMMA NewTaskFile ==
  ASSUME NEW owner \in Workers \cup {None}, NEW deps \in SUBSET TaskIds,
         NEW key \in BatchKeys \cup {0}
  PROVE  /\ File(NewTask(owner, deps, key))
         /\ NewTask(owner, deps, key) \in Task
         /\ NewTask(owner, deps, key).status = "pending"
         /\ NewTask(owner, deps, key).claim = NoClaim
         /\ NewTask(owner, deps, key).batch = key
  BY DEF File, Coherent, NewTask, Task, Status

LEMMA UnclaimedFile ==
  ASSUME NEW record \in Task
  PROVE  /\ File(Unclaimed(record))
         /\ Unclaimed(record).status = "pending"
         /\ Unclaimed(record).claim = NoClaim
         /\ Unclaimed(record).batch = record.batch
         /\ Unclaimed(record).version = record.version + 1
  <1> DEFINE version == record.version + 1
  <1>1. version \in Nat \ {0}
    BY DEF Task
  <1>2. "pending" \in Status
    BY DEF Status
  <1>3. Unclaimed(record) = [record EXCEPT !.status = "pending", !.owner = None,
                                           !.claim = NoClaim, !.version = version]
    BY DEF Unclaimed
  <1> HIDE DEF version
  <1>4. /\ Unclaimed(record) \in Task
        /\ Unclaimed(record).status = "pending"
        /\ Unclaimed(record).claim = NoClaim
        /\ Unclaimed(record).batch = record.batch
        /\ Unclaimed(record).version = version
    BY <1>1, <1>2, <1>3 DEF Task
  <1> QED BY <1>4 DEF File, Coherent, version

LEMMA ClaimedFile ==
  ASSUME NEW record \in Task, NEW w \in Workers, NEW claim \in Claim, claim.owner = w
  PROVE  /\ claim # NoClaim
         /\ File([record EXCEPT !.status = "in_progress", !.owner = w, !.claim = claim,
                                !.version = @ + 1])
  <1> DEFINE version == record.version + 1
  <1>1. version \in Nat \ {0}
    BY DEF Task
  <1>2. "in_progress" \in Status /\ claim # NoClaim
    BY NoneAssumption DEF Status, NoClaim
  <1> HIDE DEF version
  <1>3. LET new == [record EXCEPT !.status = "in_progress", !.owner = w,
                                  !.claim = claim, !.version = version]
        IN  new \in Task /\ new.status = "in_progress" /\ new.owner = w /\ new.claim = claim
    BY <1>1, <1>2 DEF Task
  <1> QED BY <1>2, <1>3 DEF version, File, Coherent

LEMMA RenewedFile ==
  ASSUME NEW record \in Task, Coherent(record), record.claim # NoClaim, NEW until \in Nat
  PROVE  LET new == [record EXCEPT !.claim.until = until, !.version = @ + 1]
         IN  /\ File(new)
             /\ new.status = record.status /\ new.claim # NoClaim
             /\ new.claim.token = record.claim.token
             /\ new.version = record.version + 1 /\ new.batch = record.batch
  <1>1. /\ [record.claim EXCEPT !.until = until] \in Claim
        /\ [record.claim EXCEPT !.until = until].owner = record.claim.owner
        /\ [record.claim EXCEPT !.until = until].token = record.claim.token
    BY DEF Task, Claim
  <1>2. \A claim \in Claim : claim # NoClaim
    BY DEF Claim, NoClaim
  <1>3. record.version \in Nat \ {0} /\ record.version + 1 \in Nat \ {0}
    BY DEF Task
  <1>4. ASSUME NEW claim \in Claim, NEW version \in Nat \ {0}
        PROVE  LET new == [record EXCEPT !.claim = claim, !.version = version]
               IN  /\ new \in Task
                   /\ new.status = record.status /\ new.owner = record.owner
                   /\ new.claim = claim /\ new.version = version
                   /\ new.batch = record.batch
    BY DEF Task
  <1> QED BY <1>1, <1>2, <1>3, <1>4 DEF File, Coherent

LEMMA FinishedFile ==
  ASSUME NEW record \in Task, NEW status \in Terminal
  PROVE  LET new == [record EXCEPT !.status = status, !.claim = NoClaim, !.version = @ + 1]
         IN  /\ File(new)
             /\ new.status = status /\ new.claim = NoClaim
             /\ new.version = record.version + 1 /\ new.batch = record.batch
  <1> DEFINE version == record.version + 1
  <1>1. version \in Nat \ {0}
    BY DEF Task
  <1> HIDE DEF version
  <1>2. LET new == [record EXCEPT !.status = status, !.claim = NoClaim, !.version = version]
        IN  /\ new \in Task
            /\ new.status = status /\ new.claim = NoClaim
            /\ new.version = version /\ new.batch = record.batch
    BY <1>1 DEF Task, Status, Terminal
  <1>3. status # "in_progress"
    BY DEF Terminal
  <1> QED BY <1>2, <1>3 DEF File, Coherent, version

LEMMA PatchedFile ==
  ASSUME NEW record \in Task, Coherent(record), NEW deps \in SUBSET TaskIds
  PROVE  LET new == [record EXCEPT !.deps = deps, !.version = @ + 1]
         IN  /\ File(new)
             /\ new.status = record.status /\ new.claim = record.claim
             /\ new.version = record.version + 1 /\ new.batch = record.batch
  <1>1. record.version \in Nat \ {0} /\ record.version + 1 \in Nat \ {0}
    BY DEF Task
  <1>2. ASSUME NEW version \in Nat \ {0}
        PROVE  LET new == [record EXCEPT !.deps = deps, !.version = version]
               IN  /\ new \in Task
                   /\ new.status = record.status /\ new.owner = record.owner
                   /\ new.claim = record.claim
                   /\ new.version = version /\ new.batch = record.batch
    BY DEF Task
  <1> QED BY <1>1, <1>2 DEF File, Coherent

-----------------------------------------------------------------------------
(* ClaimsCoherent, in the parts that an action touches.                    *)
Files ==
  /\ task \in [TaskIds -> Task \cup {NoFile}]
  /\ \A t \in TaskIds : Coherent(task[t])

AdmissionType ==
  /\ nextId \in Nat \ {0}
  /\ batch \in [state : {"none", "prepared", "committed"}, ids : Ids]
  /\ leader \in [pc : {"idle", "advance", "prepare", "write", "commit"},
                 next : Nat \ {0}, ids : Ids, key : BatchKeys \cup {0}]

OthersType ==
  /\ resume \in [pc : {"idle", "release"}, cutoff : Nat, due : SUBSET TaskIds]
  /\ now \in Nat
  /\ minted \in 0..MaxClaims
  /\ held \in [Workers -> SUBSET (1..MaxClaims)]
  /\ presented \subseteq 1..MaxClaims
  /\ depsAtClaim \in [TaskIds -> SUBSET TaskIds]
  /\ patches \in Nat /\ kills \in Nat

LEMMA Parts == ClaimsCoherent <=> Files /\ AdmissionType /\ OthersType
  BY DEF ClaimsCoherent, TypeOK, Files, Coherent, AdmissionType, OthersType

LEMMA NextDueIsDue ==
  ASSUME ClaimsCoherent, ResumeInv, resume.pc = "release"
  PROVE  NextDue \in resume.due /\ NextDue \in TaskIds
  <1>1. resume.due # {} /\ resume.due \subseteq TaskIds /\ resume.due \subseteq Nat
    BY BoundAssumption DEF ClaimsCoherent, TypeOK, ResumeInv, TaskIds
  <1>2. \E t \in resume.due : \A u \in resume.due : t <= u
    BY <1>1, LeastExists
  <1> QED BY <1>1, <1>2 DEF NextDue

LEMMA HeldIsVisible ==
  ASSUME BoardInv, NEW t \in TaskIds, task[t].status = "in_progress"
  PROVE  Visible(t) /\ task[t] \in Task /\ Claimed(t)
  BY FileOf DEF BoardInv, ClaimsCoherent, TypeOK, HiddenInv, Visible, Exists, Claimed

(* A write to a task that is visible leaves the admission of the batch     *)
(* where it is.                                                            *)
LEMMA RewriteVisible ==
  ASSUME BoardInv, NEW t \in TaskIds, Visible(t), NEW record, File(record),
         record.batch = task[t].batch, WriteTask(t, record), UNCHANGED <<nextId, batch, leader>>
  PROVE  Files' /\ AdmissionType' /\ HiddenInv' /\ BatchInv'
  <1>1. /\ Files'
        /\ task'[t] = record
        /\ \A u \in TaskIds : u # t => task'[u] = task[u]
    BY WriteFile DEF BoardInv, Files
  <1>2. AdmissionType'
    BY Parts DEF BoardInv, AdmissionType
  <1>3. \A u \in TaskIds : task'[u].batch = task[u].batch
    BY <1>1
  <1>4. HiddenInv'
    BY <1>1, <1>3 DEF BoardInv, HiddenInv, Visible
  <1>5. BatchInv'
    <2>1. batch.state # "none" => \A key : WrittenBelow(key) => WrittenBelow(key)'
      BY <1>3 DEF WrittenBelow, BoardInv, BatchInv
    <2> QED BY <2>1 DEF BoardInv, BatchInv
  <1> QED BY <1>1, <1>2, <1>4, <1>5

(* What a step that leaves the files alone keeps.                          *)
LEMMA LeaveFiles ==
  ASSUME BoardInv, UNCHANGED <<task, nextId, batch, leader>>
  PROVE  Files' /\ AdmissionType' /\ HiddenInv' /\ BatchInv'
  BY Parts DEF BoardInv, Files, Coherent, AdmissionType, HiddenInv, BatchInv, WrittenBelow

-----------------------------------------------------------------------------
LEMMA BoardInit == Init => BoardInv
  <1> SUFFICES ASSUME Init PROVE BoardInv
    OBVIOUS
  <1>1. Files
    BY DEF Init, Files, Coherent, NoFile, NoClaim
  <1>2. AdmissionType
    BY BatchAssumption DEF Init, AdmissionType, NoBatch, NoIds, Free, Ids, BatchKeys
  <1>3. OthersType
    BY BoundAssumption DEF Init, OthersType, NotResuming
  <1>4. HiddenInv /\ BatchInv
    BY DEF Init, HiddenInv, BatchInv, NoFile, NoBatch, Free
  <1> QED BY <1>1, <1>2, <1>3, <1>4, Parts DEF BoardInv

LEMMA LeaderType ==
  ASSUME AdmissionType
  PROVE  /\ \A key \in BatchKeys :
              /\ [Free EXCEPT !.pc = "write", !.key = key] \in
                   [pc : {"write"}, next : Nat \ {0}, ids : Ids, key : {key}]
              /\ [leader EXCEPT !.key = key] \in
                   [pc : {leader.pc}, next : Nat \ {0}, ids : Ids, key : {key}]
         /\ \A pc : [Free EXCEPT !.pc = pc] \in
              [pc : {pc}, next : Nat \ {0}, ids : Ids, key : {0}]
         /\ \A ids \in Ids : [Free EXCEPT !.pc = "prepare", !.ids = ids] \in
              [pc : {"prepare"}, next : Nat \ {0}, ids : {ids}, key : {0}]
         /\ \A next \in Nat \ {0} : [Free EXCEPT !.pc = "advance", !.next = next] \in
              [pc : {"advance"}, next : {next}, ids : Ids, key : {0}]
         /\ Free \in [pc : {"idle"}, next : Nat \ {0}, ids : Ids, key : {0}]
  <1>1. Free \in [pc : {"idle"}, next : Nat \ {0}, ids : Ids, key : {0}]
    BY DEF Free, Ids, NoIds
  <1>2. leader \in [pc : {leader.pc}, next : Nat \ {0}, ids : Ids, key : BatchKeys \cup {0}]
    BY DEF AdmissionType
  <1> QED BY <1>1, <1>2

LEMMA LeastFree ==
  ASSUME FreeIds # {}
  PROVE  (CHOOSE i \in FreeIds : \A j \in FreeIds : i <= j) \in FreeIds
  <1>1. FreeIds \subseteq Nat
    BY DEF FreeIds, TaskIds
  <1> QED BY <1>1, LeastExists

(* The admission of a batch keeps its files and its record together.       *)
LEMMA LeaderStep ==
  ASSUME BoardInv, Leader
  PROVE  Files' /\ AdmissionType' /\ HiddenInv' /\ BatchInv'
  <1>0. Files /\ AdmissionType /\ OthersType /\ HiddenInv /\ BatchInv
    BY Parts DEF BoardInv
  <1>1. ASSUME NEW owner \in Workers \cup {None}, NEW deps \in DepSets, CreateTask(owner, deps)
        PROVE  Files' /\ AdmissionType' /\ HiddenInv' /\ BatchInv'
    <2> DEFINE id == CHOOSE i \in FreeIds : \A j \in FreeIds : i <= j
               record == NewTask(owner, deps, 0)
    <2>1. id \in TaskIds /\ ~Exists(id)
      BY <1>1, LeastFree DEF CreateTask, FreeIds
    <2>2. WriteTask(id, record)
      BY <1>1 DEF CreateTask
    <2>3. leader' = [Free EXCEPT !.pc = "advance", !.next = id + 1] /\ UNCHANGED <<nextId, batch>>
      BY <1>1 DEF CreateTask
    <2>4. File(record) /\ record.status = "pending" /\ record.batch = 0
      BY DepsAssumption, NewTaskFile
    <2> HIDE DEF id, record
    <2>5. Files' /\ task'[id] = record /\ \A u \in TaskIds : u # id => task'[u] = task[u]
      BY <2>1, <2>2, <2>4, WriteFile DEF BoardInv, Files
    <2>6. id + 1 \in Nat \ {0}
      BY <2>1 DEF TaskIds
    <2>7. leader'.pc = "advance" /\ AdmissionType'
      BY <1>0, <2>3, <2>6, LeaderType DEF AdmissionType
    <2>8. HiddenInv'
      BY <1>0, <2>3, <2>4, <2>5 DEF HiddenInv
    <2>9. task[id].batch = 0
      BY <1>0, <2>1, FileOf DEF BoardInv, Exists, File, Task, NoFile, Status
    <2>10. BatchInv'
      <3>1. WrittenBelow(BatchSize + 1) /\ batch.state # "none" => WrittenBelow(BatchSize + 1)'
        BY <1>0, <2>3, <2>5, <2>9 DEF WrittenBelow, BatchInv, BatchKeys
      <3> QED BY <1>0, <2>3, <2>7, <3>1 DEF BatchInv
    <2> QED BY <2>5, <2>7, <2>8, <2>10
  <1>2. ASSUME NEW ids \in Ids, Reserve(ids)
        PROVE  Files' /\ AdmissionType' /\ HiddenInv' /\ BatchInv'
    <2>1. UNCHANGED <<task, batch>> /\ batch = NoBatch
      BY <1>2 DEF Reserve
    <2>2. \A k \in BatchKeys : ids[k] \in TaskIds
      BY <1>2 DEF Reserve, Reservable, FreeIds
    <2>3. leader' \in [pc : {"prepare"}, next : Nat \ {0}, ids : {ids}, key : {0}]
      BY <1>0, <1>2, LeaderType DEF Reserve
    <2>4. nextId' \in Nat \ {0}
      BY <1>2, <2>2, BatchAssumption DEF Reserve, BatchKeys, TaskIds
    <2>5. AdmissionType'
      BY <1>0, <2>1, <2>3, <2>4 DEF AdmissionType
    <2>6. BatchInv'
      BY <2>1, <2>2, <2>3 DEF BatchInv, NoBatch
    <2> QED BY <1>0, <2>1, <2>5, <2>6 DEF Files, Coherent, HiddenInv
  <1>3. CASE AdvanceNextId
    <2>1. leader' = Free /\ nextId' \in Nat \ {0} /\ UNCHANGED <<task, batch>>
      BY <1>0, <1>3 DEF AdvanceNextId, AdmissionType
    <2>2. AdmissionType' /\ leader'.pc = "idle"
      BY <1>0, <2>1, LeaderType DEF AdmissionType
    <2> QED BY <1>0, <2>1, <2>2 DEF Files, Coherent, HiddenInv, BatchInv, WrittenBelow
  <1>4. CASE Prepare
    <2>1. /\ batch' = [state |-> "prepared", ids |-> leader.ids] /\ UNCHANGED <<task, nextId>>
          /\ leader.pc = "prepare" /\ leader' = [Free EXCEPT !.pc = "write", !.key = 1]
      BY <1>4 DEF Prepare
    <2>2. 1 \in BatchKeys
      BY BatchAssumption DEF BatchKeys
    <2>3. leader' \in [pc : {"write"}, next : Nat \ {0}, ids : Ids, key : {1}]
      BY <1>0, <2>1, <2>2, LeaderType
    <2>4. AdmissionType'
      BY <1>0, <2>1, <2>2, <2>3 DEF AdmissionType
    <2>5. HiddenInv'
      BY <1>0, <2>1 DEF HiddenInv, BatchInv
    <2>6. BatchInv'
      BY <1>0, <2>1, <2>2, <2>3 DEF BatchInv, WrittenBelow, BatchKeys
    <2> QED BY <1>0, <2>1, <2>4, <2>5, <2>6 DEF Files, Coherent
  <1>5. CASE ResumeBatch
    <2>1. /\ batch.state = "prepared" /\ UNCHANGED <<task, nextId, batch>>
          /\ leader' = [Free EXCEPT !.pc = "write", !.key = 1]
      BY <1>5 DEF ResumeBatch, board
    <2>2. 1 \in BatchKeys
      BY BatchAssumption DEF BatchKeys
    <2>3. leader' \in [pc : {"write"}, next : Nat \ {0}, ids : Ids, key : {1}]
      BY <1>0, <2>1, <2>2, LeaderType
    <2>4. AdmissionType'
      BY <1>0, <2>1, <2>2, <2>3 DEF AdmissionType
    <2>6. BatchInv'
      BY <1>0, <2>1, <2>2, <2>3 DEF BatchInv, WrittenBelow, BatchKeys
    <2> QED BY <1>0, <2>1, <2>4, <2>6 DEF Files, Coherent, HiddenInv
  <1>6. CASE WriteBatchTask
    <2>0. PICK key \in BatchKeys : key = leader.key
      BY <1>0, <1>6 DEF WriteBatchTask, BatchInv
    <2> DEFINE id == batch.ids[key]
               deps == {batch.ids[d] : d \in BatchDeps[key]}
               record == NewTask(None, deps, key)
    <2>1. key \in BatchKeys /\ id \in TaskIds /\ batch.state = "prepared" /\ WrittenBelow(key)
      BY <1>0, <1>6, <2>0 DEF WriteBatchTask, BatchInv
    <2>2. UNCHANGED <<nextId, batch>> /\ leader.pc = "write"
      BY <1>6 DEF WriteBatchTask
    <2>3. CASE leader' = Free /\ UNCHANGED task
      <3>1. AdmissionType' /\ leader'.pc = "idle"
        BY <1>0, <2>2, <2>3, LeaderType DEF AdmissionType
      <3> QED BY <1>0, <2>2, <2>3, <3>1 DEF Files, Coherent, HiddenInv, BatchInv, WrittenBelow
    <2>4. CASE /\ ~Foreign(id, key)
               /\ WriteTask(id, record)
               /\ leader' = IF key + 1 \in BatchKeys THEN [leader EXCEPT !.key = key + 1]
                                                     ELSE [Free EXCEPT !.pc = "commit"]
      <3>1. deps \subseteq TaskIds
        BY <1>0, <2>1, BatchAssumption DEF BatchKeys, BatchInv
      <3>2. File(record) /\ record.status = "pending" /\ record.batch = key
        BY <2>1, <3>1, NewTaskFile
      <3> HIDE DEF record
      <3>3. Files' /\ task'[id] = record /\ \A u \in TaskIds : u # id => task'[u] = task[u]
        BY <2>1, <2>4, <3>2, WriteFile DEF BoardInv, Files
      <3>4. \A k \in BatchKeys : k < key => batch.ids[k] # id
        <4> SUFFICES ASSUME NEW k \in BatchKeys, k < key, batch.ids[k] = id PROVE FALSE
          OBVIOUS
        <4>1. task[id].batch = k /\ k # key /\ k # 0
          BY <2>1 DEF WrittenBelow, BatchKeys
        <4>2. Exists(id)
          BY <4>1, <2>1, FileOf DEF BoardInv, Exists, File, Task, NoFile, Status
        <4> QED BY <2>4, <4>1, <4>2 DEF Foreign
      <3>5. WrittenBelow(key + 1)'
        BY <1>0, <2>1, <2>2, <3>2, <3>3, <3>4 DEF WrittenBelow, BatchInv, BatchKeys
      <3>6. HiddenInv'
        BY <1>0, <2>1, <2>2, <3>2, <3>3 DEF HiddenInv
      <3>7. CASE key + 1 \in BatchKeys
        <4>1. leader' \in [pc : {"write"}, next : Nat \ {0}, ids : Ids, key : {key + 1}]
          BY <1>0, <2>2, <2>4, <3>7, LeaderType
        <4>2. AdmissionType'
          BY <1>0, <2>2, <3>7, <4>1 DEF AdmissionType
        <4>3. BatchInv'
          BY <1>0, <2>1, <2>2, <3>5, <3>7, <4>1 DEF BatchInv
        <4> QED BY <3>3, <3>6, <4>2, <4>3
      <3>8. CASE key + 1 \notin BatchKeys
        <4>1. leader' \in [pc : {"commit"}, next : Nat \ {0}, ids : Ids, key : {0}]
          BY <1>0, <2>4, <3>8, LeaderType
        <4>2. AdmissionType'
          BY <1>0, <2>2, <4>1 DEF AdmissionType
        <4>3. key + 1 = BatchSize + 1
          BY <2>1, <3>8, BatchAssumption DEF BatchKeys
        <4>4. BatchInv'
          BY <1>0, <2>1, <2>2, <3>5, <4>1, <4>3 DEF BatchInv
        <4> QED BY <3>3, <3>6, <4>2, <4>4
      <3> QED BY <3>7, <3>8
    <2> QED BY <1>6, <2>0, <2>3, <2>4 DEF WriteBatchTask
  <1>7. CASE CommitBatch
    <2>1. /\ leader.pc = "commit" /\ leader' = Free /\ UNCHANGED <<task, nextId>>
          /\ batch' = [batch EXCEPT !.state = "committed"]
      BY <1>7 DEF CommitBatch
    <2>2. batch'.state = "committed" /\ batch'.ids = batch.ids
      BY <1>0, <2>1 DEF AdmissionType
    <2>3. AdmissionType' /\ leader'.pc = "idle"
      BY <1>0, <2>1, LeaderType DEF AdmissionType
    <2>4. WrittenBelow(BatchSize + 1)'
      BY <1>0, <2>1, <2>2 DEF BatchInv, WrittenBelow
    <2>5. BatchInv'
      BY <1>0, <2>1, <2>2, <2>3, <2>4 DEF BatchInv
    <2> QED BY <1>0, <2>1, <2>2, <2>3, <2>5 DEF Files, Coherent, HiddenInv
  <1>8. CASE LeaderKilled
    <2>1. leader' = Free /\ UNCHANGED <<task, nextId, batch>>
      BY <1>8 DEF LeaderKilled, board
    <2>2. AdmissionType' /\ leader'.pc = "idle"
      BY <1>0, <2>1, LeaderType DEF AdmissionType
    <2> QED BY <1>0, <2>1, <2>2 DEF Files, Coherent, HiddenInv, BatchInv, WrittenBelow
  <1> QED BY <1>1, <1>2, <1>3, <1>4, <1>5, <1>6, <1>7, <1>8 DEF Leader

-----------------------------------------------------------------------------
(* What an operation does to the one file it writes.                       *)
Rewrites(t, record) ==
  /\ Visible(t) /\ task[t] \in Task
  /\ File(record) /\ record.batch = task[t].batch /\ record.version = task[t].version + 1
  /\ WriteTask(t, record)
  /\ UNCHANGED <<nextId, batch, leader>>

LEMMA ClaimEffect ==
  ASSUME BoardInv, OthersType, NEW w \in Workers, NEW t \in TaskIds, ClaimTask(w, t)
  PROVE  /\ \E record : /\ Rewrites(t, record)
                        /\ record.status = "in_progress" /\ record.claim # NoClaim
                        /\ record.claim.token = minted + 1
         /\ Ready(t)
         /\ task[t].status # "completed"
         /\ Claimed(t) => Expired(task[t].claim)
  <1> DEFINE claim == [owner |-> w, token |-> minted + 1, until |-> now + Lease]
             record == [task[t] EXCEPT !.status = "in_progress", !.owner = w, !.claim = claim,
                                       !.version = @ + 1]
  <1>1. Visible(t) /\ task[t] \in Task /\ Coherent(task[t])
    BY FileOf DEF ClaimTask, Claimable, Visible, BoardInv, File
  <1>2. claim \in Claim /\ claim.owner = w /\ claim.token = minted + 1
    BY LeaseAssumption, BoundAssumption DEF ClaimTask, OthersType, Claim
  <1>3. WriteTask(t, record) /\ UNCHANGED <<nextId, batch, leader>>
    BY DEF ClaimTask
  <1> HIDE DEF claim
  <1>4. /\ File(record)
        /\ record.status = "in_progress" /\ record.claim = claim /\ claim # NoClaim
        /\ record.version = task[t].version + 1 /\ record.batch = task[t].batch
    <2>1. File(record) /\ claim # NoClaim
      BY <1>1, <1>2, ClaimedFile
    <2>2. /\ record.status = "in_progress" /\ record.claim = claim
          /\ record.version = task[t].version + 1 /\ record.batch = task[t].batch
      BY <1>1 DEF Task
    <2> QED BY <2>1, <2>2
  <1> HIDE DEF record
  <1>5. Rewrites(t, record)
    BY <1>1, <1>3, <1>4 DEF Rewrites
  <1>6. Ready(t) /\ task[t].status # "completed" /\ (Claimed(t) => Expired(task[t].claim))
    BY <1>1 DEF ClaimTask, Claimable, Claimed, Coherent
  <1> QED BY <1>2, <1>4, <1>5, <1>6

LEMMA HolderEffect ==
  ASSUME BoardInv, OthersType, NEW w \in Workers, NEW t \in TaskIds, NEW token \in held[w],
         RenewClaim(w, t, token) \/ Finish(w, t, token) \/ ReleaseClaim(w, t, token)
  PROVE  /\ task[t].status = "in_progress" /\ Claimed(t) /\ task[t].claim.token = token
         /\ ~Expired(task[t].claim)
         /\ \E record : /\ Rewrites(t, record)
                        /\ \/ /\ record.status = "in_progress" /\ record.claim # NoClaim
                              /\ record.claim.token = token
                              /\ UNCHANGED presented
                           \/ /\ record.status # "in_progress" /\ record.claim = NoClaim
                              /\ presented' = presented \cup {token}
  <1>1. /\ task[t].status = "in_progress" /\ task[t].claim.token = token
        /\ ~Expired(task[t].claim)
    BY DEF RenewClaim, Finish, ReleaseClaim, Holds
  <1>2. Visible(t) /\ task[t] \in Task /\ Claimed(t) /\ Coherent(task[t])
    BY <1>1, HeldIsVisible, FileOf DEF BoardInv, File
  <1>3. CASE RenewClaim(w, t, token)
    <2> DEFINE until == now + Lease
               record == [task[t] EXCEPT !.claim.until = until, !.version = @ + 1]
    <2>1. until \in Nat
      BY LeaseAssumption DEF OthersType
    <2>2. WriteTask(t, record) /\ UNCHANGED <<nextId, batch, leader, presented>>
      BY <1>3 DEF RenewClaim, claiming
    <2> HIDE DEF until
    <2>3. /\ File(record)
          /\ record.status = task[t].status /\ record.claim # NoClaim
          /\ record.claim.token = task[t].claim.token
          /\ record.version = task[t].version + 1 /\ record.batch = task[t].batch
      BY <1>2, <2>1, RenewedFile DEF Claimed
    <2> HIDE DEF record
    <2> QED BY <1>1, <1>2, <2>2, <2>3 DEF Rewrites
  <1>4. CASE Finish(w, t, token)
    <2>1. PICK status \in Terminal :
            WriteTask(t, [task[t] EXCEPT !.status = status, !.claim = NoClaim, !.version = @ + 1])
      BY <1>4 DEF Finish
    <2> DEFINE record == [task[t] EXCEPT !.status = status, !.claim = NoClaim, !.version = @ + 1]
    <2>2. /\ File(record) /\ record.status = status /\ record.claim = NoClaim
          /\ record.version = task[t].version + 1 /\ record.batch = task[t].batch
      BY <1>2, FinishedFile
    <2>3. WriteTask(t, record)
      BY <2>1
    <2>4. presented' = presented \cup {token} /\ UNCHANGED <<nextId, batch, leader>>
      BY <1>4 DEF Finish
    <2> HIDE DEF record
    <2> QED BY <1>1, <1>2, <2>2, <2>3, <2>4 DEF Rewrites, Terminal
  <1>5. CASE ReleaseClaim(w, t, token)
    <2>1. /\ WriteTask(t, Unclaimed(task[t]))
          /\ presented' = presented \cup {token} /\ UNCHANGED <<nextId, batch, leader>>
      BY <1>5 DEF ReleaseClaim
    <2> QED BY <1>1, <1>2, <2>1, UnclaimedFile DEF Rewrites
  <1> QED BY <1>1, <1>2, <1>3, <1>4, <1>5

LEMMA PatchEffect ==
  ASSUME BoardInv, NEW t \in TaskIds, NEW deps \in DepSets, UpdateTask(t, deps)
  PROVE  \E record : /\ Rewrites(t, record)
                     /\ record.status = task[t].status /\ record.claim = task[t].claim
  <1> DEFINE record == [task[t] EXCEPT !.deps = deps, !.version = @ + 1]
  <1>1. Visible(t) /\ task[t] \in Task /\ Coherent(task[t])
    BY FileOf DEF UpdateTask, Visible, BoardInv, File
  <1>2. WriteTask(t, record) /\ UNCHANGED <<nextId, batch, leader>>
    BY DEF UpdateTask
  <1>3. deps \in SUBSET TaskIds
    BY DepsAssumption
  <1>4. /\ File(record)
        /\ record.status = task[t].status /\ record.claim = task[t].claim
        /\ record.version = task[t].version + 1 /\ record.batch = task[t].batch
    BY <1>1, <1>3, PatchedFile
  <1> HIDE DEF record
  <1> QED BY <1>1, <1>2, <1>4 DEF Rewrites

(* A reconciliation takes a claim away only when it expired, whatever it   *)
(* saw when it scanned.                                                    *)
LEMMA ReleaseEffect ==
  ASSUME BoardInv, ResumeInv, OthersType, ReconcileRelease
  PROVE  /\ NextDue \in TaskIds
         /\ \/ UNCHANGED <<task, nextId, batch, leader>>
            \/ /\ task[NextDue].status = "in_progress" /\ Expired(task[NextDue].claim)
               /\ \E record : /\ Rewrites(NextDue, record)
                              /\ record.status = "pending" /\ record.claim = NoClaim
  <1>1. NextDue \in TaskIds
    BY NextDueIsDue DEF ReconcileRelease, BoardInv
  <1>2. CASE Due(NextDue, resume.cutoff)
    <2>1. task[NextDue].status = "in_progress" /\ task[NextDue].claim.until <= resume.cutoff
      BY <1>2 DEF Due
    <2>2. Visible(NextDue) /\ task[NextDue] \in Task /\ Claimed(NextDue)
      BY <1>1, <2>1, HeldIsVisible
    <2>3. task[NextDue].claim.until \in Nat
      BY <2>2 DEF Task, Claim, Claimed
    <2>4. Expired(task[NextDue].claim)
      BY <2>1, <2>2, <2>3 DEF Expired, Claimed, ResumeInv, ReconcileRelease, OthersType
    <2>5. WriteTask(NextDue, Unclaimed(task[NextDue])) /\ UNCHANGED <<nextId, batch, leader>>
      BY <1>2 DEF ReconcileRelease
    <2>6. Rewrites(NextDue, Unclaimed(task[NextDue]))
      BY <2>2, <2>5, UnclaimedFile DEF Rewrites
    <2> QED BY <1>1, <2>1, <2>2, <2>4, <2>6, UnclaimedFile
  <1>3. CASE ~Due(NextDue, resume.cutoff)
    BY <1>1, <1>3 DEF ReconcileRelease
  <1> QED BY <1>2, <1>3

LEMMA LeaderEffect ==
  ASSUME BoardInv, Leader, NEW t \in TaskIds
  PROVE  \/ task'[t] = task[t]
         \/ /\ ~Visible(t) /\ task[t].status \in {"absent", "pending"} /\ ~Claimed(t)
            /\ task'[t].status = "pending" /\ task'[t].claim = NoClaim
  <1>0. /\ BatchInv /\ HiddenInv /\ AdmissionType
        /\ \A u \in TaskIds : File(task[u]) /\ (Exists(u) <=> task[u] \in Task)
    BY Parts, FileOf DEF BoardInv
  <1>1. ASSUME NEW owner \in Workers \cup {None}, NEW deps \in DepSets, CreateTask(owner, deps)
        PROVE  \/ task'[t] = task[t]
               \/ /\ ~Visible(t) /\ task[t].status \in {"absent", "pending"} /\ ~Claimed(t)
                  /\ task'[t].status = "pending" /\ task'[t].claim = NoClaim
    <2> DEFINE id == CHOOSE i \in FreeIds : \A j \in FreeIds : i <= j
               record == NewTask(owner, deps, 0)
    <2>1. id \in TaskIds /\ ~Exists(id)
      BY <1>1, LeastFree DEF CreateTask, FreeIds
    <2>2. WriteTask(id, record)
      BY <1>1 DEF CreateTask
    <2>3. File(record) /\ record.status = "pending" /\ record.claim = NoClaim
      BY DepsAssumption, NewTaskFile
    <2> HIDE DEF id, record
    <2>4. task'[id] = record /\ \A u \in TaskIds : u # id => task'[u] = task[u]
      BY <2>1, <2>2, <2>3, WriteFile DEF BoardInv
    <2>5. ~Visible(id) /\ task[id].status = "absent" /\ ~Claimed(id)
      BY <1>0, <2>1 DEF Visible, Exists, Claimed, File, Coherent, NoFile
    <2> QED BY <2>3, <2>4, <2>5
  <1>2. CASE WriteBatchTask
    <2>0. PICK key \in BatchKeys : key = leader.key
      BY <1>0, <1>2 DEF WriteBatchTask, BatchInv
    <2> DEFINE id == batch.ids[key]
               deps == {batch.ids[d] : d \in BatchDeps[key]}
               record == NewTask(None, deps, key)
    <2>1. id \in TaskIds /\ batch.state = "prepared"
      BY <1>0, <1>2, <2>0 DEF WriteBatchTask, BatchInv
    <2>2. CASE ~Foreign(id, key) /\ WriteTask(id, record)
      <3>1. deps \subseteq TaskIds
        BY <1>0, <2>1, BatchAssumption DEF BatchKeys, BatchInv
      <3>2. File(record) /\ record.status = "pending" /\ record.claim = NoClaim
        BY <3>1, NewTaskFile
      <3> HIDE DEF record
      <3>3. task'[id] = record /\ \A u \in TaskIds : u # id => task'[u] = task[u]
        BY <2>1, <2>2, <3>2, WriteFile DEF BoardInv
      <3>4. task[id].status \in {"absent", "pending"} /\ ~Visible(id)
        BY <1>0, <2>1, <2>2 DEF Foreign, Exists, Visible, HiddenInv, BatchKeys
      <3>5. ~Claimed(id)
        BY <1>0, <2>1, <3>4 DEF Claimed, File, Coherent
      <3> QED BY <3>2, <3>3, <3>4, <3>5
    <2> QED BY <1>2, <2>0, <2>2 DEF WriteBatchTask
  <1>3. CASE UNCHANGED task
    BY <1>3
  <1> QED
    BY <1>1, <1>2, <1>3 DEF Leader, Reserve, AdvanceNextId, Prepare, ResumeBatch, CommitBatch,
                            LeaderKilled, board

LEMMA RewriteEffect ==
  ASSUME BoardInv, NEW t \in TaskIds, NEW record, Rewrites(t, record)
  PROVE  task'[t] = record /\ \A u \in TaskIds : u # t => task'[u] = task[u]
  BY WriteFile DEF Rewrites, BoardInv

-----------------------------------------------------------------------------
LEMMA OthersStep == BoardInv /\ ResumeInv /\ [Next]_vars => OthersType'
  <1> SUFFICES ASSUME BoardInv, ResumeInv, [Next]_vars PROVE OthersType'
    OBVIOUS
  <1>0. OthersType
    BY Parts DEF BoardInv
  <1> USE DEF OthersType
  <1>1. CASE Leader
    <2>1. UNCHANGED <<resume, now, claiming, patches>> /\ kills' \in {kills, kills + 1}
      BY <1>1 DEF Leader, CreateTask, Reserve, AdvanceNextId, Prepare, ResumeBatch,
                  WriteBatchTask, CommitBatch, LeaderKilled, bounds
    <2> QED BY <1>0, <2>1 DEF claiming
  <1>2. ASSUME NEW w \in Workers, NEW t \in TaskIds, ClaimTask(w, t)
        PROVE  OthersType'
    <2>1. task[t].deps \in SUBSET TaskIds
      BY <1>2, FileOf DEF BoardInv, ClaimTask, Claimable, Visible, Task
    <2>2. minted' = minted + 1 /\ minted + 1 \in 1..MaxClaims
      BY <1>0, <1>2, BoundAssumption DEF ClaimTask
    <2>3. held' \in [Workers -> SUBSET (1..MaxClaims)] /\ kills' \in Nat
      BY <1>0, <1>2, <2>2 DEF ClaimTask
    <2>4. depsAtClaim' \in [TaskIds -> SUBSET TaskIds]
      BY <1>0, <1>2, <2>1 DEF ClaimTask
    <2> QED BY <1>0, <1>2, <2>2, <2>3, <2>4 DEF ClaimTask
  <1>3. ASSUME NEW w \in Workers, NEW t \in TaskIds, NEW token \in held[w],
               RenewClaim(w, t, token) \/ Finish(w, t, token) \/ ReleaseClaim(w, t, token)
        PROVE  OthersType'
    <2>1. token \in 1..MaxClaims
      BY <1>0
    <2>2. presented' = presented \/ presented' = presented \cup {token}
      BY <1>3 DEF RenewClaim, Finish, ReleaseClaim, claiming
    <2>3. UNCHANGED <<resume, now, minted, held, depsAtClaim, bounds>>
      BY <1>3 DEF RenewClaim, Finish, ReleaseClaim, claiming
    <2> QED BY <1>0, <2>1, <2>2, <2>3 DEF bounds
  <1>4. ASSUME NEW t \in TaskIds, NEW deps \in DepSets, UpdateTask(t, deps)
        PROVE  OthersType'
    BY <1>0, <1>4 DEF UpdateTask, claiming
  <1>5. CASE ReconcileScan
    BY <1>0, <1>5 DEF ReconcileScan, claiming, bounds
  <1>6. CASE ReconcileRelease
    <2>1. [resume EXCEPT !.due = @ \ {NextDue}] \in
            [pc : {"idle", "release"}, cutoff : Nat, due : SUBSET TaskIds]
      BY <1>0
    <2>2. resume' \in [pc : {"idle", "release"}, cutoff : Nat, due : SUBSET TaskIds]
      BY <1>6, <2>1 DEF ReconcileRelease, Released, NotResuming
    <2> QED BY <1>0, <1>6, <2>2 DEF ReconcileRelease, claiming, bounds
  <1>7. CASE ResumeKilled
    BY <1>0, <1>7 DEF ResumeKilled, NotResuming, claiming
  <1>9. CASE Tick
    BY <1>0, <1>9 DEF Tick, claiming, bounds
  <1>8. CASE UNCHANGED vars
    BY <1>0, <1>8 DEF vars, claiming, bounds
  <1> QED BY <1>1, <1>2, <1>3, <1>4, <1>5, <1>6, <1>7, <1>8, <1>9 DEF Next, Worker, Resume

LEMMA BoardStep == BoardInv /\ ResumeInv /\ [Next]_vars => BoardInv'
  <1> SUFFICES ASSUME BoardInv, ResumeInv, [Next]_vars PROVE BoardInv'
    OBVIOUS
  <1>0. OthersType /\ OthersType'
    BY OthersStep, Parts DEF BoardInv
  <1> DEFINE Kept == Files' /\ AdmissionType' /\ HiddenInv' /\ BatchInv'
  <1>1. ASSUME Leader PROVE Kept
    BY <1>1, LeaderStep
  <1>2. ASSUME NEW t \in TaskIds, NEW record, Rewrites(t, record) PROVE Kept
    BY <1>2, RewriteVisible DEF Rewrites
  <1>3. ASSUME UNCHANGED <<task, nextId, batch, leader>> PROVE Kept
    BY <1>3, LeaveFiles
  <1> HIDE DEF Kept
  <1>4. ASSUME NEW w \in Workers, NEW t \in TaskIds, ClaimTask(w, t) PROVE Kept
    BY <1>0, <1>2, <1>4, ClaimEffect
  <1>5. ASSUME NEW w \in Workers, NEW t \in TaskIds, NEW token \in held[w],
               RenewClaim(w, t, token) \/ Finish(w, t, token) \/ ReleaseClaim(w, t, token)
        PROVE  Kept
    BY <1>0, <1>2, <1>5, HolderEffect
  <1>6. ASSUME NEW t \in TaskIds, NEW deps \in DepSets, UpdateTask(t, deps) PROVE Kept
    BY <1>2, <1>6, PatchEffect
  <1>7. ASSUME ReconcileRelease PROVE Kept
    BY <1>0, <1>2, <1>3, <1>7, ReleaseEffect
  <1>8. ASSUME ReconcileScan \/ ResumeKilled \/ Tick \/ UNCHANGED vars PROVE Kept
    BY <1>3, <1>8 DEF ReconcileScan, ResumeKilled, Tick, vars, board
  <1>9. Kept
    BY <1>1, <1>4, <1>5, <1>6, <1>7, <1>8 DEF Next, Worker, Resume
  <1> QED BY <1>0, <1>9 DEF Kept, BoardInv, ClaimsCoherent, TypeOK, Files, Coherent,
                            AdmissionType, OthersType

LEMMA ResumeStep == BoardInv /\ ResumeInv /\ [Next]_vars => ResumeInv'
  <1> SUFFICES ASSUME BoardInv, ResumeInv, [Next]_vars PROVE ResumeInv'
    OBVIOUS
  <1>0. OthersType
    BY Parts DEF BoardInv
  <1>1. CASE ReconcileScan
    BY <1>0, <1>1 DEF ReconcileScan, ResumeInv, OthersType
  <1>2. CASE ReconcileRelease
    <2>1. CASE resume.due = {NextDue}
      BY <1>2, <2>1 DEF ReconcileRelease, Released, ResumeInv, NotResuming
    <2>2. CASE resume.due # {NextDue}
      <3>1. NextDue \in resume.due /\ resume.due \ {NextDue} # {}
        BY <1>2, <2>2, NextDueIsDue DEF ReconcileRelease, BoardInv
      <3>2. resume' = [resume EXCEPT !.due = @ \ {NextDue}] /\ now' = now
        BY <1>2, <2>2 DEF ReconcileRelease, Released
      <3>3. resume'.pc = resume.pc /\ resume'.cutoff = resume.cutoff
            /\ resume'.due = resume.due \ {NextDue}
        BY <1>0, <3>2 DEF OthersType
      <3> QED BY <3>1, <3>2, <3>3 DEF ResumeInv
    <2> QED BY <2>1, <2>2
  <1>3. CASE ResumeKilled
    BY <1>3 DEF ResumeKilled, ResumeInv, NotResuming
  <1>4. CASE Tick
    BY <1>0, <1>4 DEF Tick, ResumeInv, OthersType
  <1>5. CASE UNCHANGED <<resume, now>>
    BY <1>5 DEF ResumeInv
  <1> QED
    BY <1>1, <1>2, <1>3, <1>4, <1>5
    DEF Next, Leader, CreateTask, Reserve, AdvanceNextId, Prepare, ResumeBatch, WriteBatchTask,
        CommitBatch, LeaderKilled, Worker, ClaimTask, RenewClaim, Finish, ReleaseClaim,
        UpdateTask, Resume, vars

LEMMA TokenStep == BoardInv /\ ResumeInv /\ TokenInv /\ [Next]_vars => TokenInv'
  <1> SUFFICES ASSUME BoardInv, ResumeInv, TokenInv, [Next]_vars PROVE TokenInv'
    OBVIOUS
  <1>0. OthersType
    BY Parts DEF BoardInv
  <1>1. CASE UNCHANGED <<minted, presented>> /\
             \A t \in TaskIds : Claimed(t)' => Claimed(t) /\ task'[t].claim.token = task[t].claim.token
    BY <1>1 DEF TokenInv
  <1>2. CASE Leader
    <2>1. UNCHANGED <<minted, presented>>
      BY <1>2 DEF Leader, CreateTask, Reserve, AdvanceNextId, Prepare, ResumeBatch,
                  WriteBatchTask, CommitBatch, LeaderKilled, claiming
    <2> QED BY <1>1, <1>2, <2>1, LeaderEffect DEF Claimed
  <1>3. ASSUME NEW w \in Workers, NEW t \in TaskIds, ClaimTask(w, t) PROVE TokenInv'
    <2>1. PICK record : Rewrites(t, record) /\ record.claim.token = minted + 1
      BY <1>0, <1>3, ClaimEffect
    <2>2. task'[t] = record /\ \A u \in TaskIds : u # t => task'[u] = task[u]
      BY <2>1, RewriteEffect
    <2>3. minted' = minted + 1 /\ presented' = presented /\ minted \in Nat
      BY <1>0, <1>3, BoundAssumption DEF ClaimTask, OthersType
    <2> QED BY <2>1, <2>2, <2>3 DEF TokenInv, Claimed
  <1>4. ASSUME NEW w \in Workers, NEW t \in TaskIds, NEW token \in held[w],
               RenewClaim(w, t, token) \/ Finish(w, t, token) \/ ReleaseClaim(w, t, token)
        PROVE  TokenInv'
    <2>1. Claimed(t) /\ task[t].claim.token = token
      BY <1>0, <1>4, HolderEffect
    <2>2. PICK record : /\ Rewrites(t, record)
                        /\ \/ record.claim.token = token /\ UNCHANGED presented
                           \/ record.claim = NoClaim /\ presented' = presented \cup {token}
      BY <1>0, <1>4, HolderEffect
    <2>3. task'[t] = record /\ \A u \in TaskIds : u # t => task'[u] = task[u]
      BY <2>2, RewriteEffect
    <2>4. minted' = minted
      BY <1>4 DEF RenewClaim, Finish, ReleaseClaim, claiming
    <2>5. CASE record.claim.token = token /\ UNCHANGED presented
      BY <1>1, <2>1, <2>3, <2>4, <2>5 DEF Claimed
    <2>6. CASE record.claim = NoClaim /\ presented' = presented \cup {token}
      <3>1. ~Claimed(t)' /\ \A u \in TaskIds : u # t => task'[u] = task[u]
        BY <2>3, <2>6 DEF Claimed
      <3>2. token \in 1..minted
        BY <2>1 DEF TokenInv
      <3>3. \A u \in TaskIds : u # t /\ Claimed(u) => task[u].claim.token # token
        BY <2>1 DEF TokenInv
      <3>4. \A u \in TaskIds : Claimed(u)' =>
              u # t /\ Claimed(u) /\ task'[u].claim.token = task[u].claim.token
        BY <3>1 DEF Claimed
      <3> QED BY <2>4, <2>6, <3>2, <3>3, <3>4 DEF TokenInv
    <2> QED BY <2>2, <2>5, <2>6
  <1>5. ASSUME NEW t \in TaskIds, NEW deps \in DepSets, UpdateTask(t, deps) PROVE TokenInv'
    <2>1. PICK record : Rewrites(t, record) /\ record.claim = task[t].claim
      BY <1>5, PatchEffect
    <2> QED BY <1>1, <1>5, <2>1, RewriteEffect DEF UpdateTask, claiming, Claimed
  <1>6. CASE ReconcileRelease
    <2>1. UNCHANGED <<minted, presented>>
      BY <1>6 DEF ReconcileRelease, claiming
    <2>2. CASE UNCHANGED task
      BY <1>1, <2>1, <2>2 DEF Claimed
    <2>3. ASSUME NEW record, Rewrites(NextDue, record), record.claim = NoClaim PROVE TokenInv'
      BY <1>0, <1>1, <1>6, <2>1, <2>3, ReleaseEffect, RewriteEffect DEF Claimed
    <2> QED BY <1>0, <1>6, <2>2, <2>3, ReleaseEffect
  <1>7. CASE ReconcileScan \/ ResumeKilled \/ Tick \/ UNCHANGED vars
    BY <1>1, <1>7 DEF ReconcileScan, ResumeKilled, Tick, vars, board, claiming, Claimed
  <1> QED BY <1>2, <1>3, <1>4, <1>5, <1>6, <1>7 DEF Next, Worker, Resume

LEMMA DependenciesStep ==
  BoardInv /\ ResumeInv /\ DependenciesFirst /\ [Next]_vars => DependenciesFirst'
  <1> SUFFICES ASSUME BoardInv, ResumeInv, DependenciesFirst, [Next]_vars
               PROVE  DependenciesFirst'
    OBVIOUS
  <1>0. OthersType
    BY Parts DEF BoardInv
  <1> DEFINE Begun(status) == status \in {"in_progress", "completed"}
  <1>1. CASE /\ UNCHANGED depsAtClaim
             /\ \A t \in TaskIds :
                  /\ task[t].status = "completed" => task'[t].status = "completed"
                  /\ Begun(task'[t].status) => Begun(task[t].status)
    BY <1>0, <1>1 DEF DependenciesFirst, OthersType
  <1>2. CASE Leader
    <2>1. UNCHANGED depsAtClaim
      BY <1>2 DEF Leader, CreateTask, Reserve, AdvanceNextId, Prepare, ResumeBatch,
                  WriteBatchTask, CommitBatch, LeaderKilled, claiming
    <2> QED BY <1>1, <1>2, <2>1, LeaderEffect
  <1>3. ASSUME NEW w \in Workers, NEW t \in TaskIds, ClaimTask(w, t)
        PROVE  DependenciesFirst'
    <2>1. PICK record : Rewrites(t, record)
      BY <1>0, <1>3, ClaimEffect
    <2>2. \A u \in TaskIds : u # t => task'[u] = task[u]
      BY <2>1, RewriteEffect
    <2>3. Ready(t) /\ task[t].status # "completed"
      BY <1>0, <1>3, ClaimEffect
    <2>4. depsAtClaim'[t] = task[t].deps /\ \A u \in TaskIds : u # t => depsAtClaim'[u] = depsAtClaim[u]
      BY <1>0, <1>3 DEF ClaimTask, OthersType
    <2>5. task[t].deps \subseteq TaskIds
      BY <2>1 DEF Rewrites, Task
    <2>6. \A d \in task[t].deps : task'[d].status = "completed"
      BY <2>2, <2>3, <2>5 DEF Ready
    <2>7. \A u \in TaskIds : task[u].status = "completed" => task'[u].status = "completed"
      BY <2>2, <2>3
    <2> QED BY <1>0, <2>2, <2>4, <2>6, <2>7 DEF DependenciesFirst, OthersType
  <1>4. ASSUME NEW w \in Workers, NEW t \in TaskIds, NEW token \in held[w],
               RenewClaim(w, t, token) \/ Finish(w, t, token) \/ ReleaseClaim(w, t, token)
        PROVE  DependenciesFirst'
    <2>1. PICK record : Rewrites(t, record)
      BY <1>0, <1>4, HolderEffect
    <2>2. task[t].status = "in_progress" /\ \A u \in TaskIds : u # t => task'[u] = task[u]
      BY <1>0, <1>4, <2>1, HolderEffect, RewriteEffect
    <2>3. UNCHANGED depsAtClaim
      BY <1>4 DEF RenewClaim, Finish, ReleaseClaim, claiming
    <2> QED BY <1>1, <2>2, <2>3
  <1>5. ASSUME NEW t \in TaskIds, NEW deps \in DepSets, UpdateTask(t, deps)
        PROVE  DependenciesFirst'
    <2>1. PICK record : Rewrites(t, record) /\ record.status = task[t].status
      BY <1>5, PatchEffect
    <2> QED BY <1>1, <1>5, <2>1, RewriteEffect DEF UpdateTask, claiming
  <1>6. CASE ReconcileRelease
    <2>1. UNCHANGED depsAtClaim
      BY <1>6 DEF ReconcileRelease, claiming
    <2>2. CASE UNCHANGED task
      BY <1>1, <2>1, <2>2
    <2>3. CASE task[NextDue].status = "in_progress" /\ \E record : Rewrites(NextDue, record)
      BY <1>0, <1>1, <1>6, <2>1, <2>3, ReleaseEffect, RewriteEffect
    <2> QED BY <1>0, <1>6, <2>2, <2>3, ReleaseEffect
  <1>7. CASE ReconcileScan \/ ResumeKilled \/ Tick \/ UNCHANGED vars
    BY <1>1, <1>7 DEF ReconcileScan, ResumeKilled, Tick, vars, board, claiming
  <1> QED BY <1>2, <1>3, <1>4, <1>5, <1>6, <1>7 DEF Next, Worker, Resume

-----------------------------------------------------------------------------
LEMMA InductiveInit == Init => InductiveInv
  <1>1. Init => TokenInv
    BY DEF Init, TokenInv, Claimed, NoFile
  <1>2. Init => ResumeInv /\ DependenciesFirst
    BY DEF Init, ResumeInv, DependenciesFirst, NotResuming, NoFile
  <1> QED BY <1>1, <1>2, BoardInit DEF InductiveInv

LEMMA InductiveStep == InductiveInv /\ [Next]_vars => InductiveInv'
  BY BoardStep, TokenStep, ResumeStep, DependenciesStep DEF InductiveInv

THEOREM InductiveAlways == Spec => []InductiveInv
  BY InductiveInit, InductiveStep, PTL DEF Spec

(* No sequence of creations, claims, renewals, releases, patches and       *)
(* resumes leaves a task that reconcile_task_claims refuses.               *)
THEOREM ClaimsAlwaysCoherent == Spec => []ClaimsCoherent
  <1>1. InductiveInv => ClaimsCoherent
    BY DEF InductiveInv, BoardInv
  <1> QED BY <1>1, InductiveAlways, PTL

(* Wherever the leader is killed, a batch is committed only with all of    *)
(* its tasks on disk.                                                      *)
THEOREM BatchAlwaysWhole == Spec => []BatchIsWhole
  <1>1. InductiveInv => BatchIsWhole
    BY BatchAssumption DEF InductiveInv, BoardInv, BatchInv, WrittenBelow, BatchIsWhole, BatchKeys
  <1> QED BY <1>1, InductiveAlways, PTL

(* Readiness, read without the locks of the dependencies, is never too     *)
(* early: what a claimed task depended on stays done.                      *)
THEOREM DependenciesAlwaysFirst == Spec => []DependenciesFirst
  <1>1. InductiveInv => DependenciesFirst
    BY DEF InductiveInv
  <1> QED BY <1>1, InductiveAlways, PTL

LEMMA VersionsStep ==
  InductiveInv /\ [Next]_vars =>
    [\A t \in TaskIds :
       Visible(t) /\ task'[t] # task[t] => task'[t].version = task[t].version + 1]_vars
  <1> SUFFICES ASSUME InductiveInv, [Next]_vars, NEW t \in TaskIds, Visible(t),
                      task'[t] # task[t]
               PROVE  task'[t].version = task[t].version + 1
    OBVIOUS
  <1>0. BoardInv /\ ResumeInv /\ OthersType
    BY Parts DEF InductiveInv, BoardInv
  <1>1. ASSUME NEW u \in TaskIds, NEW record, Rewrites(u, record)
        PROVE  task'[t].version = task[t].version + 1
    BY <1>0, <1>1, RewriteEffect DEF Rewrites
  <1>2. ~Leader
    BY <1>0, LeaderEffect
  <1>3. ASSUME NEW w \in Workers, NEW u \in TaskIds, ClaimTask(w, u)
        PROVE  task'[t].version = task[t].version + 1
    BY <1>0, <1>1, <1>3, ClaimEffect
  <1>4. ASSUME NEW w \in Workers, NEW u \in TaskIds, NEW token \in held[w],
               RenewClaim(w, u, token) \/ Finish(w, u, token) \/ ReleaseClaim(w, u, token)
        PROVE  task'[t].version = task[t].version + 1
    BY <1>0, <1>1, <1>4, HolderEffect
  <1>5. ASSUME NEW u \in TaskIds, NEW deps \in DepSets, UpdateTask(u, deps)
        PROVE  task'[t].version = task[t].version + 1
    BY <1>0, <1>1, <1>5, PatchEffect
  <1>6. CASE ReconcileRelease
    BY <1>0, <1>1, <1>6, ReleaseEffect
  <1>7. ~(ReconcileScan \/ ResumeKilled \/ Tick \/ UNCHANGED vars)
    BY DEF ReconcileScan, ResumeKilled, Tick, vars, board
  <1> QED BY <1>2, <1>3, <1>4, <1>5, <1>6, <1>7 DEF Next, Worker, Resume

(* expected_version is a sound compare-and-swap: no operation, and no two  *)
(* creations that race with a kill, change a visible file behind it.       *)
THEOREM VersionsAlwaysTell == Spec => VersionsTellChanges
  BY VersionsStep, InductiveAlways, PTL DEF Spec, VersionsTellChanges

LEMMA ClaimsEndStep ==
  InductiveInv /\ [Next]_vars =>
    [\A t \in TaskIds :
       task[t].claim # NoClaim /\ task'[t].claim.token # task[t].claim.token =>
         IF Expired(task[t].claim) THEN task'[t].status \notin Terminal
                                   ELSE task[t].claim.token \in presented' \ presented]_vars
  <1> SUFFICES ASSUME InductiveInv, [Next]_vars, NEW t \in TaskIds, Claimed(t),
                      task'[t].claim.token # task[t].claim.token
               PROVE  IF Expired(task[t].claim) THEN task'[t].status \notin Terminal
                                                ELSE task[t].claim.token \in presented' \ presented
    BY DEF Claimed
  <1> DEFINE Goal == IF Expired(task[t].claim)
                     THEN task'[t].status \notin Terminal
                     ELSE task[t].claim.token \in presented' \ presented
  <1>0. BoardInv /\ ResumeInv /\ OthersType /\ TokenInv
    BY Parts DEF InductiveInv, BoardInv
  <1>1. ~Leader
    BY <1>0, LeaderEffect
  <1>2. ASSUME NEW w \in Workers, NEW u \in TaskIds, ClaimTask(w, u) PROVE Goal
    <2>1. PICK record : Rewrites(u, record) /\ record.status = "in_progress"
      BY <1>0, <1>2, ClaimEffect
    <2>2. u = t /\ task'[t] = record
      BY <1>0, <2>1, RewriteEffect
    <2> QED BY <1>0, <1>2, <2>1, <2>2, ClaimEffect DEF Terminal
  <1>3. ASSUME NEW w \in Workers, NEW u \in TaskIds, NEW token \in held[w],
               RenewClaim(w, u, token) \/ Finish(w, u, token) \/ ReleaseClaim(w, u, token)
        PROVE  Goal
    <2>1. PICK record : /\ Rewrites(u, record)
                        /\ \/ record.claim.token = token
                           \/ presented' = presented \cup {token}
      BY <1>0, <1>3, HolderEffect
    <2>2. u = t /\ task'[t] = record
      BY <1>0, <2>1, RewriteEffect
    <2>3. task[t].claim.token = token /\ ~Expired(task[t].claim)
      BY <1>0, <1>3, <2>2, HolderEffect
    <2>4. presented' = presented \cup {token}
      BY <2>1, <2>2, <2>3
    <2> QED BY <1>0, <2>3, <2>4 DEF TokenInv
  <1>4. ASSUME NEW u \in TaskIds, NEW deps \in DepSets, UpdateTask(u, deps) PROVE FALSE
    BY <1>0, <1>4, PatchEffect, RewriteEffect
  <1>5. ASSUME ReconcileRelease PROVE Goal
    <2>1. CASE UNCHANGED task
      BY <2>1
    <2>2. CASE /\ Expired(task[NextDue].claim)
               /\ \E record : Rewrites(NextDue, record) /\ record.status = "pending"
      <3>1. PICK record : Rewrites(NextDue, record) /\ record.status = "pending"
        BY <2>2
      <3>2. NextDue = t /\ task'[t] = record
        BY <1>0, <1>5, <3>1, ReleaseEffect, RewriteEffect
      <3> QED BY <2>2, <3>1, <3>2 DEF Terminal
    <2> QED BY <1>0, <1>5, <2>1, <2>2, ReleaseEffect
  <1>6. ~(ReconcileScan \/ ResumeKilled \/ Tick \/ UNCHANGED vars)
    BY DEF ReconcileScan, ResumeKilled, Tick, vars, board
  <1> QED BY <1>1, <1>2, <1>3, <1>4, <1>5, <1>6 DEF Next, Worker, Resume

(* A claim that runs ends only with its token presented by its holder, and *)
(* an expired one never in a finished task: the resumed leader's late      *)
(* release included.                                                       *)
THEOREM ClaimsAlwaysEndRightly == Spec => ClaimsEndRightly
  BY ClaimsEndStep, InductiveAlways, PTL DEF Spec, ClaimsEndRightly
==================================================================================
