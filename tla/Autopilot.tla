------------------------------- MODULE Autopilot -------------------------------
(***************************************************************************)
(* The phases of an autopilot run and the stamps their gates read: the     *)
(* coordinator (autopilot.py) with the plan of ralplan.py, the reviews of  *)
(* review.py, the test cycles of qa.py and the acceptance that ends a run. *)
(*                                                                         *)
(* A run is spread over files that are each written by themselves: the     *)
(* phase is in autopilot.json, the status in status.json, and every stage  *)
(* has a stamp of its own.  Transitions, planning and acceptance hold the  *)
(* execution lease; `omg review` and `omg qa` hold nothing and ask for no  *)
(* phase, so a test cycle may end in another phase than it began in.  Any  *)
(* command can be killed between two of its writes, and the workspace can  *)
(* be edited at any time.  What the lease itself promises is in RunState:  *)
(* here its owner is one slot.                                             *)
(*                                                                         *)
(* A review that is not clean, and one that was invalidated, open no gate  *)
(* and are never revived: both are no review here.  An invalidated test    *)
(* record is one that has still to be run.  An invalidated plan is one     *)
(* that is not agreed.  Nothing stamps an implementation receipt yet, so   *)
(* the work of an implement phase shows in the workspace alone.            *)
(***************************************************************************)
EXTENDS Naturals

CONSTANTS
  Testers,    \* terminals that run `omg qa`
  None,
  Sources,    \* contents of the Python sources (what product_hash sees)
  Surfaces,   \* contents of the other product files
  Evidence,   \* whether a transition brings break_glass evidence
  MaxEpoch,   \* entries into ralplan
  MaxKills    \* commands killed

ASSUME AutopilotAssumption ==
  /\ None \notin Sources \cup (Sources \X Surfaces)
  /\ Evidence \subseteq BOOLEAN
  /\ MaxEpoch \in Nat \ {0} /\ MaxKills \in Nat

VARIABLES
  sidecar,  \* autopilot.json: phase, ralplan_epoch, implement_workspace_fp
  status,   \* status.json: running stands for blocked too
  bound,    \* both files hold the authority nonce written last
  request,  \* cancel.request.json is there
  owner,    \* [pc, to]: the command that holds the execution lease
  tree,     \* the workspace
  plan,     \* ralplan.json: the epoch whose plan was accepted, or 0
  review,   \* structured_review.json: the tree it is clean for
  qa,       \* ultraqa.json
  age,      \* how a stamp stands to the phases (history), see Age
  cycle,    \* the test cycle each tester is running
  kills

files == <<sidecar, status, bound, request, plan, review, qa, age>>
vars == <<files, owner, tree, cycle, kills>>

Phases == {"interview", "ralplan", "implement", "review", "rework", "qa", "acceptance",
           "blocked", "verified"}

(* The edges transition() may take; `verified` is only reached by          *)
(* complete_with_acceptance.                                               *)
MANUAL_TRANSITIONS ==
  [interview  |-> {"ralplan", "blocked"},
   ralplan    |-> {"implement", "blocked"},
   implement  |-> {"review", "blocked"},
   review     |-> {"qa", "rework", "ralplan", "blocked"},
   rework     |-> {"review", "blocked"},
   qa         |-> {"acceptance", "ralplan", "rework", "blocked"},
   acceptance |-> {"blocked"},
   blocked    |-> {"interview", "ralplan", "implement", "review", "qa"},
   verified   |-> {}]

Trees == Sources \X Surfaces
Product(t) == t[1]

Stages == {"review", "qa"}

(* A clean stamp is fresh until the run enters implement, rework, review   *)
(* or a replan, and stale from then on; it is raced when its command and   *)
(* such a transition overlapped.  Only the properties read it.             *)
Age == {"none", "fresh", "raced", "stale"}

QaStatus == {"none", "open", "clean", "blocked"}

(* product and tree are the hashes of the last cycle, if it was clean.     *)
Qa == [status : QaStatus, product : Sources \cup {None}, tree : Trees \cup {None}]
NotClean(s) == [status |-> s, product |-> None, tree |-> None]

Pc == {"free", "review", "qa", "plan", "save", "status", "round",
       "accept", "verify", "sync", "merge"}
Nobody == [pc |-> "free", to |-> None]

(* A cycle keeps the hash of the sources it began with.                    *)
Cycle == [product : Sources, raced : BOOLEAN]

(* start_autopilot: with or without an interview.  It is killed, or not,   *)
(* between the two files.                                                  *)
Init ==
  /\ \E s \in {<<"interview", 0>>, <<"ralplan", 1>>} :
       sidecar = [phase |-> s[1], epoch |-> s[2], work |-> None]
  /\ status = "running" /\ bound \in BOOLEAN /\ request = FALSE
  /\ owner = Nobody /\ tree \in Trees
  /\ plan = 0 /\ review = None /\ qa = NotClean("none")
  /\ age = [s \in Stages |-> "none"]
  /\ cycle = [t \in Testers |-> None]
  /\ kills = 0

-----------------------------------------------------------------------------
At(l) == owner.pc = l
To(l) == owner' = [owner EXCEPT !.pc = l]

(* The command ends, or raises, and its lease is released.                 *)
Exit == owner' = Nobody

Phase == sidecar.phase
Over == status = "verified"

(* stage_review_is_clean, stage_qa_is_clean: a stamp counts only for the   *)
(* workspace as it is now.                                                 *)
ReviewIsClean == review = tree
QaIsClean == qa.status = "clean" /\ qa.product = Product(tree) /\ qa.tree = tree

(* _implementation_work_evidence, without a receipt.                       *)
Worked == sidecar.work # None /\ sidecar.work # tree

(* The gates go by the destination.  That of an interview is outside of    *)
(* the model: its record may always be complete.                           *)
Gate(to, glass) ==
  /\ to = "implement" => plan # 0 \/ glass
  /\ to = "review" /\ Phase \in {"implement", "blocked"} => Worked \/ glass
  /\ to = "qa" => ReviewIsClean
  /\ to = "acceptance" => QaIsClean

(* The first entry into ralplan is the hand-over of the interview; every   *)
(* later one is a replan.                                                  *)
Replan == sidecar.epoch >= 1

InvalidatesStages_NotFromBlocked(to) ==
  \/ to \in {"implement", "rework"}
  \/ to = "ralplan" /\ Replan
  \/ to = "review" /\ Phase \in {"rework", "implement"}

(* Which transitions make the review and the test cycles stale.            *)
InvalidatesStages(to) ==
  \/ to \in {"implement", "rework"}
  \/ to = "ralplan" /\ Replan
  \/ to = "review" /\ Phase \in {"rework", "implement", "blocked"}

(* What the rules above are for, in terms of the phases alone: these       *)
(* entries begin something that has to be reviewed and tested again.       *)
Outdates(to) == to \in {"implement", "rework", "review"} \/ (to = "ralplan" /\ sidecar.epoch > 0)

(* A transition that outdates the stamps is under way.                     *)
Outdating == owner.pc \in {"review", "qa", "plan", "save"} /\ Outdates(owner.to)

AgeNow(raced) == IF raced THEN "raced" ELSE "fresh"

-----------------------------------------------------------------------------
(*                               transition                                *)

Transition_TrustsEarlierRead(to, glass) ==
  /\ At("free")
  /\ to \in MANUAL_TRANSITIONS[Phase] /\ Gate(to, glass)
  /\ to = "ralplan" => sidecar.epoch < MaxEpoch
  /\ owner' = [pc |-> IF InvalidatesStages(to) THEN "review" ELSE "save", to |-> to]
  /\ cycle' = [t \in Testers |->
       IF cycle[t] # None /\ Outdates(to) THEN [cycle[t] EXCEPT !.raced = TRUE] ELSE cycle[t]]
  /\ UNCHANGED <<files, tree, kills>>

(* Under the lease everything is read afresh: a run that is over or is to  *)
(* be cancelled moves no more.                                             *)
Transition(to, glass) ==
  /\ At("free")
  /\ ~Over /\ ~request
  /\ to \in MANUAL_TRANSITIONS[Phase] /\ Gate(to, glass)
  /\ to = "ralplan" => sidecar.epoch < MaxEpoch
  /\ owner' = [pc |-> IF InvalidatesStages(to) THEN "review" ELSE "save", to |-> to]
  /\ cycle' = [t \in Testers |->
       IF cycle[t] # None /\ Outdates(to) THEN [cycle[t] EXCEPT !.raced = TRUE] ELSE cycle[t]]
  /\ UNCHANGED <<files, tree, kills>>

(* invalidate_quality_stages writes the two records one after the other.   *)
InvalidateReview ==
  /\ At("review")
  /\ review' = None
  /\ age' = [age EXCEPT !["review"] = "none"]
  /\ To("qa")
  /\ UNCHANGED <<sidecar, status, bound, request, plan, qa, tree, cycle, kills>>

InvalidateQa ==
  /\ At("qa")
  /\ qa' = NotClean(IF qa.status = "clean" THEN "open" ELSE qa.status)
  /\ age' = [age EXCEPT !["qa"] = "none"]
  /\ To(IF owner.to = "ralplan" THEN "plan" ELSE "save")
  /\ UNCHANGED <<sidecar, status, bound, request, plan, review, tree, cycle, kills>>

(* invalidate_ralplan_consensus                                            *)
InvalidatePlan ==
  /\ At("plan")
  /\ plan' = 0
  /\ To("save")
  /\ UNCHANGED <<sidecar, status, bound, request, review, qa, age, tree, cycle, kills>>

SaveSidecar ==
  LET to == owner.to IN
  /\ At("save")
  /\ sidecar' = [phase |-> to,
                 epoch |-> IF to = "ralplan" THEN sidecar.epoch + 1 ELSE sidecar.epoch,
                 work  |-> IF to = "implement" THEN tree ELSE sidecar.work]
  /\ bound' = FALSE
  /\ age' = [s \in Stages |-> IF age[s] = "fresh" /\ Outdates(to) THEN "stale" ELSE age[s]]
  /\ To("status")
  /\ UNCHANGED <<status, request, plan, review, qa, tree, cycle, kills>>

(* write_status refuses once a cancellation is requested; the phase has    *)
(* been saved by then.                                                     *)
WriteStatus ==
  /\ At("status")
  /\ bound' = ~request
  /\ Exit
  /\ UNCHANGED <<sidecar, status, request, plan, review, qa, age, tree, cycle, kills>>

-----------------------------------------------------------------------------
(*             the plan: _run_ralplan_v2 inside an autopilot run           *)

(* A plan that was accepted is not made again.                             *)
PlanStart ==
  /\ At("free")
  /\ ~Over /\ ~request /\ Phase = "ralplan" /\ plan = 0
  /\ To("round")
  /\ UNCHANGED <<files, tree, cycle, kills>>

(* Before each of its writes it looks for a request.                       *)
PlanEnd ==
  /\ At("round")
  /\ plan' \in IF request THEN {plan} ELSE {plan, sidecar.epoch}
  /\ Exit
  /\ UNCHANGED <<sidecar, status, bound, request, review, qa, age, tree, cycle, kills>>

-----------------------------------------------------------------------------
(*                        complete_with_acceptance                         *)

Complete_AcceptsAgain ==
  /\ At("free")
  /\ Phase = "acceptance" /\ bound
  /\ To("accept")
  /\ UNCHANGED <<files, tree, cycle, kills>>

(* A run that is verified already is not accepted again: only its phase is *)
(* brought up to date.                                                     *)
Complete ==
  /\ At("free")
  /\ Phase = "acceptance" /\ bound
  /\ To(IF Over THEN "sync" ELSE "accept")
  /\ UNCHANGED <<files, tree, cycle, kills>>

(* freeze_and_run                                                          *)
Accept ==
  /\ At("accept")
  /\ To("verify") \/ Exit
  /\ UNCHANGED <<files, tree, cycle, kills>>

(* set_verified                                                            *)
SetVerified ==
  /\ At("verify")
  /\ IF request THEN Exit /\ UNCHANGED status
                ELSE To("sync") /\ status' = "verified"
  /\ UNCHANGED <<sidecar, bound, request, plan, review, qa, age, tree, cycle, kills>>

(* _sync_autopilot_verified                                                *)
SyncSidecar ==
  /\ At("sync")
  /\ sidecar' = [sidecar EXCEPT !.phase = "verified"]
  /\ bound' = FALSE
  /\ To("merge")
  /\ UNCHANGED <<status, request, plan, review, qa, age, tree, cycle, kills>>

MergeStatus ==
  /\ At("merge")
  /\ bound' = TRUE
  /\ Exit
  /\ UNCHANGED <<sidecar, status, request, plan, review, qa, age, tree, cycle, kills>>

-----------------------------------------------------------------------------
(*                 `omg review`, `omg qa`, and the world                   *)

(* run_structured_review                                                   *)
Review(clean) ==
  /\ review' = IF clean THEN tree ELSE None
  /\ age' = [age EXCEPT !["review"] = IF clean THEN AgeNow(Outdating) ELSE "none"]
  /\ UNCHANGED <<sidecar, status, bound, request, plan, qa, owner, tree, cycle, kills>>

WriteQa(record, howOld) ==
  /\ qa' = record
  /\ age' = [age EXCEPT !["qa"] = howOld]
  /\ UNCHANGED <<sidecar, status, bound, request, plan, review, owner, tree>>

(* freeze_scenarios                                                        *)
Freeze == WriteQa(NotClean("open"), "none") /\ UNCHANGED <<cycle, kills>>

(* run_qa_cycle, up to the scenarios.  The cycles since the freeze are not *)
(* counted: any of them may be the one that max_cycles refuses.            *)
CycleStart(t) ==
  /\ cycle[t] = None /\ qa.status \notin {"none", "blocked"}
  /\ \/ /\ cycle' = [cycle EXCEPT ![t] = [product |-> Product(tree), raced |-> Outdating]]
        /\ UNCHANGED <<files, owner, tree>>
     \/ WriteQa(NotClean("blocked"), "none") /\ UNCHANGED cycle
  /\ UNCHANGED kills

(* It writes the record that it read, whatever the record is by now.  A    *)
(* failure may block, when the same one comes again or a repair changed no *)
(* source; which cycles failed before is not kept.                         *)
CycleEnd(t) ==
  /\ cycle[t] # None
  /\ \/ WriteQa([status |-> "clean", product |-> cycle[t].product, tree |-> tree],
                AgeNow(cycle[t].raced))
     \/ \E s \in {"open", "blocked"} : WriteQa(NotClean(s), "none")
  /\ cycle' = [cycle EXCEPT ![t] = None]
  /\ UNCHANGED kills

(* A cancel is committed as a request; whether it is finalized as well     *)
(* makes no difference to what is refused.                                 *)
Cancel ==
  /\ ~Over
  /\ request' = TRUE
  /\ UNCHANGED <<sidecar, status, bound, plan, review, qa, age, owner, tree, cycle, kills>>

Edit ==
  /\ tree' \in Trees \ {tree}
  /\ UNCHANGED <<files, owner, cycle, kills>>

Kill ==
  /\ kills < MaxKills
  /\ kills' = kills + 1
  /\ \/ ~At("free") /\ Exit /\ UNCHANGED cycle
     \/ \E t \in Testers : cycle[t] # None /\ cycle' = [cycle EXCEPT ![t] = None] /\ UNCHANGED owner
  /\ UNCHANGED <<files, tree>>

-----------------------------------------------------------------------------
Owner ==
  \/ InvalidateReview \/ InvalidateQa \/ InvalidatePlan \/ SaveSidecar \/ WriteStatus
  \/ PlanEnd
  \/ Accept \/ SetVerified \/ SyncSidecar \/ MergeStatus

Next ==
  \/ \E to \in Phases, glass \in Evidence : Transition(to, glass)
  \/ PlanStart \/ Complete
  \/ Owner
  \/ \E clean \in BOOLEAN : Review(clean)
  \/ Freeze
  \/ \E t \in Testers : CycleStart(t) \/ CycleEnd(t)
  \/ Cancel \/ Edit \/ Kill

Spec == Init /\ [][Next]_vars

(* A command that holds the lease ends, or is killed; `omg autopilot       *)
(* complete` is called again and again.                                    *)
FairSpec == Spec /\ WF_vars(Owner) /\ WF_vars(Complete)

-----------------------------------------------------------------------------
(*                               properties                                *)

TypeOK ==
  /\ sidecar \in [phase : Phases, epoch : 0..MaxEpoch, work : Trees \cup {None}]
  /\ status \in {"running", "verified"} /\ bound \in BOOLEAN /\ request \in BOOLEAN
  /\ owner \in [pc : Pc, to : Phases \cup {None}] /\ tree \in Trees
  /\ plan \in 0..MaxEpoch /\ review \in Trees \cup {None} /\ qa \in Qa
  /\ age \in [Stages -> Age]
  /\ cycle \in [Testers -> Cycle \cup {None}]
  /\ kills \in 0..MaxKills

(* Whatever is killed between two writes, the files tell one story.  An    *)
(* accepted plan is one of the current pass through ralplan, never of an   *)
(* earlier one.  A verified status is found with the sidecar at acceptance *)
(* or verified, so that `complete` can finish it, and a verified sidecar   *)
(* never beside a run that is not.                                         *)
FilesAgree ==
  /\ TypeOK
  /\ plan \in {0, sidecar.epoch}
  /\ Over => Phase \in {"acceptance", "verified"} /\ ~request
  /\ Phase = "verified" => Over

(* No gate into qa or acceptance is opened by a stamp from before the run  *)
(* entered implement, rework, review or a replan, whatever detour the run  *)
(* took and whatever was killed in between.  A review or a test cycle that *)
(* overlapped such a transition is exempt: it may revive its stamp.        *)
StampsAreFresh ==
  [][At("free") =>
       /\ owner'.to = "qa" => age["review"] # "stale"
       /\ owner'.to = "acceptance" => age["qa"] # "stale"]_vars

(* A run that is verified does not stay with a coordinator that says       *)
(* acceptance, although a resume refuses it and the acceptance might fail  *)
(* now.                                                                    *)
VerifiedSyncs == Over ~> Phase = "verified"
=============================================================================
