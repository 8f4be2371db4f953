---------------------------- MODULE AutopilotProofs ----------------------------
(***************************************************************************)
(* FilesAgree and StampsAreFresh of Autopilot, for any number of testers,  *)
(* any workspace contents and any number of kills.                         *)
(***************************************************************************)
EXTENDS Autopilot, TLAPS

(* What is true of the run while a command holds the lease: it is this,    *)
(* and not what the command read before, that its later writes rest on.    *)
OwnerInv ==
  /\ owner.pc \in {"review", "qa", "plan", "save"} =>
       /\ ~Over
       /\ owner.to \in MANUAL_TRANSITIONS[Phase]
       /\ owner.to = "ralplan" => sidecar.epoch < MaxEpoch
  /\ owner.pc = "plan" => owner.to = "ralplan"
  /\ owner.pc \in {"status", "round"} => ~Over
  /\ owner.pc \in {"accept", "verify", "sync"} => Phase = "acceptance"
  /\ owner.pc \in {"sync", "merge"} => Over
  /\ owner.pc = "merge" => Phase = "verified"

(* A replan that is about to be saved has taken the plan back.             *)
PlanInv ==
  /\ plan \in {0, sidecar.epoch}
  /\ owner.pc = "save" /\ owner.to = "ralplan" => plan = 0

OverInv ==
  /\ Over => Phase \in {"acceptance", "verified"} /\ ~request
  /\ Phase = "verified" => Over

ControlInv == OwnerInv /\ PlanInv /\ OverInv

FilesInv == TypeOK /\ ControlInv

(* No stamp is ever stale: when the phase that outdates them is saved,     *)
(* none is fresh any more, and a test cycle that is still running knows    *)
(* that it was overtaken.                                                  *)
FreshInv ==
  /\ \A s \in Stages : age[s] # "stale"
  /\ Outdating =>
       /\ owner.pc # "review" => age["review"] # "fresh"
       /\ owner.pc \in {"plan", "save"} => age["qa"] # "fresh"
       /\ \A t \in Testers : cycle[t] # None => cycle[t].raced

-----------------------------------------------------------------------------
(* The edges lead nowhere but to a phase, and not to `verified`.           *)
LEMMA EdgesLeadToPhases ==
  ASSUME NEW from \in Phases, NEW to \in MANUAL_TRANSITIONS[from]
  PROVE  to \in Phases /\ to # "verified"
  BY DEF MANUAL_TRANSITIONS, Phases

(* Every edge that outdates the stamps invalidates them: the rule by       *)
(* source and destination misses no entry into review.                     *)
LEMMA OutdatingInvalidates ==
  ASSUME Phase \in Phases, sidecar.epoch \in Nat,
         NEW to \in MANUAL_TRANSITIONS[Phase], Outdates(to)
  PROVE  InvalidatesStages(to)
  BY DEF MANUAL_TRANSITIONS, Phases, Outdates, InvalidatesStages, Replan

-----------------------------------------------------------------------------
LEMMA FilesInvInit == Init => FilesInv
  <1> SUFFICES ASSUME Init PROVE FilesInv
    OBVIOUS
  <1> USE AutopilotAssumption DEF Init
  <1>1. sidecar \in [phase : {"interview", "ralplan"}, epoch : {0, 1}, work : {None}]
    OBVIOUS
  <1>2. TypeOK
    <2>1. sidecar \in [phase : Phases, epoch : 0..MaxEpoch, work : Trees \cup {None}]
      BY <1>1 DEF Phases
    <2>2. qa \in Qa /\ owner \in [pc : Pc, to : Phases \cup {None}]
      BY DEF Qa, QaStatus, NotClean, Pc, Nobody
    <2>3. age \in [Stages -> Age] /\ cycle \in [Testers -> Cycle \cup {None}]
      BY DEF Stages, Age
    <2>4. plan \in 0..MaxEpoch /\ kills \in 0..MaxKills
      OBVIOUS
    <2>5. tree \in Trees /\ review \in Trees \cup {None}
      OBVIOUS
    <2>6. status \in {"running", "verified"} /\ bound \in BOOLEAN /\ request \in BOOLEAN
      OBVIOUS
    <2> HIDE DEF Init
    <2> QED BY <2>1, <2>2, <2>3, <2>4, <2>5, <2>6 DEF TypeOK
  <1>3. OwnerInv
    BY DEF OwnerInv, Nobody
  <1>4. PlanInv /\ OverInv
    BY <1>1 DEF PlanInv, OverInv, Over, Phase, Nobody
  <1> QED BY <1>2, <1>3, <1>4 DEF FilesInv, ControlInv

LEMMA TypeStep == TypeOK /\ OwnerInv /\ [Next]_vars => TypeOK'
  <1> SUFFICES ASSUME TypeOK, OwnerInv, [Next]_vars PROVE TypeOK'
    OBVIOUS
  <1> USE AutopilotAssumption
      DEF TypeOK, At, To, Exit, Nobody, Pc, Phase
  <1>1. ASSUME NEW to \in Phases, NEW glass \in Evidence, Transition(to, glass) PROVE TypeOK'
    BY <1>1 DEF Transition, files, Cycle
  <1>2. CASE InvalidateReview
    BY <1>2 DEF InvalidateReview, Stages, Age
  <1>3. CASE InvalidateQa
    BY <1>3 DEF InvalidateQa, NotClean, Qa, QaStatus, Stages, Age
  <1>4. CASE InvalidatePlan
    BY <1>4 DEF InvalidatePlan
  <1>5. CASE SaveSidecar
    <2>1. owner.to \in Phases
      BY <1>5, EdgesLeadToPhases DEF SaveSidecar, OwnerInv
    <2>2. owner.to = "ralplan" => sidecar.epoch + 1 \in 0..MaxEpoch
      BY <1>5 DEF SaveSidecar, OwnerInv
    <2> QED BY <1>5, <2>1, <2>2 DEF SaveSidecar, Stages, Age
  <1>6. CASE WriteStatus
    BY <1>6 DEF WriteStatus
  <1>7. CASE PlanStart \/ Complete
    BY <1>7 DEF PlanStart, Complete, files
  <1>8. CASE PlanEnd
    BY <1>8 DEF PlanEnd
  <1>9. CASE Accept
    BY <1>9 DEF Accept, files
  <1>10. CASE SetVerified
    BY <1>10 DEF SetVerified
  <1>11. CASE SyncSidecar
    <2>1. sidecar' \in [phase : Phases, epoch : 0..MaxEpoch, work : Trees \cup {None}]
      BY <1>11 DEF SyncSidecar, Phases
    <2> QED BY <1>11, <2>1 DEF SyncSidecar
  <1>18. CASE MergeStatus
    BY <1>18 DEF MergeStatus
  <1>12. ASSUME NEW clean \in BOOLEAN, Review(clean) PROVE TypeOK'
    BY <1>12 DEF Review, AgeNow, Stages, Age
  <1>13. CASE Freeze
    BY <1>13 DEF Freeze, WriteQa, NotClean, Qa, QaStatus, Stages, Age
  <1>14. ASSUME NEW t \in Testers, CycleStart(t) PROVE TypeOK'
    <2>1. CASE UNCHANGED cycle
      BY <1>14, <2>1 DEF CycleStart, WriteQa, NotClean, Qa, QaStatus, Stages, Age, files
    <2>2. CASE cycle' # cycle
      <3>1. Product(tree) \in Sources
        BY DEF Product, Trees
      <3>2. [product |-> Product(tree), raced |-> Outdating] \in Cycle
        BY <3>1 DEF Cycle, Outdating
      <3> QED BY <1>14, <2>2, <3>2 DEF CycleStart, files
    <2> QED BY <2>1, <2>2
  <1>15. ASSUME NEW t \in Testers, CycleEnd(t) PROVE TypeOK'
    BY <1>15 DEF CycleEnd, WriteQa, NotClean, Qa, QaStatus, Stages, Age, AgeNow, Cycle
  <1>16. CASE Cancel \/ Edit
    BY <1>16 DEF Cancel, Edit, files
  <1>19. CASE Kill
    BY <1>19 DEF Kill, files
  <1>17. CASE UNCHANGED vars
    BY <1>17 DEF vars, files
  <1> QED
    BY <1>1, <1>2, <1>3, <1>4, <1>5, <1>6, <1>7, <1>8, <1>9, <1>10, <1>11, <1>12, <1>13,
       <1>14, <1>15, <1>16, <1>17, <1>18, <1>19 DEF Next, Owner

(* Each command keeps what its next write rests on; nothing else touches   *)
(* the sidecar or the status while it holds the lease, but a cancel, which *)
(* only asks.                                                              *)
LEMMA ControlStep == FilesInv /\ [Next]_vars => ControlInv'
  <1> SUFFICES ASSUME FilesInv, [Next]_vars PROVE ControlInv'
    OBVIOUS
  <1>t. sidecar \in [phase : Phases, epoch : Nat, work : Trees \cup {None}]
        /\ owner \in [pc : Pc, to : Phases \cup {None}]
    BY AutopilotAssumption DEF FilesInv, TypeOK
  <1>i. ControlInv
    BY DEF FilesInv
  <1> USE DEF ControlInv, OwnerInv, PlanInv, OverInv, Over, Phase, At, To, Exit, Nobody
  <1>1. ASSUME NEW to \in Phases, NEW glass \in Evidence, Transition(to, glass) PROVE ControlInv'
    <2>1. to = "ralplan" /\ ~InvalidatesStages(to) => plan = 0
      BY <1>1, <1>i, <1>t DEF InvalidatesStages, Replan
    <2> QED BY <1>1, <1>i, <2>1 DEF Transition, files
  <1>2. CASE InvalidateReview \/ InvalidateQa
    BY <1>2, <1>i, <1>t DEF InvalidateReview, InvalidateQa, Pc
  <1>3. CASE InvalidatePlan
    BY <1>3, <1>i, <1>t DEF InvalidatePlan, Pc
  <1>4. CASE SaveSidecar
    <2>1. owner.to \in Phases /\ owner.to # "verified"
      BY <1>4, <1>i, <1>t, EdgesLeadToPhases DEF SaveSidecar
    <2>2. sidecar'.phase = owner.to
          /\ sidecar'.epoch = IF owner.to = "ralplan" THEN sidecar.epoch + 1 ELSE sidecar.epoch
      BY <1>4 DEF SaveSidecar
    <2> QED BY <1>4, <1>i, <1>t, <2>1, <2>2 DEF SaveSidecar, Pc
  <1>5. CASE WriteStatus
    BY <1>5, <1>i DEF WriteStatus
  <1>6. CASE PlanStart \/ Complete
    BY <1>6, <1>i, <1>t DEF PlanStart, Complete, files, Pc
  <1>7. CASE PlanEnd
    BY <1>7, <1>i DEF PlanEnd
  <1>8. CASE Accept
    BY <1>8, <1>i, <1>t DEF Accept, files, Pc
  <1>9. CASE SetVerified
    BY <1>9, <1>i, <1>t DEF SetVerified, Pc
  <1>10. CASE SyncSidecar
    <2>1. sidecar'.phase = "verified" /\ sidecar'.epoch = sidecar.epoch
      BY <1>10, <1>t DEF SyncSidecar
    <2> QED BY <1>10, <1>i, <1>t, <2>1 DEF SyncSidecar, Pc
  <1>11. CASE MergeStatus
    BY <1>11, <1>i DEF MergeStatus
  <1>12. CASE \E clean \in BOOLEAN : Review(clean)
    BY <1>12, <1>i DEF Review
  <1>13. CASE Freeze \/ \E t \in Testers : CycleStart(t) \/ CycleEnd(t)
    BY <1>13, <1>i DEF Freeze, CycleStart, CycleEnd, WriteQa, files
  <1>14. CASE Cancel \/ Edit
    BY <1>14, <1>i DEF Cancel, Edit, files
  <1>15. CASE Kill
    BY <1>15, <1>i DEF Kill, files
  <1>16. CASE UNCHANGED vars
    BY <1>16, <1>i DEF vars, files
  <1> QED
    BY <1>1, <1>2, <1>3, <1>4, <1>5, <1>6, <1>7, <1>8, <1>9, <1>10, <1>11, <1>12, <1>13,
       <1>14, <1>15, <1>16 DEF Next, Owner

LEMMA FilesInvStep == FilesInv /\ [Next]_vars => FilesInv'
  BY TypeStep, ControlStep DEF FilesInv, ControlInv

(* Whatever is killed between two writes, the files of a run tell one      *)
(* story.                                                                  *)
THEOREM FilesAlwaysAgree == Spec => []FilesAgree
  <1>1. FilesInv => FilesAgree
    BY DEF FilesInv, ControlInv, FilesAgree, PlanInv, OverInv
  <1> QED BY <1>1, FilesInvInit, FilesInvStep, PTL DEF Spec

-----------------------------------------------------------------------------
LEMMA FreshInvInit == Init => FreshInv
  BY DEF Init, FreshInv, Outdating, Nobody, Stages

(* Between the first invalidation and the save of the phase every stamp    *)
(* that is written comes from a command that was overtaken.                *)
LEMMA FreshInvStep == FilesInv /\ FreshInv /\ [Next]_vars => FreshInv'
  <1> SUFFICES ASSUME FilesInv, FreshInv, [Next]_vars PROVE FreshInv'
    OBVIOUS
  <1>t. /\ sidecar \in [phase : Phases, epoch : Nat, work : Trees \cup {None}]
        /\ owner \in [pc : Pc, to : Phases \cup {None}]
        /\ age \in [Stages -> Age] /\ cycle \in [Testers -> Cycle \cup {None}]
    BY AutopilotAssumption DEF FilesInv, TypeOK
  <1>o. OwnerInv
    BY DEF FilesInv, ControlInv
  <1> USE DEF FreshInv, Outdating, Outdates, At, To, Exit, Nobody, Stages, Phase
  <1>1. ASSUME NEW to \in Phases, NEW glass \in Evidence, Transition(to, glass) PROVE FreshInv'
    <2>1. Outdates(to) => InvalidatesStages(to)
      BY <1>1, <1>t, OutdatingInvalidates DEF Transition
    <2>2. age' = age /\ sidecar' = sidecar /\ owner'.to = to
          /\ owner'.pc = IF InvalidatesStages(to) THEN "review" ELSE "save"
      BY <1>1 DEF Transition, files
    <2>3. ASSUME Outdates(to), NEW t \in Testers, cycle'[t] # None PROVE cycle'[t].raced
      BY <1>1, <1>t, <2>3 DEF Transition, Cycle
    <2> QED BY <2>1, <2>2, <2>3
  <1>2. CASE InvalidateReview
    BY <1>2, <1>t DEF InvalidateReview, Pc
  <1>3. CASE InvalidateQa
    BY <1>3, <1>t DEF InvalidateQa, Pc
  <1>4. CASE InvalidatePlan
    BY <1>4, <1>t, <1>o DEF InvalidatePlan, Pc, OwnerInv
  <1>5. CASE SaveSidecar
    <2>1. owner'.pc = "status"
      BY <1>5, <1>t DEF SaveSidecar, Pc
    <2>2. \A s \in Stages : age'[s] # "stale"
      BY <1>5 DEF SaveSidecar
    <2> QED BY <2>1, <2>2
  <1>6. CASE WriteStatus \/ PlanStart \/ PlanEnd \/ Complete
    BY <1>6, <1>t DEF WriteStatus, PlanStart, PlanEnd, Complete, files, Pc
  <1>7. CASE Accept \/ SetVerified
    BY <1>7, <1>t DEF Accept, SetVerified, files, Pc
  <1>8. CASE SyncSidecar \/ MergeStatus
    BY <1>8, <1>t DEF SyncSidecar, MergeStatus, Pc
  <1>9. ASSUME NEW clean \in BOOLEAN, Review(clean) PROVE FreshInv'
    BY <1>9, <1>t DEF Review, AgeNow
  <1>10. CASE Freeze
    BY <1>10, <1>t DEF Freeze, WriteQa
  <1>11. ASSUME NEW t \in Testers, CycleStart(t) PROVE FreshInv'
    <2>1. CASE UNCHANGED cycle /\ WriteQa(NotClean("blocked"), "none")
      BY <2>1, <1>t DEF WriteQa
    <2>2. ASSUME cycle' = [cycle EXCEPT ![t] = [product |-> Product(tree), raced |-> Outdating]],
                 UNCHANGED <<files, owner, tree>>
          PROVE FreshInv'
      <3>1. age' = age /\ owner' = owner /\ sidecar' = sidecar
        BY <2>2 DEF files
      <3>2. ASSUME NEW u \in Testers, cycle'[u] # None, Outdating PROVE cycle'[u].raced
        <4>1. CASE u = t
          <5>1. cycle'[u].raced = Outdating
            BY <4>1, <2>2, <1>t
          <5> QED BY <5>1, <3>2
        <4>2. CASE u # t
          BY <4>2, <3>2, <2>2, <1>t
        <4> QED BY <4>1, <4>2
      <3> QED BY <3>1, <3>2
    <2> QED BY <1>11, <2>1, <2>2 DEF CycleStart
  <1>12. ASSUME NEW t \in Testers, CycleEnd(t) PROVE FreshInv'
    BY <1>12, <1>t DEF CycleEnd, WriteQa, AgeNow, Cycle
  <1>13. CASE Cancel \/ Edit
    BY <1>13 DEF Cancel, Edit, files
  <1>14. CASE Kill
    BY <1>14, <1>t DEF Kill, files
  <1>15. CASE UNCHANGED vars
    BY <1>15 DEF vars, files
  <1> QED
    BY <1>1, <1>2, <1>3, <1>4, <1>5, <1>6, <1>7, <1>8, <1>9, <1>10, <1>11, <1>12, <1>13,
       <1>14, <1>15 DEF Next, Owner

(* No gate into qa or acceptance is opened by a stamp from before the last *)
(* entry into implement, rework, review or a replan.                       *)
THEOREM StampsStayFresh == Spec => StampsAreFresh
  <1>1. FreshInv /\ [Next]_vars =>
          [At("free") => /\ owner'.to = "qa" => age["review"] # "stale"
                         /\ owner'.to = "acceptance" => age["qa"] # "stale"]_vars
    BY DEF FreshInv, Stages
  <1> QED
    BY <1>1, FilesInvInit, FilesInvStep, FreshInvInit, FreshInvStep, PTL
    DEF Spec, StampsAreFresh
================================================================================
