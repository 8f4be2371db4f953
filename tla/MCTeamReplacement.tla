--------------------------- MODULE MCTeamReplacement ---------------------------
(***************************************************************************)
(* An instance of TeamReplacement for TLC. Keys are interchangeable, so it *)
(* is enough to look at callers that take the least one that has no log.   *)
(* Symmetry would not be sound with a liveness property; the constraint    *)
(* forbids requests only, which no fairness asks for.                      *)
(***************************************************************************)
EXTENDS TeamReplacement

KeysInOrder ==
  \A k, l \in Keys :
    l < k /\ log[k].state = "absent" /\ log'[k].state # "absent" => log[l].state # "absent"
================================================================================
