------------------------------ MODULE MCTeamTasks ------------------------------
(***************************************************************************)
(* Instances of TeamTasks for TLC: a batch of two tasks, the second after  *)
(* the first, and a worker each may take over from.                        *)
(***************************************************************************)
EXTENDS TeamTasks

TwoInARow == <<{}, {1}>>
================================================================================
