----------------------------- MODULE JobLifecycle -----------------------------
(***************************************************************************)
(* What the durable job promises to whoever watches it, without the        *)
(* processes that race on it: the record only moves along legal            *)
(* transitions, a terminal attempt is final, a new attempt starts only     *)
(* from a retryable one and within the budget, and the prompt of an        *)
(* attempt is handed to at most one runner, only while it is running.      *)
(***************************************************************************)
EXTENDS JobRecord

VARIABLES state, attempt, admitted   \* admitted: attempts whose prompt was handed out

vars == <<state, attempt, admitted>>

Init == state = Absent /\ attempt = 0 /\ admitted = {}

Create ==
  /\ state = Absent
  /\ state' = "queued"
  /\ attempt' = 1
  /\ UNCHANGED admitted

Advance ==
  /\ state \in JobState
  /\ state' \in LEGAL_TRANSITIONS[state]
  /\ UNCHANGED <<attempt, admitted>>

Admit ==
  /\ state = "running"
  /\ attempt \notin admitted
  /\ admitted' = admitted \cup {attempt}
  /\ UNCHANGED <<state, attempt>>

Requeue ==
  /\ state \in RETRYABLE_TERMINAL_STATES
  /\ attempt < Budget
  /\ state' = "queued"
  /\ attempt' = attempt + 1
  /\ UNCHANGED admitted

Collect ==
  /\ state \in TERMINAL_STATES
  /\ state' = Absent
  /\ attempt' = 0
  /\ UNCHANGED admitted

Next == Create \/ Advance \/ Admit \/ Requeue \/ Collect

Spec == Init /\ [][Next]_vars
===============================================================================
