------------------------------ MODULE MCDurableJob ------------------------------
(***************************************************************************)
(* The instance of DurableJob with three launchers, cut down for TLC to    *)
(* what its counterexample needs.                                          *)
(***************************************************************************)
EXTENDS DurableJob, TLC

(* Whoever does not start the job retries it, one retry like the other.    *)
RetrySymmetry == Permutations(Callers \ {Starter})

(* Cancels of the first attempt only: what follows a request for a later   *)
(* one is not explored.                                                    *)
CancelsFirst == target.attempt <= 1
================================================================================
