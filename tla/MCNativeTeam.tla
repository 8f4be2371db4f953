------------------------------ MODULE MCNativeTeam ------------------------------
(***************************************************************************)
(* Instances of NativeTeam for TLC: a task that may be recovered, or two,  *)
(* the second after the first, that may not.                               *)
(***************************************************************************)
EXTENDS NativeTeam, TLC

ProcSymmetry == Permutations(Procs)

ThirdAfterSecond == <<{}, {}, {2}>>

OneOrTwo == {{1}, {2, 3}}

FirstRecovers == <<1, 0, 0>>
================================================================================
