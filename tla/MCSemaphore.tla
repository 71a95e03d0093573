---------------------------- MODULE MCSemaphore -----------------------------
(* Instances of Semaphore for TLC. *)
EXTENDS Semaphore, TLC

Symmetry == Permutations(Slots) \cup Permutations(Sems)

\* History tells states apart only where UnitsConserved looks at it.
View == <<sems, handles, procs, next_pid, may,
          IF may \subseteq {"crowd", "no_memory"} THEN due ELSE <<>>>>
=============================================================================
