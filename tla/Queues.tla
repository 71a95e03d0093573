------------------------------- MODULE Queues -------------------------------
(***************************************************************************)
(* The kernel's linked queues of processes, as sequences: the ready queues *)
(* of the scheduler and the wait queues of the semaphores.                 *)
(***************************************************************************)
EXTENDS Integers, Sequences, FiniteSets

\* The elements of q that lie in T, in the order of q.  This is SelectSeq,
\* stated by position instead of by recursion so that proofs can use it.
Filter(q, T) ==
    LET pos == {i \in DOMAIN q : q[i] \in T}
    IN  [k \in 1 .. Cardinality(pos) |->
            q[CHOOSE i \in pos : Cardinality({j \in pos : j =< i}) = k]]

Members(q) == {q[i] : i \in DOMAIN q}
=============================================================================
