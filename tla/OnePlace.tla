------------------------------ MODULE OnePlace ------------------------------
(***************************************************************************)
(* What the mvar program promises: a place that holds one value.  A writer *)
(* fills it when it is empty and a reader empties it when it is full, so   *)
(* that each value written is read once, by one reader.  A value is lost   *)
(* only with a process that is killed while it has it.                     *)
(***************************************************************************)
EXTENDS Sequences

CONSTANTS Procs, Letters, None

VARIABLES
    box,    \* the value in the place, as a sequence of at most one
    got     \* for each process, the value that it has read and not yet printed

Init == box = <<>> /\ got = [p \in Procs |-> None]

Put(v) ==
    /\ box = <<>>
    /\ box' = <<v>>
    /\ UNCHANGED got

Take(p) ==
    /\ box # <<>>
    /\ got[p] = None
    /\ got' = [got EXCEPT ![p] = Head(box)]
    /\ box' = <<>>

\* The value was printed, or the process killed before it printed it.
Done(p) ==
    /\ got' = [got EXCEPT ![p] = None]
    /\ UNCHANGED box

\* The process that was about to hand the value over, or to read it, is killed.
Lose ==
    /\ box' = <<>>
    /\ UNCHANGED got

Next == Lose \/ (\E v \in Letters : Put(v)) \/ \E p \in Procs : Take(p) \/ Done(p)

Spec == Init /\ [][Next]_<<box, got>>
=============================================================================
