----------------------------- MODULE Allocator ------------------------------
(***************************************************************************)
(* What the callers of mm_malloc and mm_free rely on: a region that they   *)
(* are given lies in the heap, is as large as they asked for, and shares   *)
(* no byte with a region that somebody else has.                           *)
(***************************************************************************)
EXTENDS Integers

CONSTANTS HeapSize, Requests

VARIABLE owned     \* the regions in use: [ptr, n]

Region == [ptr : 0 .. HeapSize, n : Requests]
Of(r) == r.ptr .. r.ptr + r.n - 1

Init == owned = {}

Malloc(r) ==
    /\ Of(r) \subseteq 0 .. HeapSize - 1
    /\ \A s \in owned : Of(r) \cap Of(s) = {}
    /\ owned' = owned \cup {r}

Free(r) ==
    /\ r \in owned
    /\ owned' = owned \ {r}

Next == \E r \in Region : Malloc(r) \/ Free(r)

Spec == Init /\ [][Next]_owned
=============================================================================
