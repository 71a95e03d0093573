------------------------------- MODULE Buddy --------------------------------
(***************************************************************************)
(* The heap of Kernel/mm/buddy_system.c, the allocator behind mm_malloc    *)
(* and mm_free when the kernel is built with USE_BUDDY_SYSTEM.             *)
(*                                                                         *)
(*   free_lists  for each order, the indices of the free blocks in the     *)
(*               order of the list                                         *)
(*   meta        the bytes of order_map and, behind it, of used_map: an    *)
(*               index past the end of the first falls into the second     *)
(*   owned       the regions that callers have: ptr, as an offset from     *)
(*               aligned_start, and the size they asked for                *)
(*                                                                         *)
(* Orders are counted from BUDDY_MIN_ORDER, so a block of order k has 2^k  *)
(* pages.  Pages counts what align_up_ptr and align_down_ptr leave of the  *)
(* memory that main() passes.  The links of the free lists are kept in the *)
(* blocks; that callers write over those of a block they should not have   *)
(* been given is left out, and so are the statistics.                      *)
(***************************************************************************)
EXTENDS Integers, Sequences, SequencesExt

CONSTANTS
    PAGE,       \* BUDDY_PAGE_SIZE
    Pages,      \* num_pages, such that the maps take less than half of them
    MAX_ORDER,  \* BUDDY_MAX_ORDERS - 1 - BUDDY_MIN_ORDER
    Requests    \* the sizes that callers ask for

VARIABLES free_lists, meta, owned

vars == <<free_lists, meta, owned>>

NotHead == 255      \* order_map of a page that is not the first of a block

MetaPages == (2 * Pages + PAGE - 1) \div PAGE
RegionPages == Pages - MetaPages

-----------------------------------------------------------------------------
\* The least order of at least that many bytes, or top if that is too small.
LeastOrder(bytes, top) ==
    CHOOSE k \in 0 .. top :
        /\ k = top \/ PAGE * 2^k >= bytes
        /\ \A j \in 0 .. k - 1 : PAGE * 2^j < bytes

max_order == LeastOrder(Pages * PAGE, MAX_ORDER)
Orders == 0 .. max_order

size_to_order(size) == LeastOrder(size, max_order)

\* idx ^ (1 << order).
buddy_index(idx, order) ==
    IF (idx \div 2^order) % 2 = 0 THEN idx + 2^order ELSE idx - 2^order

Indices == 0 .. 2 * Pages + 2^MAX_ORDER
order_map(m, idx) == m[idx]
used_map(m, idx) == m[Pages + idx]

\* The two maps after order_map[idx] = order and then used_map[idx] = used.
Mark(m, idx, order, used) == [m EXCEPT ![idx] = order, ![Pages + idx] = used]

add_to_free_list(lists, idx, order) == [lists EXCEPT ![order] = <<idx>> \o @]

-----------------------------------------------------------------------------
\* The blocks that buddy_init makes of the pages from offset on, the largest
\* that fit first.  Their indices are counted from aligned_start.
InitialBlocks ==
    LET carve[offset \in 0 .. RegionPages] ==
            LET least == size_to_order((RegionPages - offset) * PAGE)
                order == IF 2^least > RegionPages - offset THEN least - 1 ELSE least
            IN  IF offset = RegionPages THEN <<>>
                ELSE <<[idx |-> MetaPages + offset, order |-> order]>> \o carve[offset + 2^order]
    IN  carve[0]

\* buddy_init.
Init ==
    /\ free_lists = FoldLeft(LAMBDA lists, b : add_to_free_list(lists, b.idx, b.order),
                             [k \in Orders |-> <<>>], InitialBlocks)
    /\ meta = FoldLeft(LAMBDA m, b : Mark(m, b.idx, b.order, 0),
                       [i \in Indices |-> IF i < Pages THEN NotHead ELSE 0], InitialBlocks)
    /\ owned = {}

\* A block of order k is taken and divided until one of the order is left: the
\* part that is given back at each turn is the buddy for the order before it.
buddy_alloc(size) ==
    LET order == size_to_order(size)
        fits == {k \in Orders : k >= order /\ free_lists[k] # <<>>}
        k == CHOOSE x \in fits : \A y \in fits : x =< y
        idx == Head(free_lists[k])
        turns == [t \in 1 .. k - order |-> k - t]
        Other(j) == buddy_index(idx, j + 1)
    IN  /\ fits # {}
        /\ free_lists' = FoldLeft(LAMBDA lists, j : add_to_free_list(lists, Other(j), j),
                                  [free_lists EXCEPT ![k] = Tail(@)], turns)
        /\ meta' = Mark(FoldLeft(LAMBDA m, j : Mark(m, Other(j), j, 0), meta, turns),
                        idx, order, 1)
        /\ owned' = owned \cup {[ptr |-> (MetaPages + idx) * PAGE, n |-> size]}

\* One turn of the loop of buddy_free that merges the block with its buddy.
Merged(s) ==
    LET b == buddy_index(s.idx, s.order)
        idx == IF b < s.idx THEN b ELSE s.idx
    IN  IF /\ s.order < max_order
           /\ b < RegionPages
           /\ order_map(s.meta, b) = s.order
           /\ used_map(s.meta, b) = 0
           /\ Contains(s.lists[s.order], b)
        THEN [idx |-> idx, order |-> s.order + 1,
              lists |-> [s.lists EXCEPT ![s.order] = SelectSeq(@, LAMBDA i : i # b)],
              meta |-> [s.meta EXCEPT ![idx] = s.order + 1]]
        ELSE s

\* A pointer past region_end, or to what is not the start of a block in use, is
\* ignored.
buddy_free(r) ==
    LET idx == r.ptr \div PAGE - MetaPages
        valid == /\ r.ptr < Pages * PAGE
                 /\ order_map(meta, idx) # NotHead
                 /\ used_map(meta, idx) # 0
        start == [idx |-> idx, order |-> order_map(meta, idx), lists |-> free_lists,
                  meta |-> [meta EXCEPT ![Pages + idx] = 0]]
        turn[n \in 0 .. max_order] == IF n = 0 THEN start ELSE Merged(turn[n - 1])
        last == turn[max_order]
    IN  /\ r \in owned
        /\ owned' = owned \ {r}
        /\ IF valid
           THEN /\ free_lists' = add_to_free_list(last.lists, last.idx, last.order)
                /\ meta' = last.meta
           ELSE UNCHANGED <<free_lists, meta>>

Next ==
    \/ \E size \in Requests : buddy_alloc(size)
    \/ \E r \in owned : buddy_free(r)

Spec == Init /\ [][Next]_vars

-----------------------------------------------------------------------------
(* Properties *)

A == INSTANCE Allocator WITH HeapSize <- Pages * PAGE

\* Whoever calls mm_malloc is given a region of the heap that is as large as asked
\* for and that nobody else has, whatever buddy_alloc and buddy_free did before.
ImplementsAllocator == A!Spec
=============================================================================
