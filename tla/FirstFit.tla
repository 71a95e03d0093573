------------------------------ MODULE FirstFit ------------------------------
(***************************************************************************)
(* The heap of Kernel/mm/first_fit.c, the allocator that mm_malloc and     *)
(* mm_free use by default.                                                 *)
(*                                                                         *)
(*   mem     the block headers by address (offset from heap_start): size,  *)
(*           is_free and next                                              *)
(*   count   current_allocated_blocks                                      *)
(*   owned   the regions that callers of mm_malloc have: ptr, and the size *)
(*           that they asked for                                           *)
(*   freer   the first_fit_free under way, if there is one: what it does   *)
(*           next (pc), its block, and the cursor of coalesce_blocks       *)
(*                                                                         *)
(* The allocator does not disable interrupts.  System calls run with       *)
(* interrupts disabled anyway, so their calls of it are never interrupted. *)
(* The proc_exit that trampoline makes when a program's entry function     *)
(* returns runs with interrupts enabled.  Until it has set the state to    *)
(* EXITED, after which a process that is interrupted never resumes, it     *)
(* frees the stacks, exit results and descriptor tables of zombies in      *)
(* collect_zombies, and the unlinked semaphores whose last handle it       *)
(* closes.  Preempted says whether the timer may switch to another process *)
(* in the middle of such a first_fit_free.  The other process then         *)
(* allocates; that it frees too is left out.                               *)
(***************************************************************************)
EXTENDS Integers, FiniteSets

CONSTANTS
    HeapSize,        \* bytes in the heap
    HEADER,          \* sizeof(memory_block_t)
    MIN_BLOCK_SIZE,
    ALIGN,           \* 8
    WORD,            \* 2^64: sizes are unsigned integers below it
    Requests,        \* the sizes that callers ask for
    NULL,            \* no address
    Preempted

ASSUME FirstFitAssumption ==
    /\ HeapSize \in Nat /\ ALIGN \in Nat \ {0} /\ WORD \in Nat
    /\ HEADER \in Nat \ {0} /\ MIN_BLOCK_SIZE \in Nat \ {0}
    /\ HEADER % ALIGN = 0 /\ MIN_BLOCK_SIZE % ALIGN = 0 /\ WORD % ALIGN = 0
    /\ HEADER < HeapSize /\ HeapSize < WORD
    /\ Requests \subseteq 1 .. WORD - 1
    /\ Preempted \in BOOLEAN
    /\ NULL \notin Nat

VARIABLES mem, count, owned, freer

vars == <<mem, count, owned, freer>>

Addrs == {a \in 0 .. HeapSize : a % ALIGN = 0}

\* Addresses that hold no header.
NoHeader == [size |-> 0, is_free |-> FALSE, next |-> NULL]
Resting == [pc |-> "idle", block |-> NULL, cursor |-> NULL]

-----------------------------------------------------------------------------
\* Places in the list of blocks: each block takes up at least its header.
Places == 0 .. HeapSize \div HEADER

\* The list from heap_start: Nth(m)[k] is its k-th block, or NULL past its end.
Nth(m) ==
    LET at[k \in Places] ==
            IF k = 0 THEN 0
            ELSE IF at[k - 1] = NULL THEN NULL ELSE m[at[k - 1]].next
    IN  at
Blocks(m) == LET at == Nth(m) IN {at[k] : k \in Places} \ {NULL}

\* Faulty variant of Rounded: the size is kept in a narrower integer.
Rounded_narrow(n) ==
    LET sum == (n + ALIGN - 1) % (WORD \div 4)
        size == sum - (sum % ALIGN)
    IN  IF size < MIN_BLOCK_SIZE THEN MIN_BLOCK_SIZE ELSE size

\* What first_fit_malloc makes of a size: (size + 7) & ~7, and at least
\* MIN_BLOCK_SIZE.  The sum wraps around.
Rounded(n) ==
    LET sum == (n + ALIGN - 1) % WORD
        size == sum - (sum % ALIGN)
    IN  IF size < MIN_BLOCK_SIZE THEN MIN_BLOCK_SIZE ELSE size

\* The first block of the list that is free and large enough, or NULL.
find_free_block(m, size) ==
    LET at == Nth(m)
        fits == {k \in Places : at[k] # NULL /\ m[at[k]].is_free /\ m[at[k]].size >= size}
    IN  IF fits = {} THEN NULL ELSE at[CHOOSE k \in fits : \A j \in fits : k =< j]

\* Faulty variant of split_block: room for the header of the rest is not asked for.
split_block_tight(m, b, size) ==
    LET rest == m[b].size - size
        new == b + HEADER + size
    IN  IF rest < MIN_BLOCK_SIZE THEN m
        ELSE [m EXCEPT ![new] = [size |-> IF rest > HEADER THEN rest - HEADER ELSE 0,
                                 is_free |-> TRUE, next |-> m[b].next],
                       ![b].size = size, ![b].next = new]

\* Faulty variant of split_block: the rest is not marked free.
split_block_rest_in_use(m, b, size) ==
    LET rest == m[b].size - size
        new == b + HEADER + size
    IN  IF rest < HEADER + MIN_BLOCK_SIZE THEN m
        ELSE [m EXCEPT ![new] = [size |-> rest - HEADER, is_free |-> FALSE, next |-> m[b].next],
                       ![b].size = size, ![b].next = new]

\* The rest becomes a block of its own if a header and MIN_BLOCK_SIZE fit in it.
split_block(m, b, size) ==
    LET rest == m[b].size - size
        new == b + HEADER + size
    IN  IF rest < HEADER + MIN_BLOCK_SIZE THEN m
        ELSE [m EXCEPT ![new] = [size |-> rest - HEADER, is_free |-> TRUE, next |-> m[b].next],
                       ![b].size = size, ![b].next = new]

\* current_end == current->next.
Adjacent(m, b) == b + HEADER + m[b].size = m[b].next

-----------------------------------------------------------------------------
Init ==
    /\ mem = [a \in Addrs |-> IF a = 0 THEN [size |-> HeapSize - HEADER, is_free |-> TRUE,
                                             next |-> NULL]
                              ELSE NoHeader]
    /\ count = 0
    /\ owned = {}
    /\ freer = Resting

first_fit_malloc(n) ==
    LET size == Rounded(n)
        b == find_free_block(mem, size)
    IN  /\ freer.pc = "idle" \/ Preempted
        /\ b # NULL
        /\ mem' = [split_block(mem, b, size) EXCEPT ![b].is_free = FALSE]
        /\ count' = count + 1
        /\ owned' = owned \cup {[ptr |-> b + HEADER, n |-> n]}
        /\ UNCHANGED freer

-----------------------------------------------------------------------------
(* first_fit_free, in the steps between which it can be interrupted *)

\* The checks, and the header is marked free.
first_fit_free(r) ==
    LET b == r.ptr - HEADER
    IN  /\ freer.pc = "idle"
        /\ r \in owned
        /\ ~mem[b].is_free
        /\ mem' = [mem EXCEPT ![b].is_free = TRUE]
        /\ count' = count - 1
        /\ owned' = owned \ {r}
        /\ freer' = [pc |-> "wipe", block |-> b, cursor |-> NULL]

\* memset(ptr, 0, block->size); coalesce_blocks starts at heap_start.
Wipe ==
    /\ freer.pc = "wipe"
    /\ freer' = [freer EXCEPT !.pc = "look", !.cursor = 0]
    /\ UNCHANGED <<mem, count, owned>>

\* Faulty variant of Merges: only the block that was freed takes its successor in.
Merges_forward(c) ==
    mem[c].is_free /\ mem[mem[c].next].is_free /\ Adjacent(mem, c) /\ c = freer.block

\* coalesce_blocks merges the block at its cursor with the next one.
Merges(c) == mem[c].is_free /\ mem[mem[c].next].is_free /\ Adjacent(mem, c)

Look ==
    LET c == freer.cursor
    IN  /\ freer.pc = "look"
        /\ freer' = IF c = NULL \/ mem[c].next = NULL THEN Resting
                    ELSE IF Merges(c) THEN [freer EXCEPT !.pc = "grow"]
                    ELSE [freer EXCEPT !.cursor = mem[c].next]
        /\ UNCHANGED <<mem, count, owned>>

\* current->size += sizeof(memory_block_t) + next_block->size
Grow ==
    LET c == freer.cursor
    IN  /\ freer.pc = "grow"
        /\ mem' = [mem EXCEPT ![c].size = @ + HEADER + mem[mem[c].next].size]
        /\ freer' = [freer EXCEPT !.pc = "link"]
        /\ UNCHANGED <<count, owned>>

\* current->next = next_block->next; the header that went is forgotten.
Link ==
    LET c == freer.cursor
        gone == mem[c].next
    IN  /\ freer.pc = "link"
        /\ mem' = [mem EXCEPT ![c].next = mem[gone].next, ![gone] = NoHeader]
        /\ freer' = [freer EXCEPT !.pc = "look"]
        /\ UNCHANGED <<count, owned>>

Next ==
    \/ \E n \in Requests : first_fit_malloc(n)
    \/ \E r \in owned : first_fit_free(r)
    \/ Wipe \/ Look \/ Grow \/ Link

Spec == Init /\ [][Next]_vars

-----------------------------------------------------------------------------
(* Properties *)

Bytes(a, n) == a .. a + n - 1
Idle == freer.pc = "idle"

\* The list tiles the heap: each block ends where the next one begins and the
\* last one at the end of the heap.  coalesce_blocks and first_fit_get_info rely
\* on it.
TilesHeap ==
    freer.pc # "link" =>
        \A b \in Blocks(mem) :
            b + HEADER + mem[b].size = IF mem[b].next = NULL THEN HeapSize ELSE mem[b].next

\* Blocks in use and regions that callers have are the same thing, and count,
\* which is current_allocated_blocks, counts them.
InUseIsOwned ==
    /\ {b \in Blocks(mem) : ~mem[b].is_free} = {r.ptr - HEADER : r \in owned}
    /\ count = Cardinality(owned)

\* first_fit_free leaves no two free blocks side by side, so that a request
\* fails only if no hole between regions in use is large enough for it; with
\* nothing in use the heap is one block again.
Coalesced ==
    Idle => /\ \A b \in Blocks(mem) :
                 mem[b].is_free /\ mem[b].next # NULL => ~mem[mem[b].next].is_free
            /\ owned = {} => Blocks(mem) = {0}

\* first_fit_free clears memory that nobody else has been given meanwhile.
WipesOnlyItsOwn ==
    freer.pc = "wipe" =>
        \A r \in owned :
            Bytes(freer.block + HEADER, mem[freer.block].size) \cap Bytes(r.ptr, r.n) = {}

A == INSTANCE Allocator

\* Whatever the order of the calls, callers are given what Allocator promises.
ImplementsAllocator == A!Spec
=============================================================================
