--------------------------- MODULE FirstFitProofs ---------------------------
(***************************************************************************)
(* Proofs about FirstFit, for any heap, header, alignment and requests: as *)
(* long as no first_fit_free is interrupted, the list of blocks tiles the  *)
(* heap, blocks in use are the regions that callers have, free blocks are  *)
(* merged, and, for sizes that rounding up does not wrap around, callers   *)
(* are given what Allocator promises.                                      *)
(***************************************************************************)
EXTENDS FirstFit, QueueProofs

Header == [size : Nat, is_free : BOOLEAN, next : Addrs \cup {NULL}]

-----------------------------------------------------------------------------
(* The list of blocks *)

\* f is the list from heap_start up to its n-th block.
Follows(m, f, n) ==
    \A k \in 0 .. n :
        f[k] = IF k = 0 THEN 0 ELSE IF f[k - 1] = NULL THEN NULL ELSE m[f[k - 1]].next

\* The list can be followed as far as the heap reaches.
LEMMA NthFollows ==
    ASSUME NEW m
    PROVE  Follows(m, Nth(m), HeapSize \div HEADER)
<1> DEFINE N == HeapSize \div HEADER
           at(f, k) == IF k = 0 THEN 0 ELSE IF f[k - 1] = NULL THEN NULL ELSE m[f[k - 1]].next
           Partial(n) == \E f : f = [k \in 0 .. n |-> at(f, k)]
<1>1. N \in Nat
  BY FirstFitAssumption
<1>2. \A n \in 0 .. N : Partial(n)
  <2> DEFINE S == {n \in 0 .. N : ~ Partial(n)}
  <2>1. SUFFICES ASSUME S # {} PROVE FALSE
    OBVIOUS
  <2>2. PICK n \in S : \A y \in S : n =< y
    <3>1. S \in SUBSET Nat
      BY <1>1
    <3> HIDE DEF S
    <3>2. QED
      BY <2>1, <3>1, SmallestOf
  <2>3. CASE n = 0
    <3> DEFINE g == [k \in 0 .. 0 |-> 0]
    <3>1. g = [k \in 0 .. 0 |-> at(g, k)]
      OBVIOUS
    <3>2. QED
      BY <2>2, <2>3, <3>1
  <2>4. CASE n # 0
    <3>1. n - 1 \in 0 .. N /\ n - 1 \notin S /\ n \in Nat
      BY <1>1, <2>2, <2>4
    <3>2. PICK f : f = [k \in 0 .. n - 1 |-> at(f, k)]
      BY <3>1
    <3> DEFINE g == [k \in 0 .. n |-> IF k = n THEN at(f, n) ELSE f[k]]
    <3>3. \A k \in 0 .. n : k - 1 \in 0 .. n - 1 \/ k = 0
      BY <3>1
    <3>4. \A k \in 0 .. n - 1 : k \in 0 .. n /\ k # n
      BY <3>1
    <3>5. \A k \in 0 .. n - 1 : g[k] = f[k]
      BY <3>4
    <3>6. \A k \in 0 .. n : at(g, k) = at(f, k)
      BY <3>3, <3>5
    <3>7. \A k \in 0 .. n : g[k] = at(f, k)
      BY <3>1, <3>2
    <3>8. g = [k \in 0 .. n |-> at(g, k)]
      BY <3>6, <3>7
    <3>9. QED
      BY <2>2, <3>8
  <2>5. QED
    BY <2>3, <2>4
<1>3. PICK f : f = [k \in Places |-> at(f, k)]
  BY <1>1, <1>2 DEF Places
<1>4. Nth(m) = [k \in Places |-> at(Nth(m), k)]
  BY <1>3 DEF Nth
<1>5. QED
  BY <1>4 DEF Follows, Places

\* B is the blocks of a list that starts at heap_start and grows upwards: the next
\* block of each is the least one above it, and leaves room for its header.
Chain(m, B) ==
    /\ B \subseteq Addrs /\ 0 \in B
    /\ \A b \in B : m[b].next \in B \cup {NULL} /\ b + HEADER =< HeapSize
    /\ \A b \in B : m[b].next # NULL => b + HEADER =< m[b].next
    /\ \A b, x \in B : b < x => m[b].next # NULL /\ m[b].next =< x

\* Addresses are numbers, NULL is none.
LEMMA AddrFacts == Addrs \subseteq Nat /\ 0 \in Addrs /\ NULL \notin Nat
BY FirstFitAssumption DEF Addrs

\* The heap has fewer headers than places that Nth looks at.
LEMMA PlacesEnough ==
    ASSUME NEW c \in Nat, NEW h \in Nat \ {0}
    PROVE  c \div h \in Nat /\ c < (c \div h + 1) * h
OBVIOUS

\* One more of what a product counts.
LEMMA OneMore ==
    ASSUME NEW k \in Nat, NEW h \in Nat
    PROVE  k * h \in Nat /\ (k + 1) * h = k * h + h /\ 0 * h = 0
OBVIOUS

\* Following next from heap_start visits exactly the blocks of the chain.
LEMMA ChainBlocks ==
    ASSUME NEW m, NEW B, Chain(m, B)
    PROVE  Blocks(m) = B
<1> DEFINE N == HeapSize \div HEADER
<1>1. PICK at : at = Nth(m) /\ Follows(m, at, N)
  BY NthFollows
<1>2. N \in Nat /\ HeapSize < (N + 1) * HEADER /\ HEADER \in Nat \ {0} /\ HeapSize \in Nat
  BY FirstFitAssumption, PlacesEnough
<1>3. Blocks(m) = {at[k] : k \in 0 .. N} \ {NULL}
  BY <1>1 DEF Blocks, Places
<1> HIDE DEF N
<1>4. at[0] = 0 /\ B \subseteq Nat /\ 0 \in B /\ NULL \notin B
  <2>1. at[0] = 0
    BY <1>1, <1>2 DEF Follows
  <2>2. QED
    BY <2>1, AddrFacts DEF Chain
<1>5. \A k \in 0 .. N : k # 0 =>
         k - 1 \in 0 .. N /\ at[k] = IF at[k - 1] = NULL THEN NULL ELSE m[at[k - 1]].next
  BY <1>1, <1>2 DEF Follows
<1>6. \A k \in 0 .. N : at[k] \in B \cup {NULL}
  <2> DEFINE S == {k \in 0 .. N : at[k] \notin B \cup {NULL}}
  <2>1. SUFFICES ASSUME S # {} PROVE FALSE
    OBVIOUS
  <2>2. PICK k \in S : \A y \in S : k =< y
    <3>1. S \in SUBSET Nat
      BY <1>2
    <3> HIDE DEF S
    <3>2. QED
      BY <2>1, <3>1, SmallestOf
  <2>3. k # 0 /\ k \in 0 .. N
    BY <1>4, <2>2
  <2>4. k - 1 \in 0 .. N /\ k - 1 \notin S
    BY <1>2, <1>5, <2>2, <2>3
  <2>5. at[k] \in B \cup {NULL}
    BY <1>5, <2>3, <2>4 DEF Chain
  <2>6. QED
    BY <2>2, <2>5
<1>7. ASSUME NEW b \in B, \A k \in 0 .. N : at[k] # b PROVE FALSE
  <2> DEFINE Good(k) == at[k] \in B /\ at[k] < b /\ k * HEADER =< at[k]
             S == {k \in 0 .. N : ~Good(k)}
  <2>1. \A k \in 0 .. N : k # 0 /\ Good(k - 1) => Good(k)
    <3> SUFFICES ASSUME NEW k \in 0 .. N, k # 0, Good(k - 1) PROVE Good(k)
      OBVIOUS
    <3>1. PICK x \in B : x = at[k - 1] /\ x < b /\ (k - 1) * HEADER =< x
      OBVIOUS
    <3>2. at[k] = m[x].next
      BY <1>4, <1>5, <3>1
    <3>3. at[k] \in B /\ x + HEADER =< at[k] /\ at[k] =< b
      BY <1>4, <3>1, <3>2 DEF Chain
    <3>4. at[k] < b
      <4>1. at[k] # b /\ at[k] \in Nat /\ b \in Nat
        BY <1>4, <1>7, <3>3
      <4>2. QED
        BY <3>3, <4>1
    <3>5. k - 1 \in Nat /\ k * HEADER = (k - 1) * HEADER + HEADER /\ (k - 1) * HEADER \in Nat
      <4>1. k - 1 \in Nat /\ (k - 1) + 1 = k
        BY <1>2
      <4>2. QED
        BY <1>2, <4>1, OneMore
    <3>6. k * HEADER =< at[k]
      <4>1. \A u, v, w, x0, h \in Nat : w = u + h /\ u =< x0 /\ x0 + h =< v => w =< v
        OBVIOUS
      <4>2. k * HEADER \in Nat /\ x \in Nat /\ at[k] \in Nat /\ HEADER \in Nat
        <5>1. \A y \in B : y \in Nat
          BY <1>4
        <5>2. k * HEADER \in Nat
          BY <1>2, <3>5
        <5>3. QED
          BY <1>2, <3>1, <3>3, <5>1, <5>2
      <4>3. QED
        BY <3>1, <3>3, <3>5, <4>1, <4>2
    <3>7. QED
      BY <3>3, <3>4, <3>6
  <2>2. Good(0)
    <3>1. 0 * HEADER = 0
      BY <1>2, OneMore
    <3>2. b # 0
      BY <1>2, <1>4, <1>7
    <3>3. QED
      BY <1>4, <3>1, <3>2
  <2>3. \A k \in 0 .. N : Good(k)
    <3>1. SUFFICES ASSUME S # {} PROVE FALSE
      OBVIOUS
    <3>2. PICK k \in S : \A y \in S : k =< y
      <4>1. S \in SUBSET Nat
        BY <1>2
      <4> HIDE DEF S
      <4>2. QED
        BY <3>1, <4>1, SmallestOf
    <3> HIDE DEF Good
    <3>3. k # 0 /\ k \in 0 .. N
      BY <2>2, <3>2
    <3>4. k - 1 \in 0 .. N /\ k - 1 \notin S
      BY <1>2, <3>2, <3>3
    <3>5. QED
      BY <2>1, <3>2, <3>3, <3>4
  <2>4. PICK x \in B : x < b /\ N * HEADER =< x
    BY <1>2, <2>3
  <2>5. m[x].next \in B /\ x + HEADER =< m[x].next /\ m[x].next =< b /\ b + HEADER =< HeapSize
    BY <1>4, <2>4 DEF Chain
  <2>6. (N + 1) * HEADER = N * HEADER + HEADER /\ N * HEADER \in Nat
    BY <1>2, OneMore
  <2>7. QED
    <3>1. \A u, w, x0, y, b0, h, c \in Nat :
             h # 0 /\ w = u + h /\ c < w /\ u =< x0 /\ x0 + h =< y /\ y =< b0 /\ b0 + h =< c => FALSE
      OBVIOUS
    <3>2. (N + 1) * HEADER \in Nat /\ m[x].next \in Nat /\ x \in Nat /\ b \in Nat
      <4>1. \A y \in B : y \in Nat
        BY <1>4
      <4>2. (N + 1) * HEADER \in Nat
        BY <1>2, <2>6
      <4>3. QED
        BY <2>4, <2>5, <4>1, <4>2
    <3>3. QED
      BY <1>2, <2>4, <2>5, <2>6, <3>1, <3>2
<1>8. \A b \in B : b \in Blocks(m)
  BY <1>3, <1>4, <1>7
<1>9. QED
  BY <1>3, <1>6, <1>8

-----------------------------------------------------------------------------
(* The invariant, of memory m with blocks B, counter c, regions o and freer f *)

\* Rounding up wraps no requested size around.
NoWrap == \A n \in Requests : n + ALIGN - 1 < WORD

\* Where a block ends if the heap is tiled.
End(m, b) == IF m[b].next = NULL THEN HeapSize ELSE m[b].next

\* Each block reaches up to the next one; the one that is being merged, up to the
\* next one but one.
Tiled(m, f, B) ==
    /\ \A b \in B : (f.pc = "link" /\ b = f.cursor) \/ b + HEADER + m[b].size = End(m, b)
    /\ f.pc = "link" => f.cursor + HEADER + m[f.cursor].size = End(m, m[f.cursor].next)

\* The regions of callers are the blocks in use, one region a block.
Owners(m, c, o, B) ==
    /\ o \subseteq [ptr : Nat, n : Requests] /\ IsFiniteSet(o) /\ c = Cardinality(o)
    /\ \A r, s \in o : r.ptr = s.ptr => r = s
    /\ \A r \in o : r.ptr - HEADER \in B /\ ~m[r.ptr - HEADER].is_free
    /\ \A b \in B : ~m[b].is_free => \E r \in o : r.ptr - HEADER = b

\* What first_fit_free and coalesce_blocks work on.
Freer == [pc : {"idle", "wipe", "look", "grow", "link"}, block : Addrs \cup {NULL},
          cursor : Addrs \cup {NULL}]
Busy(m, f, B) ==
    /\ f \in Freer
    /\ f.pc = "wipe" => f.block \in B /\ m[f.block].is_free
    /\ f.pc \in {"look", "grow", "link"} => f.cursor \in B
    /\ f.pc \in {"grow", "link"} =>
          /\ m[f.cursor].is_free /\ m[f.cursor].next # NULL
          /\ m[m[f.cursor].next].is_free

\* No free block has a free one after it: anywhere between two calls, and before its
\* cursor while coalesce_blocks runs.
Apart(m, b) == m[b].is_free /\ m[b].next # NULL => ~m[m[b].next].is_free
Merged(m, f, B) ==
    /\ f.pc = "idle" => \A b \in B : Apart(m, b)
    /\ f.pc \in {"look", "grow", "link"} => \A b \in B : b < f.cursor => Apart(m, b)

\* A block is as large as its caller asked for.
Fits(m, o) == NoWrap => \A r \in o : r.n =< m[r.ptr - HEADER].size

Sound(m, c, o, f, B) ==
    /\ m \in [Addrs -> Header] /\ Chain(m, B)
    /\ Tiled(m, f, B) /\ Owners(m, c, o, B) /\ Busy(m, f, B) /\ Fits(m, o)

Good(m, c, o, f, B) == Sound(m, c, o, f, B) /\ Merged(m, f, B)

Inv == Good(mem, count, owned, freer, Blocks(mem))

-----------------------------------------------------------------------------
(* Sizes *)

\* Remainders.
LEMMA Remainder ==
    ASSUME NEW x \in Nat, NEW a \in Nat \ {0}
    PROVE  x % a \in Nat /\ x % a < a /\ x % a =< x /\ (x - (x % a)) % a = 0
OBVIOUS

\* Multiples leave no remainder,
LEMMA MultipleOf ==
    ASSUME NEW k \in Nat, NEW a \in Nat \ {0}
    PROVE  (k * a) % a = 0
OBVIOUS

\* and nothing else does.
LEMMA Multiple ==
    ASSUME NEW x \in Nat, NEW a \in Nat \ {0}, x % a = 0
    PROVE  \E k \in Nat : x = k * a
OBVIOUS

\* The sum of two aligned sizes is aligned.
LEMMA AlignedSum ==
    ASSUME NEW x \in Nat, NEW y \in Nat, NEW a \in Nat \ {0}, x % a = 0, y % a = 0
    PROVE  (x + y) % a = 0
<1>1. PICK k \in Nat, j \in Nat : x = k * a /\ y = j * a
  BY Multiple
<1>2. k + j \in Nat /\ x + y = (k + j) * a
  BY <1>1
<1>3. QED
  BY <1>2, MultipleOf

\* What rounding up gives: an aligned size, not less than the caller's.
LEMMA RoundedFacts ==
    ASSUME NEW n \in Requests
    PROVE  Rounded(n) \in Nat /\ Rounded(n) % ALIGN = 0 /\ (NoWrap => n =< Rounded(n))
<1>1. /\ n \in Nat /\ ALIGN \in Nat \ {0} /\ MIN_BLOCK_SIZE \in Nat /\ MIN_BLOCK_SIZE % ALIGN = 0
      /\ WORD \in Nat \ {0}
  BY FirstFitAssumption
<1>2. PICK s : s = (n + ALIGN - 1) % WORD
  OBVIOUS
<1>3. s \in Nat /\ (NoWrap => s = n + ALIGN - 1)
  <2>1. n + ALIGN - 1 \in Nat
    BY <1>1
  <2>2. \A x \in Nat, w \in Nat \ {0} : x % w \in Nat /\ (x < w => x % w = x)
    OBVIOUS
  <2>3. QED
    BY <1>1, <1>2, <2>1, <2>2 DEF NoWrap
<1>4. PICK d : d = s % ALIGN
  OBVIOUS
<1>5. d \in Nat /\ d < ALIGN /\ d =< s /\ (s - d) % ALIGN = 0
  BY <1>1, <1>3, <1>4, Remainder
<1>6. s - d \in Nat /\ (NoWrap => n =< s - d)
  BY <1>1, <1>3, <1>5
<1>7. Rounded(n) = IF s - d < MIN_BLOCK_SIZE THEN MIN_BLOCK_SIZE ELSE s - d
  BY <1>2, <1>4 DEF Rounded
<1>8. QED
  BY <1>1, <1>5, <1>6, <1>7

\* find_free_block returns a block of the list that is free and large enough.
LEMMA FindFacts ==
    ASSUME NEW m, NEW size, NEW b, b = find_free_block(m, size), b # NULL
    PROVE  b \in Blocks(m) /\ m[b].is_free /\ m[b].size >= size
<1>1. PICK at : at = Nth(m)
  OBVIOUS
<1> DEFINE S == {k \in Places : at[k] # NULL /\ m[at[k]].is_free /\ m[at[k]].size >= size}
<1>2. S \in SUBSET Nat /\ S # {}
  BY <1>1 DEF find_free_block, Places
<1>3. b = at[CHOOSE k \in S : \A j \in S : k =< j]
  BY <1>1, <1>2 DEF find_free_block
<1>4. \E k \in S : \A j \in S : k =< j
  <2> HIDE DEF S
  <2>1. QED
    BY <1>2, SmallestOf
<1>5. PICK k \in S : b = at[k]
  BY <1>3, <1>4
<1>6. QED
  BY <1>1, <1>5 DEF Blocks

-----------------------------------------------------------------------------
(* What the steps do to the list *)

\* Headers.
LEMMA HeaderMade ==
    ASSUME NEW z \in Nat, NEW u \in BOOLEAN, NEW y \in Addrs \cup {NULL}
    PROVE  [size |-> z, is_free |-> u, next |-> y] \in Header
BY DEF Header

\* Only next makes the chain.
LEMMA SameChain ==
    ASSUME NEW m, NEW m2, NEW B, Chain(m, B), \A b \in B : m2[b].next = m[b].next
    PROVE  Chain(m2, B)
BY DEF Chain

\* A block is followed by a block or by the end of the heap.
LEMMA ChainFacts ==
    ASSUME NEW m, NEW B, Chain(m, B), m \in [Addrs -> Header], NEW b \in B
    PROVE  /\ b \in Addrs /\ b \in Nat /\ b # NULL /\ m[b] \in Header
           /\ End(m, b) \in Nat /\ End(m, b) =< HeapSize /\ b + HEADER =< End(m, b)
           /\ m[b].next # NULL => m[b].next \in B /\ m[b].next = End(m, b)
           /\ \A x \in B : b < x => m[b].next # NULL /\ m[b].next =< x
<1>1. HeapSize \in Nat /\ HEADER \in Nat \ {0}
  BY FirstFitAssumption
<1>2. /\ b \in Addrs /\ m[b].next \in B \cup {NULL} /\ b + HEADER =< HeapSize
      /\ m[b].next # NULL => b + HEADER =< m[b].next
      /\ \A x \in B : b < x => m[b].next # NULL /\ m[b].next =< x
  BY DEF Chain
<1>3. b \in Nat /\ b # NULL /\ m[b] \in Header
  BY <1>2, AddrFacts
<1>4. CASE m[b].next = NULL
  BY <1>1, <1>2, <1>3, <1>4 DEF End
<1>5. CASE m[b].next # NULL
  <2>1. PICK y \in B : y = m[b].next
    BY <1>2, <1>5
  <2>2. y \in Addrs
    BY DEF Chain
  <2>3. y \in Nat /\ y =< HeapSize
    BY <1>1, <2>2 DEF Addrs
  <2>4. QED
    BY <1>1, <1>2, <1>3, <1>5, <2>1, <2>3 DEF End
<1>6. QED
  BY <1>4, <1>5

\* What a block becomes part of, when split_block has divided block b of list m.
Divided(m, c, o, f, B, b, size, m1, B1) ==
    /\ Sound(m1, c, o, f, B1)
    /\ b \in B1 /\ m1[b].is_free /\ m1[b].size >= size
    /\ \A x \in B1 : x # b => Apart(m1, x)

\* split_block, on a free block that is large enough.
LEMMA SplitStep ==
    ASSUME NEW m, NEW c, NEW o, NEW f, NEW B, Good(m, c, o, f, B), f.pc = "idle",
           NEW b \in B, m[b].is_free,
           NEW size \in Nat, size % ALIGN = 0, m[b].size >= size
    PROVE  \E B1 : Divided(m, c, o, f, B, b, size, split_block(m, b, size), B1)
<1>1. /\ m \in [Addrs -> Header] /\ Chain(m, B) /\ Tiled(m, f, B) /\ Owners(m, c, o, B)
      /\ Busy(m, f, B) /\ Fits(m, o) /\ \A x \in B : Apart(m, x)
  BY DEF Good, Sound, Merged
<1>2. PICK rest, new, e : rest = m[b].size - size /\ new = b + HEADER + size /\ e = End(m, b)
  OBVIOUS
<1>3. /\ HEADER \in Nat \ {0} /\ MIN_BLOCK_SIZE \in Nat \ {0} /\ HeapSize \in Nat
      /\ HEADER % ALIGN = 0 /\ ALIGN \in Nat \ {0}
  BY FirstFitAssumption
<1>4. /\ b \in Addrs /\ b \in Nat /\ b # NULL /\ m[b] \in Header
      /\ e \in Nat /\ e =< HeapSize
      /\ m[b].next # NULL => m[b].next \in B /\ m[b].next = e
      /\ \A x \in B : b < x => m[b].next # NULL /\ m[b].next =< x
  BY <1>1, <1>2, ChainFacts
<1>5. e = b + HEADER + m[b].size
  BY <1>1, <1>2 DEF Tiled
<1>6. CASE rest < HEADER + MIN_BLOCK_SIZE
  <2>1. split_block(m, b, size) = m
    BY <1>2, <1>6 DEF split_block
  <2>2. Divided(m, c, o, f, B, b, size, m, B)
    BY <1>1 DEF Divided, Sound
  <2>3. QED
    BY <2>1, <2>2
<1>7. CASE ~(rest < HEADER + MIN_BLOCK_SIZE)
  <2>1. PICK m1 : m1 = split_block(m, b, size)
    OBVIOUS
  <2>2. m1 = [m EXCEPT ![new] = [size |-> rest - HEADER, is_free |-> TRUE, next |-> m[b].next],
                       ![b].size = size, ![b].next = new]
    BY <1>2, <1>7, <2>1 DEF split_block
  <2>3. m[b].size \in Nat
    BY <1>4 DEF Header
  <2>4. rest \in Nat /\ rest - HEADER \in Nat /\ new \in Nat /\ new # b /\ b + HEADER =< new
    BY <1>2, <1>3, <1>4, <1>7, <2>3
  <2>5. new + HEADER + (rest - HEADER) = e /\ new + HEADER =< e /\ new =< HeapSize
    <3>1. PICK s \in Nat : s = m[b].size
      BY <2>3
    <3>2. rest = s - size /\ new = b + HEADER + size /\ e = b + HEADER + s /\ rest - HEADER \in Nat
      BY <1>2, <1>5, <2>4, <3>1
    <3>3. \A x, h, n, z, r \in Nat : r = z - n /\ r - h \in Nat =>
             /\ (x + h + n) + h + (r - h) = x + h + z
             /\ (x + h + n) + h =< x + h + z /\ x + h + n =< x + h + z
      OBVIOUS
    <3>4. QED
      BY <1>3, <1>4, <2>4, <3>1, <3>2, <3>3
  <2>6. new \in Addrs
    <3>1. b % ALIGN = 0
      BY <1>4 DEF Addrs
    <3>2. PICK x \in Nat, h \in Nat, k \in Nat \ {0} : x = b /\ h = HEADER /\ k = ALIGN
      BY <1>3, <1>4
    <3>3. x % k = 0 /\ h % k = 0 /\ size % k = 0
      BY <1>3, <3>1, <3>2
    <3>4. (x + h) % k = 0
      BY <3>3, AlignedSum
    <3>5. x + h \in Nat
      OBVIOUS
    <3>6. ((x + h) + size) % k = 0
      BY <3>3, <3>4, <3>5, AlignedSum
    <3>7. new % ALIGN = 0
      BY <1>2, <3>2, <3>6
    <3>8. QED
      BY <2>4, <2>5, <3>7 DEF Addrs
  <2>7. new \notin B /\ new # NULL
    <3>1. SUFFICES ASSUME new \in B PROVE FALSE
      BY <2>4, AddrFacts
    <3>2. b < new
      BY <1>3, <1>4, <2>4
    <3>3. e =< new
      BY <1>4, <3>1, <3>2
    <3>4. QED
      BY <1>3, <1>4, <2>4, <2>5, <3>3
  <2>8. /\ m1[new] = [size |-> rest - HEADER, is_free |-> TRUE, next |-> m[b].next]
        /\ m1[b] = [size |-> size, is_free |-> m[b].is_free, next |-> new]
        /\ \A x \in Addrs : x # new /\ x # b => m1[x] = m[x]
        /\ DOMAIN m1 = Addrs
    <3>1. m[b] = [size |-> m[b].size, is_free |-> m[b].is_free, next |-> m[b].next]
      BY <1>4 DEF Header
    <3>2. QED
      BY <1>1, <1>4, <2>2, <2>4, <2>6, <3>1
  <2>9. m1 \in [Addrs -> Header]
    <3>1. m1[new] \in Header
      <4>1. m[b].next \in Addrs \cup {NULL}
        BY <1>4 DEF Header
      <4>2. QED
        BY <2>4, <2>8, <4>1 DEF Header
    <3>2. m1[b] \in Header
      BY <1>4, <2>6, <2>8 DEF Header
    <3>3. \A x \in Addrs : m1[x] \in Header
      BY <1>1, <2>8, <3>1, <3>2
    <3>4. m1 = [x \in Addrs |-> m1[x]]
      BY <2>2, <1>1
    <3>5. QED
      BY <3>3, <3>4
  <2>10. PICK B1 : B1 = B \cup {new}
    OBVIOUS
  <2>11. \A x \in B : x \in Addrs /\ x \in Nat /\ x # new /\ (x # b => m1[x] = m[x])
    BY <1>1, <2>7, <2>8, AddrFacts DEF Chain
  <2>12. m1[new].next = m[b].next /\ m1[new].size = rest - HEADER /\ m1[new].is_free
    BY <2>8
  <2>13. m1[b].next = new /\ m1[b].size = size /\ m1[b].is_free
    BY <2>8
  <2>14. Chain(m1, B1)
    <3>1. B1 \subseteq Addrs /\ 0 \in B1
      BY <1>1, <2>6, <2>10 DEF Chain
    <3>2. ASSUME NEW x \in B1
          PROVE  /\ m1[x].next \in B1 \cup {NULL} /\ x + HEADER =< HeapSize
                 /\ m1[x].next # NULL => x + HEADER =< m1[x].next
      <4>1. CASE x = new
        <5>1. m[b].next # NULL => new + HEADER =< m[b].next
          BY <1>4, <2>5
        <5>2. new + HEADER =< HeapSize
          BY <1>3, <1>4, <2>4, <2>5
        <5>3. QED
          BY <1>4, <2>10, <2>12, <4>1, <5>1, <5>2
      <4>2. CASE x = b
        <5>1. b + HEADER =< HeapSize
          BY <1>1 DEF Chain
        <5>2. QED
          BY <2>4, <2>10, <2>13, <4>2, <5>1
      <4>3. CASE x # new /\ x # b
        BY <1>1, <2>10, <2>11, <4>3 DEF Chain
      <4>4. QED
        BY <4>1, <4>2, <4>3
    <3>3. ASSUME NEW x \in B1, NEW y \in B1, x < y
          PROVE  m1[x].next # NULL /\ m1[x].next =< y
      <4>1. CASE x = new
        <5>1. y \in B
          BY <2>4, <2>10, <3>3, <4>1
        <5>2. y \in Nat
          BY <2>11, <5>1
        <5>3. b < y
          BY <1>3, <1>4, <2>4, <3>3, <4>1, <5>2
        <5>4. QED
          BY <1>4, <2>12, <4>1, <5>1, <5>3
      <4>2. CASE x = b
        <5>1. CASE y = new
          BY <2>4, <2>7, <2>13, <4>2, <5>1
        <5>2. CASE y # new
          <6>1. y \in B /\ y \in Nat
            BY <2>10, <2>11, <5>2
          <6>2. e =< y
            BY <1>4, <3>3, <4>2, <6>1
          <6>3. new =< y
            BY <1>3, <1>4, <2>4, <2>5, <6>1, <6>2
          <6>4. QED
            BY <2>7, <2>13, <4>2, <6>3
        <5>3. QED
          BY <5>1, <5>2
      <4>3. CASE x # new /\ x # b
        <5>1. x \in B /\ x \in Nat /\ m1[x] = m[x]
          BY <2>10, <2>11, <4>3
        <5>2. CASE y # new
          BY <1>1, <2>10, <3>3, <5>1, <5>2 DEF Chain
        <5>3. CASE y = new
          <6>1. x < b
            <7>1. ASSUME b < x PROVE FALSE
              <8>1. e =< x
                BY <1>4, <5>1, <7>1
              <8>2. QED
                BY <1>3, <1>4, <2>4, <2>5, <3>3, <5>1, <5>3, <8>1
            <7>2. QED
              BY <1>4, <4>3, <5>1, <7>1
          <6>2. m[x].next # NULL /\ m[x].next =< b /\ m[x].next \in B
            BY <1>1, <5>1, <6>1 DEF Chain
          <6>3. m[x].next \in Nat
            BY <2>11, <6>2
          <6>4. QED
            BY <1>3, <1>4, <2>4, <5>1, <5>3, <6>2, <6>3
        <5>4. QED
          BY <5>2, <5>3
      <4>4. QED
        BY <4>1, <4>2, <4>3
    <3>4. QED
      BY <3>1, <3>2, <3>3 DEF Chain
  <2>15. Tiled(m1, f, B1)
    <3>1. ASSUME NEW x \in B1 PROVE x + HEADER + m1[x].size = End(m1, x)
      <4>1. CASE x = new
        <5>1. End(m1, new) = e
          BY <1>2, <2>12 DEF End
        <5>2. QED
          BY <2>5, <2>12, <4>1, <5>1
      <4>2. CASE x = b
        BY <1>2, <2>7, <2>13, <4>2 DEF End
      <4>3. CASE x # new /\ x # b
        BY <1>1, <2>10, <2>11, <4>3 DEF Tiled, End
      <4>4. QED
        BY <4>1, <4>2, <4>3
    <3>2. QED
      BY <3>1 DEF Tiled
  <2>16. Owners(m1, c, o, B1)
    <3>1. ASSUME NEW r \in o PROVE r.ptr - HEADER \in B1 /\ ~m1[r.ptr - HEADER].is_free
      <4>1. PICK x \in B : x = r.ptr - HEADER /\ ~m[x].is_free
        BY <1>1 DEF Owners
      <4>2. m1[x] = m[x]
        BY <2>11, <4>1
      <4>3. QED
        BY <2>10, <4>1, <4>2
    <3>2. ASSUME NEW x \in B1, ~m1[x].is_free PROVE \E r \in o : r.ptr - HEADER = x
      <4>1. x # new /\ x # b
        BY <2>12, <2>13, <3>2
      <4>2. x \in B /\ ~m[x].is_free
        BY <2>10, <2>11, <3>2, <4>1
      <4>3. QED
        BY <1>1, <4>2 DEF Owners
    <3>3. QED
      BY <1>1, <3>1, <3>2 DEF Owners
  <2>17. Busy(m1, f, B1)
    BY <1>1 DEF Busy
  <2>18. Fits(m1, o)
    <3>1. SUFFICES ASSUME NoWrap, NEW r \in o PROVE r.n =< m1[r.ptr - HEADER].size
      BY DEF Fits
    <3>2. PICK x \in B : x = r.ptr - HEADER /\ ~m[x].is_free
      BY <1>1 DEF Owners
    <3>3. m1[x] = m[x] /\ r.n =< m[x].size
      BY <1>1, <2>11, <3>1, <3>2 DEF Fits
    <3>4. QED
      BY <3>2, <3>3
  <2>19. ASSUME NEW x \in B1, x # b PROVE Apart(m1, x)
    <3>1. CASE x = new
      <4>1. ASSUME m[b].next # NULL PROVE ~m1[m[b].next].is_free
        <5>1. m[b].next \in B /\ m[b].next # b
          BY <1>3, <1>4, <4>1, ChainFacts, <1>1, <1>2
        <5>2. m1[m[b].next] = m[m[b].next]
          BY <2>11, <5>1
        <5>3. QED
          BY <1>1, <4>1, <5>2 DEF Apart
      <4>2. QED
        BY <2>12, <3>1, <4>1 DEF Apart
    <3>2. CASE x # new
      <4>1. x \in B /\ m1[x] = m[x]
        BY <2>10, <2>11, <2>19, <3>2
      <4>2. ASSUME m[x].is_free, m[x].next # NULL PROVE ~m1[m[x].next].is_free
        <5>1. m[x].next \in B /\ ~m[m[x].next].is_free
          BY <1>1, <4>1, <4>2 DEF Chain, Apart
        <5>2. m1[m[x].next] = m[m[x].next]
          BY <2>11, <5>1
        <5>3. QED
          BY <5>1, <5>2
      <4>3. QED
        BY <4>1, <4>2 DEF Apart
    <3>3. QED
      BY <3>1, <3>2
  <2>20. Divided(m, c, o, f, B, b, size, m1, B1)
    <3>1. Sound(m1, c, o, f, B1)
      BY <2>9, <2>14, <2>15, <2>16, <2>17, <2>18 DEF Sound
    <3>2. m1[b].size >= size
      BY <2>13
    <3>3. QED
      BY <2>10, <2>13, <2>19, <3>1, <3>2 DEF Divided
  <2>21. QED
    BY <2>1, <2>20
<1>8. QED
  BY <1>6, <1>7

\* Marking the block in use gives its caller a region, and keeps the free blocks apart.
LEMMA TakeStep ==
    ASSUME NEW m, NEW c, NEW o, NEW f, NEW B, NEW n \in Requests, NEW b, NEW size \in Nat,
           NEW m0, NEW c0, NEW B0, Divided(m0, c0, o, f, B0, b, size, m, B), c = c0,
           f.pc = "idle", NoWrap => n =< size,
           NEW m2, m2 = [m EXCEPT ![b].is_free = FALSE],
           NEW r, r = [ptr |-> b + HEADER, n |-> n]
    PROVE  Good(m2, c + 1, o \cup {r}, f, B)
<1>1. /\ Sound(m, c, o, f, B) /\ b \in B /\ m[b].is_free /\ m[b].size >= size
      /\ \A x \in B : x # b => Apart(m, x)
  BY DEF Divided
<1>2. /\ m \in [Addrs -> Header] /\ Chain(m, B) /\ Tiled(m, f, B) /\ Owners(m, c, o, B)
      /\ Busy(m, f, B) /\ Fits(m, o)
  BY <1>1 DEF Sound
<1>3. HEADER \in Nat \ {0} /\ \A k \in Requests : k \in Nat
  BY FirstFitAssumption
<1>4. b \in Addrs /\ b \in Nat /\ m[b] \in Header
  BY <1>1, <1>2, ChainFacts
<1>5. m[b] = [size |-> m[b].size, is_free |-> m[b].is_free, next |-> m[b].next] /\ m[b].size \in Nat
  BY <1>4 DEF Header
<1>6. /\ m2[b] = [size |-> m[b].size, is_free |-> FALSE, next |-> m[b].next]
      /\ \A x \in Addrs : x # b => m2[x] = m[x]
  BY <1>2, <1>4, <1>5
<1>7. \A x \in B : x \in Addrs /\ m2[x].next = m[x].next /\ m2[x].size = m[x].size
  BY <1>2, <1>6 DEF Chain
<1>8. m2 \in [Addrs -> Header]
  <2>1. m2[b] \in Header
    <3>1. m[b].next \in Addrs \cup {NULL}
      BY <1>4 DEF Header
    <3>2. QED
      BY <1>5, <1>6, <3>1, HeaderMade
  <2>2. m2 = [x \in Addrs |-> m2[x]] /\ \A x \in Addrs : m2[x] \in Header
    BY <1>2, <1>6, <2>1
  <2>3. QED
    BY <2>2
<1>9. Chain(m2, B)
  <2>1. \A x \in B : m2[x].next = m[x].next
    BY <1>7
  <2>2. Chain(m, B)
    BY <1>2
  <2>3. QED
    BY <2>1, <2>2 DEF Chain
<1>10. Tiled(m2, f, B)
  BY <1>2, <1>7 DEF Tiled, End
<1>11. Busy(m2, f, B)
  BY <1>2 DEF Busy
<1>12. \A s \in o : s.ptr \in Nat /\ s.ptr - HEADER \in B /\ s.ptr - HEADER # b
                    /\ m2[s.ptr - HEADER] = m[s.ptr - HEADER]
  BY <1>1, <1>2, <1>6, <1>7 DEF Owners
<1>13. r.ptr = b + HEADER /\ r.n = n /\ r.ptr \in Nat /\ r.ptr - HEADER = b
  BY <1>3, <1>4
<1>14. Owners(m2, c + 1, o \cup {r}, B)
  <2>1. r \in [ptr : Nat, n : Requests]
    BY <1>13
  <2>2. r \notin o
    BY <1>12, <1>13
  <2>3. IsFiniteSet(o \cup {r}) /\ Cardinality(o \cup {r}) = Cardinality(o) + 1
    BY <1>2, <2>2, FS_AddElement DEF Owners
  <2>4. \A s, u \in o \cup {r} : s.ptr = u.ptr => s = u
    BY <1>2, <1>12, <1>13 DEF Owners
  <2>5. \A s \in o \cup {r} : s.ptr - HEADER \in B /\ ~m2[s.ptr - HEADER].is_free
    BY <1>1, <1>2, <1>6, <1>12, <1>13 DEF Owners
  <2>6. ASSUME NEW x \in B, ~m2[x].is_free PROVE \E s \in o \cup {r} : s.ptr - HEADER = x
    <3>1. CASE x = b
      BY <1>13, <3>1
    <3>2. CASE x # b
      BY <1>2, <1>6, <1>7, <2>6, <3>2 DEF Owners
    <3>3. QED
      BY <3>1, <3>2
  <2>7. QED
    BY <1>2, <2>1, <2>3, <2>4, <2>5, <2>6 DEF Owners
<1>15. Fits(m2, o \cup {r})
  <2>1. SUFFICES ASSUME NoWrap, NEW s \in o \cup {r} PROVE s.n =< m2[s.ptr - HEADER].size
    BY DEF Fits
  <2>2. CASE s = r
    BY <1>1, <1>3, <1>5, <1>6, <1>13, <2>1, <2>2
  <2>3. CASE s # r
    BY <1>2, <1>12, <2>1, <2>3 DEF Fits
  <2>4. QED
    BY <2>2, <2>3
<1>16. Merged(m2, f, B)
  <2>1. ASSUME NEW x \in B PROVE Apart(m2, x)
    <3>1. CASE x = b
      BY <1>6, <3>1 DEF Apart
    <3>2. CASE x # b
      <4>1. m2[x] = m[x] /\ Apart(m, x)
        BY <1>1, <1>6, <1>7, <3>2
      <4>2. ASSUME m[x].is_free, m[x].next # NULL PROVE ~m2[m[x].next].is_free
        <5>1. m[x].next \in B /\ ~m[m[x].next].is_free
          BY <1>2, <4>1, <4>2 DEF Chain, Apart
        <5>2. QED
          BY <1>6, <1>7, <5>1
      <4>3. QED
        BY <4>1, <4>2 DEF Apart
    <3>3. QED
      BY <3>1, <3>2
  <2>2. QED
    BY <2>1 DEF Merged
<1>17. QED
  BY <1>8, <1>9, <1>10, <1>11, <1>14, <1>15, <1>16 DEF Good, Sound

\* first_fit_malloc.
LEMMA MallocStep ==
    ASSUME Inv, ~Preempted, NEW n \in Requests, first_fit_malloc(n)
    PROVE  Inv'
<1>1. PICK B : B = Blocks(mem) /\ Good(mem, count, owned, freer, B)
  BY DEF Inv
<1>2. PICK size : size = Rounded(n)
  OBVIOUS
<1>3. size \in Nat /\ size % ALIGN = 0 /\ (NoWrap => n =< size)
  BY <1>2, RoundedFacts
<1>4. PICK b : b = find_free_block(mem, size)
  OBVIOUS
<1>5. /\ freer.pc = "idle" /\ b # NULL
      /\ mem' = [split_block(mem, b, size) EXCEPT ![b].is_free = FALSE]
      /\ count' = count + 1
      /\ owned' = owned \cup {[ptr |-> b + HEADER, n |-> n]}
      /\ freer' = freer
  BY <1>2, <1>4 DEF first_fit_malloc
<1>6. b \in B /\ mem[b].is_free /\ mem[b].size >= size
  BY <1>1, <1>4, <1>5, FindFacts
<1>7. PICK B1 : Divided(mem, count, owned, freer, B, b, size, split_block(mem, b, size), B1)
  BY <1>1, <1>3, <1>5, <1>6, SplitStep
<1>8. Good(mem', count', owned', freer', B1)
  BY <1>3, <1>5, <1>7, TakeStep
<1>9. B1 = Blocks(mem')
  BY <1>8, ChainBlocks DEF Good, Sound
<1>10. QED
  <2>1. Blocks(mem)' = Blocks(mem')
    BY DEF Blocks, Nth
  <2>2. QED
    BY <1>8, <1>9, <2>1 DEF Inv

\* What a region says of its block.
LEMMA OwnerFacts ==
    ASSUME NEW m, NEW c, NEW o, NEW f, NEW B, Sound(m, c, o, f, B), NEW r \in o
    PROVE  /\ r.ptr - HEADER \in B /\ ~m[r.ptr - HEADER].is_free
           /\ r.ptr \in Nat /\ r.n \in Requests /\ r = [ptr |-> r.ptr, n |-> r.n]
           /\ \A s \in o : s # r => s.ptr - HEADER # r.ptr - HEADER
<1>1. /\ r.ptr - HEADER \in B /\ ~m[r.ptr - HEADER].is_free /\ r \in [ptr : Nat, n : Requests]
      /\ \A s \in o : s.ptr \in Nat /\ (s.ptr = r.ptr => s = r)
  BY DEF Sound, Owners
<1>2. HEADER \in Nat
  BY FirstFitAssumption
<1>3. \A x, y, h \in Nat : x - h = y - h => x = y
  OBVIOUS
<1>4. r.ptr \in Nat /\ r.n \in Requests /\ r = [ptr |-> r.ptr, n |-> r.n]
  BY <1>1
<1>5. \A s \in o : s # r => s.ptr - HEADER # r.ptr - HEADER
  BY <1>1, <1>2, <1>3, <1>4
<1>6. QED
  BY <1>1, <1>4, <1>5

\* The header that first_fit_free marks.
LEMMA FreeStep ==
    ASSUME NEW m, NEW c, NEW o, NEW f, NEW B, Sound(m, c, o, f, B), f.pc = "idle",
           NEW r \in o, NEW b, b = r.ptr - HEADER,
           NEW m2, m2 = [m EXCEPT ![b].is_free = TRUE],
           NEW f2, f2 = [pc |-> "wipe", block |-> b, cursor |-> NULL]
    PROVE  Good(m2, c - 1, o \ {r}, f2, B)
<1>1. /\ m \in [Addrs -> Header] /\ Chain(m, B) /\ Tiled(m, f, B) /\ Owners(m, c, o, B)
      /\ Busy(m, f, B) /\ Fits(m, o)
  BY DEF Sound
<1>2. /\ b \in B /\ ~m[b].is_free
      /\ \A s \in o : s.ptr - HEADER \in B /\ (s # r => s.ptr - HEADER # b)
  BY <1>1, OwnerFacts DEF Owners
<1>3. b \in Addrs /\ b \in Nat /\ m[b] \in Header
  BY <1>1, <1>2, ChainFacts
<1>4. /\ m[b] = [size |-> m[b].size, is_free |-> m[b].is_free, next |-> m[b].next]
      /\ m[b].size \in Nat /\ m[b].next \in Addrs \cup {NULL}
  BY <1>3 DEF Header
<1>5. /\ m2[b] = [size |-> m[b].size, is_free |-> TRUE, next |-> m[b].next]
      /\ \A x \in Addrs : x # b => m2[x] = m[x]
  BY <1>1, <1>3, <1>4
<1>6. \A x \in B : x \in Addrs /\ m2[x].next = m[x].next /\ m2[x].size = m[x].size
  BY <1>1, <1>5 DEF Chain
<1>7. m2 \in [Addrs -> Header]
  <2>1. m2[b] \in Header
    BY <1>4, <1>5, HeaderMade
  <2>2. m2 = [x \in Addrs |-> m2[x]] /\ \A x \in Addrs : m2[x] \in Header
    BY <1>1, <1>5, <2>1
  <2>3. QED
    BY <2>2
<1>8. Chain(m2, B)
  <2>1. \A x \in B : m2[x].next = m[x].next
    BY <1>6
  <2>2. QED
    BY <1>1, <2>1 DEF Chain
<1>9. Tiled(m2, f2, B)
  <2>1. f2.pc = "wipe"
    OBVIOUS
  <2>2. \A x \in B : x + HEADER + m[x].size = End(m, x)
    BY <1>1 DEF Tiled
  <2>3. QED
    BY <1>6, <2>1, <2>2 DEF Tiled, End
<1>10. Busy(m2, f2, B)
  BY <1>2, <1>3, <1>5 DEF Busy, Freer
<1>11. Owners(m2, c - 1, o \ {r}, B)
  <2>1. IsFiniteSet(o \ {r}) /\ Cardinality(o \ {r}) = c - 1
    BY <1>1, FS_RemoveElement DEF Owners
  <2>2. \A s \in o \ {r} : s.ptr - HEADER \in B /\ ~m2[s.ptr - HEADER].is_free
    BY <1>1, <1>2, <1>5, <1>6 DEF Owners
  <2>3. ASSUME NEW x \in B, ~m2[x].is_free PROVE \E s \in o \ {r} : s.ptr - HEADER = x
    <3>1. x # b
      BY <1>5, <2>3
    <3>2. ~m[x].is_free
      BY <1>5, <1>6, <2>3, <3>1
    <3>3. QED
      BY <1>1, <3>1, <3>2 DEF Owners
  <2>4. QED
    BY <1>1, <2>1, <2>2, <2>3 DEF Owners
<1>12. Fits(m2, o \ {r})
  BY <1>1, <1>2, <1>6 DEF Fits
<1>13. Merged(m2, f2, B)
  BY DEF Merged
<1>14. QED
  BY <1>7, <1>8, <1>9, <1>10, <1>11, <1>12, <1>13 DEF Good, Sound

\* first_fit_free, up to the memset.
LEMMA ReleaseStep ==
    ASSUME Inv, NEW r \in owned, first_fit_free(r)
    PROVE  Inv'
<1>1. PICK B : B = Blocks(mem) /\ Good(mem, count, owned, freer, B)
  BY DEF Inv
<1>2. PICK b : b = r.ptr - HEADER
  OBVIOUS
<1>3. /\ freer.pc = "idle"
      /\ mem' = [mem EXCEPT ![b].is_free = TRUE]
      /\ count' = count - 1
      /\ owned' = owned \ {r}
      /\ freer' = [pc |-> "wipe", block |-> b, cursor |-> NULL]
  BY <1>2 DEF first_fit_free
<1>4. Good(mem', count', owned', freer', B)
  BY <1>1, <1>2, <1>3, FreeStep DEF Good
<1>5. B = Blocks(mem')
  BY <1>4, ChainBlocks DEF Good, Sound
<1>6. Blocks(mem)' = Blocks(mem')
  BY DEF Blocks, Nth
<1>7. QED
  BY <1>4, <1>5, <1>6 DEF Inv

\* A state of first_fit_free.
LEMMA FreerMade ==
    ASSUME NEW u \in {"idle", "wipe", "look", "grow", "link"}, NEW x \in Addrs \cup {NULL},
           NEW y \in Addrs \cup {NULL}
    PROVE  [pc |-> u, block |-> x, cursor |-> y] \in Freer
BY DEF Freer

\* Where coalesce_blocks goes: f2 after a look at m.
LEMMA LookStep ==
    ASSUME NEW m, NEW c, NEW o, NEW f, NEW B, Good(m, c, o, f, B), f.pc = "look", NEW f2,
           f2 = IF f.cursor = NULL \/ m[f.cursor].next = NULL THEN Resting
                ELSE IF m[f.cursor].is_free /\ m[m[f.cursor].next].is_free /\ Adjacent(m, f.cursor)
                     THEN [f EXCEPT !.pc = "grow"]
                ELSE [f EXCEPT !.cursor = m[f.cursor].next]
    PROVE  Good(m, c, o, f2, B)
<1>1. /\ m \in [Addrs -> Header] /\ Chain(m, B) /\ Tiled(m, f, B) /\ Owners(m, c, o, B)
      /\ Busy(m, f, B) /\ Fits(m, o) /\ Merged(m, f, B)
  BY DEF Good, Sound
<1>2. PICK a : a = f.cursor
  OBVIOUS
<1>3. a \in B /\ \A x \in B : x < a => Apart(m, x)
  BY <1>1, <1>2 DEF Busy, Merged
<1>4. /\ a \in Addrs /\ a \in Nat /\ a # NULL
      /\ m[a].next # NULL => m[a].next \in B /\ m[a].next = End(m, a)
      /\ \A x \in B : a < x => m[a].next # NULL /\ m[a].next =< x
  BY <1>1, <1>3, ChainFacts
<1>5. \A x \in B : x \in Nat /\ x \in Addrs
  BY <1>1, AddrFacts DEF Chain
<1>6. \A x \in B : x + HEADER + m[x].size = End(m, x)
  BY <1>1 DEF Tiled
<1>7. /\ f = [pc |-> f.pc, block |-> f.block, cursor |-> f.cursor]
      /\ f.block \in Addrs \cup {NULL}
  BY <1>1 DEF Busy, Freer
<1>8. f2.pc # "link" /\ f2.pc # "wipe"
  BY <1>7 DEF Resting
<1>9. Tiled(m, f2, B)
  BY <1>6, <1>8 DEF Tiled
<1>10. Busy(m, f2, B) /\ Merged(m, f2, B)
  <2>1. CASE m[a].next = NULL
    <3>1. f2 = Resting
      BY <1>2, <2>1
    <3>2. Busy(m, f2, B)
      <4>1. f2 = [pc |-> "idle", block |-> NULL, cursor |-> NULL]
        BY <3>1 DEF Resting
      <4>2. f2 \in Freer
        BY <4>1, FreerMade
      <4>3. f2.pc = "idle"
        BY <4>1
      <4>4. QED
        BY <4>2, <4>3 DEF Busy
    <3>3. ASSUME NEW x \in B PROVE Apart(m, x)
      <4>1. CASE x = a
        BY <2>1, <4>1 DEF Apart
      <4>2. CASE x # a
        <5>1. ~(a < x)
          BY <1>4, <2>1
        <5>2. x < a
          BY <1>4, <1>5, <4>2, <5>1
        <5>3. QED
          BY <1>3, <5>2
      <4>3. QED
        BY <4>1, <4>2
    <3>4. Merged(m, f2, B)
      BY <3>1, <3>3 DEF Merged, Resting
    <3>5. QED
      BY <3>2, <3>4
  <2>2. CASE m[a].next # NULL /\ m[a].is_free /\ m[m[a].next].is_free
    <3>1. Adjacent(m, a)
      BY <1>3, <1>4, <1>6, <2>2 DEF Adjacent
    <3>2. f2 = [pc |-> "grow", block |-> f.block, cursor |-> a]
      BY <1>2, <1>4, <1>7, <2>2, <3>1
    <3>3. Busy(m, f2, B)
      <4>1. f2 \in Freer
        BY <1>4, <1>7, <3>2, FreerMade
      <4>2. f2.pc = "grow" /\ f2.cursor = a
        BY <3>2
      <4>3. QED
        BY <1>3, <2>2, <4>1, <4>2 DEF Busy
    <3>4. Merged(m, f2, B)
      BY <1>3, <3>2 DEF Merged
    <3>5. QED
      BY <3>3, <3>4
  <2>3. CASE m[a].next # NULL /\ ~(m[a].is_free /\ m[m[a].next].is_free)
    <3>1. f2 = [pc |-> "look", block |-> f.block, cursor |-> m[a].next]
      BY <1>2, <1>4, <1>7, <2>3
    <3>2. m[a].next \in B /\ m[a].next \in Addrs
      BY <1>4, <1>5, <2>3
    <3>3. Busy(m, f2, B)
      <4>1. f2 \in Freer
        BY <1>7, <3>1, <3>2, FreerMade
      <4>2. f2.pc = "look" /\ f2.cursor = m[a].next
        BY <3>1
      <4>3. QED
        BY <3>2, <4>1, <4>2 DEF Busy
    <3>4. ASSUME NEW x \in B, x < m[a].next PROVE Apart(m, x)
      <4>1. CASE x = a
        BY <2>3, <4>1 DEF Apart
      <4>2. CASE x # a
        <5>1. ~(a < x)
          BY <1>4, <1>5, <3>2, <3>4
        <5>2. x < a
          BY <1>4, <1>5, <4>2, <5>1
        <5>3. QED
          BY <1>3, <5>2
      <4>3. QED
        BY <4>1, <4>2
    <3>5. Merged(m, f2, B)
      BY <3>1, <3>4 DEF Merged
    <3>6. QED
      BY <3>3, <3>5
  <2>4. QED
    BY <2>1, <2>2, <2>3
<1>11. QED
  BY <1>1, <1>9, <1>10 DEF Good, Sound

\* coalesce_blocks adds the next block to the size of the one at its cursor.
LEMMA GrowStep ==
    ASSUME NEW m, NEW c, NEW o, NEW f, NEW B, Good(m, c, o, f, B), f.pc = "grow",
           NEW a, a = f.cursor,
           NEW m2, m2 = [m EXCEPT ![a].size = @ + HEADER + m[m[a].next].size],
           NEW f2, f2 = [f EXCEPT !.pc = "link"]
    PROVE  Good(m2, c, o, f2, B)
<1>1. /\ m \in [Addrs -> Header] /\ Chain(m, B) /\ Tiled(m, f, B) /\ Owners(m, c, o, B)
      /\ Busy(m, f, B) /\ Fits(m, o) /\ Merged(m, f, B)
  BY DEF Good, Sound
<1>2. PICK g : g = m[a].next
  OBVIOUS
<1>3. /\ a \in B /\ m[a].is_free /\ g # NULL /\ m[g].is_free
      /\ \A x \in B : x < a => Apart(m, x)
  BY <1>1, <1>2 DEF Busy, Merged
<1>4. /\ a \in Addrs /\ a \in Nat /\ m[a] \in Header /\ g \in B /\ g = End(m, a)
      /\ a + HEADER =< g
  BY <1>1, <1>2, <1>3, ChainFacts
<1>5. g \in Nat /\ m[g] \in Header
  BY <1>1, <1>4, ChainFacts
<1>6. HEADER \in Nat \ {0}
  BY FirstFitAssumption
<1>7. /\ m[a].size \in Nat /\ m[g].size \in Nat /\ m[a].is_free \in BOOLEAN
      /\ g \in Addrs \cup {NULL}
      /\ m[a] = [size |-> m[a].size, is_free |-> m[a].is_free, next |-> g]
  BY <1>2, <1>4, <1>5 DEF Header
<1>8. PICK z \in Nat : z = m[a].size + HEADER + m[g].size
  BY <1>6, <1>7
<1>9. /\ m2[a] = [size |-> z, is_free |-> m[a].is_free, next |-> g]
      /\ \A x \in Addrs : x # a => m2[x] = m[x]
  BY <1>1, <1>2, <1>4, <1>7, <1>8
<1>10. \A x \in B : /\ x \in Addrs /\ m2[x].next = m[x].next /\ m2[x].is_free = m[x].is_free
                    /\ (x # a => m2[x] = m[x])
  BY <1>1, <1>2, <1>9 DEF Chain
<1>11. m2 \in [Addrs -> Header]
  <2>1. m2[a] \in Header
    BY <1>7, <1>9, HeaderMade
  <2>2. m2 = [x \in Addrs |-> m2[x]] /\ \A x \in Addrs : m2[x] \in Header
    BY <1>1, <1>9, <2>1
  <2>3. QED
    BY <2>2
<1>12. Chain(m2, B)
  <2>1. \A x \in B : m2[x].next = m[x].next
    BY <1>10
  <2>2. QED
    BY <1>1, <2>1 DEF Chain
<1>13. f2 = [pc |-> "link", block |-> f.block, cursor |-> a] /\ f.block \in Addrs \cup {NULL}
  BY <1>1 DEF Busy, Freer
<1>14. a # g
  BY <1>4, <1>5, <1>6
<1>15. Tiled(m2, f2, B)
  <2>1. \A x \in B : x # a => x + HEADER + m2[x].size = End(m2, x)
    <3>1. \A x \in B : x + HEADER + m[x].size = End(m, x)
      BY <1>1 DEF Tiled
    <3>2. QED
      BY <1>10, <3>1 DEF End
  <2>2. a + HEADER + z = End(m2, g)
    <3>1. g + HEADER + m[g].size = End(m, g) /\ a + HEADER + m[a].size = g
      BY <1>1, <1>3, <1>4 DEF Tiled
    <3>2. End(m2, g) = End(m, g)
      BY <1>4, <1>10 DEF End
    <3>3. \A x, h, s, u \in Nat : x + h + (s + h + u) = (x + h + s) + h + u
      OBVIOUS
    <3>4. QED
      BY <1>4, <1>6, <1>7, <1>8, <3>1, <3>2, <3>3
  <2>3. m2[a].size = z /\ m2[a].next = g
    BY <1>9
  <2>4. QED
    BY <1>13, <2>1, <2>2, <2>3 DEF Tiled
<1>16. Busy(m2, f2, B)
  <2>1. m2[a].is_free /\ m2[a].next = g /\ m2[g].is_free
    BY <1>2, <1>3, <1>4, <1>10
  <2>2. QED
    <3>1. f2 \in Freer
      BY <1>4, <1>13, FreerMade
    <3>2. f2.pc = "link" /\ f2.cursor = a
      BY <1>13
    <3>3. QED
      BY <1>3, <1>4, <2>1, <3>1, <3>2 DEF Busy
<1>17. \A s \in o : s.ptr - HEADER \in B /\ s.ptr - HEADER # a
  BY <1>1, <1>3 DEF Owners
<1>18. Owners(m2, c, o, B)
  BY <1>1, <1>10 DEF Owners
<1>19. Fits(m2, o)
  BY <1>1, <1>10, <1>17 DEF Fits
<1>20. Merged(m2, f2, B)
  <2>1. ASSUME NEW x \in B, x < a PROVE Apart(m2, x)
    <3>1. Apart(m, x) /\ m[x].next \in B \cup {NULL}
      BY <1>1, <1>3, <2>1 DEF Chain
    <3>2. QED
      BY <1>10, <3>1 DEF Apart
  <2>2. QED
    BY <1>13, <2>1 DEF Merged
<1>21. QED
  BY <1>11, <1>12, <1>15, <1>16, <1>18, <1>19, <1>20 DEF Good, Sound

\* The next block leaves the list and its header is forgotten.
LEMMA LinkStep ==
    ASSUME NEW m, NEW c, NEW o, NEW f, NEW B, Good(m, c, o, f, B), f.pc = "link",
           NEW a, a = f.cursor, NEW g, g = m[a].next,
           NEW m2, m2 = [m EXCEPT ![a].next = m[g].next, ![g] = NoHeader],
           NEW f2, f2 = [f EXCEPT !.pc = "look"]
    PROVE  Good(m2, c, o, f2, B \ {g})
<1>1. /\ m \in [Addrs -> Header] /\ Chain(m, B) /\ Tiled(m, f, B) /\ Owners(m, c, o, B)
      /\ Busy(m, f, B) /\ Fits(m, o) /\ Merged(m, f, B)
  BY DEF Good, Sound
<1>2. PICK C : C = B \ {g}
  OBVIOUS
<1>3. /\ a \in B /\ m[a].is_free /\ g # NULL /\ m[g].is_free
      /\ \A x \in B : x < a => Apart(m, x)
  BY <1>1 DEF Busy, Merged
<1>4. /\ a \in Addrs /\ a \in Nat /\ m[a] \in Header /\ g \in B /\ a + HEADER =< g
      /\ \A x \in B : a < x => g =< x
  BY <1>1, <1>3, ChainFacts
<1>5. PICK e : e = m[g].next
  OBVIOUS
<1>6. /\ g \in Addrs /\ g \in Nat /\ m[g] \in Header
      /\ e # NULL => e \in B /\ g + HEADER =< e
      /\ \A x \in B : g < x => e # NULL /\ e =< x
  BY <1>1, <1>4, <1>5, ChainFacts DEF End
<1>7. HEADER \in Nat \ {0}
  BY FirstFitAssumption
<1>8. \A x \in B : x \in Nat /\ x \in Addrs
  BY <1>1, AddrFacts DEF Chain
<1>9. a < g /\ (e # NULL => g < e /\ a + HEADER =< e)
  BY <1>4, <1>6, <1>7, <1>8
<1>10. /\ m[a].size \in Nat /\ m[a].is_free \in BOOLEAN /\ e \in Addrs \cup {NULL}
       /\ m[a] = [size |-> m[a].size, is_free |-> m[a].is_free, next |-> m[a].next]
  BY <1>4, <1>5, <1>6 DEF Header
<1>11. /\ m2[a] = [size |-> m[a].size, is_free |-> m[a].is_free, next |-> e]
       /\ m2[g] = NoHeader
       /\ \A x \in Addrs : x # a /\ x # g => m2[x] = m[x]
  BY <1>1, <1>4, <1>5, <1>6, <1>9, <1>10
<1>12. m2 \in [Addrs -> Header]
  <2>1. m2[a] \in Header
    BY <1>10, <1>11, HeaderMade
  <2>2. m2[g] \in Header
    <3>1. NoHeader = [size |-> 0, is_free |-> FALSE, next |-> NULL]
      BY DEF NoHeader
    <3>2. NoHeader \in Header
      BY <3>1, HeaderMade
    <3>3. QED
      BY <1>11, <3>2
  <2>3. m2 = [x \in Addrs |-> m2[x]] /\ \A x \in Addrs : m2[x] \in Header
    BY <1>1, <1>11, <2>1, <2>2
  <2>4. QED
    BY <2>3
<1>13. \A x \in C : /\ x \in B /\ x # g /\ m2[x].is_free = m[x].is_free /\ m2[x].size = m[x].size
                    /\ (x # a => m2[x] = m[x])
  <2>1. ASSUME NEW x \in C PROVE x \in B /\ x # g /\ x \in Addrs
    BY <1>2, <1>8
  <2>2. m2[a].is_free = m[a].is_free /\ m2[a].size = m[a].size
    BY <1>11
  <2>3. \A x \in C : x # a => m2[x] = m[x]
    BY <1>11, <2>1
  <2>4. QED
    BY <2>1, <2>2, <2>3
<1>14. a \in C /\ (e # NULL => e \in C) /\ m2[a].next = e
  BY <1>2, <1>3, <1>6, <1>8, <1>9, <1>11
<1>15. \A x \in B : x # a => m[x].next # g
  <2>1. SUFFICES ASSUME NEW x \in B, x # a, m[x].next = g PROVE FALSE
    OBVIOUS
  <2>2. x + HEADER =< g /\ x \in Nat
    BY <1>1, <1>3, <1>8, <2>1 DEF Chain
  <2>3. ASSUME x < a PROVE FALSE
    <3>1. m[x].next =< a
      BY <1>1, <1>3, <2>3 DEF Chain
    <3>2. QED
      BY <1>4, <1>6, <1>9, <2>1, <3>1
  <2>4. ASSUME a < x PROVE FALSE
    <3>1. g =< x
      BY <1>4, <2>4
    <3>2. QED
      BY <1>6, <1>7, <2>2, <3>1
  <2>5. QED
    BY <1>4, <2>1, <2>2, <2>3, <2>4
<1>16. Chain(m2, C)
  <2>1. C \subseteq Addrs /\ 0 \in C
    BY <1>1, <1>2, <1>4, <1>6, <1>9 DEF Chain
  <2>2. ASSUME NEW x \in C
        PROVE  /\ m2[x].next \in C \cup {NULL} /\ x + HEADER =< HeapSize
               /\ m2[x].next # NULL => x + HEADER =< m2[x].next
    <3>1. x + HEADER =< HeapSize
      BY <1>1, <1>13 DEF Chain
    <3>2. CASE x = a
      BY <1>9, <1>14, <3>1, <3>2
    <3>3. CASE x # a
      <4>1. m2[x] = m[x] /\ x \in B /\ m[x].next # g
        BY <1>13, <1>15, <3>3
      <4>2. QED
        BY <1>1, <1>2, <3>1, <4>1 DEF Chain
    <3>4. QED
      BY <3>2, <3>3
  <2>3. ASSUME NEW x \in C, NEW y \in C, x < y PROVE m2[x].next # NULL /\ m2[x].next =< y
    <3>1. CASE x = a
      <4>1. y \in B /\ y # g /\ y \in Nat
        BY <1>8, <1>13
      <4>2. g < y
        BY <1>4, <1>6, <2>3, <3>1, <4>1
      <4>3. QED
        BY <1>6, <1>14, <3>1, <4>1, <4>2
    <3>2. CASE x # a
      BY <1>1, <1>13, <2>3, <3>2 DEF Chain
    <3>3. QED
      BY <3>1, <3>2
  <2>4. QED
    BY <2>1, <2>2, <2>3 DEF Chain
<1>17. f2 = [pc |-> "look", block |-> f.block, cursor |-> a] /\ f.block \in Addrs \cup {NULL}
  BY <1>1 DEF Busy, Freer
<1>18. Tiled(m2, f2, C)
  <2>1. ASSUME NEW x \in C PROVE x + HEADER + m2[x].size = End(m2, x)
    <3>1. CASE x = a
      <4>1. a + HEADER + m[a].size = End(m, g)
        BY <1>1 DEF Tiled
      <4>2. End(m2, a) = End(m, g)
        BY <1>5, <1>14 DEF End
      <4>3. QED
        BY <1>11, <3>1, <4>1, <4>2
    <3>2. CASE x # a
      <4>1. x + HEADER + m[x].size = End(m, x)
        BY <1>1, <1>13, <3>2 DEF Tiled
      <4>2. QED
        BY <1>13, <3>2, <4>1 DEF End
    <3>3. QED
      BY <3>1, <3>2
  <2>2. QED
    BY <1>17, <2>1 DEF Tiled
<1>19. Busy(m2, f2, C)
  BY <1>4, <1>14, <1>17, FreerMade DEF Busy
<1>20. Owners(m2, c, o, C)
  <2>1. \A s \in o : s.ptr - HEADER \in C /\ ~m2[s.ptr - HEADER].is_free
    BY <1>1, <1>2, <1>3, <1>13 DEF Owners
  <2>2. \A x \in C : ~m2[x].is_free => \E s \in o : s.ptr - HEADER = x
    BY <1>1, <1>13 DEF Owners
  <2>3. QED
    BY <1>1, <2>1, <2>2 DEF Owners
<1>21. Fits(m2, o)
  <2>1. \A s \in o : s.ptr - HEADER \in C
    BY <1>1, <1>2, <1>3 DEF Owners
  <2>2. QED
    BY <1>1, <1>13, <2>1 DEF Fits
<1>22. Merged(m2, f2, C)
  <2>1. ASSUME NEW x \in C, x < a PROVE Apart(m2, x)
    <3>0. x \in B /\ x # a
      BY <1>4, <1>8, <1>13, <2>1
    <3>1. x \in B /\ x # a /\ m2[x] = m[x] /\ Apart(m, x) /\ m[x].next # g
      BY <1>3, <1>13, <1>15, <2>1, <3>0
    <3>2. m[x].next \in C \cup {NULL}
      BY <1>1, <1>2, <3>1 DEF Chain
    <3>3. QED
      BY <1>13, <3>1, <3>2 DEF Apart
  <2>2. QED
    BY <1>17, <2>1 DEF Merged
<1>23. QED
  BY <1>2, <1>12, <1>16, <1>18, <1>19, <1>20, <1>21, <1>22 DEF Good, Sound

-----------------------------------------------------------------------------
(* The theorems *)

\* One block that takes up the whole heap.
LEMMA InitHolds == Init => Inv
<1> SUFFICES ASSUME Init PROVE Inv
  OBVIOUS
<1>1. PICK m, B : m = mem /\ B = {0}
  OBVIOUS
<1>2. /\ HeapSize \in Nat /\ HEADER \in Nat \ {0} /\ HEADER < HeapSize
      /\ 0 \in Addrs /\ NULL \notin Nat
  BY FirstFitAssumption, AddrFacts
<1>3. m = [a \in Addrs |-> IF a = 0 THEN [size |-> HeapSize - HEADER, is_free |-> TRUE, next |-> NULL]
                           ELSE NoHeader]
  BY <1>1 DEF Init
<1>4. m[0] = [size |-> HeapSize - HEADER, is_free |-> TRUE, next |-> NULL]
  BY <1>2, <1>3
<1>5. m \in [Addrs -> Header]
  <2>1. HeapSize - HEADER \in Nat
    BY <1>2
  <2>2. [size |-> HeapSize - HEADER, is_free |-> TRUE, next |-> NULL] \in Header
    BY <2>1, HeaderMade
  <2>3. NoHeader \in Header
    BY HeaderMade DEF NoHeader
  <2>4. QED
    BY <1>3, <2>2, <2>3
<1>6. Chain(m, B)
  BY <1>1, <1>2, <1>4 DEF Chain
<1>7. freer = [pc |-> "idle", block |-> NULL, cursor |-> NULL] /\ owned = {} /\ count = 0
  BY DEF Init, Resting
<1>8. Tiled(m, freer, B)
  BY <1>1, <1>2, <1>4, <1>7 DEF Tiled, End
<1>9. Owners(m, count, owned, B)
  BY <1>1, <1>4, <1>7, FS_EmptySet DEF Owners
<1>10. Busy(m, freer, B)
  <2>1. freer \in Freer
    BY <1>7, FreerMade
  <2>2. freer.pc = "idle"
    BY <1>7
  <2>3. QED
    BY <2>1, <2>2 DEF Busy
<1>11. Merged(m, freer, B)
  BY <1>1, <1>4, <1>7 DEF Merged, Apart
<1>12. Fits(m, owned)
  BY <1>7 DEF Fits
<1>13. Good(mem, count, owned, freer, B)
  BY <1>1, <1>5, <1>6, <1>8, <1>9, <1>10, <1>11, <1>12 DEF Good, Sound
<1>14. B = Blocks(mem)
  BY <1>1, <1>6, ChainBlocks
<1>15. QED
  BY <1>13, <1>14 DEF Inv

\* Each step keeps the invariant, as long as calls are not interrupted.
LEMMA NextHolds == ASSUME ~Preempted PROVE Inv /\ [Next]_vars => Inv'
<1> SUFFICES ASSUME Inv, [Next]_vars PROVE Inv'
  OBVIOUS
<1>1. PICK B : B = Blocks(mem) /\ Good(mem, count, owned, freer, B)
  BY DEF Inv
<1>2. Blocks(mem)' = Blocks(mem')
  BY DEF Blocks, Nth
<1>3. ASSUME NEW B2, Good(mem', count', owned', freer', B2) PROVE Inv'
  <2>1. B2 = Blocks(mem')
    BY <1>3, ChainBlocks DEF Good, Sound
  <2>2. QED
    BY <1>2, <1>3, <2>1 DEF Inv
<1>4. ASSUME NEW n \in Requests, first_fit_malloc(n) PROVE Inv'
  BY <1>4, MallocStep
<1>5. ASSUME NEW r \in owned, first_fit_free(r) PROVE Inv'
  BY <1>5, ReleaseStep
<1>6. CASE Wipe
  <2>1. /\ freer.pc = "wipe" /\ mem' = mem /\ count' = count /\ owned' = owned
        /\ freer' = [freer EXCEPT !.pc = "look", !.cursor = 0]
    BY <1>6 DEF Wipe
  <2>2. /\ Chain(mem, B) /\ Tiled(mem, freer, B) /\ Busy(mem, freer, B)
        /\ mem \in [Addrs -> Header] /\ Owners(mem, count, owned, B) /\ Fits(mem, owned)
    BY <1>1 DEF Good, Sound
  <2>3. freer' = [pc |-> "look", block |-> freer.block, cursor |-> 0] /\ freer.block \in Addrs \cup {NULL}
    BY <2>1, <2>2 DEF Busy, Freer
  <2>4. Tiled(mem, freer', B)
    BY <2>1, <2>2, <2>3 DEF Tiled
  <2>5. Busy(mem, freer', B)
    <3>1. freer' \in Freer
      BY <2>3, FreerMade, AddrFacts
    <3>2. 0 \in B
      BY <2>2 DEF Chain
    <3>3. freer'.pc = "look" /\ freer'.cursor = 0
      BY <2>3
    <3>4. QED
      BY <3>1, <3>2, <3>3 DEF Busy
  <2>6. Merged(mem, freer', B)
    <3>1. \A b \in B : ~(b < 0)
      BY <2>2, AddrFacts DEF Chain
    <3>2. freer'.pc = "look" /\ freer'.cursor = 0
      BY <2>3
    <3>3. QED
      BY <3>1, <3>2 DEF Merged
  <2>7. Good(mem', count', owned', freer', B)
    BY <2>1, <2>2, <2>4, <2>5, <2>6 DEF Good, Sound
  <2>8. QED
    BY <1>3, <2>7
<1>7. CASE Look
  <2>1. Good(mem, count, owned, freer', B)
    BY <1>1, <1>7, LookStep DEF Look, Merges
  <2>2. Good(mem', count', owned', freer', B)
    BY <1>7, <2>1 DEF Look
  <2>3. QED
    BY <1>3, <2>2
<1>8. CASE Grow
  <2>1. Good(mem', count, owned, freer', B)
    BY <1>1, <1>8, GrowStep DEF Grow
  <2>2. Good(mem', count', owned', freer', B)
    BY <1>8, <2>1 DEF Grow
  <2>3. QED
    BY <1>3, <2>2
<1>9. CASE Link
  <2>1. Good(mem', count, owned, freer', B \ {mem[freer.cursor].next})
    BY <1>1, <1>9, LinkStep DEF Link
  <2>2. Good(mem', count', owned', freer', B \ {mem[freer.cursor].next})
    BY <1>9, <2>1 DEF Link
  <2>3. QED
    BY <1>3, <2>2
<1>10. CASE UNCHANGED vars
  <2>1. Good(mem', count', owned', freer', B)
    BY <1>1, <1>10 DEF vars
  <2>2. QED
    BY <1>3, <2>1
<1>11. QED
  BY <1>4, <1>5, <1>6, <1>7, <1>8, <1>9, <1>10 DEF Next

\* The invariant of the heap holds always if no first_fit_free is interrupted, as in
\* system calls, which run with interrupts disabled.
THEOREM Invariance == ASSUME ~Preempted PROVE Spec => []Inv
BY InitHolds, NextHolds, PTL DEF Spec

\* The blocks of the list tile the heap, as coalesce_blocks and first_fit_get_info take
\* for granted: split_block leaves no gap, and merging closes the one that it makes.
THEOREM HeapTiled == ASSUME ~Preempted PROVE Spec => []TilesHeap
<1>1. Inv => TilesHeap
  <2> SUFFICES ASSUME Inv PROVE TilesHeap
    OBVIOUS
  <2>1. Tiled(mem, freer, Blocks(mem))
    BY DEF Inv, Good, Sound
  <2>2. QED
    BY <2>1 DEF TilesHeap, Tiled, End
<1>2. QED
  BY <1>1, Invariance, PTL

\* The blocks in use are the regions that callers of first_fit_malloc have, and
\* current_allocated_blocks counts them.
THEOREM OwnersInUse == ASSUME ~Preempted PROVE Spec => []InUseIsOwned
<1>1. Inv => InUseIsOwned
  <2> SUFFICES ASSUME Inv PROVE InUseIsOwned
    OBVIOUS
  <2>1. Owners(mem, count, owned, Blocks(mem))
    BY DEF Inv, Good, Sound
  <2>2. QED
    BY <2>1 DEF InUseIsOwned, Owners
<1>2. QED
  BY <1>1, Invariance, PTL

\* Between calls no two free blocks are side by side, and a heap of which nothing is in
\* use is one block: coalesce_blocks, in one pass, merges all that it can.
THEOREM FreeMerged == ASSUME ~Preempted PROVE Spec => []Coalesced
<1>1. Inv => Coalesced
  <2> SUFFICES ASSUME Inv, freer.pc = "idle" PROVE Coalesced
    BY DEF Coalesced, Idle
  <2>1. PICK B : B = Blocks(mem) /\ Good(mem, count, owned, freer, B)
    BY DEF Inv
  <2>2. /\ Chain(mem, B) /\ mem \in [Addrs -> Header] /\ Owners(mem, count, owned, B)
        /\ \A b \in B : Apart(mem, b)
    BY <2>1 DEF Good, Sound, Merged
  <2>3. ASSUME owned = {} PROVE B = {0}
    <3>1. 0 \in B /\ \A b \in B : mem[b].is_free
      BY <2>2, <2>3 DEF Owners, Chain
    <3>2. mem[0].next = NULL
      <4>1. SUFFICES ASSUME mem[0].next # NULL PROVE FALSE
        OBVIOUS
      <4>2. mem[0].next \in B
        BY <2>2, <3>1, <4>1 DEF Chain
      <4>3. QED
        BY <2>2, <3>1, <4>1, <4>2 DEF Apart
    <3>3. \A b \in B : ~(0 < b) /\ b \in Nat
      BY <2>2, <3>1, <3>2, AddrFacts DEF Chain
    <3>4. \A b \in B : b = 0
      BY <3>3
    <3>5. QED
      BY <3>1, <3>4
  <2>4. QED
    BY <2>1, <2>2, <2>3 DEF Coalesced, Apart
<1>2. QED
  BY <1>1, Invariance, PTL

\* Two blocks of the list share no byte.
LEMMA BlocksApart ==
    ASSUME NEW m, NEW B, m \in [Addrs -> Header], Chain(m, B), NEW b \in B, NEW d \in B, b < d
    PROVE  b \in Nat /\ d \in Nat /\ End(m, b) \in Nat /\ End(m, b) =< d
BY ChainFacts

\* What a caller writes lies in its own block.
LEMMA RegionFacts ==
    ASSUME Inv, NoWrap, freer.pc \in {"idle", "wipe"}, NEW r \in owned,
           NEW b, b = r.ptr - HEADER
    PROVE  /\ b \in Blocks(mem) /\ b \in Nat /\ ~mem[b].is_free /\ r.ptr = b + HEADER
           /\ r.n \in Nat \ {0} /\ r.n =< mem[b].size
           /\ r.ptr + r.n =< End(mem, b) /\ End(mem, b) =< HeapSize /\ End(mem, b) \in Nat
<1>1. PICK B : B = Blocks(mem) /\ Sound(mem, count, owned, freer, B)
  BY DEF Inv, Good
<1>2. b \in B /\ ~mem[b].is_free /\ r.ptr \in Nat /\ r.n \in Requests
  BY <1>1, OwnerFacts
<1>3. mem \in [Addrs -> Header] /\ Chain(mem, B) /\ Tiled(mem, freer, B) /\ Fits(mem, owned)
  BY <1>1 DEF Sound
<1>4. b \in Nat /\ mem[b] \in Header /\ End(mem, b) \in Nat /\ End(mem, b) =< HeapSize
  BY <1>2, <1>3, ChainFacts
<1>5. b + HEADER + mem[b].size = End(mem, b)
  BY <1>2, <1>3 DEF Tiled
<1>6. r.n =< mem[b].size
  BY <1>3 DEF Fits
<1>7. HEADER \in Nat /\ r.n \in Nat \ {0} /\ mem[b].size \in Nat
  <2>1. \A n \in Requests : n \in Nat \ {0}
    BY FirstFitAssumption
  <2>2. mem[b].size \in Nat
    BY <1>4 DEF Header
  <2>3. QED
    BY <1>2, <2>1, <2>2, FirstFitAssumption
<1>8. r.ptr = b + HEADER
  BY <1>2, <1>4, <1>7
<1>9. r.ptr + r.n =< End(mem, b)
  <2>1. \A x, h, n, z, e \in Nat : x + h + z = e /\ n =< z => x + h + n =< e
    OBVIOUS
  <2>2. QED
    BY <1>4, <1>5, <1>6, <1>7, <1>8, <2>1
<1>10. QED
  BY <1>1, <1>2, <1>4, <1>6, <1>7, <1>8, <1>9

\* A region and the bytes of another block do not overlap.
LEMMA RegionsApart ==
    ASSUME Inv, NoWrap, freer.pc \in {"idle", "wipe"}, NEW r \in owned,
           NEW d \in Blocks(mem), d # r.ptr - HEADER,
           NEW n \in Nat, n =< mem[d].size
    PROVE  Bytes(d + HEADER, n) \cap Bytes(r.ptr, r.n) = {}
<1>1. PICK b, B : b = r.ptr - HEADER /\ B = Blocks(mem)
  OBVIOUS
<1>2. /\ b \in B /\ b \in Nat /\ r.ptr = b + HEADER /\ r.n \in Nat
      /\ r.ptr + r.n =< End(mem, b) /\ End(mem, b) \in Nat
  BY <1>1, RegionFacts
<1>3. mem \in [Addrs -> Header] /\ Chain(mem, B) /\ Tiled(mem, freer, B)
  BY <1>1 DEF Inv, Good, Sound
<1>4. d \in Nat /\ mem[d] \in Header /\ End(mem, d) \in Nat /\ d + HEADER + mem[d].size = End(mem, d)
  BY <1>1, <1>3, ChainFacts DEF Tiled
<1>5. HEADER \in Nat /\ mem[d].size \in Nat
  BY <1>4, FirstFitAssumption DEF Header
<1>6. d + HEADER + n =< End(mem, d)
  <2>1. \A x, h, k, z, e \in Nat : x + h + z = e /\ k =< z => x + h + k =< e
    OBVIOUS
  <2>2. QED
    BY <1>4, <1>5, <2>1
<1>7. d + HEADER + n =< r.ptr \/ r.ptr + r.n =< d + HEADER
  <2>1. \A x, h, e, y \in Nat : x =< e /\ e =< y => x =< y + h
    OBVIOUS
  <2>2. CASE d < b
    <3>1. End(mem, d) =< b
      BY <1>1, <1>2, <1>3, <2>2, BlocksApart
    <3>2. d + HEADER + n \in Nat
      BY <1>4, <1>5
    <3>3. QED
      BY <1>2, <1>4, <1>5, <1>6, <2>1, <3>1, <3>2
  <2>3. CASE b < d
    <3>1. End(mem, b) =< d
      BY <1>1, <1>2, <1>3, <2>3, BlocksApart
    <3>2. r.ptr + r.n \in Nat
      BY <1>2, <1>5
    <3>3. QED
      BY <1>2, <1>4, <1>5, <2>1, <3>1, <3>2
  <2>4. QED
    BY <1>1, <1>2, <1>4, <2>2, <2>3
<1>8. \A x, n1, y, n2 \in Nat :
         x + n1 =< y \/ y + n2 =< x => (x .. x + n1 - 1) \cap (y .. y + n2 - 1) = {}
  OBVIOUS
<1>9. d + HEADER \in Nat /\ r.ptr \in Nat
  BY <1>2, <1>4, <1>5
<1>10. QED
  BY <1>2, <1>7, <1>8, <1>9 DEF Bytes

\* What first_fit_free clears is nobody's, as long as it is not interrupted.
THEOREM WipeSafe == ASSUME ~Preempted, NoWrap PROVE Spec => []WipesOnlyItsOwn
<1>1. Inv => WipesOnlyItsOwn
  <2> SUFFICES ASSUME Inv, freer.pc = "wipe", NEW r \in owned
               PROVE  Bytes(freer.block + HEADER, mem[freer.block].size) \cap Bytes(r.ptr, r.n) = {}
    BY DEF WipesOnlyItsOwn
  <2>1. PICK d : d = freer.block
    OBVIOUS
  <2>2. Busy(mem, freer, Blocks(mem)) /\ mem \in [Addrs -> Header] /\ Chain(mem, Blocks(mem))
    BY DEF Inv, Good, Sound
  <2>3. d \in Blocks(mem) /\ mem[d].is_free
    BY <2>1, <2>2 DEF Busy
  <2>4. d # r.ptr - HEADER
    BY <2>3, RegionFacts
  <2>5. mem[d].size \in Nat /\ mem[d].size =< mem[d].size
    BY <2>2, <2>3, ChainFacts DEF Header
  <2>6. QED
    BY <2>1, <2>3, <2>4, <2>5, RegionsApart
<1>2. QED
  BY <1>1, Invariance, PTL

\* A region at the start of a block that is large enough lies in the heap.
LEMMA InHeap ==
    ASSUME Inv, freer.pc = "idle", NEW d \in Blocks(mem), NEW n \in Requests, n =< mem[d].size,
           NEW r, r = [ptr |-> d + HEADER, n |-> n]
    PROVE  r \in A!Region /\ A!Of(r) \subseteq 0 .. HeapSize - 1
<1>1. PICK B, e : B = Blocks(mem) /\ e = End(mem, d)
  OBVIOUS
<1>2. mem \in [Addrs -> Header] /\ Chain(mem, B) /\ Tiled(mem, freer, B)
  BY <1>1 DEF Inv, Good, Sound
<1>3. d \in Nat /\ mem[d] \in Header /\ e \in Nat /\ e =< HeapSize
  BY <1>1, <1>2, ChainFacts
<1>4. d + HEADER + mem[d].size = e /\ mem[d].size \in Nat
  BY <1>1, <1>2, <1>3 DEF Tiled, Header
<1>5. HEADER \in Nat /\ HeapSize \in Nat /\ n \in Nat
  BY FirstFitAssumption
<1>6. d + HEADER \in 0 .. HeapSize /\ d + HEADER .. d + HEADER + n - 1 \subseteq 0 .. HeapSize - 1
  <2>1. \A x, h, k, s, e2, z \in Nat : x + h + s = e2 /\ k =< s /\ e2 =< z =>
           x + h \in 0 .. z /\ x + h .. x + h + k - 1 \subseteq 0 .. z - 1
    OBVIOUS
  <2>2. QED
    BY <1>3, <1>4, <1>5, <2>1
<1>7. QED
  BY <1>6 DEF A!Region, A!Of

\* What first_fit_malloc gives its caller is a step of Allocator.
LEMMA MallocRefines ==
    ASSUME Inv, NoWrap, ~Preempted, NEW n \in Requests, first_fit_malloc(n)
    PROVE  [A!Next]_owned
<1>1. PICK b, r : /\ b = find_free_block(mem, Rounded(n))
                  /\ r = [ptr |-> b + HEADER, n |-> n]
  OBVIOUS
<1>2. b # NULL /\ freer.pc = "idle" /\ owned' = owned \cup {r}
  BY <1>1 DEF first_fit_malloc
<1>3. b \in Blocks(mem) /\ mem[b].is_free /\ mem[b].size >= Rounded(n)
  BY <1>1, <1>2, FindFacts
<1>4. Rounded(n) \in Nat /\ n =< Rounded(n) /\ HEADER \in Nat /\ n \in Nat
  BY RoundedFacts, FirstFitAssumption
<1>5. mem[b].size \in Nat /\ b \in Nat
  BY <1>3, ChainFacts DEF Header, Inv, Good, Sound
<1>6. n =< mem[b].size /\ r.ptr = b + HEADER /\ r.n = n
  BY <1>1, <1>3, <1>4, <1>5
<1>7. ASSUME NEW s \in owned PROVE A!Of(r) \cap A!Of(s) = {}
  <2>1. b # s.ptr - HEADER
    BY <1>2, <1>3, <1>7, RegionFacts
  <2>2. Bytes(b + HEADER, n) \cap Bytes(s.ptr, s.n) = {}
    BY <1>2, <1>3, <1>4, <1>6, <1>7, <2>1, RegionsApart
  <2>3. QED
    BY <1>6, <2>2 DEF Bytes, A!Of
<1>8. r \in A!Region /\ A!Of(r) \subseteq 0 .. HeapSize - 1
  BY <1>1, <1>2, <1>3, <1>6, InHeap
<1>9. A!Malloc(r)
  BY <1>2, <1>7, <1>8 DEF A!Malloc
<1>10. QED
  BY <1>8, <1>9 DEF A!Next

\* What first_fit_free takes back is a step of Allocator.
LEMMA FreeRefines ==
    ASSUME Inv, NoWrap, NEW r \in owned, first_fit_free(r)
    PROVE  [A!Next]_owned
<1>1. freer.pc = "idle" /\ owned' = owned \ {r}
  BY DEF first_fit_free
<1>2. PICK d, n : d = r.ptr - HEADER /\ n = r.n
  OBVIOUS
<1>3. d \in Blocks(mem) /\ r.ptr = d + HEADER /\ n =< mem[d].size
  BY <1>1, <1>2, RegionFacts
<1>4. r = [ptr |-> d + HEADER, n |-> n] /\ n \in Requests
  BY <1>2, <1>3, OwnerFacts DEF Inv, Good
<1>5. r \in A!Region
  BY <1>1, <1>3, <1>4, InHeap
<1>6. A!Free(r)
  BY <1>1 DEF A!Free
<1>7. QED
  BY <1>5, <1>6 DEF A!Next

\* The heap is an Allocator: a region that a caller is given lies in the heap, is as large
\* as asked for, and shares no byte with a region that another caller has.
THEOREM AllocatorImplemented == ASSUME ~Preempted, NoWrap PROVE Spec => ImplementsAllocator
<1>1. Init => A!Init
  BY DEF Init, A!Init
<1>2. Inv /\ [Next]_vars => [A!Next]_owned
  <2> SUFFICES ASSUME Inv, [Next]_vars PROVE [A!Next]_owned
    OBVIOUS
  <2>1. ASSUME NEW n \in Requests, first_fit_malloc(n) PROVE [A!Next]_owned
    BY <2>1, MallocRefines
  <2>2. ASSUME NEW r \in owned, first_fit_free(r) PROVE [A!Next]_owned
    BY <2>2, FreeRefines
  <2>3. ASSUME Wipe \/ Look \/ Grow \/ Link \/ UNCHANGED vars PROVE owned' = owned
    BY <2>3 DEF Wipe, Look, Grow, Link, vars
  <2>4. QED
    BY <2>1, <2>2, <2>3 DEF Next
<1>3. QED
  BY <1>1, <1>2, Invariance, PTL DEF Spec, ImplementsAllocator, A!Spec
=============================================================================
