----------------------------- MODULE PipeProofs -----------------------------
(***************************************************************************)
(* Proofs about Pipe, for every finite set of slots, pipes and files,      *)
(* every size of the tables and of the ring buffers, and every set of      *)
(* situations.                                                             *)
(*                                                                         *)
(* Inv is inductive.  Next to the properties it says that files and pipes  *)
(* out of use hold nothing, that whoever sleeps stands in the queue of the *)
(* pipe, that nobody stands in a queue whose other side is gone, that      *)
(* undisturbed queues hold sleepers only, and how many processes have been *)
(* woken for the bytes (or the room) in a pipe.                            *)
(*                                                                         *)
(* The last part proves that Pipe implements PipeChannel.  Two facts are   *)
(* added to Inv for it: w is size bytes ahead of r, and a process inside   *)
(* kpipe_read or kpipe_write still has the descriptor that it came with,   *)
(* so that the end it uses is counted.                                     *)
(***************************************************************************)
EXTENDS Pipe, QueueProofs

PipeRec == [used : BOOLEAN, name : Names \cup {None}, buf : [Cells -> Bytes \cup {None}],
            r : Cells, w : Cells, size : 0 .. PIPE_CAP, readers : Nat, writers : Nat,
            unlinked : BOOLEAN, readq : Seq(Slots), writeq : Seq(Slots)]
FileRec == [refcount : Nat, ptr : Pipes \cup {None}, ends : SUBSET {"read", "write"}]
ProcRec == [state : {"FREE", "READY", "BLOCKED", "EXITED"}, at : Calls \cup {None}]

Types ==
    /\ pipes \in [Pipes -> PipeRec]
    /\ files \in [Files -> FileRec]
    /\ tables \in [Slots -> [Fds -> Files \cup {None}]]
    /\ procs \in [Slots -> ProcRec]

\* What is out of use holds nothing: a slot no descriptors and no call, a file no
\* pipe, a pipe no bytes, ends or waiters.
Vacant ==
    /\ \A p \in Slots : procs[p].state = "FREE" => tables[p] = NoTable /\ procs[p].at = None
    /\ \A p \in Slots : procs[p].state = "BLOCKED" => procs[p].at # None
    /\ \A p \in Slots : procs[p].state = "EXITED" => "parent_dies" \in may
    /\ \A f \in Files : files[f].refcount = 0 => files[f] = NoFile
    /\ \A f \in Files : files[f].refcount > 0 => files[f].ptr \in Pipes
    /\ \A f \in Files : "both_ends" \notin may => files[f].ends # {"read", "write"}
    /\ \A q \in Pipes : ~pipes[q].used => pipes[q] = NoPipe

RefsExact == \A f \in Files : files[f].refcount = Cardinality(Holders(f))

Queue(q, op) == IF op = "read" THEN pipes[q].readq ELSE pipes[q].writeq

\* Whoever sleeps can be found, and nobody is left in a queue whose other side is gone.
Queued ==
    /\ \A p \in Slots : procs[p].state = "BLOCKED" =>
            p \in InQueue(Queue(procs[p].at.pipe, procs[p].at.op))
    /\ \A q \in Pipes : /\ pipes[q].writers = 0 => pipes[q].readq = <<>>
                        /\ pipes[q].readers = 0 => pipes[q].writeq = <<>>

Undisturbed == may \cap {"kill", "parent_dies", "unblock"} = {}

\* Undisturbed, the queues hold processes that sleep there, each once.
QueuesExact ==
    Undisturbed =>
        \A q \in Pipes, op \in {"read", "write"} :
            Distinct(Queue(q, op)) /\ InQueue(Queue(q, op)) \subseteq Sleeping(q, op)

Used == {p \in Slots : procs[p].state # "FREE"}

\* The two ways in which calls are bounded.
Bounds ==
    /\ "crowd" \notin may => Cardinality(Used) =< 2
    /\ "long_calls" \notin may =>
           \A p \in Slots : procs[p].at # None =>
                IF procs[p].at.op = "read" THEN procs[p].at.n = 1 ELSE Len(procs[p].at.bytes) = 1
    /\ \A p \in Slots : procs[p].at # None =>
            IF procs[p].at.op = "read" THEN procs[p].at.n > 0 ELSE Len(procs[p].at.bytes) > 0

\* What sleepers of the kind op could go on with.
Stock(q, op) == IF op = "read" THEN pipes[q].size ELSE PIPE_CAP - pipes[q].size

\* With calls of one byte enough processes have been woken for what is there; with two
\* processes nothing is there while one of them sleeps.
WakeupsReach ==
    Undisturbed =>
        \A q \in Pipes, op \in {"read", "write"} :
            Sleeping(q, op) # {} =>
                IF "long_calls" \notin may THEN Stock(q, op) =< Cardinality(Woken(q, op))
                ELSE "crowd" \notin may => Stock(q, op) = 0

Inv ==
    /\ Types /\ Vacant /\ RefsExact /\ EndsExact
    /\ Queued /\ SomebodyToWaitFor
    /\ QueuesExact /\ Bounds /\ WakeupsReach

-----------------------------------------------------------------------------
(* The operators of the model *)

\* There are finitely many descriptors, files and processes.
LEMMA FdsFinite == Fds \subseteq Nat /\ \A S \in SUBSET Fds : IsFiniteSet(S) /\ Cardinality(S) \in Nat
<1>1. IsFiniteSet(Fds)
  BY PipeAssumption, FS_Interval DEF Fds
<1>2. Fds \subseteq Nat
  BY PipeAssumption DEF Fds
<1>3. QED
  BY <1>1, <1>2, FS_Subset, FS_CardinalityType

\* So are the sets of open files,
LEMMA FilesFinite == \A S \in SUBSET Files : IsFiniteSet(S) /\ Cardinality(S) \in Nat
BY PipeAssumption, FS_Subset, FS_CardinalityType

\* and of processes.
LEMMA SlotsFinite == \A S \in SUBSET Slots : IsFiniteSet(S) /\ Cardinality(S) \in Nat
BY PipeAssumption, FS_Subset, FS_CardinalityType

\* proc_unblock touches the state of those that are BLOCKED, and nothing else.
LEMMA UnblockFacts ==
    ASSUME NEW ps \in [Slots -> ProcRec], NEW W
    PROVE  /\ Unblock(ps, W) \in [Slots -> ProcRec]
           /\ \A s \in Slots :
                /\ Unblock(ps, W)[s].at = ps[s].at
                /\ Unblock(ps, W)[s].state = IF s \in W /\ ps[s].state = "BLOCKED" THEN "READY"
                                             ELSE ps[s].state
BY DEF Unblock, ProcRec

\* What is left of a count of ends after some are released.
LEMMA LessFacts ==
    ASSUME NEW a \in Nat, NEW b \in Nat
    PROVE  Less(a, b) \in Nat /\ (b =< a => Less(a, b) = a - b) /\ (Less(a, b) = 0 <=> a =< b)
BY DEF Less

\* A pipe that was freed is out of use and empty.
LEMMA NoPipeFacts ==
    /\ NoPipe \in PipeRec
    /\ NoPipe.used = FALSE /\ NoPipe.unlinked = FALSE /\ NoPipe.readers = 0 /\ NoPipe.writers = 0
    /\ NoPipe.readq = <<>> /\ NoPipe.writeq = <<>> /\ NoPipe.size = 0
    /\ NoPipe.r = 0 /\ NoPipe.w = 0
<1>1. 0 \in Cells /\ 0 \in 0 .. PIPE_CAP
  BY PipeAssumption DEF Cells
<1>2. QED
  BY <1>1, EmptySeq DEF NoPipe, PipeRec

\* What kpipe_close makes of a pipe: it takes ends away, empties the queues of those
\* that wait for the side that is gone, frees a pipe without a name with its last end,
\* and leaves the bytes of the others alone.
Closed(pipe, rd, wr, x) ==
    /\ x \in PipeRec
    /\ x.readers = Less(pipe.readers, rd) /\ x.writers = Less(pipe.writers, wr)
    /\ x.writers = 0 => x.readq = <<>>
    /\ x.writers # 0 => x.readq = pipe.readq
    /\ x.readers = 0 => x.writeq = <<>>
    /\ x.readers # 0 => x.writeq = pipe.writeq
    /\ \/ /\ x = NoPipe
          /\ pipe.unlinked /\ x.readers = 0 /\ x.writers = 0
       \/ /\ x.used = pipe.used /\ x.unlinked = pipe.unlinked
          /\ x.size = pipe.size /\ x.buf = pipe.buf /\ x.r = pipe.r /\ x.w = pipe.w
          /\ pipe.unlinked => x.readers # 0 \/ x.writers # 0

\* What kpipe_close leaves of a pipe.
LEMMA CloseFacts ==
    ASSUME NEW pipe \in PipeRec, NEW rd \in Nat, NEW wr \in Nat,
           NEW x, x = kpipe_close(pipe, rd, wr)
    PROVE  Closed(pipe, rd, wr, x)
<1>1. PICK a \in Nat, b \in Nat : a = Less(pipe.readers, rd) /\ b = Less(pipe.writers, wr)
  BY LessFacts DEF PipeRec
<1>2. PICK rq \in Seq(Slots), wq \in Seq(Slots) : /\ rq = IF b = 0 THEN <<>> ELSE pipe.readq
                                                 /\ wq = IF a = 0 THEN <<>> ELSE pipe.writeq
  BY EmptySeq DEF PipeRec
<1>3. CASE pipe.unlinked /\ a = 0 /\ b = 0
  <2>1. x = NoPipe
    BY <1>1, <1>3 DEF kpipe_close
  <2>2. QED
    BY <1>1, <1>3, <2>1, NoPipeFacts DEF Closed
<1>4. CASE ~(pipe.unlinked /\ a = 0 /\ b = 0)
  <2>1. x = [pipe EXCEPT !.readers = a, !.writers = b, !.readq = rq, !.writeq = wq]
    BY <1>1, <1>2, <1>4 DEF kpipe_close
  <2>2. /\ x \in PipeRec
        /\ x.readers = a /\ x.writers = b /\ x.readq = rq /\ x.writeq = wq
        /\ x.used = pipe.used /\ x.unlinked = pipe.unlinked
        /\ x.size = pipe.size /\ x.buf = pipe.buf /\ x.r = pipe.r /\ x.w = pipe.w
    BY <2>1 DEF PipeRec
  <2>3. QED
    BY <1>1, <1>2, <1>4, <2>2 DEF Closed
<1>5. QED
  BY <1>3, <1>4

\* Nothing happens to a pipe that is not in use.
LEMMA CloseNoPipe ==
    ASSUME NEW rd \in Nat, NEW wr \in Nat
    PROVE  kpipe_close(NoPipe, rd, wr) = NoPipe
<1>1. Less(0, rd) = 0 /\ Less(0, wr) = 0
  BY DEF Less
<1>2. kpipe_close(NoPipe, rd, wr) = [NoPipe EXCEPT !.readers = 0, !.writers = 0,
                                                   !.readq = <<>>, !.writeq = <<>>]
  BY <1>1, NoPipeFacts DEF kpipe_close
<1>3. QED
  BY <1>2 DEF NoPipe

-----------------------------------------------------------------------------
(* The counts of descriptors *)

\* The descriptors of F that stand for f in the table t.
Uses(t, F, f) == {fd \in F : t[fd] = f}

\* When the table of one process changes, the descriptors of f elsewhere stay.
LEMMA HoldersStep ==
    ASSUME tables \in [Slots -> [Fds -> Files \cup {None}]], NEW p \in Slots,
           NEW t \in [Fds -> Files \cup {None}], tables' = [tables EXCEPT ![p] = t], NEW f \in Files
    PROVE  \E n \in Nat :
              /\ Cardinality(Holders(f)) = n + Cardinality(Uses(tables[p], Fds, f))
              /\ Cardinality(Holders(f)') = n + Cardinality(Uses(t, Fds, f))
              /\ Cardinality(Uses(tables[p], Fds, f)) \in Nat /\ Cardinality(Uses(t, Fds, f)) \in Nat
<1> DEFINE rest == {pf \in Slots \X Fds : pf[1] # p /\ tables[pf[1]][pf[2]] = f}
           old == {p} \X Uses(tables[p], Fds, f)
           new == {p} \X Uses(t, Fds, f)
<1>1. Holders(f) = rest \cup old /\ rest \cap old = {}
  BY DEF Holders, Uses
<1>2. Holders(f)' = rest \cup new /\ rest \cap new = {}
  BY DEF Holders, Uses
<1>3. /\ Uses(tables[p], Fds, f) \in SUBSET Fds
      /\ Uses(t, Fds, f) \in SUBSET Fds
  BY DEF Uses
<1>4. \A U \in SUBSET Fds : IsFiniteSet({p} \X U) /\ Cardinality({p} \X U) = Cardinality(U)
  <2> TAKE U \in SUBSET Fds
  <2>1. IsFiniteSet({p}) /\ Cardinality({p}) = 1 /\ IsFiniteSet(U) /\ Cardinality(U) \in Nat
    BY FS_Singleton, FdsFinite
  <2>2. IsFiniteSet({p} \X U) /\ Cardinality({p} \X U) = 1 * Cardinality(U)
    BY <2>1, FS_Product
  <2>3. QED
    BY <2>1, <2>2
<1>5. IsFiniteSet(rest)
  <2>1. IsFiniteSet(Slots \X Fds)
    BY PipeAssumption, FdsFinite, FS_Product
  <2>2. rest \in SUBSET (Slots \X Fds)
    OBVIOUS
  <2>3. QED
    BY <2>1, <2>2, FS_Subset
<1> HIDE DEF rest
<1>6. \A U \in SUBSET Fds : rest \cap ({p} \X U) = {} =>
         Cardinality(rest \cup ({p} \X U)) = Cardinality(rest) + Cardinality(U)
  <2> TAKE U \in SUBSET Fds
  <2>1. Cardinality(rest) \in Nat /\ Cardinality(U) \in Nat
    BY <1>5, FS_CardinalityType, FdsFinite
  <2>2. Cardinality(rest \cup ({p} \X U)) = Cardinality(rest) + Cardinality({p} \X U)
                                           - Cardinality(rest \cap ({p} \X U))
    BY <1>4, <1>5, FS_Union
  <2>3. Cardinality({p} \X U) = Cardinality(U)
    BY <1>4
  <2>4. rest \cap ({p} \X U) = {} => Cardinality(rest \cap ({p} \X U)) = 0
    BY FS_EmptySet
  <2>5. QED
    BY <2>1, <2>2, <2>3, <2>4
<1>7. /\ Cardinality(Holders(f)) = Cardinality(rest) + Cardinality(Uses(tables[p], Fds, f))
      /\ Cardinality(Holders(f)') = Cardinality(rest) + Cardinality(Uses(t, Fds, f))
  BY <1>1, <1>2, <1>3, <1>6
<1>8. /\ Cardinality(rest) \in Nat /\ Cardinality(Uses(tables[p], Fds, f)) \in Nat
      /\ Cardinality(Uses(t, Fds, f)) \in Nat
  BY <1>3, <1>5, FS_CardinalityType, FdsFinite
<1>9. QED
  BY <1>7, <1>8

\* So the references stay exact when the table of one process changes.
LEMMA RefsStep ==
    ASSUME Types, RefsExact, NEW p \in Slots, NEW t \in [Fds -> Files \cup {None}],
           tables' = [tables EXCEPT ![p] = t],
           \A f \in Files : files'[f].refcount = files[f].refcount - Cardinality(Uses(tables[p], Fds, f))
                                                  + Cardinality(Uses(t, Fds, f))
    PROVE  RefsExact'
<1> SUFFICES ASSUME NEW f \in Files PROVE files'[f].refcount = Cardinality(Holders(f)')
  BY DEF RefsExact
<1>1. PICK n \in Nat :
         /\ Cardinality(Holders(f)) = n + Cardinality(Uses(tables[p], Fds, f))
         /\ Cardinality(Holders(f)') = n + Cardinality(Uses(t, Fds, f))
         /\ Cardinality(Uses(tables[p], Fds, f)) \in Nat /\ Cardinality(Uses(t, Fds, f)) \in Nat
  BY HoldersStep DEF Types
<1>2. files[f].refcount = Cardinality(Holders(f))
  BY DEF RefsExact
<1>3. QED
  BY <1>1, <1>2

\* The descriptors of one table are among all of them.
LEMMA DroppedFacts ==
    ASSUME NEW p \in Slots, NEW F \in SUBSET Fds, NEW f
    PROVE  /\ Dropped(p, F, f) = Cardinality(Uses(tables[p], F, f))
           /\ Dropped(p, F, f) \in Nat
           /\ IsFiniteSet(Holders(f)) /\ Cardinality(Holders(f)) \in Nat
           /\ Dropped(p, F, f) =< Cardinality(Holders(f))
<1> DEFINE U == Uses(tables[p], F, f)
<1>1. U \in SUBSET Fds
  BY DEF Uses
<1>2. IsFiniteSet(U) /\ Cardinality(U) \in Nat
  BY <1>1, FdsFinite
<1>3. IsFiniteSet({p}) /\ Cardinality({p}) = 1
  BY FS_Singleton
<1>4. IsFiniteSet({p} \X U) /\ Cardinality({p} \X U) = 1 * Cardinality(U)
  BY <1>2, <1>3, FS_Product
<1>5. {p} \X U \in SUBSET Holders(f)
  BY <1>1 DEF Holders, Uses
<1>6. IsFiniteSet(Holders(f))
  <2>1. IsFiniteSet(Slots \X Fds)
    BY PipeAssumption, FdsFinite, FS_Product
  <2>2. Holders(f) \in SUBSET (Slots \X Fds)
    BY DEF Holders
  <2>3. QED
    BY <2>1, <2>2, FS_Subset
<1>7. Cardinality({p} \X U) =< Cardinality(Holders(f))
  BY <1>5, <1>6, FS_Subset
<1>8. Dropped(p, F, f) = Cardinality(U)
  BY DEF Dropped, Uses
<1>9. Cardinality(Holders(f)) \in Nat
  BY <1>6, FS_CardinalityType
<1>10. QED
  BY <1>2, <1>4, <1>6, <1>7, <1>8, <1>9

\* No file has fewer references than one table has descriptors of it.
LEMMA UsesBounded ==
    ASSUME Types, RefsExact, NEW p \in Slots, NEW F \in SUBSET Fds, NEW f \in Files
    PROVE  /\ Dropped(p, F, f) = Cardinality(Uses(tables[p], F, f))
           /\ Dropped(p, F, f) \in Nat
           /\ Dropped(p, F, f) =< files[f].refcount
BY DroppedFacts DEF RefsExact

\* file_release takes one reference per descriptor, and closes the file with the last.
LEMMA FilesAfterFacts ==
    ASSUME Types, Vacant, RefsExact, NEW p \in Slots, NEW F \in SUBSET Fds
    PROVE  LET g == FilesAfter(p, F)
           IN  /\ g \in [Files -> FileRec]
               /\ \A f \in Files :
                    /\ g[f].refcount = files[f].refcount - Dropped(p, F, f)
                    /\ g[f].refcount = 0 => g[f] = NoFile
                    /\ f \in Closing(p, F) => g[f] = NoFile
                    /\ f \notin Closing(p, F) => g[f].ptr = files[f].ptr /\ g[f].ends = files[f].ends
<1> DEFINE g == FilesAfter(p, F)
<1>1. g = [f \in Files |-> IF f \in Closing(p, F) THEN NoFile
                           ELSE [files[f] EXCEPT !.refcount = files[f].refcount - Dropped(p, F, f)]]
  BY DEF FilesAfter
<1>2. NoFile \in FileRec /\ NoFile.refcount = 0
  BY DEF NoFile, FileRec
<1> HIDE DEF g
<1>3. ASSUME NEW f \in Files
      PROVE  /\ g[f] \in FileRec
             /\ g[f].refcount = files[f].refcount - Dropped(p, F, f)
             /\ g[f].refcount = 0 => g[f] = NoFile
             /\ f \in Closing(p, F) => g[f] = NoFile
             /\ f \notin Closing(p, F) => g[f].ptr = files[f].ptr /\ g[f].ends = files[f].ends
  <2>1. /\ Dropped(p, F, f) \in Nat /\ Dropped(p, F, f) =< files[f].refcount
        /\ files[f] \in FileRec /\ files[f].refcount \in Nat
    BY UsesBounded DEF Types, FileRec
  <2>2. CASE f \in Closing(p, F)
    <3>1. files[f].refcount - Dropped(p, F, f) = 0
      BY <2>1, <2>2 DEF Closing
    <3>2. QED
      BY <1>1, <1>2, <2>2, <3>1
  <2>3. CASE f \notin Closing(p, F)
    <3> DEFINE n == files[f].refcount - Dropped(p, F, f)
    <3>1. n \in Nat /\ (n = 0 => files[f].refcount = 0 /\ files[f] = NoFile)
      BY <2>1, <2>3 DEF Closing, Vacant
    <3>2. g[f] = [files[f] EXCEPT !.refcount = n]
      BY <1>1, <2>3
    <3> HIDE DEF n
    <3>3. g[f] \in FileRec /\ g[f].refcount = n /\ g[f].ptr = files[f].ptr /\ g[f].ends = files[f].ends
      BY <2>1, <3>1, <3>2 DEF FileRec
    <3>4. n = 0 => g[f] = NoFile
      BY <3>1, <3>2 DEF NoFile
    <3>5. QED
      BY <2>3, <3>3, <3>4 DEF n
  <2>4. QED
    BY <2>2, <2>3
<1>4. g \in [Files -> FileRec]
  BY <1>1, <1>3
<1>5. QED
  BY <1>3, <1>4 DEF g

-----------------------------------------------------------------------------
(* The counts of ends *)

\* The number of ends that a set of files has of a pipe.
LEMMA CountFacts ==
    ASSUME NEW S \in SUBSET Files, NEW q, NEW e
    PROVE  /\ Count(S, q, e) \in Nat /\ Cardinality(OpenEnds(q, e)) \in Nat
           /\ Count(S, q, e) =< Cardinality(OpenEnds(q, e))
           /\ Cardinality(OpenEnds(q, e) \ S) = Cardinality(OpenEnds(q, e)) - Count(S, q, e)
<1> DEFINE C == {f \in S : files[f].ptr = q /\ e \in files[f].ends}
           O == OpenEnds(q, e)
<1>1. O \in SUBSET Files /\ C = O \cap S /\ C \in SUBSET O
  BY DEF OpenEnds
<1>2. Count(S, q, e) = Cardinality(C)
  BY DEF Count
<1>3. IsFiniteSet(O) /\ Cardinality(O) \in Nat
  BY <1>1, FilesFinite
<1> HIDE DEF C, O
<1>4. Cardinality(C) \in Nat /\ Cardinality(C) =< Cardinality(O)
  BY <1>1, <1>3, FS_Subset, FS_CardinalityType
<1>5. Cardinality(O \ S) = Cardinality(O) - Cardinality(O \cap S)
  BY <1>3, FS_Difference
<1>6. QED
  BY <1>1, <1>2, <1>3, <1>4, <1>5 DEF O

\* Ends are taken away only from a pipe that has them.
LEMMA CloseExact ==
    ASSUME NEW pipe \in PipeRec, NEW rd \in Nat, NEW wr \in Nat,
           rd =< pipe.readers, wr =< pipe.writers,
           NEW x, x = kpipe_close(pipe, rd, wr)
    PROVE  /\ x.readers = pipe.readers - rd /\ x.writers = pipe.writers - wr
           /\ x.readers # 0 => pipe.readers # 0
           /\ x.writers # 0 => pipe.writers # 0
           /\ pipe.used /\ (x.readers # 0 \/ x.writers # 0) => x.used
           /\ x.used /\ x.unlinked => x.readers # 0 \/ x.writers # 0
<1>1. Closed(pipe, rd, wr, x)
  BY CloseFacts
<1>2. pipe.readers \in Nat /\ pipe.writers \in Nat
  BY DEF PipeRec
<1>3. x.readers = pipe.readers - rd /\ x.writers = pipe.writers - wr
  BY <1>1, <1>2, LessFacts DEF Closed
<1>4. \/ x = NoPipe /\ x.readers = 0 /\ x.writers = 0
      \/ /\ x.used = pipe.used /\ x.unlinked = pipe.unlinked
         /\ pipe.unlinked => x.readers # 0 \/ x.writers # 0
  BY <1>1 DEF Closed
<1>5. QED
  BY <1>2, <1>3, <1>4, NoPipeFacts

\* Releasing the files of S takes their ends from the pipes.
LEMMA EndsStep ==
    ASSUME Types, EndsExact, RefsExact', UNCHANGED may, NEW S \in SUBSET Files,
           \A f \in Files : IF f \in S THEN files'[f].ptr = None
                            ELSE files'[f].ptr = files[f].ptr /\ files'[f].ends = files[f].ends,
           \A q \in Pipes : pipes'[q] = IF q \in Touched(S)
                                        THEN kpipe_close(pipes[q], Count(S, q, "read"), Count(S, q, "write"))
                                        ELSE pipes[q]
    PROVE  EndsExact'
<1> SUFFICES ASSUME ~({"parent_dies", "both_ends"} \subseteq may), NEW q \in Pipes
             PROVE  /\ pipes'[q].readers = Cardinality(OpenEnds(q, "read")')
                    /\ pipes'[q].writers = Cardinality(OpenEnds(q, "write")')
                    /\ (OpenEnds(q, "read") \cup OpenEnds(q, "write"))' # {} => pipes'[q].used
                    /\ pipes'[q].used /\ pipes'[q].unlinked =>
                           (OpenEnds(q, "read") \cup OpenEnds(q, "write"))' # {}
  BY DEF EndsExact, RefsExact
<1>1. \A e : OpenEnds(q, e)' = OpenEnds(q, e) \ S
  BY PipeAssumption DEF OpenEnds
<1>2. /\ pipes[q] \in PipeRec
      /\ pipes[q].readers = Cardinality(OpenEnds(q, "read"))
      /\ pipes[q].writers = Cardinality(OpenEnds(q, "write"))
      /\ OpenEnds(q, "read") \cup OpenEnds(q, "write") # {} => pipes[q].used
      /\ pipes[q].used /\ pipes[q].unlinked => OpenEnds(q, "read") \cup OpenEnds(q, "write") # {}
  BY DEF Types, EndsExact
<1> DEFINE rd == Count(S, q, "read")
           wr == Count(S, q, "write")
<1>3. /\ rd \in Nat /\ wr \in Nat
      /\ rd =< pipes[q].readers /\ wr =< pipes[q].writers
      /\ pipes[q].readers \in Nat /\ pipes[q].writers \in Nat
      /\ Cardinality(OpenEnds(q, "read") \ S) = pipes[q].readers - rd
      /\ Cardinality(OpenEnds(q, "write") \ S) = pipes[q].writers - wr
  BY <1>2, CountFacts
<1>4. \A e : /\ IsFiniteSet(OpenEnds(q, e) \ S)
             /\ Cardinality(OpenEnds(q, e) \ S) = 0 <=> OpenEnds(q, e) \ S = {}
  <2>1. \A e : OpenEnds(q, e) \ S \in SUBSET Files
    BY DEF OpenEnds
  <2>2. QED
    BY <2>1, FilesFinite, FS_EmptySet
<1>5. CASE q \in Touched(S)
  <2>1. PICK pipe \in PipeRec, a \in Nat, b \in Nat : pipe = pipes[q] /\ a = rd /\ b = wr
    BY <1>2, <1>3
  <2>2. PICK x : x = kpipe_close(pipe, a, b)
    OBVIOUS
  <2>3. pipes'[q] = x
    BY <1>5, <2>1, <2>2
  <2>4. a =< pipe.readers /\ b =< pipe.writers
    BY <1>3, <2>1
  <2> HIDE DEF rd, wr
  <2>5. /\ x.readers = pipe.readers - a /\ x.writers = pipe.writers - b
        /\ x.readers # 0 => pipe.readers # 0
        /\ x.writers # 0 => pipe.writers # 0
        /\ pipe.used /\ (x.readers # 0 \/ x.writers # 0) => x.used
        /\ x.used /\ x.unlinked => x.readers # 0 \/ x.writers # 0
    BY <2>2, <2>4, CloseExact
  <2>6. /\ OpenEnds(q, "read") \ S # {} <=> x.readers # 0
        /\ OpenEnds(q, "write") \ S # {} <=> x.writers # 0
    BY <1>3, <1>4, <2>1, <2>5
  <2>7. pipes[q].readers # 0 \/ pipes[q].writers # 0 => pipes[q].used
    <3>1. \A e : OpenEnds(q, e) = {} => Cardinality(OpenEnds(q, e)) = 0
      BY FS_EmptySet
    <3>2. QED
      BY <1>2, <3>1
  <2>8. x.readers # 0 \/ x.writers # 0 => x.used
    BY <2>1, <2>5, <2>7
  <2>9. x.readers = Cardinality(OpenEnds(q, "read") \ S) /\ x.writers = Cardinality(OpenEnds(q, "write") \ S)
    BY <1>3, <2>1, <2>5
  <2>10. QED
    BY <1>1, <2>3, <2>5, <2>6, <2>8, <2>9
<1>6. CASE q \notin Touched(S)
  <2>1. \A e : OpenEnds(q, e) \ S = OpenEnds(q, e)
    BY <1>6 DEF Touched, OpenEnds
  <2>2. pipes'[q] = pipes[q]
    BY <1>6
  <2>3. QED
    BY <1>1, <1>2, <2>1, <2>2
<1>7. QED
  BY <1>5, <1>6

-----------------------------------------------------------------------------
(* Who sleeps *)

\* The wait queues of a pipe, as sets.
LEMMA InQueueIsMembers == \A q : InQueue(q) = Members(q)
BY DEF InQueue, Members

\* Nobody waits for a side that is gone, since its queue was emptied.
LEMMA QueuedMeansServed == Types /\ Vacant /\ Queued => SomebodyToWaitFor
<1> SUFFICES ASSUME Types, Vacant, Queued, NEW q \in Pipes
             PROVE  /\ Sleeping(q, "read") # {} => pipes[q].writers > 0
                    /\ Sleeping(q, "write") # {} => pipes[q].readers > 0
  BY DEF SomebodyToWaitFor
<1>1. \A op \in {"read", "write"} : Sleeping(q, op) # {} => Queue(q, op) # <<>>
  BY DEF Sleeping, In, Queued, InQueue
<1>2. pipes[q].writers \in Nat /\ pipes[q].readers \in Nat
  BY DEF Types, PipeRec
<1>3. QED
  BY <1>1, <1>2 DEF Queued, Queue

\* The same in the next state.
LEMMA QueuedMeansServedNext == (Types /\ Vacant /\ Queued => SomebodyToWaitFor)'
BY QueuedMeansServed, PTL

\* Closing ends wakes everybody in the queues that it empties; the other queues and
\* the processes that sleep or were woken there stay.
LEMMA ReleaseStep ==
    ASSUME Types, Vacant, Queued, QueuesExact, WakeupsReach, UNCHANGED may,
           pipes' \in [Pipes -> PipeRec],
           NEW W, NEW ps \in [Slots -> ProcRec],
           \A s \in Slots : \/ ps[s] = procs[s]
                            \/ ps[s].state # "BLOCKED" /\ (Undisturbed => procs[s].at = None /\ ps[s].at = None),
           procs' = Unblock(ps, W),
           \A q \in Pipes, op \in {"read", "write"} :
              \/ Queue(q, op)' = <<>> /\ InQueue(Queue(q, op)) \subseteq W
              \/ Queue(q, op)' = Queue(q, op) /\ pipes'[q].size = pipes[q].size,
           \A q \in Pipes : /\ pipes'[q].writers = 0 => pipes'[q].readq = <<>>
                            /\ pipes'[q].readers = 0 => pipes'[q].writeq = <<>>,
           Undisturbed => \A x \in W : \E q \in Pipes, op \in {"read", "write"} :
                              x \in InQueue(Queue(q, op)) /\ Queue(q, op)' = <<>>
    PROVE  Queued' /\ QueuesExact' /\ WakeupsReach'
<1>1. \A s \in Slots : /\ procs'[s].at = ps[s].at
                       /\ procs'[s].state = IF s \in W /\ ps[s].state = "BLOCKED" THEN "READY"
                                            ELSE ps[s].state
  BY UnblockFacts
<1>2. \A s \in Slots : procs[s].at # None => procs[s].at.pipe \in Pipes /\ procs[s].at.op \in {"read", "write"}
  BY DEF Types, ProcRec, Calls
<1>3. InQueue(<<>>) = {} /\ Distinct(<<>>)
  BY DEF InQueue, Distinct
<1>4. Queued'
  <2>1. ASSUME NEW s \in Slots, procs'[s].state = "BLOCKED"
        PROVE  s \in InQueue(Queue(procs[s].at.pipe, procs[s].at.op))'
    <3>1. ps[s] = procs[s] /\ procs[s].state = "BLOCKED" /\ s \notin W /\ procs'[s].at = procs[s].at
      BY <1>1, <2>1
    <3>2. procs[s].at # None
      BY <3>1 DEF Vacant
    <3>3. s \in InQueue(Queue(procs[s].at.pipe, procs[s].at.op))
      BY <3>1 DEF Queued
    <3>4. PICK q \in Pipes, op \in {"read", "write"} : q = procs[s].at.pipe /\ op = procs[s].at.op
      BY <1>2, <3>2
    <3>5. s \in InQueue(Queue(q, op))
      BY <3>3, <3>4
    <3>6. Queue(q, op)' = Queue(q, op)
      BY <3>1, <3>5
    <3>7. s \in InQueue(Queue(q, op)')
      BY <3>5, <3>6
    <3>8. procs'[s].at.pipe = q /\ procs'[s].at.op = op
      BY <3>1, <3>4
    <3>9. QED
      BY <3>7, <3>8 DEF Queue
  <2>2. QED
    BY <2>1 DEF Queued
<1>5. QueuesExact'
  <2> SUFFICES ASSUME Undisturbed, NEW q \in Pipes, NEW op \in {"read", "write"}, Queue(q, op)' # <<>>
               PROVE  /\ Distinct(Queue(q, op)')
                      /\ \A x \in InQueue(Queue(q, op)') : x \in Sleeping(q, op)'
    BY <1>3 DEF QueuesExact, Undisturbed
  <2>1. /\ Queue(q, op)' = Queue(q, op) /\ Distinct(Queue(q, op))
        /\ InQueue(Queue(q, op)) \subseteq Sleeping(q, op)
    BY DEF QueuesExact
  <2>2. ASSUME NEW x \in InQueue(Queue(q, op)) PROVE x \in Sleeping(q, op)'
    <3>1. x \in Slots /\ procs[x].at # None /\ procs[x].at.pipe = q /\ procs[x].at.op = op
          /\ procs[x].state = "BLOCKED"
      BY <2>1, <2>2 DEF Sleeping, In
    <3>2. ps[x] = procs[x]
      BY <3>1
    <3>3. x \notin W
      <4> SUFFICES ASSUME x \in W PROVE FALSE
        OBVIOUS
      <4>1. PICK q2 \in Pipes, op2 \in {"read", "write"} :
               x \in InQueue(Queue(q2, op2)) /\ Queue(q2, op2)' = <<>>
        OBVIOUS
      <4>2. x \in Sleeping(q2, op2)
        BY <4>1 DEF QueuesExact
      <4>3. q2 = q /\ op2 = op
        BY <3>1, <4>2 DEF Sleeping, In
      <4>4. QED
        BY <4>1, <4>3
    <3>4. QED
      BY <1>1, <3>1, <3>2, <3>3 DEF Sleeping, In
  <2>3. QED
    BY <2>1, <2>2
<1>6. WakeupsReach'
  <2> SUFFICES ASSUME Undisturbed, NEW q \in Pipes, NEW op \in {"read", "write"}, Sleeping(q, op)' # {}
               PROVE  IF "long_calls" \notin may THEN Stock(q, op)' =< Cardinality(Woken(q, op)')
                      ELSE "crowd" \notin may => Stock(q, op)' = 0
    BY DEF WakeupsReach, Undisturbed
  <2>1. PICK x \in Slots : procs'[x].at # None /\ procs'[x].at.pipe = q /\ procs'[x].at.op = op
                           /\ procs'[x].state = "BLOCKED"
    BY DEF Sleeping, In
  <2>2. Queue(q, op)' # <<>>
    <3>1. x \in InQueue(Queue(q, op)')
      BY <1>4, <2>1 DEF Queued
    <3>2. QED
      BY <3>1, <1>3
  <2>3. Stock(q, op)' = Stock(q, op)
    BY <2>2 DEF Stock
  <2>4. x \in Sleeping(q, op)
    BY <1>1, <2>1 DEF Sleeping, In
  <2>5. Woken(q, op) \in SUBSET (Woken(q, op)')
    BY <1>1 DEF Woken, In
  <2>6. /\ IsFiniteSet(Woken(q, op)') /\ Cardinality(Woken(q, op)') \in Nat
        /\ Cardinality(Woken(q, op)) \in Nat
    BY SlotsFinite DEF Woken, In
  <2>7. Cardinality(Woken(q, op)) =< Cardinality(Woken(q, op)')
    BY <2>5, <2>6, FS_Subset
  <2>8. Stock(q, op) \in Nat
    BY PipeAssumption DEF Stock, Types, PipeRec
  <2>9. QED
    BY <2>3, <2>4, <2>6, <2>7, <2>8 DEF WakeupsReach
<1>7. QED
  BY <1>4, <1>5, <1>6

-----------------------------------------------------------------------------
(* Releasing descriptors *)

\* kpipe_close empties the queues of those whom it wakes, and no others.
LEMMA CloseWakes ==
    ASSUME NEW pipe \in PipeRec, NEW rd \in Nat, NEW wr \in Nat,
           NEW x, x = kpipe_close(pipe, rd, wr),
           NEW W, W = WokenByClose(pipe, rd, wr)
    PROVE  /\ \/ x.readq = <<>> /\ InQueue(pipe.readq) \subseteq W
              \/ x.readq = pipe.readq /\ x.size = pipe.size
           /\ \/ x.writeq = <<>> /\ InQueue(pipe.writeq) \subseteq W
              \/ x.writeq = pipe.writeq /\ x.size = pipe.size
           /\ \A s \in W : \/ s \in InQueue(pipe.readq) /\ x.readq = <<>>
                           \/ s \in InQueue(pipe.writeq) /\ x.writeq = <<>>
<1>1. Closed(pipe, rd, wr, x)
  BY CloseFacts
<1>2. W = (IF x.writers = 0 THEN InQueue(pipe.readq) ELSE {})
             \cup IF x.readers = 0 THEN InQueue(pipe.writeq) ELSE {}
  BY <1>1 DEF WokenByClose, Closed
<1>3. /\ x.writers = 0 => x.readq = <<>>
      /\ x.writers # 0 => x.readq = pipe.readq /\ x.size = pipe.size
      /\ x.readers = 0 => x.writeq = <<>>
      /\ x.readers # 0 => x.writeq = pipe.writeq /\ x.size = pipe.size
  BY <1>1 DEF Closed
<1>4. QED
  BY <1>2, <1>3

\* A pipe stays in use, or nothing of it stays.
LEMMA CloseVacates ==
    ASSUME NEW pipe \in PipeRec, NEW rd \in Nat, NEW wr \in Nat,
           NEW x, x = kpipe_close(pipe, rd, wr), ~pipe.used => pipe = NoPipe
    PROVE  ~x.used => x = NoPipe
<1>1. pipe = NoPipe => x = NoPipe
  BY CloseNoPipe
<1>2. Closed(pipe, rd, wr, x)
  BY CloseFacts
<1>3. x = NoPipe \/ x.used = pipe.used
  BY <1>2 DEF Closed
<1>4. QED
  BY <1>1, <1>3

\* No process appears, and none begins a call.
LEMMA BoundsFrame ==
    ASSUME Types, Bounds, UNCHANGED may,
           \A s \in Slots : /\ procs'[s].at = procs[s].at \/ procs'[s].at = None
                            /\ procs[s].state = "FREE" => procs'[s].state = "FREE"
    PROVE  Bounds'
<1>1. Used' \in SUBSET Used /\ Used \in SUBSET Slots
  BY DEF Used
<1>2. Cardinality(Used') =< Cardinality(Used) /\ Cardinality(Used') \in Nat /\ Cardinality(Used) \in Nat
  BY <1>1, SlotsFinite, FS_Subset
<1>3. "crowd" \notin may => Cardinality(Used') =< 2
  BY <1>2 DEF Bounds
<1>4. ASSUME NEW s \in Slots, procs'[s].at # None PROVE procs'[s].at = procs[s].at /\ procs[s].at # None
  BY <1>4
<1>5. QED
  BY <1>3, <1>4 DEF Bounds

\* The step closes ends of q, opened just before if at all, and wakes those in w.
Closes(q, w) ==
    \E pipe \in PipeRec, rd, wr \in Nat :
        /\ pipe.readq = pipes[q].readq /\ pipe.writeq = pipes[q].writeq
        /\ pipe.size = pipes[q].size
        /\ ~pipe.used => pipe = NoPipe
        /\ pipes'[q] = kpipe_close(pipe, rd, wr)
        /\ w = WokenByClose(pipe, rd, wr)

\* The step changes pipes by closing ends only, and W are those whom that wakes.
Releases(W) ==
    /\ pipes' \in [Pipes -> PipeRec]
    /\ \A q \in Pipes, op \in {"read", "write"} :
          \/ Queue(q, op)' = <<>> /\ InQueue(Queue(q, op)) \subseteq W
          \/ Queue(q, op)' = Queue(q, op) /\ pipes'[q].size = pipes[q].size
    /\ \A q \in Pipes : /\ pipes'[q].writers = 0 => pipes'[q].readq = <<>>
                        /\ pipes'[q].readers = 0 => pipes'[q].writeq = <<>>
                        /\ ~pipes'[q].used => pipes'[q] = NoPipe
    /\ Undisturbed => \A x \in W : \E q \in Pipes, op \in {"read", "write"} :
                          x \in InQueue(Queue(q, op)) /\ Queue(q, op)' = <<>>

\* Whoever sleeps sleeps on, and without disturbance nobody is inside a call who changes.
Stays(ps) ==
    \A s \in Slots : \/ ps[s] = procs[s]
                     \/ ps[s].state # "BLOCKED" /\ (Undisturbed => procs[s].at = None /\ ps[s].at = None)

\* ReleaseStep for a step that releases.
LEMMA QueuesAfterRelease ==
    ASSUME Inv, UNCHANGED may, NEW W, Releases(W), NEW ps \in [Slots -> ProcRec], Stays(ps),
           procs' = Unblock(ps, W)
    PROVE  Queued' /\ QueuesExact' /\ WakeupsReach'
<1>1. Types /\ Vacant /\ Queued /\ QueuesExact /\ WakeupsReach
  BY DEF Inv
<1>2. /\ pipes' \in [Pipes -> PipeRec]
      /\ \A q \in Pipes, op \in {"read", "write"} :
            \/ Queue(q, op)' = <<>> /\ InQueue(Queue(q, op)) \subseteq W
            \/ Queue(q, op)' = Queue(q, op) /\ pipes'[q].size = pipes[q].size
      /\ \A q \in Pipes : /\ pipes'[q].writers = 0 => pipes'[q].readq = <<>>
                          /\ pipes'[q].readers = 0 => pipes'[q].writeq = <<>>
      /\ Undisturbed => \A x \in W : \E q \in Pipes, op \in {"read", "write"} :
                            x \in InQueue(Queue(q, op)) /\ Queue(q, op)' = <<>>
  BY DEF Releases
<1>3. \A s \in Slots : \/ ps[s] = procs[s]
                       \/ ps[s].state # "BLOCKED" /\ (Undisturbed => procs[s].at = None /\ ps[s].at = None)
  BY DEF Stays
<1>4. QED
  BY <1>1, <1>2, <1>3, ReleaseStep

\* What is true of all pipes if each is as before or as kpipe_close leaves it.
LEMMA ReleasesByClose ==
    ASSUME Types, Vacant, Queued, NEW W,
           pipes' = [q \in Pipes |-> pipes'[q]],
           \A q \in Pipes : pipes'[q] = pipes[q] \/ \E w \in SUBSET W : Closes(q, w),
           Undisturbed => \A x \in W : \E q \in Pipes : \E w : Closes(q, w) /\ x \in w
    PROVE  Releases(W)
<1>1. ASSUME NEW q \in Pipes, NEW w, Closes(q, w)
      PROVE  /\ pipes'[q] \in PipeRec
             /\ \/ pipes'[q].readq = <<>> /\ InQueue(pipes[q].readq) \subseteq w
                \/ pipes'[q].readq = pipes[q].readq /\ pipes'[q].size = pipes[q].size
             /\ \/ pipes'[q].writeq = <<>> /\ InQueue(pipes[q].writeq) \subseteq w
                \/ pipes'[q].writeq = pipes[q].writeq /\ pipes'[q].size = pipes[q].size
             /\ \A s \in w : \/ s \in InQueue(pipes[q].readq) /\ pipes'[q].readq = <<>>
                             \/ s \in InQueue(pipes[q].writeq) /\ pipes'[q].writeq = <<>>
             /\ pipes'[q].writers = 0 => pipes'[q].readq = <<>>
             /\ pipes'[q].readers = 0 => pipes'[q].writeq = <<>>
             /\ ~pipes'[q].used => pipes'[q] = NoPipe
  <2>1. PICK pipe, rd, wr, x :
           /\ pipe \in PipeRec /\ rd \in Nat /\ wr \in Nat
           /\ pipe.readq = pipes[q].readq /\ pipe.writeq = pipes[q].writeq
           /\ pipe.size = pipes[q].size
           /\ ~pipe.used => pipe = NoPipe
           /\ pipes'[q] = x
           /\ x = kpipe_close(pipe, rd, wr)
           /\ w = WokenByClose(pipe, rd, wr)
    BY <1>1 DEF Closes
  <2> pipe \in PipeRec /\ rd \in Nat /\ wr \in Nat
    BY <2>1
  <2>2. Closed(pipe, rd, wr, x)
    BY <2>1, CloseFacts
  <2>3. /\ \/ x.readq = <<>> /\ InQueue(pipe.readq) \subseteq w
           \/ x.readq = pipe.readq /\ x.size = pipe.size
        /\ \/ x.writeq = <<>> /\ InQueue(pipe.writeq) \subseteq w
           \/ x.writeq = pipe.writeq /\ x.size = pipe.size
        /\ \A s \in w : \/ s \in InQueue(pipe.readq) /\ x.readq = <<>>
                        \/ s \in InQueue(pipe.writeq) /\ x.writeq = <<>>
    BY <2>1, CloseWakes
  <2>4. ~x.used => x = NoPipe
    BY <2>1, CloseVacates
  <2>5. x \in PipeRec /\ (x.writers = 0 => x.readq = <<>>) /\ (x.readers = 0 => x.writeq = <<>>)
    BY <2>2 DEF Closed
  <2>6. QED
    BY <2>1, <2>3, <2>4, <2>5
<1>2. ASSUME NEW q \in Pipes
      PROVE  /\ pipes'[q] \in PipeRec
             /\ \A op \in {"read", "write"} :
                   \/ Queue(q, op)' = <<>> /\ InQueue(Queue(q, op)) \subseteq W
                   \/ Queue(q, op)' = Queue(q, op) /\ pipes'[q].size = pipes[q].size
             /\ pipes'[q].writers = 0 => pipes'[q].readq = <<>>
             /\ pipes'[q].readers = 0 => pipes'[q].writeq = <<>>
             /\ ~pipes'[q].used => pipes'[q] = NoPipe
  <2>1. CASE pipes'[q] = pipes[q]
    BY <2>1 DEF Types, Queued, Vacant, Queue
  <2>2. CASE \E w \in SUBSET W : Closes(q, w)
    <3>1. PICK w \in SUBSET W : Closes(q, w)
      BY <2>2
    <3>2. QED
      BY <1>1, <3>1 DEF Queue
  <2>3. QED
    BY <2>1, <2>2
<1>3. Undisturbed => \A x \in W : \E q \in Pipes, op \in {"read", "write"} :
                        x \in InQueue(Queue(q, op)) /\ Queue(q, op)' = <<>>
  <2> SUFFICES ASSUME Undisturbed, NEW x \in W
               PROVE  \E q \in Pipes, op \in {"read", "write"} :
                          x \in InQueue(Queue(q, op)) /\ Queue(q, op)' = <<>>
    OBVIOUS
  <2>1. PICK q, w :
           /\ q \in Pipes
           /\ Closes(q, w) /\ x \in w
    OBVIOUS
  <2> q \in Pipes
    BY <2>1
  <2>2. \/ x \in InQueue(pipes[q].readq) /\ pipes'[q].readq = <<>>
        \/ x \in InQueue(pipes[q].writeq) /\ pipes'[q].writeq = <<>>
    BY <1>1, <2>1
  <2>3. \/ x \in InQueue(Queue(q, "read")) /\ Queue(q, "read")' = <<>>
        \/ x \in InQueue(Queue(q, "write")) /\ Queue(q, "write")' = <<>>
    BY <2>2 DEF Queue
  <2>4. QED
    BY <2>3
<1>4. pipes' \in [Pipes -> PipeRec]
  BY <1>2
<1>5. QED
  BY <1>2, <1>3, <1>4 DEF Releases

\* What is true of all pipes after the files of S are released.
LEMMA ReleasesByFiles ==
    ASSUME Types, Vacant, Queued, NEW S \in SUBSET Files, \A f \in S : files[f].ptr \in Pipes,
           pipes' = PipesAfter(S)
    PROVE  Releases(WokenAfter(S))
<1> DEFINE Wakes(q) == WokenByClose(pipes[q], Count(S, q, "read"), Count(S, q, "write"))
           W == WokenAfter(S)
<1>1. Touched(S) \subseteq Pipes
  BY DEF Touched
<1>2. \A q \in Touched(S) : Wakes(q) \in SUBSET W
  BY DEF WokenAfter
<1>3. ASSUME NEW q \in Touched(S) PROVE Closes(q, Wakes(q))
  <2>1. PICK pipe \in PipeRec, rd \in Nat, wr \in Nat :
           pipe = pipes[q] /\ rd = Count(S, q, "read") /\ wr = Count(S, q, "write")
    BY <1>1, CountFacts DEF Types
  <2>2. ~pipe.used => pipe = NoPipe
    BY <1>1, <2>1 DEF Vacant
  <2>3. pipes'[q] = kpipe_close(pipe, rd, wr) /\ Wakes(q) = WokenByClose(pipe, rd, wr)
    BY <1>1, <2>1 DEF PipesAfter
  <2> HIDE DEF Wakes
  <2>4. QED
    BY <2>1, <2>2, <2>3 DEF Closes
<1>4. \A q \in Pipes : q \notin Touched(S) => pipes'[q] = pipes[q]
  BY DEF PipesAfter
<1>5. pipes' = [q \in Pipes |-> pipes'[q]]
  BY DEF PipesAfter
<1>6. ASSUME NEW x \in W PROVE \E q \in Pipes : \E w : Closes(q, w) /\ x \in w
  <2>1. PICK q \in Touched(S) : x \in Wakes(q)
    BY <1>6 DEF WokenAfter
  <2> HIDE DEF Wakes
  <2>2. QED
    BY <1>1, <1>3, <2>1
<1>7. \A q \in Pipes : pipes'[q] = pipes[q] \/ \E w \in SUBSET W : Closes(q, w)
  <2> HIDE DEF Wakes, W
  <2>1. QED
    BY <1>2, <1>3, <1>4
<1> HIDE DEF W, Wakes
<1>8. Releases(W)
  BY <1>5, <1>6, <1>7, ReleasesByClose
<1>9. QED
  BY <1>8 DEF W

\* The process p goes, with all its descriptors, or nothing happens to it.
Goes(p, t, ps) ==
    \/ ps = procs
    \/ /\ ps = [procs EXCEPT ![p] = NoProc] /\ t = NoTable
       /\ Undisturbed => procs[p].at = None

\* Every reference count follows the table t that p gets, and the files of S are closed.
FilesFollow(p, t, S) ==
    /\ files' \in [Files -> FileRec]
    /\ \A f \in Files :
          /\ files'[f].refcount = files[f].refcount - Cardinality(Uses(tables[p], Fds, f))
                                  + Cardinality(Uses(t, Fds, f))
          /\ files'[f].refcount = 0 => files'[f] = NoFile
          /\ files[f].refcount = 0 => files'[f].refcount = 0
          /\ f \in S => files'[f] = NoFile
          /\ f \notin S => files'[f].ptr = files[f].ptr /\ files'[f].ends = files[f].ends

\* What a step that changes the table of one process and releases the files of S does.
LEMMA TableStep ==
    ASSUME Inv, UNCHANGED may,
           NEW p \in Slots, procs[p].state # "FREE",
           NEW t \in [Fds -> Files \cup {None}], tables' = [tables EXCEPT ![p] = t],
           NEW ps \in [Slots -> ProcRec],
           Goes(p, t, ps),
           NEW W, Releases(W), procs' = Unblock(ps, W),
           NEW S \in SUBSET Files, FilesFollow(p, t, S),
           ~({"parent_dies", "both_ends"} \subseteq may) => pipes' = PipesAfter(S)
    PROVE  Inv'
<1>0. /\ files' \in [Files -> FileRec]
      /\ \A f \in Files :
           /\ files'[f].refcount = files[f].refcount - Cardinality(Uses(tables[p], Fds, f))
                                   + Cardinality(Uses(t, Fds, f))
           /\ files'[f].refcount = 0 => files'[f] = NoFile
           /\ files[f].refcount = 0 => files'[f].refcount = 0
           /\ f \in S => files'[f] = NoFile
           /\ f \notin S => files'[f].ptr = files[f].ptr /\ files'[f].ends = files[f].ends
  BY DEF FilesFollow
<1>1. \A s \in Slots : /\ procs'[s].at = ps[s].at
                       /\ procs'[s].state = IF s \in W /\ ps[s].state = "BLOCKED" THEN "READY"
                                            ELSE ps[s].state
  BY UnblockFacts
<1>2. procs' \in [Slots -> ProcRec]
  BY UnblockFacts
<1>3. \A s \in Slots : \/ ps[s] = procs[s]
                       \/ /\ s = p /\ ps[s] = NoProc /\ t = NoTable
                          /\ Undisturbed => procs[p].at = None
  BY DEF Inv, Types, Goes
<1>4. NoProc.state = "FREE" /\ NoProc.at = None
  BY DEF NoProc
<1>5. tables' \in [Slots -> [Fds -> Files \cup {None}]] /\ tables'[p] = t
      /\ \A s \in Slots : s # p => tables'[s] = tables[s]
  BY DEF Inv, Types
<1>6. Types'
  BY <1>0, <1>2, <1>5 DEF Types, Releases
<1>7. Vacant'
  <2>1. \A s \in Slots : procs'[s].state = "FREE" => tables'[s] = NoTable /\ procs'[s].at = None
    BY <1>1, <1>3, <1>4, <1>5 DEF Inv, Vacant
  <2>2. \A s \in Slots : procs'[s].state = "BLOCKED" => procs'[s].at # None
    BY <1>1, <1>3, <1>4 DEF Inv, Vacant
  <2>3. \A s \in Slots : procs'[s].state = "EXITED" => "parent_dies" \in may
    BY <1>1, <1>3, <1>4 DEF Inv, Vacant
  <2>4. \A f \in Files : files'[f].refcount = 0 => files'[f] = NoFile
    BY <1>0
  <2>5. NoFile.refcount = 0 /\ NoFile.ends = {}
    BY DEF NoFile
  <2>6. ASSUME NEW f \in Files, files'[f].refcount > 0 PROVE files'[f].ptr \in Pipes
    <3>1. f \notin S /\ files[f].refcount # 0
      BY <1>0, <2>5, <2>6
    <3>2. files[f].refcount > 0
      BY <3>1 DEF Inv, Types, FileRec
    <3>3. QED
      BY <1>0, <3>1, <3>2 DEF Inv, Vacant
  <2>7. ASSUME NEW f \in Files, "both_ends" \notin may PROVE files'[f].ends # {"read", "write"}
    BY <1>0, <2>5, <2>7 DEF Inv, Vacant
  <2>8. \A q \in Pipes : ~pipes'[q].used => pipes'[q] = NoPipe
    BY DEF Releases
  <2>9. QED
    BY <2>1, <2>2, <2>3, <2>4, <2>6, <2>7, <2>8 DEF Vacant
<1>8. RefsExact'
  BY <1>0, RefsStep DEF Inv
<1>9. EndsExact'
  <2>1. CASE {"parent_dies", "both_ends"} \subseteq may
    BY <2>1 DEF EndsExact
  <2>2. CASE ~({"parent_dies", "both_ends"} \subseteq may)
    <3>1. NoFile.ptr = None
      BY DEF NoFile
    <3>2. \A f \in Files : IF f \in S THEN files'[f].ptr = None
                           ELSE files'[f].ptr = files[f].ptr /\ files'[f].ends = files[f].ends
      BY <1>0, <3>1
    <3>3. \A q \in Pipes : pipes'[q] = IF q \in Touched(S)
                                       THEN kpipe_close(pipes[q], Count(S, q, "read"), Count(S, q, "write"))
                                       ELSE pipes[q]
      BY <2>2 DEF PipesAfter
    <3>4. QED
      BY <1>8, <3>2, <3>3, EndsStep DEF Inv
  <2>3. QED
    BY <2>1, <2>2
<1>10. Stays(ps)
  BY <1>3, <1>4 DEF Stays
<1>11. Queued' /\ QueuesExact' /\ WakeupsReach'
  BY <1>10, QueuesAfterRelease
<1>12. Bounds'
  <2>1. \A s \in Slots : /\ procs'[s].at = procs[s].at \/ procs'[s].at = None
                         /\ procs[s].state = "FREE" => procs'[s].state = "FREE"
    BY <1>1, <1>3, <1>4
  <2>2. QED
    BY <2>1, BoundsFrame DEF Inv
<1>13. SomebodyToWaitFor'
  BY <1>6, <1>7, <1>11, QueuedMeansServedNext
<1>14. QED
  BY <1>6, <1>7, <1>8, <1>9, <1>11, <1>12, <1>13 DEF Inv

\* The references of a table, by the descriptors in F and the others.
LEMMA UsesSplit ==
    ASSUME NEW T, NEW F \in SUBSET Fds, NEW f
    PROVE  /\ Cardinality(Uses(T, Fds, f)) = Cardinality(Uses(T, F, f)) + Cardinality(Uses(T, Fds \ F, f))
           /\ Cardinality(Uses(T, F, f)) \in Nat /\ Cardinality(Uses(T, Fds \ F, f)) \in Nat
<1>1. PICK A, B : A = Uses(T, F, f) /\ B = Uses(T, Fds \ F, f)
  OBVIOUS
<1>2. /\ A \in SUBSET Fds /\ B \in SUBSET Fds
      /\ Uses(T, Fds, f) = A \cup B /\ A \cap B = {}
  BY <1>1 DEF Uses
<1>3. /\ IsFiniteSet(A) /\ IsFiniteSet(B)
      /\ Cardinality(A) \in Nat /\ Cardinality(B) \in Nat
  BY <1>2, FdsFinite
<1>4. Cardinality(A \cup B) = Cardinality(A) + Cardinality(B) - Cardinality(A \cap B)
  BY <1>3, FS_Union
<1>5. Cardinality(A \cap B) = 0
  BY <1>2, FS_EmptySet
<1>6. Cardinality(A \cup B) = Cardinality(A) + Cardinality(B)
  BY <1>3, <1>4, <1>5
<1>7. QED
  BY <1>1, <1>2, <1>3, <1>6

\* Only the descriptors of F change.
LEMMA UsesChange ==
    ASSUME Types, RefsExact, NEW p \in Slots, NEW F \in SUBSET Fds, NEW f \in Files,
           NEW t, \A x \in Fds \ F : t[x] = tables[p][x]
    PROVE  files[f].refcount - Dropped(p, F, f) + Cardinality(Uses(t, F, f))
              = files[f].refcount - Cardinality(Uses(tables[p], Fds, f)) + Cardinality(Uses(t, Fds, f))
<1>1. Uses(t, Fds \ F, f) = Uses(tables[p], Fds \ F, f)
  BY DEF Uses
<1>2. Dropped(p, F, f) = Cardinality(Uses(tables[p], F, f))
  BY UsesBounded
<1>3. files[f].refcount \in Nat
  BY DEF Types, FileRec
<1>4. PICK a, b, c : /\ a = Cardinality(Uses(tables[p], F, f)) /\ b = Cardinality(Uses(t, F, f))
                     /\ c = Cardinality(Uses(t, Fds \ F, f))
  OBVIOUS
<1>5. /\ a \in Nat /\ b \in Nat /\ c \in Nat
      /\ Cardinality(Uses(tables[p], Fds, f)) = a + c
      /\ Cardinality(Uses(t, Fds, f)) = b + c
  BY <1>1, <1>4, UsesSplit
<1>6. QED
  BY <1>2, <1>3, <1>4, <1>5

\* A file that is closed was open.
LEMMA ClosingFacts ==
    ASSUME Types, Vacant, RefsExact, NEW p \in Slots, NEW F \in SUBSET Fds
    PROVE  /\ Closing(p, F) \in SUBSET Files
           /\ \A f \in Closing(p, F) : files[f].refcount > 0 /\ files[f].ptr \in Pipes
<1>1. ASSUME NEW f \in Closing(p, F) PROVE files[f].refcount > 0
  <2>1. f \in Files /\ Dropped(p, F, f) > 0
    BY DEF Closing
  <2>2. Dropped(p, F, f) \in Nat /\ Dropped(p, F, f) =< files[f].refcount /\ files[f].refcount \in Nat
    BY <2>1, UsesBounded DEF Types, FileRec
  <2>3. QED
    BY <2>1, <2>2
<1>2. QED
  BY <1>1 DEF Closing, Vacant

\* Nobody holds a file without references.
LEMMA HeldFiles ==
    ASSUME Types, RefsExact, NEW p \in Slots, NEW fd \in Fds, tables[p][fd] # None
    PROVE  tables[p][fd] \in Files /\ files[tables[p][fd]].refcount > 0
<1>1. PICK f \in Files : f = tables[p][fd]
  BY DEF Types
<1>2. <<p, fd>> \in Holders(f) /\ Holders(f) \in SUBSET (Slots \X Fds)
  BY <1>1 DEF Holders
<1>3. IsFiniteSet(Slots \X Fds)
  BY PipeAssumption, FdsFinite, FS_Product
<1>4. IsFiniteSet(Holders(f)) /\ Cardinality(Holders(f)) \in Nat
  BY <1>2, <1>3, FS_Subset, FS_CardinalityType
<1>5. Cardinality(Holders(f)) # 0
  BY <1>2, <1>4, FS_EmptySet
<1>6. files[f].refcount = Cardinality(Holders(f))
  BY DEF RefsExact
<1>7. QED
  BY <1>1, <1>4, <1>5, <1>6

-----------------------------------------------------------------------------
(* Closing descriptors and ending processes *)

\* The descriptors of F are released.
LEMMA DropStep ==
    ASSUME Inv, UNCHANGED may,
           NEW p \in Slots, procs[p].state # "FREE",
           NEW F \in SUBSET Fds,
           NEW t \in [Fds -> Files \cup {None}], tables' = [tables EXCEPT ![p] = t],
           \A x \in Fds : t[x] = IF x \in F THEN None ELSE tables[p][x],
           NEW ps \in [Slots -> ProcRec],
           Goes(p, t, ps),
           NEW W, Releases(W), procs' = Unblock(ps, W),
           files' = FilesAfter(p, F),
           ~({"parent_dies", "both_ends"} \subseteq may) => pipes' = PipesAfter(Closing(p, F))
    PROVE  Inv'
<1>1. Types /\ Vacant /\ RefsExact
  BY DEF Inv
<1>2. PICK S : S = Closing(p, F)
  OBVIOUS
<1>3. S \in SUBSET Files
  BY <1>2 DEF Closing
<1>4. /\ files' \in [Files -> FileRec]
      /\ \A f \in Files :
           /\ files'[f].refcount = files[f].refcount - Dropped(p, F, f)
           /\ files'[f].refcount = 0 => files'[f] = NoFile
           /\ f \in S => files'[f] = NoFile
           /\ f \notin S => files'[f].ptr = files[f].ptr /\ files'[f].ends = files[f].ends
  BY <1>1, <1>2, FilesAfterFacts
<1>5. ASSUME NEW f \in Files
      PROVE  /\ files'[f].refcount = files[f].refcount - Cardinality(Uses(tables[p], Fds, f))
                                     + Cardinality(Uses(t, Fds, f))
             /\ files[f].refcount = 0 => files'[f].refcount = 0
  <2>1. PICK d, n : d = Dropped(p, F, f) /\ n = files[f].refcount
    OBVIOUS
  <2>2. d \in Nat /\ d =< n /\ n \in Nat
    BY <1>1, <2>1, UsesBounded DEF Types, FileRec
  <2>3. Uses(t, F, f) = {}
    BY PipeAssumption DEF Uses
  <2>4. Cardinality(Uses(t, F, f)) = 0
    BY <2>3, FS_EmptySet
  <2>5. n - d + Cardinality(Uses(t, F, f))
          = n - Cardinality(Uses(tables[p], Fds, f)) + Cardinality(Uses(t, Fds, f))
    BY <1>1, <2>1, UsesChange
  <2>6. files'[f].refcount = n - d /\ n - d + 0 = n - d /\ (n = 0 => n - d = 0)
    BY <1>4, <2>1, <2>2
  <2>7. QED
    BY <2>1, <2>4, <2>5, <2>6
<1>6. ~({"parent_dies", "both_ends"} \subseteq may) => pipes' = PipesAfter(S)
  BY <1>2
<1>7. \A f \in Files :
         /\ files'[f].refcount = files[f].refcount - Cardinality(Uses(tables[p], Fds, f))
                                 + Cardinality(Uses(t, Fds, f))
         /\ files'[f].refcount = 0 => files'[f] = NoFile
         /\ files[f].refcount = 0 => files'[f].refcount = 0
         /\ f \in S => files'[f] = NoFile
         /\ f \notin S => files'[f].ptr = files[f].ptr /\ files'[f].ends = files[f].ends
  BY <1>4, <1>5
<1>8. FilesFollow(p, t, S)
  BY <1>4, <1>7 DEF FilesFollow
<1>9. QED
  BY <1>3, <1>6, <1>8, TableStep

\* Closing one descriptor keeps the invariant.
LEMMA CloseStep ==
    ASSUME Inv, NEW p \in Slots, NEW fd \in Fds, close(p, fd) PROVE Inv'
<1>1. /\ Types /\ Vacant /\ RefsExact /\ Queued
  BY DEF Inv
<1>2. PICK F, S, W, ps :
         /\ F \in SUBSET Fds
         /\ F = {fd} /\ S = Closing(p, F) /\ W = WokenAfter(S) /\ ps = procs
  OBVIOUS
<1> F \in SUBSET Fds
  BY <1>2
<1>3. PICK t : t = [tables[p] EXCEPT ![fd] = None]
  OBVIOUS
<1>4. t \in [Fds -> Files \cup {None}] /\ \A x \in Fds : t[x] = IF x \in F THEN None ELSE tables[p][x]
  BY <1>1, <1>2, <1>3 DEF Types
<1>5. tables' = [tables EXCEPT ![p] = t]
  BY <1>1, <1>3 DEF close, Types
<1>6. S \in SUBSET Files /\ \A f \in S : files[f].ptr \in Pipes
  BY <1>1, <1>2, ClosingFacts
<1>7. /\ files' = FilesAfter(p, F) /\ pipes' = PipesAfter(S) /\ procs' = Unblock(ps, W)
      /\ UNCHANGED may /\ procs[p].state # "FREE"
  BY <1>2 DEF close, NoBytes, InUserland, Runs
<1>8. Releases(W)
  BY <1>1, <1>2, <1>6, <1>7, ReleasesByFiles
<1>9. ps \in [Slots -> ProcRec]
  BY <1>1, <1>2 DEF Types
<1>10. QED
  BY <1>2, <1>4, <1>5, <1>7, <1>8, <1>9, DropStep DEF Goes

\* proc_exit and proc_kill.
LEMMA EndStep ==
    ASSUME Inv, NEW p \in Slots, procs[p].state # "FREE", End(p),
           Undisturbed => procs[p].at = None
    PROVE  Inv'
<1>1. /\ Types /\ Vacant /\ RefsExact /\ Queued
  BY DEF Inv
<1>2. PICK F, S, W, ps :
         /\ F \in SUBSET Fds
         /\ F = Fds /\ S = Closing(p, F) /\ W = WokenAfter(S)
         /\ ps = [procs EXCEPT ![p] = NoProc]
  OBVIOUS
<1> F \in SUBSET Fds
  BY <1>2
<1>3. PICK t : t = NoTable
  OBVIOUS
<1>4. t \in [Fds -> Files \cup {None}] /\ \A x \in Fds : t[x] = IF x \in F THEN None ELSE tables[p][x]
  BY <1>2, <1>3 DEF NoTable
<1>5. tables' = [tables EXCEPT ![p] = t]
  BY <1>3 DEF End
<1>6. S \in SUBSET Files /\ \A f \in S : files[f].ptr \in Pipes
  BY <1>1, <1>2, ClosingFacts
<1>7. /\ files' = FilesAfter(p, F) /\ pipes' = PipesAfter(S) /\ procs' = Unblock(ps, W)
      /\ UNCHANGED may
  BY <1>2 DEF End, NoBytes
<1>8. Releases(W)
  BY <1>1, <1>2, <1>6, <1>7, ReleasesByFiles
<1>9. ps \in [Slots -> ProcRec]
  BY <1>1, <1>2 DEF Types, NoProc, ProcRec
<1>10. QED
  BY <1>2, <1>3, <1>4, <1>5, <1>7, <1>8, <1>9, DropStep DEF Goes

\* The file that fd_table_dup2 duplicates is not closed with newfd: oldfd holds it.
LEMMA SourceStays ==
    ASSUME Types, RefsExact, NEW p \in Slots, NEW oldfd \in Fds, NEW newfd \in Fds, oldfd # newfd,
           NEW src \in Files, tables[p][oldfd] = src
    PROVE  Dropped(p, {newfd}, src) + 1 =< files[src].refcount
<1>1. PICK A, n : A = Uses(tables[p], {newfd}, src) /\ n = files[src].refcount
  OBVIOUS
<1>2. Uses(tables[p], {oldfd, newfd}, src) = A \cup {oldfd} /\ oldfd \notin A /\ A \in SUBSET Fds
  BY <1>1 DEF Uses
<1>3. IsFiniteSet(A) /\ Cardinality(A) \in Nat
  BY <1>2, FdsFinite
<1>4. Cardinality(A \cup {oldfd}) = Cardinality(A) + 1
  BY <1>2, <1>3, FS_AddElement
<1>5. {oldfd, newfd} \in SUBSET Fds /\ {newfd} \in SUBSET Fds
  OBVIOUS
<1>6. /\ Dropped(p, {oldfd, newfd}, src) = Cardinality(Uses(tables[p], {oldfd, newfd}, src))
      /\ Dropped(p, {oldfd, newfd}, src) =< files[src].refcount
  BY <1>5, UsesBounded
<1>7. Dropped(p, {newfd}, src) = Cardinality(A)
  BY <1>1, <1>5, UsesBounded
<1>8. QED
  BY <1>2, <1>4, <1>6, <1>7

LEMMA Dup2Step ==
    ASSUME Inv, NEW p \in Slots, NEW oldfd \in Fds, NEW newfd \in Fds, dup2(p, oldfd, newfd)
    PROVE  Inv'
<1>1. /\ Types /\ Vacant /\ RefsExact /\ Queued
  BY DEF Inv
<1>2. PICK F, S, W, ps :
         /\ F \in SUBSET Fds
         /\ F = {newfd} /\ S = Closing(p, F) /\ W = WokenAfter(S) /\ ps = procs
  OBVIOUS
<1> F \in SUBSET Fds
  BY <1>2
<1>3. PICK src : src = tables[p][oldfd]
  OBVIOUS
<1>4. src \in Files /\ files[src].refcount > 0
  BY <1>1, <1>3, HeldFiles DEF dup2
<1>5. PICK t : t = [tables[p] EXCEPT ![newfd] = src]
  OBVIOUS
<1>6. /\ t \in [Fds -> Files \cup {None}] /\ t[newfd] = src
      /\ \A x \in Fds \ F : t[x] = tables[p][x]
  BY <1>1, <1>2, <1>4, <1>5 DEF Types
<1>7. tables' = [tables EXCEPT ![p] = t]
  BY <1>1, <1>3, <1>5 DEF dup2, Types
<1>8. S \in SUBSET Files /\ \A f \in S : files[f].ptr \in Pipes
  BY <1>1, <1>2, ClosingFacts
<1>9. /\ pipes' = PipesAfter(S) /\ procs' = Unblock(ps, W)
      /\ UNCHANGED may /\ procs[p].state # "FREE"
  BY <1>2 DEF dup2, NoBytes, InUserland, Runs
<1>10. Releases(W)
  BY <1>1, <1>2, <1>8, <1>9, ReleasesByFiles
<1>11. ps \in [Slots -> ProcRec] /\ Goes(p, t, ps)
  BY <1>1, <1>2 DEF Types, Goes
<1>12. PICK g : g = FilesAfter(p, F)
  OBVIOUS
<1>13. /\ g \in [Files -> FileRec]
       /\ \A f \in Files :
            /\ g[f].refcount = files[f].refcount - Dropped(p, F, f)
            /\ g[f].refcount = 0 => g[f] = NoFile
            /\ f \in S => g[f] = NoFile
            /\ f \notin S => g[f].ptr = files[f].ptr /\ g[f].ends = files[f].ends
  BY <1>1, <1>2, <1>12, FilesAfterFacts
<1>14. files' = [g EXCEPT ![src] = [g[src] EXCEPT !.refcount = g[src].refcount + 1]]
  BY <1>2, <1>3, <1>12 DEF dup2, file_ref
<1>15. Dropped(p, F, src) + 1 =< files[src].refcount
  BY <1>1, <1>2, <1>3, <1>4, SourceStays DEF dup2
<1>16. ASSUME NEW f \in Files
       PROVE  /\ Dropped(p, F, f) \in Nat /\ files[f].refcount \in Nat
              /\ Dropped(p, F, f) =< files[f].refcount
  BY <1>1, UsesBounded DEF Types, FileRec
<1>17. src \notin S
  <2>1. src \in S => files[src].refcount =< Dropped(p, F, src)
    BY <1>2 DEF Closing
  <2>2. Dropped(p, F, src) \in Nat /\ files[src].refcount \in Nat
    BY <1>4, <1>16
  <2>3. QED
    BY <1>15, <2>1, <2>2
<1>18. /\ files' \in [Files -> FileRec]
       /\ files'[src].refcount = files[src].refcount - Dropped(p, F, src) + 1
       /\ files'[src].ptr = files[src].ptr /\ files'[src].ends = files[src].ends
       /\ \A f \in Files : f # src => files'[f] = g[f]
  <2>1. PICK h : h = [g[src] EXCEPT !.refcount = g[src].refcount + 1]
    OBVIOUS
  <2>2. g[src] \in FileRec
    BY <1>4, <1>13
  <2>3. /\ h \in FileRec /\ h.refcount = g[src].refcount + 1
        /\ h.ptr = g[src].ptr /\ h.ends = g[src].ends
    BY <2>1, <2>2 DEF FileRec
  <2>4. files' = [g EXCEPT ![src] = h]
    BY <1>14, <2>1
  <2>5. files' \in [Files -> FileRec] /\ files'[src] = h /\ \A f \in Files : f # src => files'[f] = g[f]
    BY <1>4, <1>13, <2>3, <2>4
  <2>6. g[src].refcount = files[src].refcount - Dropped(p, F, src)
        /\ g[src].ptr = files[src].ptr /\ g[src].ends = files[src].ends
    BY <1>4, <1>13, <1>17
  <2>7. QED
    BY <2>3, <2>5, <2>6
<1>19. ASSUME NEW f \in Files
       PROVE  /\ files'[f].refcount = files[f].refcount - Cardinality(Uses(tables[p], Fds, f))
                                      + Cardinality(Uses(t, Fds, f))
              /\ files'[f].refcount = 0 => files'[f] = NoFile
              /\ files[f].refcount = 0 => files'[f].refcount = 0
              /\ f \in S => files'[f] = NoFile
              /\ f \notin S => files'[f].ptr = files[f].ptr /\ files'[f].ends = files[f].ends
  <2>1. PICK d, n : d = Dropped(p, F, f) /\ n = files[f].refcount
    OBVIOUS
  <2>2. d \in Nat /\ d =< n /\ n \in Nat
    BY <1>16, <2>1
  <2>3. n - d + Cardinality(Uses(t, F, f))
          = n - Cardinality(Uses(tables[p], Fds, f)) + Cardinality(Uses(t, Fds, f))
    BY <1>1, <1>6, <2>1, UsesChange
  <2>4. CASE f = src
    <3>1. Uses(t, F, f) = {newfd}
      BY <1>2, <1>6, <2>4 DEF Uses
    <3>2. Cardinality(Uses(t, F, f)) = 1
      BY <3>1, FS_Singleton
    <3>3. files'[f].refcount = n - d + 1 /\ n - d + 1 # 0 /\ n # 0
      BY <1>4, <1>18, <2>1, <2>2, <2>4
    <3>4. QED
      BY <1>17, <1>18, <2>1, <2>3, <2>4, <3>2, <3>3
  <2>5. CASE f # src
    <3>1. Uses(t, F, f) = {}
      BY <1>2, <1>6, <2>5 DEF Uses
    <3>2. Cardinality(Uses(t, F, f)) = 0
      BY <3>1, FS_EmptySet
    <3>3. /\ files'[f].refcount = n - d /\ (n = 0 => n - d = 0) /\ n - d + 0 = n - d
          /\ files'[f] = g[f]
      BY <1>13, <1>18, <2>1, <2>2, <2>5
    <3>4. QED
      BY <1>13, <2>1, <2>3, <3>2, <3>3
  <2>6. QED
    BY <2>4, <2>5
<1>20. FilesFollow(p, t, S)
  BY <1>18, <1>19 DEF FilesFollow
<1>21. QED
  BY <1>6, <1>7, <1>8, <1>9, <1>10, <1>11, <1>20, TableStep

-----------------------------------------------------------------------------
(* detach_children and proc_unblock *)

\* Nothing is released.
LEMMA NothingReleased ==
    ASSUME Types, Vacant, Queued, UNCHANGED pipes
    PROVE  Releases({})
<1>1. pipes' = [q \in Pipes |-> pipes'[q]]
  BY DEF Types
<1>2. QED
  BY <1>1, ReleasesByClose

\* Steps that change neither pipes nor files nor tables.
LEMMA RefsFrame ==
    ASSUME RefsExact, EndsExact, UNCHANGED <<pipes, files, tables, may>>
    PROVE  RefsExact' /\ EndsExact'
<1>1. \A f : Holders(f)' = Holders(f)
  BY DEF Holders
<1>2. \A q, e : OpenEnds(q, e)' = OpenEnds(q, e)
  BY DEF OpenEnds
<1>3. QED
  BY <1>1, <1>2 DEF RefsExact, EndsExact

\* So does dying with the parent, which leaves the descriptors open for the collector.
LEMMA DetachStep ==
    ASSUME Inv, NEW p \in Slots, detach_children(p) PROVE Inv'
<1>1. Types /\ Vacant /\ Queued
  BY DEF Inv
<1>2. PICK ps, W : ps = [procs EXCEPT ![p] = [procs[p] EXCEPT !.state = "EXITED"]] /\ W = {}
  OBVIOUS
<1>3. /\ ps \in [Slots -> ProcRec]
      /\ ps[p].state = "EXITED" /\ ps[p].at = procs[p].at
      /\ \A s \in Slots : s # p => ps[s] = procs[s]
  <2>1. procs[p] \in ProcRec
    BY <1>1 DEF Types
  <2>2. PICK h : h = [procs[p] EXCEPT !.state = "EXITED"]
    OBVIOUS
  <2>3. h \in ProcRec /\ h.state = "EXITED" /\ h.at = procs[p].at
    BY <2>1, <2>2 DEF ProcRec
  <2>4. QED
    BY <1>1, <1>2, <2>2, <2>3 DEF Types
<1>4. /\ procs' = ps /\ procs[p].state # "FREE" /\ "parent_dies" \in may
      /\ UNCHANGED <<pipes, files, tables, may>>
  BY <1>2 DEF detach_children, NoBytes
<1>5. procs' = Unblock(ps, W)
  BY <1>2, <1>3, <1>4 DEF Unblock
<1>6. ~Undisturbed
  BY <1>4 DEF Undisturbed
<1>7. Types'
  BY <1>1, <1>3, <1>4 DEF Types
<1>8. Vacant'
  BY <1>1, <1>3, <1>4 DEF Vacant
<1>9. RefsExact' /\ EndsExact'
  BY <1>4, RefsFrame DEF Inv
<1>10. Releases(W)
  BY <1>1, <1>2, <1>4, NothingReleased
<1>11. Queued' /\ QueuesExact' /\ WakeupsReach'
  <2>1. Stays(ps)
    BY <1>3, <1>6 DEF Stays
  <2>2. QED
    BY <1>3, <1>4, <1>5, <1>10, <2>1, QueuesAfterRelease
<1>12. Bounds'
  BY <1>3, <1>4, BoundsFrame DEF Inv
<1>13. SomebodyToWaitFor'
  BY <1>7, <1>8, <1>11, QueuedMeansServedNext
<1>14. QED
  BY <1>7, <1>8, <1>9, <1>11, <1>12, <1>13 DEF Inv

\* So does waking a process from outside.
LEMMA UnblockStep ==
    ASSUME Inv, NEW p \in Slots, proc_unblock(p) PROVE Inv'
<1>1. Types /\ Vacant /\ Queued
  BY DEF Inv
<1>2. PICK ps, W : ps = procs /\ W = {p}
  OBVIOUS
<1>3. /\ procs' = Unblock(ps, W) /\ ~Undisturbed /\ UNCHANGED <<pipes, files, tables, may>>
      /\ ps \in [Slots -> ProcRec]
  BY <1>1, <1>2 DEF proc_unblock, NoBytes, Undisturbed, Types
<1>4. \A s \in Slots : /\ procs'[s].at = procs[s].at
                       /\ procs'[s].state = IF s \in W /\ procs[s].state = "BLOCKED" THEN "READY"
                                            ELSE procs[s].state
  BY <1>2, <1>3, UnblockFacts
<1>5. Types'
  BY <1>1, <1>3, UnblockFacts DEF Types
<1>6. Vacant'
  BY <1>1, <1>3, <1>4 DEF Vacant
<1>7. RefsExact' /\ EndsExact'
  BY <1>3, RefsFrame DEF Inv
<1>8. Releases({})
  BY <1>1, <1>3, NothingReleased
<1>9. Queued' /\ QueuesExact' /\ WakeupsReach'
  <2>1. \A q \in Pipes, op \in {"read", "write"} :
            Queue(q, op)' = Queue(q, op) /\ pipes'[q].size = pipes[q].size
    BY <1>3 DEF Queue
  <2>2. \A s \in Slots : ps[s] = procs[s]
    BY <1>2
  <2>3. pipes' \in [Pipes -> PipeRec]
    BY <1>5 DEF Types
  <2>4. \A q \in Pipes : /\ pipes'[q].writers = 0 => pipes'[q].readq = <<>>
                         /\ pipes'[q].readers = 0 => pipes'[q].writeq = <<>>
    BY <1>8 DEF Releases
  <2>5. QED
    BY <1>3, <2>1, <2>2, <2>3, <2>4, ReleaseStep DEF Inv
<1>10. Bounds'
  BY <1>3, <1>4, BoundsFrame DEF Inv
<1>11. SomebodyToWaitFor'
  BY <1>5, <1>6, <1>9, QueuedMeansServedNext
<1>12. QED
  BY <1>5, <1>6, <1>7, <1>9, <1>10, <1>11 DEF Inv

-----------------------------------------------------------------------------
(* kpipe_unlink and sys_pipe_open *)

\* A pipe has finitely many files.
LEMMA OpenEndsFinite ==
    \A q, e : /\ OpenEnds(q, e) \in SUBSET Files /\ IsFiniteSet(OpenEnds(q, e))
              /\ Cardinality(OpenEnds(q, e)) \in Nat
              /\ Cardinality(OpenEnds(q, e)) = 0 <=> OpenEnds(q, e) = {}
<1>1. \A q, e : OpenEnds(q, e) \in SUBSET Files
  BY DEF OpenEnds
<1>2. QED
  BY <1>1, FilesFinite, FS_EmptySet

\* What EndsExact says of a pipe, in terms of its counts.
EndsKept(q) ==
    /\ pipes'[q].readers = pipes[q].readers /\ pipes'[q].writers = pipes[q].writers
    /\ pipes[q].readers # 0 \/ pipes[q].writers # 0 => pipes'[q].used
    /\ pipes'[q].used /\ pipes'[q].unlinked => pipes[q].readers # 0 \/ pipes[q].writers # 0

\* A step that leaves files and tables alone keeps what counts them.
LEMMA KeptIfSame ==
    ASSUME EndsExact, ~({"parent_dies", "both_ends"} \subseteq may), NEW q \in Pipes, pipes'[q] = pipes[q]
    PROVE  EndsKept(q)
<1>1. /\ pipes[q].readers = Cardinality(OpenEnds(q, "read"))
      /\ pipes[q].writers = Cardinality(OpenEnds(q, "write"))
      /\ OpenEnds(q, "read") \cup OpenEnds(q, "write") # {} => pipes[q].used
      /\ pipes[q].used /\ pipes[q].unlinked => OpenEnds(q, "read") \cup OpenEnds(q, "write") # {}
  BY DEF EndsExact
<1>2. /\ pipes[q].readers = 0 <=> OpenEnds(q, "read") = {}
      /\ pipes[q].writers = 0 <=> OpenEnds(q, "write") = {}
  BY <1>1, OpenEndsFinite
<1>3. QED
  BY <1>1, <1>2 DEF EndsKept

\* A step that gives and takes no ends in the end.
LEMMA PipesStep ==
    ASSUME Inv, UNCHANGED <<files, tables, may>>, NEW W, Releases(W), procs' = Unblock(procs, W),
           ~({"parent_dies", "both_ends"} \subseteq may) => \A q \in Pipes : EndsKept(q)
    PROVE  Inv'
<1>1. Types /\ Vacant /\ Queued
  BY DEF Inv
<1>2. \A s \in Slots : /\ procs'[s].at = procs[s].at
                       /\ procs'[s].state = IF s \in W /\ procs[s].state = "BLOCKED" THEN "READY"
                                            ELSE procs[s].state
  BY <1>1, UnblockFacts DEF Types
<1>3. Types'
  BY <1>1, UnblockFacts DEF Types, Releases
<1>4. Vacant'
  <2>1. \A q \in Pipes : ~pipes'[q].used => pipes'[q] = NoPipe
    BY DEF Releases
  <2>2. QED
    BY <1>1, <1>2, <2>1 DEF Vacant
<1>5. RefsExact'
  <2>1. \A f : Holders(f)' = Holders(f)
    BY DEF Holders
  <2>2. QED
    BY <2>1 DEF RefsExact, Inv
<1>6. EndsExact'
  <2> SUFFICES ASSUME ~({"parent_dies", "both_ends"} \subseteq may), NEW q \in Pipes
               PROVE  /\ pipes'[q].readers = Cardinality(OpenEnds(q, "read"))
                      /\ pipes'[q].writers = Cardinality(OpenEnds(q, "write"))
                      /\ OpenEnds(q, "read") \cup OpenEnds(q, "write") # {} => pipes'[q].used
                      /\ pipes'[q].used /\ pipes'[q].unlinked =>
                             OpenEnds(q, "read") \cup OpenEnds(q, "write") # {}
    <3>1. \A q \in Pipes : OpenEnds(q, "read")' = OpenEnds(q, "read") /\ OpenEnds(q, "write")' = OpenEnds(q, "write")
      BY DEF OpenEnds
    <3>2. \A f \in Files : files'[f].refcount = Cardinality(Holders(f)')
      BY <1>5 DEF RefsExact
    <3>3. QED
      BY <3>1, <3>2 DEF EndsExact
  <2>1. /\ pipes[q].readers = Cardinality(OpenEnds(q, "read"))
        /\ pipes[q].writers = Cardinality(OpenEnds(q, "write"))
    BY DEF Inv, EndsExact
  <2>2. /\ pipes[q].readers = 0 <=> OpenEnds(q, "read") = {}
        /\ pipes[q].writers = 0 <=> OpenEnds(q, "write") = {}
    BY <2>1, OpenEndsFinite
  <2>3. EndsKept(q)
    OBVIOUS
  <2>4. QED
    BY <2>1, <2>2, <2>3 DEF EndsKept
<1>7. Queued' /\ QueuesExact' /\ WakeupsReach'
  <2>1. Stays(procs)
    BY DEF Stays
  <2>2. procs \in [Slots -> ProcRec]
    BY <1>1 DEF Types
  <2>3. QED
    BY <2>1, <2>2, QueuesAfterRelease
<1>8. Bounds'
  BY <1>2, BoundsFrame DEF Inv
<1>9. SomebodyToWaitFor'
  BY <1>3, <1>4, <1>7, QueuedMeansServedNext
<1>10. QED
  BY <1>3, <1>4, <1>5, <1>6, <1>7, <1>8, <1>9 DEF Inv

\* Removing the name of a pipe keeps the invariant.
LEMMA UnlinkStep ==
    ASSUME Inv, NEW p \in Slots, NEW name \in Names, pipe_unlink(p, name) PROVE Inv'
<1>1. Types /\ Vacant /\ Queued
  BY DEF Inv
<1>2. PICK q \in Found(name) :
         pipes' = [pipes EXCEPT ![q] = IF pipes[q].readers = 0 /\ pipes[q].writers = 0 THEN NoPipe
                                       ELSE [pipes[q] EXCEPT !.unlinked = TRUE]]
  BY DEF pipe_unlink
<1>3. UNCHANGED <<files, tables, procs, may>>
  BY DEF pipe_unlink, NoBytes
<1>4. q \in Pipes /\ pipes[q].used /\ ~pipes[q].unlinked
  BY DEF Found, Linked
<1>5. PICK pipe \in PipeRec : pipe = pipes[q]
  BY <1>1, <1>4 DEF Types
<1>6. PICK x : x = IF pipe.readers = 0 /\ pipe.writers = 0 THEN NoPipe
                   ELSE [pipe EXCEPT !.unlinked = TRUE]
  OBVIOUS
<1>7. pipes' = [pipes EXCEPT ![q] = x]
  BY <1>2, <1>5, <1>6
<1>8. /\ x \in PipeRec /\ x.readers = pipe.readers /\ x.writers = pipe.writers
      /\ \/ x = NoPipe /\ pipe.readers = 0 /\ pipe.writers = 0
         \/ /\ x.used = pipe.used /\ x.readq = pipe.readq /\ x.writeq = pipe.writeq
            /\ x.size = pipe.size /\ (pipe.readers # 0 \/ pipe.writers # 0)
  <2>1. CASE pipe.readers = 0 /\ pipe.writers = 0
    BY <1>6, <2>1, NoPipeFacts
  <2>2. CASE ~(pipe.readers = 0 /\ pipe.writers = 0)
    <3>1. x = [pipe EXCEPT !.unlinked = TRUE]
      BY <1>6, <2>2
    <3>2. /\ x \in PipeRec /\ x.readers = pipe.readers /\ x.writers = pipe.writers
          /\ x.used = pipe.used /\ x.readq = pipe.readq /\ x.writeq = pipe.writeq
          /\ x.size = pipe.size
      BY <3>1 DEF PipeRec
    <3>3. QED
      BY <2>2, <3>2
  <2>3. QED
    BY <2>1, <2>2
<1>9. pipes' \in [Pipes -> PipeRec] /\ pipes'[q] = x /\ \A c \in Pipes : c # q => pipes'[c] = pipes[c]
  BY <1>1, <1>4, <1>7, <1>8 DEF Types
<1>10. PICK W : W = {}
  OBVIOUS
<1>11. ASSUME NEW c \in Pipes
       PROVE  /\ \A op \in {"read", "write"} :
                    \/ Queue(c, op)' = <<>> /\ InQueue(Queue(c, op)) \subseteq W
                    \/ Queue(c, op)' = Queue(c, op) /\ pipes'[c].size = pipes[c].size
              /\ pipes'[c].writers = 0 => pipes'[c].readq = <<>>
              /\ pipes'[c].readers = 0 => pipes'[c].writeq = <<>>
              /\ ~pipes'[c].used => pipes'[c] = NoPipe
  <2>1. /\ pipes[c].writers = 0 => pipes[c].readq = <<>>
        /\ pipes[c].readers = 0 => pipes[c].writeq = <<>>
        /\ ~pipes[c].used => pipes[c] = NoPipe
    BY <1>1 DEF Queued, Vacant
  <2>2. CASE c # q
    BY <1>9, <2>1, <2>2 DEF Queue
  <2>3. CASE c = q /\ x = NoPipe /\ pipe.readers = 0 /\ pipe.writers = 0
    <3>1. InQueue(<<>>) = {}
      BY DEF InQueue
    <3>2. QED
      BY <1>5, <1>9, <1>10, <2>1, <2>3, <3>1, NoPipeFacts DEF Queue
  <2>4. CASE /\ c = q
             /\ x.used = pipe.used /\ x.readq = pipe.readq /\ x.writeq = pipe.writeq
             /\ x.size = pipe.size /\ (pipe.readers # 0 \/ pipe.writers # 0)
    BY <1>4, <1>5, <1>8, <1>9, <2>1, <2>4 DEF Queue
  <2>5. QED
    BY <1>8, <2>2, <2>3, <2>4
<1>12. Releases(W)
  BY <1>9, <1>10, <1>11 DEF Releases
<1>13. procs' = Unblock(procs, W)
  BY <1>1, <1>3, <1>10 DEF Unblock, Types
<1>14. ASSUME ~({"parent_dies", "both_ends"} \subseteq may), NEW c \in Pipes PROVE EndsKept(c)
  <2>1. CASE c # q
    BY <1>9, <1>14, <2>1, KeptIfSame DEF Inv
  <2>2. CASE c = q
    BY <1>4, <1>5, <1>8, <1>9, <2>2, NoPipeFacts DEF EndsKept
  <2>3. QED
    BY <2>1, <2>2
<1>15. QED
  BY <1>3, <1>12, <1>13, <1>14, PipesStep

\* The end that sys_pipe_open makes, before it has a descriptor.
LEMMA OpenedFacts ==
    ASSUME NEW x \in PipeRec, x.used, ~x.unlinked, NEW ends \in SUBSET {"read", "write"},
           NEW pipe, pipe = Opened(x, ends)
    PROVE  /\ pipe \in PipeRec /\ pipe.used /\ ~pipe.unlinked
           /\ pipe.readers = x.readers + One(ends, "read")
           /\ pipe.writers = x.writers + One(ends, "write")
           /\ pipe.readq = x.readq /\ pipe.writeq = x.writeq /\ pipe.size = x.size
           /\ pipe.r = x.r /\ pipe.w = x.w /\ pipe.buf = x.buf
<1>1. PICK a \in Nat, b \in Nat : /\ a = x.readers + One(ends, "read")
                                /\ b = x.writers + One(ends, "write")
  BY DEF PipeRec, One
<1>2. pipe = [x EXCEPT !.readers = a, !.writers = b]
  BY <1>1 DEF Opened
<1>3. /\ pipe \in PipeRec /\ pipe.used = x.used /\ pipe.unlinked = x.unlinked
      /\ pipe.readers = a /\ pipe.writers = b
      /\ pipe.readq = x.readq /\ pipe.writeq = x.writeq /\ pipe.size = x.size
      /\ pipe.r = x.r /\ pipe.w = x.w /\ pipe.buf = x.buf
  BY <1>2 DEF PipeRec
<1>4. QED
  BY <1>1, <1>3

\* The pipe q, found or new, just before an end is added.
Openable(q, x) ==
    /\ x \in PipeRec /\ x.used /\ ~x.unlinked
    /\ x.readers = pipes[q].readers /\ x.writers = pipes[q].writers
    /\ x.readq = pipes[q].readq /\ x.writeq = pipes[q].writeq /\ x.size = pipes[q].size
    /\ x.r = pipes[q].r /\ x.w = pipes[q].w /\ x.buf = pipes[q].buf

FoundOrNew(q, name, x) ==
    \/ q \in Found(name) /\ x = pipes[q]
    \/ ~pipes[q].used /\ x = [NoPipe EXCEPT !.used = TRUE, !.name = name]

\* The pipe that is opened: it was found, or it is new.
LEMMA NewPipeFacts ==
    ASSUME Types, Vacant, NEW name \in Names, NEW q \in Pipes,
           NEW x, FoundOrNew(q, name, x)
    PROVE  Openable(q, x)
<1>1. CASE q \in Found(name) /\ x = pipes[q]
  BY <1>1 DEF Types, Found, Linked, Openable
<1>2. CASE ~pipes[q].used /\ x = [NoPipe EXCEPT !.used = TRUE, !.name = name]
  <2>1. pipes[q] = NoPipe
    BY <1>2 DEF Vacant
  <2>2. PICK np \in PipeRec : np = NoPipe
    BY NoPipeFacts
  <2>3. x = [np EXCEPT !.used = TRUE, !.name = name]
    BY <1>2, <2>2
  <2>4. /\ x \in PipeRec /\ x.used = TRUE /\ x.unlinked = np.unlinked
        /\ x.readers = np.readers /\ x.writers = np.writers
        /\ x.readq = np.readq /\ x.writeq = np.writeq /\ x.size = np.size
        /\ x.r = np.r /\ x.w = np.w /\ x.buf = np.buf
    BY <2>3 DEF PipeRec
  <2>5. QED
    BY <2>1, <2>2, <2>4, NoPipeFacts DEF Openable
<1>3. QED
  BY <1>1, <1>2 DEF FoundOrNew

\* Without a descriptor or a file the end is closed again.
LEMMA OpenFails ==
    ASSUME Inv, UNCHANGED <<files, tables, may>>, NEW q \in Pipes,
           NEW x, Openable(q, x),
           NEW ends \in SUBSET {"read", "write"}, NEW pipe, pipe = Opened(x, ends),
           NEW rd, NEW wr, rd = One(ends, "read"), wr = One(ends, "write"),
           pipes' = [pipes EXCEPT ![q] = kpipe_close(pipe, rd, wr)],
           procs' = Unblock(procs, WokenByClose(pipe, rd, wr))
    PROVE  Inv'
<1>1. Types /\ Vacant /\ Queued
  BY DEF Inv
<1>0. /\ x \in PipeRec /\ x.used /\ ~x.unlinked
      /\ x.readers = pipes[q].readers /\ x.writers = pipes[q].writers
      /\ x.readq = pipes[q].readq /\ x.writeq = pipes[q].writeq /\ x.size = pipes[q].size
  BY DEF Openable
<1>2. /\ pipe \in PipeRec /\ pipe.used /\ ~pipe.unlinked
      /\ pipe.readers = x.readers + rd /\ pipe.writers = x.writers + wr
      /\ pipe.readq = x.readq /\ pipe.writeq = x.writeq /\ pipe.size = x.size
  BY <1>0, OpenedFacts
<1>3. rd \in Nat /\ wr \in Nat /\ x.readers \in Nat /\ x.writers \in Nat
  BY <1>0 DEF One, PipeRec
<1>4. PICK y, W : y = kpipe_close(pipe, rd, wr) /\ W = WokenByClose(pipe, rd, wr)
  OBVIOUS
<1>5. Closed(pipe, rd, wr, y)
  BY <1>2, <1>3, <1>4, CloseFacts
<1>6. y.readers = x.readers /\ y.writers = x.writers
  <2>1. y.readers = Less(pipe.readers, rd) /\ y.writers = Less(pipe.writers, wr)
    BY <1>5 DEF Closed
  <2>2. Less(x.readers + rd, rd) = x.readers /\ Less(x.writers + wr, wr) = x.writers
    BY <1>3 DEF Less
  <2>3. QED
    BY <1>2, <2>1, <2>2
<1>7. y \in PipeRec /\ y.used /\ ~y.unlinked
  BY <1>2, <1>5 DEF Closed
<1>8. pipes' = [pipes EXCEPT ![q] = y]
  BY <1>4
<1>9. pipes' \in [Pipes -> PipeRec] /\ pipes'[q] = y /\ \A c \in Pipes : c # q => pipes'[c] = pipes[c]
  BY <1>1, <1>7, <1>8 DEF Types
<1>10. Closes(q, W)
  BY <1>0, <1>2, <1>3, <1>4, <1>9 DEF Closes
<1>11. Releases(W)
  <2>1. pipes' = [c \in Pipes |-> pipes'[c]]
    BY <1>9
  <2>2. \A c \in Pipes : pipes'[c] = pipes[c] \/ \E w \in SUBSET W : Closes(c, w)
    BY <1>9, <1>10
  <2>3. \A s \in W : \E c \in Pipes : \E w : Closes(c, w) /\ s \in w
    BY <1>10
  <2>4. QED
    BY <1>1, <2>1, <2>2, <2>3, ReleasesByClose
<1>12. ASSUME ~({"parent_dies", "both_ends"} \subseteq may), NEW c \in Pipes PROVE EndsKept(c)
  <2>1. CASE c # q
    BY <1>9, <1>12, <2>1, KeptIfSame DEF Inv
  <2>2. CASE c = q
    BY <1>0, <1>6, <1>7, <1>9, <2>2 DEF EndsKept
  <2>3. QED
    BY <2>1, <2>2
<1>13. procs' = Unblock(procs, W)
  BY <1>4
<1>14. QED
  BY <1>11, <1>12, <1>13, PipesStep

\* The new file is one end more of the pipe, and its descriptor one reference.
LEMMA OpenAttaches ==
    ASSUME Inv, UNCHANGED <<procs, may>>, NEW p \in Slots, procs[p].state # "FREE",
           NEW q \in Pipes, NEW f \in Files, files[f].refcount = 0,
           NEW fd \in Fds, tables[p][fd] = None,
           NEW x, Openable(q, x),
           NEW ends \in SUBSET {"read", "write"}, ends # {},
           "both_ends" \notin may => ends # {"read", "write"},
           NEW pipe, pipe = Opened(x, ends),
           files' = [files EXCEPT ![f] = [refcount |-> 1, ptr |-> q, ends |-> ends]],
           tables' = [tables EXCEPT ![p][fd] = f],
           pipes' = [pipes EXCEPT ![q] = pipe]
    PROVE  Inv'
<1>1. Types /\ Vacant /\ Queued /\ RefsExact /\ EndsExact
  BY DEF Inv
<1>0. /\ x \in PipeRec /\ x.used /\ ~x.unlinked
      /\ x.readers = pipes[q].readers /\ x.writers = pipes[q].writers
      /\ x.readq = pipes[q].readq /\ x.writeq = pipes[q].writeq /\ x.size = pipes[q].size
  BY DEF Openable
<1>2. /\ pipe \in PipeRec /\ pipe.used /\ ~pipe.unlinked
      /\ pipe.readers = x.readers + One(ends, "read") /\ pipe.writers = x.writers + One(ends, "write")
      /\ pipe.readq = x.readq /\ pipe.writeq = x.writeq /\ pipe.size = x.size
  BY <1>0, OpenedFacts
<1>3. /\ x.readers \in Nat /\ x.writers \in Nat
      /\ One(ends, "read") \in Nat /\ One(ends, "write") \in Nat
      /\ One(ends, "read") + One(ends, "write") > 0
  <2>1. "read" \in ends \/ "write" \in ends
    OBVIOUS
  <2>2. QED
    BY <1>0, <2>1 DEF One, PipeRec
<1>4. pipes' \in [Pipes -> PipeRec] /\ pipes'[q] = pipe /\ \A c \in Pipes : c # q => pipes'[c] = pipes[c]
  BY <1>1, <1>2 DEF Types
<1>5. PICK h : h = [refcount |-> 1, ptr |-> q, ends |-> ends]
  OBVIOUS
<1>6. h \in FileRec /\ h.refcount = 1 /\ h.ptr = q /\ h.ends = ends
  BY <1>5 DEF FileRec
<1>7. files' \in [Files -> FileRec] /\ files'[f] = h /\ \A g \in Files : g # f => files'[g] = files[g]
  BY <1>1, <1>5, <1>6 DEF Types
<1>8. PICK t : t = [tables[p] EXCEPT ![fd] = f]
  OBVIOUS
<1>9. PICK F \in SUBSET Fds : F = {fd}
  OBVIOUS
<1>10. /\ t \in [Fds -> Files \cup {None}] /\ t[fd] = f
       /\ \A y \in Fds \ F : t[y] = tables[p][y]
  BY <1>1, <1>8, <1>9 DEF Types
<1>11. tables' = [tables EXCEPT ![p] = t]
  BY <1>1, <1>8 DEF Types
<1>12. Types'
  BY <1>1, <1>4, <1>7, <1>10, <1>11 DEF Types
<1>13. Vacant'
  <2>1. \A s \in Slots : procs[s].state = "FREE" => tables'[s] = tables[s]
    BY <1>1, <1>11 DEF Types
  <2>2. \A c \in Pipes : ~pipes'[c].used => pipes'[c] = NoPipe
    BY <1>1, <1>2, <1>4 DEF Vacant
  <2>3. \A g \in Files : /\ files'[g].refcount = 0 => files'[g] = NoFile
                         /\ files'[g].refcount > 0 => files'[g].ptr \in Pipes
                         /\ "both_ends" \notin may => files'[g].ends # {"read", "write"}
    BY <1>1, <1>6, <1>7 DEF Vacant
  <2>4. QED
    BY <1>1, <2>1, <2>2, <2>3 DEF Vacant
<1>14. RefsExact'
  <2>1. ASSUME NEW g \in Files
        PROVE  files'[g].refcount = files[g].refcount - Cardinality(Uses(tables[p], Fds, g))
                                    + Cardinality(Uses(t, Fds, g))
    <3>1. Uses(tables[p], F, g) = {}
      BY <1>9, PipeAssumption DEF Uses
    <3>2. Dropped(p, F, g) = 0
      BY <1>1, <3>1, UsesBounded, FS_EmptySet
    <3>3. PICK n \in Nat : n = files[g].refcount
      BY <1>1 DEF Types, FileRec
    <3>4. n - 0 + Cardinality(Uses(t, F, g)) = n - Cardinality(Uses(tables[p], Fds, g))
                                              + Cardinality(Uses(t, Fds, g))
      BY <1>1, <1>10, <3>2, <3>3, UsesChange
    <3>5. CASE g = f
      <4>1. Uses(t, F, g) = {fd}
        BY <1>9, <1>10, <3>5 DEF Uses
      <4>2. Cardinality(Uses(t, F, g)) = 1
        BY <4>1, FS_Singleton
      <4>3. n = 0 /\ files'[g].refcount = 1
        BY <1>6, <1>7, <3>3, <3>5
      <4>4. QED
        BY <3>3, <3>4, <4>2, <4>3
    <3>6. CASE g # f
      <4>1. Uses(t, F, g) = {}
        BY <1>9, <1>10, <3>6 DEF Uses
      <4>2. Cardinality(Uses(t, F, g)) = 0
        BY <4>1, FS_EmptySet
      <4>3. files'[g].refcount = n /\ n - 0 + 0 = n
        BY <1>7, <3>3, <3>6
      <4>4. QED
        BY <3>3, <3>4, <4>2, <4>3
    <3>7. QED
      BY <3>5, <3>6
  <2>2. QED
    BY <1>1, <1>10, <1>11, <2>1, RefsStep
<1>15. EndsExact'
  <2> SUFFICES ASSUME ~({"parent_dies", "both_ends"} \subseteq may), NEW c \in Pipes
               PROVE  /\ pipes'[c].readers = Cardinality(OpenEnds(c, "read")')
                      /\ pipes'[c].writers = Cardinality(OpenEnds(c, "write")')
                      /\ (OpenEnds(c, "read") \cup OpenEnds(c, "write"))' # {} => pipes'[c].used
                      /\ pipes'[c].used /\ pipes'[c].unlinked =>
                             (OpenEnds(c, "read") \cup OpenEnds(c, "write"))' # {}
    BY <1>14 DEF EndsExact, RefsExact
  <2>1. /\ pipes[c].readers = Cardinality(OpenEnds(c, "read"))
        /\ pipes[c].writers = Cardinality(OpenEnds(c, "write"))
        /\ OpenEnds(c, "read") \cup OpenEnds(c, "write") # {} => pipes[c].used
        /\ pipes[c].used /\ pipes[c].unlinked => OpenEnds(c, "read") \cup OpenEnds(c, "write") # {}
    BY <1>1 DEF EndsExact
  <2>2. \A e : f \notin OpenEnds(c, e)
    <3>1. files[f] = NoFile
      BY <1>1 DEF Vacant
    <3>2. QED
      BY <3>1, PipeAssumption DEF NoFile, OpenEnds
  <2>3. CASE c # q
    <3>1. \A e : OpenEnds(c, e)' = OpenEnds(c, e)
      BY <1>6, <1>7, <2>2, <2>3 DEF OpenEnds
    <3>2. QED
      BY <1>4, <2>1, <2>3, <3>1
  <2>4. CASE c = q
    <3>1. ASSUME NEW e PROVE Cardinality(OpenEnds(c, e)') = Cardinality(OpenEnds(c, e)) + One(ends, e)
      <4>1. PICK O : O = OpenEnds(c, e)
        OBVIOUS
      <4>2. IsFiniteSet(O) /\ f \notin O /\ Cardinality(O) \in Nat
        BY <2>2, <4>1, OpenEndsFinite
      <4>3. CASE e \in ends
        <5>1. OpenEnds(c, e)' = O \cup {f}
          BY <1>6, <1>7, <2>4, <4>1, <4>3 DEF OpenEnds
        <5>2. Cardinality(O \cup {f}) = Cardinality(O) + 1
          BY <4>2, FS_AddElement
        <5>3. QED
          BY <4>1, <4>3, <5>1, <5>2 DEF One
      <4>4. CASE e \notin ends
        <5>1. OpenEnds(c, e)' = O
          BY <1>6, <1>7, <2>2, <2>4, <4>1, <4>4 DEF OpenEnds
        <5>2. QED
          BY <4>1, <4>2, <4>4, <5>1 DEF One
      <4>5. QED
        BY <4>3, <4>4
    <3>2. pipes'[c].readers = Cardinality(OpenEnds(c, "read")') /\ pipes'[c].writers = Cardinality(OpenEnds(c, "write")')
      BY <1>0, <1>2, <1>4, <2>1, <2>4, <3>1
    <3>3. QED
      BY <1>2, <1>4, <2>4, <3>2
  <2>5. QED
    BY <2>3, <2>4
<1>16. Releases({})
  <2>1. ASSUME NEW c \in Pipes
        PROVE  /\ \A op \in {"read", "write"} :
                     Queue(c, op)' = Queue(c, op) /\ pipes'[c].size = pipes[c].size
               /\ pipes'[c].writers = 0 => pipes'[c].readq = <<>>
               /\ pipes'[c].readers = 0 => pipes'[c].writeq = <<>>
               /\ ~pipes'[c].used => pipes'[c] = NoPipe
    <3>1. /\ pipes[c].writers = 0 => pipes[c].readq = <<>>
          /\ pipes[c].readers = 0 => pipes[c].writeq = <<>>
          /\ ~pipes[c].used => pipes[c] = NoPipe
      BY <1>1 DEF Queued, Vacant
    <3>2. CASE c # q
      BY <1>4, <3>1, <3>2 DEF Queue
    <3>3. CASE c = q
      <4>1. (pipe.writers = 0 => x.writers = 0) /\ (pipe.readers = 0 => x.readers = 0)
        BY <1>2, <1>3
      <4>2. QED
        BY <1>0, <1>2, <1>4, <3>1, <3>3, <4>1 DEF Queue
    <3>4. QED
      BY <3>2, <3>3
  <2>2. QED
    BY <1>4, <2>1 DEF Releases
<1>17. procs' = Unblock(procs, {}) /\ procs \in [Slots -> ProcRec]
  BY <1>1 DEF Types, Unblock
<1>18. Queued' /\ QueuesExact' /\ WakeupsReach'
  <2>1. Stays(procs)
    BY DEF Stays
  <2>2. QED
    BY <1>16, <1>17, <2>1, QueuesAfterRelease
<1>19. Bounds'
  BY BoundsFrame DEF Inv
<1>20. SomebodyToWaitFor'
  BY <1>12, <1>13, <1>18, QueuedMeansServedNext
<1>21. QED
  BY <1>12, <1>13, <1>14, <1>15, <1>18, <1>19, <1>20 DEF Inv

\* Opening a pipe, with a file for each end, keeps the invariant.
LEMMA OpenStep ==
    ASSUME Inv, NEW p \in Slots, NEW name \in Names, NEW ends \in Ends, pipe_open(p, name, ends)
    PROVE  Inv'
<1>1. Types /\ Vacant
  BY DEF Inv
<1>2. /\ ends \in SUBSET {"read", "write"} /\ ends # {}
      /\ "both_ends" \notin may => ends # {"read", "write"}
  BY DEF Ends
<1>3. PICK fds : fds = {y \in Fds : tables[p][y] = None}
  OBVIOUS
<1>4. PICK fd : fd = CHOOSE y \in fds : \A z \in fds : y =< z
  OBVIOUS
<1>5. fds # {} => fd \in Fds /\ tables[p][fd] = None
  <2>1. fds \in SUBSET Nat
    BY <1>3, FdsFinite
  <2>2. fds # {} => \E y \in fds : \A z \in fds : y =< z
    BY <2>1, SmallestOf
  <2>3. fds # {} => fd \in fds
    BY <1>4, <2>2
  <2>4. QED
    BY <1>3, <2>3
<1>6. procs[p].state # "FREE" /\ UNCHANGED may
  BY DEF pipe_open, InUserland, Runs, NoBytes
<1>7. PICK q, x, pipe, rd, wr :
         /\ q \in Pipes
         /\ FoundOrNew(q, name, x)
         /\ pipe = Opened(x, ends)
         /\ rd = One(ends, "read") /\ wr = One(ends, "write")
         /\ \/ /\ fds # {}
               /\ \E f \in Files :
                    /\ files[f].refcount = 0
                    /\ files' = [files EXCEPT ![f] = [refcount |-> 1, ptr |-> q, ends |-> ends]]
                    /\ tables' = [tables EXCEPT ![p][fd] = f]
               /\ pipes' = [pipes EXCEPT ![q] = pipe]
               /\ UNCHANGED procs
            \/ /\ pipes' = [pipes EXCEPT ![q] = kpipe_close(pipe, rd, wr)]
               /\ procs' = Unblock(procs, WokenByClose(pipe, rd, wr))
               /\ UNCHANGED <<files, tables>>
  <2>1. Found(name) \subseteq Pipes
    BY DEF Found, Linked
  <2>2. QED
    BY <1>3, <1>4, <2>1 DEF pipe_open, FoundOrNew
<1> q \in Pipes
  BY <1>7
<1>8. Openable(q, x)
  BY <1>1, <1>7, NewPipeFacts
<1>9. CASE /\ fds # {}
           /\ \E f \in Files :
                /\ files[f].refcount = 0
                /\ files' = [files EXCEPT ![f] = [refcount |-> 1, ptr |-> q, ends |-> ends]]
                /\ tables' = [tables EXCEPT ![p][fd] = f]
           /\ pipes' = [pipes EXCEPT ![q] = pipe]
           /\ UNCHANGED procs
  <2>1. PICK f \in Files :
           /\ files[f].refcount = 0
           /\ files' = [files EXCEPT ![f] = [refcount |-> 1, ptr |-> q, ends |-> ends]]
           /\ tables' = [tables EXCEPT ![p][fd] = f]
    BY <1>9
  <2>2. fd \in Fds /\ tables[p][fd] = None
    BY <1>5, <1>9
  <2>3. UNCHANGED <<procs, may>> /\ pipes' = [pipes EXCEPT ![q] = pipe] /\ pipe = Opened(x, ends)
    BY <1>6, <1>7, <1>9
  <2>4. QED
    BY <1>2, <1>6, <1>8, <2>1, <2>2, <2>3, OpenAttaches
<1>10. CASE /\ pipes' = [pipes EXCEPT ![q] = kpipe_close(pipe, rd, wr)]
            /\ procs' = Unblock(procs, WokenByClose(pipe, rd, wr))
            /\ UNCHANGED <<files, tables>>
  BY <1>2, <1>6, <1>7, <1>8, <1>10, OpenFails
<1>11. QED
  BY <1>7, <1>9, <1>10

-----------------------------------------------------------------------------
(* proc_create *)

\* A new process has a copy of the table of its parent.
LEMMA CreateStep ==
    ASSUME Inv, NEW p \in Slots, NEW child \in Slots, proc_create(p, child) PROVE Inv'
<1>1. Types /\ Vacant /\ Queued /\ RefsExact /\ EndsExact
  BY DEF Inv
<1>2. /\ procs[child].state = "FREE" /\ tables[child] = NoTable /\ procs[child].at = None
      /\ UNCHANGED <<pipes, may>>
  BY <1>1 DEF proc_create, Vacant, NoBytes
<1>3. PICK h : h = [NoProc EXCEPT !.state = "READY"]
  OBVIOUS
<1>4. h \in ProcRec /\ h.state = "READY" /\ h.at = None
  BY <1>3 DEF NoProc, ProcRec
<1>5. procs' = [procs EXCEPT ![child] = h]
  BY <1>3 DEF proc_create
<1>6. PICK ps : ps = procs'
  OBVIOUS
<1>7. ps \in [Slots -> ProcRec] /\ ps[child] = h /\ \A s \in Slots : s # child => ps[s] = procs[s]
  BY <1>1, <1>4, <1>5, <1>6 DEF Types
<1>8. PICK t \in [Fds -> Files \cup {None}] : t = tables[p]
  BY <1>1 DEF Types
<1>9. /\ tables' = [tables EXCEPT ![child] = t]
      /\ tables' \in [Slots -> [Fds -> Files \cup {None}]]
      /\ \A s \in Slots : s # child => tables'[s] = tables[s]
  BY <1>1, <1>8 DEF proc_create, Types
<1>10. ASSUME NEW f \in Files
       PROVE  /\ files'[f] \in FileRec
              /\ files'[f].refcount = files[f].refcount + Dropped(p, Fds, f)
              /\ files'[f].ptr = files[f].ptr /\ files'[f].ends = files[f].ends
              /\ files'[f].refcount = 0 => files'[f] = NoFile
              /\ files'[f].refcount > 0 => files'[f].ptr \in Pipes
  <2>0. PICK g \in FileRec : g = files[f]
    BY <1>1 DEF Types
  <2>1. PICK d, n : d = Dropped(p, Fds, f) /\ n = g.refcount /\ n = files[f].refcount /\ g = files[f]
    BY <2>0
  <2>2. d \in Nat /\ n \in Nat /\ d =< n
    BY <1>1, <2>1, UsesBounded DEF FileRec
  <2>3. files'[f] = [g EXCEPT !.refcount = n + d]
    BY <2>1 DEF proc_create, file_ref
  <2>4. /\ files'[f] \in FileRec /\ files'[f].refcount = n + d
        /\ files'[f].ptr = g.ptr /\ files'[f].ends = g.ends
    BY <2>2, <2>3 DEF FileRec
  <2>5. n + d = 0 => n = 0 /\ n + d = n
    BY <2>2
  <2>6. n = 0 => g = NoFile
    BY <1>1, <2>1 DEF Vacant
  <2>7. n + d = 0 => files'[f] = NoFile
    BY <2>3, <2>5, <2>6 DEF NoFile
  <2>8. n + d > 0 => n > 0
    BY <2>2
  <2>9. n > 0 => g.ptr \in Pipes
    BY <1>1, <2>1 DEF Vacant
  <2>10. QED
    BY <2>1, <2>4, <2>7, <2>8, <2>9
<1>11. files' \in [Files -> FileRec]
  BY <1>10 DEF proc_create
<1>12. Types'
  BY <1>1, <1>2, <1>6, <1>7, <1>9, <1>11 DEF Types
<1>13. Vacant'
  <2>1. \A s \in Slots : /\ procs'[s].state = "FREE" => tables'[s] = NoTable /\ procs'[s].at = None
                         /\ procs'[s].state = "BLOCKED" => procs'[s].at # None
                         /\ procs'[s].state = "EXITED" => "parent_dies" \in may
    BY <1>1, <1>4, <1>6, <1>7, <1>9 DEF Vacant
  <2>2. \A f \in Files : "both_ends" \notin may => files'[f].ends # {"read", "write"}
    BY <1>1, <1>10 DEF Vacant
  <2>3. QED
    BY <1>1, <1>2, <1>10, <2>1, <2>2 DEF Vacant
<1>14. RefsExact'
  <2>1. ASSUME NEW f \in Files
        PROVE  files'[f].refcount = files[f].refcount - Cardinality(Uses(tables[child], Fds, f))
                                    + Cardinality(Uses(t, Fds, f))
    <3>1. Uses(tables[child], Fds, f) = {}
      BY <1>2, PipeAssumption DEF Uses, NoTable
    <3>2. Cardinality(Uses(tables[child], Fds, f)) = 0
      BY <3>1, FS_EmptySet
    <3>3. Dropped(p, Fds, f) = Cardinality(Uses(t, Fds, f)) /\ Dropped(p, Fds, f) \in Nat
      BY <1>1, <1>8, UsesBounded
    <3>4. files[f].refcount \in Nat
      BY <1>1 DEF Types, FileRec
    <3>5. files'[f].refcount = files[f].refcount + Dropped(p, Fds, f)
      BY <1>10
    <3>6. QED
      BY <3>2, <3>3, <3>4, <3>5
  <2>2. QED
    BY <1>1, <1>9, <2>1, RefsStep
<1>15. EndsExact'
  <2>1. \A q, e : OpenEnds(q, e)' = OpenEnds(q, e)
    BY <1>10 DEF OpenEnds
  <2>2. \A f \in Files : files'[f].refcount = Cardinality(Holders(f)')
    BY <1>14 DEF RefsExact
  <2>3. QED
    BY <1>1, <1>2, <2>1, <2>2 DEF EndsExact
<1>16. Releases({})
  BY <1>1, <1>2, NothingReleased
<1>17. procs' = Unblock(ps, {})
  BY <1>6, <1>7 DEF Unblock
<1>18. Stays(ps)
  BY <1>2, <1>4, <1>7 DEF Stays
<1>19. Queued' /\ QueuesExact' /\ WakeupsReach'
  BY <1>2, <1>7, <1>16, <1>17, <1>18, QueuesAfterRelease
<1>20. Bounds'
  <2>1. Used' = Used \cup {child} /\ child \notin Used /\ Used \in SUBSET Slots
    BY <1>2, <1>4, <1>6, <1>7 DEF Used
  <2>2. IsFiniteSet(Used) /\ Cardinality(Used) \in Nat
    BY <2>1, SlotsFinite
  <2>3. Cardinality(Used \cup {child}) = Cardinality(Used) + 1
    BY <2>1, <2>2, FS_AddElement
  <2>4. "crowd" \in may \/ Cardinality(Used) < 2
    BY DEF proc_create, Used
  <2>5. "crowd" \notin may => Cardinality(Used') =< 2
    BY <2>1, <2>2, <2>3, <2>4
  <2>6. \A s \in Slots : procs'[s].at = procs[s].at \/ procs'[s].at = None
    BY <1>4, <1>6, <1>7
  <2>7. QED
    BY <1>2, <2>5, <2>6 DEF Bounds, Inv
<1>21. SomebodyToWaitFor'
  BY <1>12, <1>13, <1>19, QueuedMeansServedNext
<1>22. QED
  BY <1>12, <1>13, <1>14, <1>15, <1>19, <1>20, <1>21 DEF Inv

-----------------------------------------------------------------------------
(* Bytes, sleepers and wake-ups *)

\* What is left of a queue without its head.
LEMMA RestFacts ==
    ASSUME NEW u \in Seq(Slots)
    PROVE  /\ Rest(u) \in Seq(Slots) /\ First(u) \subseteq InQueue(u)
           /\ InQueue(u) = InQueue(Rest(u)) \cup First(u)
           /\ Distinct(u) => Distinct(Rest(u)) /\ First(u) \cap InQueue(Rest(u)) = {}
           /\ u = <<>> => Rest(u) = <<>> /\ First(u) = {}
           /\ u # <<>> => First(u) = {Head(u)} /\ Head(u) \in InQueue(u)
<1>1. CASE u = <<>>
  BY <1>1, EmptySeq DEF Rest, First, InQueue, Distinct
<1>2. CASE u # <<>>
  <2>1. /\ Head(u) \in Members(u) /\ Tail(u) \in Seq(Slots)
        /\ Members(u) = Members(Tail(u)) \cup {Head(u)}
        /\ Distinct(u) => Distinct(Tail(u)) /\ Head(u) \notin Members(Tail(u))
    BY <1>2, TailMembers
  <2>2. Rest(u) = Tail(u) /\ First(u) = {Head(u)}
    BY <1>2 DEF Rest, First
  <2>3. QED
    BY <1>2, <2>1, <2>2, InQueueIsMembers
<1>3. QED
  BY <1>1, <1>2

Other(op) == IF op = "read" THEN "write" ELSE "read"

\* p is about to begin or to go on with a call of kind op on q.
Calling(p, q, op) ==
    /\ procs[p].state = "READY"
    /\ procs[p].at = None \/ (procs[p].at # None /\ procs[p].at.pipe = q /\ procs[p].at.op = op)

\* The step changes bytes and queues of q only, and no ends.
OnOnePipe(q) ==
    /\ UNCHANGED <<files, tables, may>>
    /\ pipes' \in [Pipes -> PipeRec]
    /\ \A c \in Pipes : c # q => pipes'[c] = pipes[c]
    /\ pipes'[q].readers = pipes[q].readers /\ pipes'[q].writers = pipes[q].writers
    /\ pipes'[q].used = pipes[q].used /\ pipes'[q].unlinked = pipes[q].unlinked

\* A process that goes to sleep in a read or a write.
LEMMA SleepingFacts ==
    ASSUME Types, Vacant, Queued, NEW q \in Pipes, NEW op \in {"read", "write"}
    PROVE  /\ Sleeping(q, op) \in SUBSET InQueue(Queue(q, op))
           /\ Queue(q, op) \in Seq(Slots) /\ Stock(q, op) \in Nat
           /\ Woken(q, op) \in SUBSET Slots /\ IsFiniteSet(Woken(q, op))
           /\ Cardinality(Woken(q, op)) \in Nat
<1>1. Sleeping(q, op) \in SUBSET InQueue(Queue(q, op))
  BY DEF Queued, Sleeping, In
<1>2. Queue(q, op) \in Seq(Slots) /\ Stock(q, op) \in Nat
  BY PipeAssumption DEF Types, PipeRec, Queue, Stock
<1>3. Woken(q, op) \in SUBSET Slots
  BY DEF Woken, In
<1>4. QED
  BY <1>1, <1>2, <1>3, SlotsFinite

\* With two processes only the caller and one sleeper are there.
LEMMA TwoProcesses ==
    ASSUME Types, Bounds, "crowd" \notin may, NEW p \in Slots, NEW x \in Slots, NEW y \in Slots,
           procs[p].state = "READY", procs[x].state = "BLOCKED", procs[y].state = "BLOCKED"
    PROVE  x = y
<1> SUFFICES ASSUME x # y PROVE FALSE
  OBVIOUS
<1>1. p # x /\ p # y
  OBVIOUS
<1>2. {p, x, y} \in SUBSET Used /\ Used \in SUBSET Slots
  BY DEF Used
<1>3. PICK A : A = {p}
  OBVIOUS
<1>4. IsFiniteSet(A) /\ Cardinality(A) = 1 /\ x \notin A
  BY <1>1, <1>3, FS_Singleton
<1>5. PICK B : B = A \cup {x}
  OBVIOUS
<1>11. IsFiniteSet(B) /\ Cardinality(B) = Cardinality(A) + 1
  BY <1>4, <1>5, FS_AddElement
<1>12. y \notin B
  BY <1>1, <1>3, <1>5
<1>13. Cardinality(B \cup {y}) = Cardinality(B) + 1
  BY <1>11, <1>12, FS_AddElement
<1>6. IsFiniteSet(Used) /\ Cardinality(Used) \in Nat
  BY <1>2, SlotsFinite
<1>7. B \cup {y} \in SUBSET Used
  BY <1>2, <1>3, <1>5
<1>8. Cardinality(B \cup {y}) =< Cardinality(Used)
  BY <1>6, <1>7, FS_Subset
<1>9. Cardinality(Used) =< 2
  BY DEF Bounds
<1>10. QED
  BY <1>4, <1>6, <1>8, <1>9, <1>11, <1>13

\* A call that moves bytes wakes the first of the other side: the woken ones still
\* reach, since it takes one of its own kind and wakes one for each byte.
LEMMA MoveStep ==
    ASSUME Inv, NEW p \in Slots, NEW q \in Pipes, NEW op \in {"read", "write"},
           Calling(p, q, op), OnOnePipe(q),
           NEW k \in Nat, k > 0, "long_calls" \notin may => k = 1,
           Stock(q, op) >= k,
           Stock(q, op)' = Stock(q, op) - k,
           Stock(q, Other(op))' = Stock(q, Other(op)) + k,
           Queue(q, op)' = Queue(q, op),
           Queue(q, Other(op))' = Rest(Queue(q, Other(op))),
           NEW ps, ps = [procs EXCEPT ![p] = [procs[p] EXCEPT !.at = None]],
           procs' = Unblock(ps, First(Queue(q, Other(op))))
    PROVE  Queued' /\ QueuesExact' /\ WakeupsReach'
<1>1. Types /\ Vacant /\ Queued /\ QueuesExact /\ Bounds /\ WakeupsReach /\ UNCHANGED may
  BY DEF Inv, OnOnePipe
<1>2. PICK ot \in {"read", "write"} : ot = Other(op) /\ ot # op
  BY DEF Other
<1>3. PICK u \in Seq(Slots) : u = Queue(q, ot)
  BY <1>1, SleepingFacts
<1>4. PICK W : W = First(u)
  OBVIOUS
<1>5. /\ Rest(u) \in Seq(Slots) /\ W \subseteq InQueue(u)
      /\ InQueue(u) = InQueue(Rest(u)) \cup W
      /\ Distinct(u) => Distinct(Rest(u)) /\ W \cap InQueue(Rest(u)) = {}
      /\ u = <<>> => Rest(u) = <<>> /\ W = {}
      /\ u # <<>> => W = {Head(u)} /\ Head(u) \in InQueue(u)
  BY <1>4, RestFacts
<1>6. /\ ps \in [Slots -> ProcRec] /\ ps[p].state = "READY" /\ ps[p].at = None
      /\ \A s \in Slots : s # p => ps[s] = procs[s]
  <2>1. PICK h : h = [procs[p] EXCEPT !.at = None]
    OBVIOUS
  <2>2. procs[p] \in ProcRec /\ procs[p].state = "READY"
    BY <1>1 DEF Types, Calling
  <2>3. h \in ProcRec /\ h.state = "READY" /\ h.at = None
    BY <2>1, <2>2 DEF ProcRec
  <2>4. ps = [procs EXCEPT ![p] = h]
    BY <2>1
  <2>5. QED
    BY <1>1, <2>3, <2>4 DEF Types
<1>7. procs' = Unblock(ps, W)
  BY <1>2, <1>3, <1>4
<1>8. /\ procs'[p].state = "READY" /\ procs'[p].at = None
      /\ \A s \in Slots : s # p =>
            /\ procs'[s].at = procs[s].at
            /\ procs'[s].state = IF s \in W /\ procs[s].state = "BLOCKED" THEN "READY"
                                 ELSE procs[s].state
  <2>1. \A s \in Slots : /\ procs'[s].at = ps[s].at
                         /\ procs'[s].state = IF s \in W /\ ps[s].state = "BLOCKED" THEN "READY"
                                              ELSE ps[s].state
    <3>1. ps \in [Slots -> ProcRec]
      BY <1>6
    <3>2. \A s \in Slots : /\ Unblock(ps, W)[s].at = ps[s].at
                           /\ Unblock(ps, W)[s].state = IF s \in W /\ ps[s].state = "BLOCKED"
                                                        THEN "READY" ELSE ps[s].state
      BY <3>1, UnblockFacts
    <3>3. QED
      BY <1>7, <3>2
  <2>2. QED
    BY <1>6, <2>1
<1>9. \A s \in Slots : procs[s].at # None => procs[s].at.pipe \in Pipes /\ procs[s].at.op \in {"read", "write"}
  BY <1>1 DEF Types, ProcRec, Calls
<1>10. \A c \in Pipes, o \in {"read", "write"} :
          IF c = q /\ o = ot THEN Queue(c, o) = u /\ Queue(c, o)' = Rest(u)
          ELSE Queue(c, o)' = Queue(c, o)
  <2>1. ASSUME NEW c \in Pipes, NEW o \in {"read", "write"}, c # q PROVE Queue(c, o)' = Queue(c, o)
    BY <2>1 DEF OnOnePipe, Queue
  <2>2. Queue(q, op)' = Queue(q, op) /\ Queue(q, ot)' = Rest(u) /\ Queue(q, ot) = u
    BY <1>2, <1>3
  <2>3. \A o \in {"read", "write"} : o = op \/ o = ot
    BY <1>2
  <2>4. QED
    BY <2>1, <2>2, <2>3
<1>11. \A s \in Slots : procs'[s].state = "BLOCKED" =>
          s # p /\ s \notin W /\ procs[s].state = "BLOCKED" /\ procs'[s].at = procs[s].at
  BY <1>8
<1>12. Queued'
  <2>1. ASSUME NEW s \in Slots, procs'[s].state = "BLOCKED"
        PROVE  s \in InQueue(Queue(procs[s].at.pipe, procs[s].at.op))'
    <3>1. s \notin W /\ procs[s].state = "BLOCKED" /\ procs'[s].at = procs[s].at
      BY <1>11, <2>1
    <3>2. procs[s].at # None /\ s \in InQueue(Queue(procs[s].at.pipe, procs[s].at.op))
      BY <1>1, <3>1 DEF Vacant, Queued
    <3>3. PICK c \in Pipes, o \in {"read", "write"} : c = procs[s].at.pipe /\ o = procs[s].at.op
      BY <1>9, <3>2
    <3>4. s \in InQueue(Queue(c, o))
      BY <3>2, <3>3
    <3>5. s \in InQueue(Queue(c, o)')
      BY <1>5, <1>10, <3>1, <3>4
    <3>6. procs'[s].at.pipe = c /\ procs'[s].at.op = o
      BY <3>1, <3>3
    <3>7. QED
      BY <3>5, <3>6 DEF Queue
  <2>2. ASSUME NEW c \in Pipes
        PROVE  /\ pipes'[c].writers = 0 => pipes'[c].readq = <<>>
               /\ pipes'[c].readers = 0 => pipes'[c].writeq = <<>>
    <3>1. pipes'[c].writers = pipes[c].writers /\ pipes'[c].readers = pipes[c].readers
      BY DEF OnOnePipe
    <3>2. \A o \in {"read", "write"} : Queue(c, o) = <<>> => Queue(c, o)' = <<>>
      BY <1>5, <1>10
    <3>3. (pipes[c].readq = <<>> => pipes'[c].readq = <<>>) /\ (pipes[c].writeq = <<>> => pipes'[c].writeq = <<>>)
      BY <3>2 DEF Queue
    <3>4. QED
      BY <1>1, <3>1, <3>3 DEF Queued
  <2>3. QED
    BY <2>1, <2>2 DEF Queued
<1>13. ASSUME Undisturbed, NEW c \in Pipes, NEW o \in {"read", "write"}, NEW x \in InQueue(Queue(c, o)), x \in W
       PROVE  c = q /\ o = ot
  <2>1. x \in Sleeping(c, o) /\ x \in Sleeping(q, ot)
    BY <1>1, <1>3, <1>5, <1>13 DEF QueuesExact
  <2>2. QED
    BY <2>1 DEF Sleeping, In
<1>14. QueuesExact'
  <2> SUFFICES ASSUME Undisturbed, NEW c \in Pipes, NEW o \in {"read", "write"}
               PROVE  /\ Distinct(Queue(c, o)')
                      /\ \A x \in InQueue(Queue(c, o)') : x \in Sleeping(c, o)'
    BY <1>1 DEF QueuesExact, Undisturbed
  <2>1. Distinct(Queue(c, o)) /\ InQueue(Queue(c, o)) \subseteq Sleeping(c, o)
    BY <1>1 DEF QueuesExact
  <2>2. Distinct(Queue(c, o)')
    BY <1>5, <1>10, <2>1
  <2>3. ASSUME NEW x \in InQueue(Queue(c, o)') PROVE x \in Sleeping(c, o)'
    <3>1. x \in InQueue(Queue(c, o)) /\ x \notin W
      <4>1. CASE c = q /\ o = ot
        BY <1>5, <1>10, <2>1, <2>3, <4>1
      <4>2. CASE ~(c = q /\ o = ot)
        BY <1>10, <1>13, <2>3, <4>2
      <4>3. QED
        BY <4>1, <4>2
    <3>2. x \in Slots /\ procs[x].at # None /\ procs[x].at.op = o /\ procs[x].at.pipe = c
          /\ procs[x].state = "BLOCKED"
      BY <2>1, <3>1 DEF Sleeping, In
    <3>3. x # p
      BY <3>2 DEF Calling
    <3>4. QED
      BY <1>8, <3>1, <3>2, <3>3 DEF Sleeping, In
  <2>4. QED
    BY <2>2, <2>3
<1>15. WakeupsReach'
  <2> SUFFICES ASSUME Undisturbed, NEW c \in Pipes, NEW o \in {"read", "write"},
                      NEW x \in Sleeping(c, o)'
               PROVE  IF "long_calls" \notin may THEN Stock(c, o)' =< Cardinality(Woken(c, o)')
                      ELSE "crowd" \notin may => Stock(c, o)' = 0
    BY <1>1 DEF WakeupsReach, Undisturbed
  <2>1. /\ x \in Slots /\ x # p /\ x \notin W /\ procs[x].state = "BLOCKED"
        /\ x \in Sleeping(c, o)
    BY <1>11 DEF Sleeping, In
  <2>2. /\ IsFiniteSet(Woken(c, o)) /\ Cardinality(Woken(c, o)) \in Nat
        /\ Stock(c, o) \in Nat /\ x \in InQueue(Queue(c, o))
    BY <1>1, <2>1, SleepingFacts
  <2>3. IsFiniteSet(Woken(c, o)') /\ Cardinality(Woken(c, o)') \in Nat
    <3>1. Woken(c, o)' \in SUBSET Slots
      BY DEF Woken, In
    <3>2. QED
      BY <3>1, SlotsFinite
  <2>4. IF "long_calls" \notin may THEN Stock(c, o) =< Cardinality(Woken(c, o))
        ELSE "crowd" \notin may => Stock(c, o) = 0
    BY <1>1, <2>1 DEF WakeupsReach
  <2>5. Woken(c, o) \ {p} \subseteq Woken(c, o)'
    BY <1>8 DEF Woken, In
  <2>6. ~(c = q /\ o = op) => p \notin Woken(c, o)
    BY DEF Calling, Woken, In
  <2>7. c # q => Stock(c, o)' = Stock(c, o)
    BY DEF OnOnePipe, Stock
  <2>8. CASE "long_calls" \notin may
    <3>1. CASE c # q
      <4>1. Woken(c, o) \in SUBSET (Woken(c, o)')
        BY <2>5, <2>6, <3>1
      <4>2. Cardinality(Woken(c, o)) =< Cardinality(Woken(c, o)')
        BY <2>3, <4>1, FS_Subset
      <4>3. QED
        BY <2>2, <2>3, <2>4, <2>7, <2>8, <3>1, <4>2
    <3>2. CASE c = q /\ o = op
      <4>1. PICK A : A = Woken(c, o)
        OBVIOUS
      <4>2. IsFiniteSet(A \ {p}) /\ Cardinality(A \ {p}) >= Cardinality(A) - 1 /\ Cardinality(A \ {p}) \in Nat
        <5>1. IsFiniteSet(A) /\ Cardinality(A) \in Nat
          BY <2>2, <4>1
        <5>2. CASE p \in A
          <6>1. IsFiniteSet(A \ {p}) /\ Cardinality(A \ {p}) = Cardinality(A) - 1
            BY <5>1, <5>2, FS_RemoveElement
          <6>2. Cardinality(A \ {p}) \in Nat
            BY <6>1, FS_CardinalityType
          <6>3. QED
            BY <5>1, <6>1, <6>2
        <5>3. CASE p \notin A
          <6>1. A \ {p} = A
            BY <5>3
          <6>2. PICK n \in Nat : n = Cardinality(A)
            BY <5>1
          <6>3. n >= n - 1
            OBVIOUS
          <6>4. QED
            BY <5>1, <6>1, <6>2, <6>3
        <5>4. QED
          BY <5>2, <5>3
      <4>3. A \ {p} \in SUBSET (Woken(c, o)')
        BY <2>5, <4>1
      <4>4. Cardinality(A \ {p}) =< Cardinality(Woken(c, o)')
        BY <2>3, <4>3, FS_Subset
      <4>5. Stock(c, o)' = Stock(c, o) - 1
        BY <2>8, <3>2
      <4>6. QED
        BY <2>2, <2>3, <2>4, <2>8, <4>1, <4>2, <4>4, <4>5
    <3>3. CASE c = q /\ o = ot
      <4>1. u # <<>>
        BY <1>3, <2>2, <3>3 DEF InQueue
      <4>2. PICK y \in Slots : W = {y} /\ y \in InQueue(u)
        BY <1>5, <4>1 DEF InQueue
      <4>3. y \in Sleeping(q, ot)
        BY <1>1, <1>3, <4>2 DEF QueuesExact
      <4>4. y # p /\ y \notin Woken(c, o) /\ y \in Woken(c, o)'
        BY <1>8, <3>3, <4>2, <4>3 DEF Sleeping, Woken, In, Calling
      <4>5. PICK A : A = Woken(c, o)
        OBVIOUS
      <4>6. Cardinality(A \cup {y}) = Cardinality(A) + 1
        BY <2>2, <4>4, <4>5, FS_AddElement
      <4>7. A \cup {y} \in SUBSET (Woken(c, o)')
        BY <1>2, <2>5, <2>6, <3>3, <4>4, <4>5
      <4>8. Cardinality(A \cup {y}) =< Cardinality(Woken(c, o)')
        BY <2>3, <4>7, FS_Subset
      <4>9. Stock(c, o)' = Stock(c, o) + 1
        BY <1>2, <2>8, <3>3
      <4>10. QED
        BY <2>2, <2>3, <2>4, <2>8, <4>5, <4>6, <4>8, <4>9
    <3>4. QED
      BY <1>2, <3>1, <3>2, <3>3
  <2>9. CASE "long_calls" \in may /\ "crowd" \notin may
    <3>1. u = <<>>
      <4> SUFFICES ASSUME u # <<>> PROVE FALSE
        OBVIOUS
      <4>1. PICK y \in Slots : y \in W /\ y \in InQueue(u)
        BY <1>5 DEF InQueue
      <4>2. y \in Sleeping(q, ot)
        BY <1>1, <1>3, <4>1 DEF QueuesExact
      <4>3. procs[y].state = "BLOCKED" /\ procs[p].state = "READY"
        BY <4>2 DEF Sleeping, Calling
      <4>4. x = y
        BY <1>1, <2>1, <2>9, <4>3, TwoProcesses
      <4>5. QED
        BY <2>1, <4>1, <4>4
    <3>2. ~(c = q /\ o = ot)
      <4>1. InQueue(u) = {}
        BY <3>1 DEF InQueue
      <4>2. QED
        BY <1>3, <2>2, <4>1
    <3>3. ~(c = q /\ o = op)
      BY <2>2, <2>4, <2>9
    <3>4. QED
      BY <1>2, <2>4, <2>7, <2>9, <3>2, <3>3
  <2>10. QED
    BY <2>8, <2>9
<1>16. QED
  BY <1>12, <1>14, <1>15

\* A call that ends because the other side is gone, or because there is no memory to
\* wait with, leaves nobody waiting on this one, or nothing to wait for.
LEMMA ReturnStep ==
    ASSUME Inv, NEW p \in Slots, NEW q \in Pipes, NEW op \in {"read", "write"},
           Calling(p, q, op), UNCHANGED <<pipes, may>>, Queue(q, op) = <<>> \/ Stock(q, op) = 0,
           NEW ps, ps = [procs EXCEPT ![p] = [procs[p] EXCEPT !.at = None]],
           procs' = Unblock(ps, {})
    PROVE  Queued' /\ QueuesExact' /\ WakeupsReach'
<1>1. Types /\ Vacant /\ Queued /\ QueuesExact /\ WakeupsReach
  BY DEF Inv
<1>2. /\ ps \in [Slots -> ProcRec] /\ ps[p].state = "READY" /\ ps[p].at = None
      /\ \A s \in Slots : s # p => ps[s] = procs[s]
  <2>1. PICK h : h = [procs[p] EXCEPT !.at = None]
    OBVIOUS
  <2>2. procs[p] \in ProcRec /\ procs[p].state = "READY"
    BY <1>1 DEF Types, Calling
  <2>3. h \in ProcRec /\ h.state = "READY" /\ h.at = None
    BY <2>1, <2>2 DEF ProcRec
  <2>4. ps = [procs EXCEPT ![p] = h]
    BY <2>1
  <2>5. QED
    BY <1>1, <2>3, <2>4 DEF Types
<1>3. procs' = ps
  BY <1>2 DEF Unblock
<1>4. procs[p].state = "READY"
  BY DEF Calling
<1>5. \A c, o : Queue(c, o)' = Queue(c, o) /\ Stock(c, o)' = Stock(c, o)
  BY DEF Queue, Stock
<1>6. \A c, o : Sleeping(c, o)' = Sleeping(c, o)
  BY <1>2, <1>3, <1>4 DEF Sleeping, In
<1>7. Queued'
  <2>1. \A s \in Slots : procs'[s].state = "BLOCKED" => procs'[s] = procs[s] /\ procs[s].state = "BLOCKED"
    BY <1>2, <1>3
  <2>2. \A s \in Slots : procs'[s].state = "BLOCKED" =>
           s \in InQueue(Queue(procs[s].at.pipe, procs[s].at.op)')
    BY <1>1, <1>5, <2>1 DEF Queued
  <2>3. \A s \in Slots : procs'[s].state = "BLOCKED" =>
           s \in InQueue(Queue(procs[s].at.pipe, procs[s].at.op))'
    BY <2>1, <2>2 DEF Queue
  <2>4. QED
    BY <1>1, <2>3 DEF Queued
<1>8. QueuesExact'
  BY <1>1, <1>5, <1>6 DEF QueuesExact, Undisturbed
<1>9. WakeupsReach'
  <2> SUFFICES ASSUME Undisturbed, NEW c \in Pipes, NEW o \in {"read", "write"}, Sleeping(c, o) # {}
               PROVE  IF "long_calls" \notin may THEN Stock(c, o) =< Cardinality(Woken(c, o)')
                      ELSE "crowd" \notin may => Stock(c, o) = 0
    BY <1>5, <1>6 DEF WakeupsReach, Undisturbed
  <2>1. CASE c = q /\ o = op
    <3>1. Stock(c, o) = 0
      BY <1>1, <2>1, SleepingFacts DEF InQueue
    <3>2. IsFiniteSet(Slots) /\ Woken(c, o)' \subseteq Slots
      BY PipeAssumption DEF Woken, In
    <3>3. Cardinality(Woken(c, o)') \in Nat
      BY <3>2, FS_Subset, FS_CardinalityType
    <3>4. QED
      BY <3>1, <3>3
  <2>2. CASE ~(c = q /\ o = op)
    <3>1. Woken(c, o)' = Woken(c, o)
      BY <1>2, <1>3, <2>2 DEF Woken, In, Calling
    <3>2. QED
      BY <1>1, <3>1 DEF WakeupsReach
  <2>3. QED
    BY <2>1, <2>2
<1>10. QED
  BY <1>7, <1>8, <1>9

\* Whoever goes to sleep stands in the queue, has somebody to wait for and found nothing.
LEMMA SleepStep ==
    ASSUME Inv, NEW p \in Slots, NEW q \in Pipes, NEW op \in {"read", "write"},
           Calling(p, q, op), OnOnePipe(q),
           Stock(q, op) = 0, pipes'[q].size = pipes[q].size,
           IF op = "read" THEN pipes[q].writers > 0 ELSE pipes[q].readers > 0,
           Queue(q, op)' = Append(Queue(q, op), p),
           Queue(q, Other(op))' = Queue(q, Other(op)),
           NEW call \in Calls, call.op = op, call.pipe = q,
           procs' = [procs EXCEPT ![p] = [state |-> "BLOCKED", at |-> call]]
    PROVE  Queued' /\ QueuesExact' /\ WakeupsReach'
<1>1. Types /\ Vacant /\ Queued /\ QueuesExact /\ WakeupsReach /\ UNCHANGED may
  BY DEF Inv, OnOnePipe
<1>2. PICK ot \in {"read", "write"} : ot = Other(op) /\ ot # op
  BY DEF Other
<1>3. PICK u \in Seq(Slots) : u = Queue(q, op)
  BY <1>1, SleepingFacts
<1>4. PICK v : v = Append(u, p)
  OBVIOUS
<1>5. /\ InQueue(v) = InQueue(u) \cup {p}
      /\ Distinct(u) /\ p \notin InQueue(u) => Distinct(v)
  BY <1>4, AppendMembers, AppendDistinct, InQueueIsMembers
<1>6. /\ procs'[p].state = "BLOCKED" /\ procs'[p].at = call /\ call # None
      /\ \A s \in Slots : s # p => procs'[s] = procs[s]
  BY <1>1, PipeAssumption DEF Types
<1>7. \A s \in Slots : procs[s].at # None => procs[s].at.pipe \in Pipes /\ procs[s].at.op \in {"read", "write"}
  BY <1>1 DEF Types, ProcRec, Calls
<1>8. \A c \in Pipes, o \in {"read", "write"} :
          IF c = q /\ o = op THEN Queue(c, o) = u /\ Queue(c, o)' = v
          ELSE Queue(c, o)' = Queue(c, o)
  <2>1. ASSUME NEW c \in Pipes, NEW o \in {"read", "write"}, c # q PROVE Queue(c, o)' = Queue(c, o)
    BY <2>1 DEF OnOnePipe, Queue
  <2>2. Queue(q, op)' = v /\ Queue(q, ot)' = Queue(q, ot) /\ Queue(q, op) = u
    BY <1>2, <1>3, <1>4
  <2>3. \A o \in {"read", "write"} : o = op \/ o = ot
    BY <1>2
  <2>4. QED
    BY <2>1, <2>2, <2>3
<1>9. Queued'
  <2>1. ASSUME NEW s \in Slots, procs'[s].state = "BLOCKED"
        PROVE  \E c \in Pipes, o \in {"read", "write"} :
                  procs'[s].at.pipe = c /\ procs'[s].at.op = o /\ s \in InQueue(Queue(c, o)')
    <3>1. CASE s = p
      <4>1. p \in InQueue(Queue(q, op)')
        BY <1>5, <1>8
      <4>2. QED
        BY <1>6, <3>1, <4>1
    <3>2. CASE s # p
      <4>1. procs'[s] = procs[s] /\ procs[s].state = "BLOCKED" /\ procs[s].at # None
        BY <1>1, <1>6, <2>1, <3>2 DEF Vacant
      <4>2. PICK c \in Pipes, o \in {"read", "write"} : c = procs[s].at.pipe /\ o = procs[s].at.op
        BY <1>7, <4>1
      <4>3. s \in InQueue(Queue(c, o))
        BY <1>1, <4>1, <4>2 DEF Queued
      <4>4. s \in InQueue(Queue(c, o)')
        BY <1>5, <1>8, <4>3
      <4>5. QED
        BY <4>1, <4>2, <4>4
    <3>3. QED
      BY <3>1, <3>2
  <2>2. ASSUME NEW s \in Slots, procs'[s].state = "BLOCKED"
        PROVE  s \in InQueue(Queue(procs[s].at.pipe, procs[s].at.op))'
    <3>1. PICK c \in Pipes, o \in {"read", "write"} :
             procs'[s].at.pipe = c /\ procs'[s].at.op = o /\ s \in InQueue(Queue(c, o)')
      BY <2>1, <2>2
    <3>2. QED
      BY <3>1 DEF Queue
  <2>3. ASSUME NEW c \in Pipes
        PROVE  /\ pipes'[c].writers = 0 => pipes'[c].readq = <<>>
               /\ pipes'[c].readers = 0 => pipes'[c].writeq = <<>>
    <3>1. pipes'[c].writers = pipes[c].writers /\ pipes'[c].readers = pipes[c].readers
      BY DEF OnOnePipe
    <3>2. \A o \in {"read", "write"} : ~(c = q /\ o = op) => Queue(c, o)' = Queue(c, o)
      BY <1>8
    <3>3. pipes'[c].readq = pipes[c].readq \/ (c = q /\ op = "read")
      BY <3>2 DEF Queue
    <3>4. pipes'[c].writeq = pipes[c].writeq \/ (c = q /\ op = "write")
      BY <3>2 DEF Queue
    <3>5. QED
      BY <1>1, <3>1, <3>3, <3>4 DEF Queued
  <2>4. QED
    BY <2>2, <2>3 DEF Queued
<1>10. QueuesExact'
  <2> SUFFICES ASSUME Undisturbed, NEW c \in Pipes, NEW o \in {"read", "write"}
               PROVE  /\ Distinct(Queue(c, o)')
                      /\ \A x \in InQueue(Queue(c, o)') : x \in Sleeping(c, o)'
    BY <1>1 DEF QueuesExact, Undisturbed
  <2>1. Distinct(Queue(c, o)) /\ InQueue(Queue(c, o)) \subseteq Sleeping(c, o)
    BY <1>1 DEF QueuesExact
  <2>2. p \notin InQueue(Queue(c, o))
    BY <2>1 DEF Sleeping, Calling
  <2>3. ASSUME NEW x \in InQueue(Queue(c, o)) PROVE x \in Sleeping(c, o)'
    <3>1. x \in Slots /\ x # p /\ x \in Sleeping(c, o)
      BY <2>1, <2>2 DEF Sleeping, In
    <3>2. procs'[x] = procs[x]
      BY <1>6, <3>1
    <3>3. QED
      BY <3>1, <3>2 DEF Sleeping, In
  <2>4. p \in Sleeping(q, op)'
    BY <1>6 DEF Sleeping, In
  <2>5. CASE c = q /\ o = op
    BY <1>5, <1>8, <2>1, <2>2, <2>3, <2>4, <2>5
  <2>6. CASE ~(c = q /\ o = op)
    BY <1>8, <2>1, <2>3, <2>6
  <2>7. QED
    BY <2>5, <2>6
<1>11. WakeupsReach'
  <2> SUFFICES ASSUME Undisturbed, NEW c \in Pipes, NEW o \in {"read", "write"}, Sleeping(c, o)' # {}
               PROVE  IF "long_calls" \notin may THEN Stock(c, o)' =< Cardinality(Woken(c, o)')
                      ELSE "crowd" \notin may => Stock(c, o)' = 0
    BY <1>1 DEF WakeupsReach, Undisturbed
  <2>1. Stock(c, o)' = Stock(c, o)
    BY DEF Stock, OnOnePipe
  <2>2. CASE c = q /\ o = op
    <3>1. Woken(c, o)' \in SUBSET Slots
      BY DEF Woken, In
    <3>2. Cardinality(Woken(c, o)') \in Nat
      BY <3>1, SlotsFinite
    <3>3. Stock(c, o)' = 0
      BY <2>1, <2>2
    <3>4. QED
      BY <3>2, <3>3
  <2>3. CASE ~(c = q /\ o = op)
    <3>1. Woken(c, o)' = Woken(c, o)
      BY <1>6, <2>3 DEF Woken, In, Calling
    <3>2. Sleeping(c, o)' = Sleeping(c, o)
      BY <1>6, <2>3 DEF Sleeping, In, Calling
    <3>3. QED
      BY <1>1, <2>1, <3>1, <3>2 DEF WakeupsReach
  <2>4. QED
    BY <2>2, <2>3
<1>12. QED
  BY <1>9, <1>10, <1>11

\* What a call may be given.
Fair(call) ==
    LET n == IF call.op = "read" THEN call.n ELSE Len(call.bytes)
    IN  n > 0 /\ ("long_calls" \notin may => n = 1)

\* Descriptors, ends and the number of processes stay.
LEMMA OnOnePipeFrame ==
    ASSUME Inv, NEW q \in Pipes, OnOnePipe(q), pipes[q].used \/ pipes'[q] = pipes[q],
           procs' \in [Slots -> ProcRec],
           \A s \in Slots :
              /\ procs'[s].state \in {"FREE", "EXITED"} \/ procs[s].state \in {"FREE", "EXITED"} =>
                     procs'[s] = procs[s]
              /\ procs'[s].state = "BLOCKED" => procs'[s].at # None
              /\ procs'[s].at = procs[s].at \/ procs'[s].at = None \/ Fair(procs'[s].at)
    PROVE  Types' /\ Vacant' /\ RefsExact' /\ EndsExact' /\ Bounds'
<1>1. Types /\ Vacant /\ RefsExact /\ EndsExact /\ Bounds
  BY DEF Inv
<1>2. /\ UNCHANGED <<files, tables, may>> /\ pipes' \in [Pipes -> PipeRec]
      /\ \A c \in Pipes : c # q => pipes'[c] = pipes[c]
      /\ pipes'[q].readers = pipes[q].readers /\ pipes'[q].writers = pipes[q].writers
      /\ pipes'[q].used = pipes[q].used /\ pipes'[q].unlinked = pipes[q].unlinked
  BY DEF OnOnePipe
<1>3. Types'
  BY <1>1, <1>2 DEF Types
<1>4. Vacant'
  <2>1. \A c \in Pipes : ~pipes'[c].used => pipes'[c] = NoPipe
    BY <1>1, <1>2 DEF Vacant
  <2>2. \A s \in Slots : /\ procs'[s].state = "FREE" => tables[s] = NoTable /\ procs'[s].at = None
                         /\ procs'[s].state = "EXITED" => "parent_dies" \in may
    BY <1>1 DEF Vacant
  <2>3. QED
    BY <1>1, <1>2, <2>1, <2>2 DEF Vacant
<1>5. RefsExact'
  <2>1. \A f : Holders(f)' = Holders(f)
    BY <1>2 DEF Holders
  <2>2. QED
    BY <1>1, <1>2, <2>1 DEF RefsExact
<1>6. EndsExact'
  <2> SUFFICES ASSUME ~({"parent_dies", "both_ends"} \subseteq may), NEW c \in Pipes
               PROVE  /\ pipes'[c].readers = Cardinality(OpenEnds(c, "read"))
                      /\ pipes'[c].writers = Cardinality(OpenEnds(c, "write"))
                      /\ OpenEnds(c, "read") \cup OpenEnds(c, "write") # {} => pipes'[c].used
                      /\ pipes'[c].used /\ pipes'[c].unlinked =>
                             OpenEnds(c, "read") \cup OpenEnds(c, "write") # {}
    <3>1. \A c \in Pipes : OpenEnds(c, "read")' = OpenEnds(c, "read") /\ OpenEnds(c, "write")' = OpenEnds(c, "write")
      BY <1>2 DEF OpenEnds
    <3>2. \A f \in Files : files'[f].refcount = Cardinality(Holders(f)')
      BY <1>5 DEF RefsExact
    <3>3. QED
      BY <1>2, <3>1, <3>2 DEF EndsExact
  <2>1. /\ pipes'[c].readers = pipes[c].readers /\ pipes'[c].writers = pipes[c].writers
        /\ pipes'[c].used = pipes[c].used /\ pipes'[c].unlinked = pipes[c].unlinked
    BY <1>2
  <2>2. QED
    BY <1>1, <2>1 DEF EndsExact
<1>7. Bounds'
  <2>1. Used' = Used
    BY DEF Used
  <2>2. ASSUME NEW s \in Slots, procs'[s].at # None
        PROVE  /\ "long_calls" \notin may =>
                     IF procs'[s].at.op = "read" THEN procs'[s].at.n = 1 ELSE Len(procs'[s].at.bytes) = 1
               /\ IF procs'[s].at.op = "read" THEN procs'[s].at.n > 0 ELSE Len(procs'[s].at.bytes) > 0
    <3>1. CASE procs'[s].at = procs[s].at
      BY <1>1, <2>2, <3>1 DEF Bounds
    <3>2. CASE Fair(procs'[s].at)
      BY <3>2 DEF Fair
    <3>3. QED
      BY <2>2, <3>1, <3>2
  <2>3. QED
    BY <1>1, <1>2, <2>1, <2>2 DEF Bounds
<1>8. QED
  BY <1>3, <1>4, <1>5, <1>6, <1>7

\* The caller returns: it is READY and in no call.
LEMMA ReturnFacts ==
    ASSUME Types, Vacant, NEW p \in Slots, procs[p].state = "READY",
           NEW ps, ps = [procs EXCEPT ![p] = [procs[p] EXCEPT !.at = None]],
           NEW W, procs' = Unblock(ps, W)
    PROVE  /\ procs' \in [Slots -> ProcRec]
           /\ \A s \in Slots :
                 /\ procs'[s].state \in {"FREE", "EXITED"} \/ procs[s].state \in {"FREE", "EXITED"} =>
                        procs'[s] = procs[s]
                 /\ procs'[s].state = "BLOCKED" => procs'[s].at # None
                 /\ procs'[s].at = procs[s].at \/ procs'[s].at = None
<1>1. PICK h : h = [procs[p] EXCEPT !.at = None]
  OBVIOUS
<1>2. h \in ProcRec /\ h.state = "READY" /\ h.at = None
  BY <1>1 DEF Types, ProcRec
<1>3. ps = [procs EXCEPT ![p] = h]
  BY <1>1
<1>4. ps \in [Slots -> ProcRec] /\ ps[p] = h /\ \A s \in Slots : s # p => ps[s] = procs[s]
  BY <1>2, <1>3 DEF Types
<1>5. \A s \in Slots : procs'[s] = IF s \in W /\ ps[s].state = "BLOCKED"
                                   THEN [ps[s] EXCEPT !.state = "READY"] ELSE ps[s]
  BY DEF Unblock
<1>6. procs' \in [Slots -> ProcRec]
  BY <1>4, UnblockFacts
<1>7. ASSUME NEW s \in Slots
      PROVE  /\ procs'[s].at = ps[s].at
             /\ procs'[s].state = IF s \in W /\ ps[s].state = "BLOCKED" THEN "READY" ELSE ps[s].state
             /\ ps[s].state # "BLOCKED" => procs'[s] = ps[s]
  <2>1. ps[s] \in ProcRec
    BY <1>4
  <2>2. QED
    BY <1>5, <2>1 DEF ProcRec
<1>8. ASSUME NEW s \in Slots
      PROVE  /\ procs'[s].state \in {"FREE", "EXITED"} \/ procs[s].state \in {"FREE", "EXITED"} =>
                    procs'[s] = procs[s]
             /\ procs'[s].state = "BLOCKED" => procs'[s].at # None
             /\ procs'[s].at = procs[s].at \/ procs'[s].at = None
  <2>1. CASE s = p
    BY <1>2, <1>4, <1>7, <2>1
  <2>2. CASE s # p
    <3>1. ps[s] = procs[s]
      BY <1>4, <2>2
    <3>2. procs'[s].at = procs[s].at
      BY <1>7, <3>1
    <3>3. CASE procs[s].state = "BLOCKED"
      <4>1. procs[s].at # None
        BY <3>3 DEF Vacant
      <4>2. procs'[s].state \in {"READY", "BLOCKED"}
        BY <1>7, <3>1, <3>3
      <4>3. QED
        BY <3>2, <3>3, <4>1, <4>2
    <3>4. CASE procs[s].state # "BLOCKED"
      <4>1. procs'[s] = procs[s]
        BY <1>7, <3>1, <3>4
      <4>2. QED
        BY <3>4, <4>1
    <3>5. QED
      BY <3>3, <3>4
  <2>3. QED
    BY <2>1, <2>2
<1>9. QED
  BY <1>6, <1>8

\* Arithmetic on the positions in a ring buffer.
LEMMA ModType ==
    ASSUME NEW a \in Int
    PROVE  a % PIPE_CAP \in Cells
BY PipeAssumption DEF Cells

\* Taking k bytes out, and the first waiter for room.
Drained(pipe, k, x) ==
    /\ x \in PipeRec /\ x.size = pipe.size - k /\ x.r = (pipe.r + k) % PIPE_CAP
    /\ x.writeq = Rest(pipe.writeq) /\ x.readq = pipe.readq
    /\ x.readers = pipe.readers /\ x.writers = pipe.writers
    /\ x.used = pipe.used /\ x.unlinked = pipe.unlinked
    /\ x.buf = pipe.buf /\ x.w = pipe.w

\* What a read leaves of a pipe.
LEMMA DrainFacts ==
    ASSUME NEW pipe \in PipeRec, NEW k \in Nat, k =< pipe.size,
           NEW x, x = [Drain(pipe, k) EXCEPT !.writeq = Rest(@)]
    PROVE  Drained(pipe, k, x)
<1>1. PICK r \in Cells : r = (pipe.r + k) % PIPE_CAP
  BY ModType DEF PipeRec, Cells
<1>2. PICK n \in 0 .. PIPE_CAP : n = pipe.size - k
  BY PipeAssumption DEF PipeRec
<1>3. PICK u \in Seq(Slots) : u = Rest(pipe.writeq)
  BY RestFacts DEF PipeRec
<1>4. x = [[pipe EXCEPT !.r = r, !.size = n] EXCEPT !.writeq = u]
  BY <1>1, <1>2, <1>3 DEF Drain, PipeRec
<1>5. /\ x \in PipeRec /\ x.size = n /\ x.r = r
      /\ x.writeq = u /\ x.readq = pipe.readq
      /\ x.readers = pipe.readers /\ x.writers = pipe.writers
      /\ x.used = pipe.used /\ x.unlinked = pipe.unlinked
      /\ x.buf = pipe.buf /\ x.w = pipe.w
  BY <1>4 DEF PipeRec
<1>6. QED
  BY <1>1, <1>2, <1>3, <1>5 DEF Drained

\* Putting bytes in, and taking out the first waiter for bytes.
Filled(pipe, bytes, x) ==
    /\ x \in PipeRec /\ x.size = pipe.size + Len(bytes) /\ x.r = pipe.r
    /\ x.w = (pipe.w + Len(bytes)) % PIPE_CAP
    /\ x.writeq = pipe.writeq /\ x.readq = Rest(pipe.readq)
    /\ x.readers = pipe.readers /\ x.writers = pipe.writers
    /\ x.used = pipe.used /\ x.unlinked = pipe.unlinked
    /\ \A i \in Cells : x.buf[i] = LET o == (i - pipe.w + PIPE_CAP) % PIPE_CAP
                                   IN  IF o < Len(bytes) THEN bytes[o + 1] ELSE pipe.buf[i]

\* What a write leaves of a pipe.
LEMMA FillFacts ==
    ASSUME NEW pipe \in PipeRec, NEW bytes \in Seq(Bytes), Len(bytes) =< Room(pipe),
           NEW x, x = [Fill(pipe, bytes) EXCEPT !.readq = Rest(@)]
    PROVE  Filled(pipe, bytes, x)
<1>1. PICK w \in Cells : w = (pipe.w + Len(bytes)) % PIPE_CAP
  BY ModType DEF PipeRec, Cells
<1>2. PICK n \in 0 .. PIPE_CAP : n = pipe.size + Len(bytes)
  BY PipeAssumption DEF PipeRec, Room
<1>3. PICK u \in Seq(Slots) : u = Rest(pipe.readq)
  BY RestFacts DEF PipeRec
<1>4. PICK buf : buf = [i \in Cells |-> IF (i - pipe.w + PIPE_CAP) % PIPE_CAP < Len(bytes)
                                        THEN bytes[((i - pipe.w + PIPE_CAP) % PIPE_CAP) + 1]
                                        ELSE pipe.buf[i]]
  OBVIOUS
<1>5. buf \in [Cells -> Bytes \cup {None}]
  <2>1. ASSUME NEW i \in Cells PROVE buf[i] \in Bytes \cup {None}
    <3>1. i \in Int /\ pipe.w \in Int /\ PIPE_CAP \in Int /\ pipe.buf[i] \in Bytes \cup {None}
      BY PipeAssumption DEF Cells, PipeRec
    <3>2. PICK o \in Cells : o = (i - pipe.w + PIPE_CAP) % PIPE_CAP
      BY <3>1, ModType
    <3>3. o \in Nat
      BY <3>2 DEF Cells
    <3>4. o < Len(bytes) => bytes[o + 1] \in Bytes
      BY <3>3
    <3>5. buf[i] = IF o < Len(bytes) THEN bytes[o + 1] ELSE pipe.buf[i]
      BY <1>4, <3>2
    <3>6. QED
      BY <3>1, <3>4, <3>5
  <2>2. QED
    BY <1>4, <2>1
<1>6. x = [[pipe EXCEPT !.buf = buf, !.w = w, !.size = n] EXCEPT !.readq = u]
  BY <1>1, <1>2, <1>3, <1>4 DEF Fill, PipeRec
<1>7. /\ x \in PipeRec /\ x.size = n /\ x.r = pipe.r /\ x.w = w
      /\ x.writeq = pipe.writeq /\ x.readq = u
      /\ x.readers = pipe.readers /\ x.writers = pipe.writers
      /\ x.used = pipe.used /\ x.unlinked = pipe.unlinked
      /\ x.buf = buf
  BY <1>5, <1>6 DEF PipeRec
<1>8. QED
  BY <1>1, <1>2, <1>3, <1>4, <1>7 DEF Filled

\* The smaller of two numbers.
LEMMA LesserFacts ==
    ASSUME NEW a \in Nat, NEW b \in Nat
    PROVE  /\ Lesser(a, b) \in Nat /\ Lesser(a, b) =< a /\ Lesser(a, b) =< b
           /\ a > 0 /\ b > 0 => Lesser(a, b) > 0
BY DEF Lesser

\* A read that finds bytes, the end of the stream or no memory keeps the invariant.
LEMMA ReadStep ==
    ASSUME Inv, NEW p \in Slots, NEW q \in Pipes, Calling(p, q, "read"),
           NEW n \in Nat, n > 0, "long_calls" \notin may => n = 1,
           kpipe_read(p, q, n), UNCHANGED <<files, tables, may>>
    PROVE  Inv'
<1>1. Types /\ Vacant /\ Queued
  BY DEF Inv
<1>2. PICK pipe \in PipeRec : pipe = pipes[q]
  BY <1>1 DEF Types
<1>3. pipe.size \in Nat /\ pipe.size =< PIPE_CAP /\ PIPE_CAP \in Nat /\ pipe.writers \in Nat
  BY PipeAssumption DEF PipeRec
<1>4. procs[p].state = "READY"
  BY DEF Calling
<1>5. /\ Queue(q, "read") = pipe.readq /\ Queue(q, "write") = pipe.writeq
      /\ Stock(q, "read") = pipe.size /\ Stock(q, "write") = PIPE_CAP - pipe.size
      /\ Other("read") = "write"
  BY <1>2 DEF Queue, Stock, Other
<1>6. PICK ps : ps = [procs EXCEPT ![p] = [procs[p] EXCEPT !.at = None]]
  OBVIOUS
<1>7. CASE /\ pipe.size > 0
           /\ pipes' = [pipes EXCEPT ![q] = [Drain(pipe, Lesser(pipe.size, n)) EXCEPT !.writeq = Rest(@)]]
           /\ procs' = Unblock(ps, First(pipe.writeq))
  <2>1. PICK k \in Nat : k = Lesser(pipe.size, n) /\ k =< pipe.size /\ k =< n /\ k > 0
    BY <1>3, <1>7, LesserFacts
  <2>2. PICK x : x = [Drain(pipe, k) EXCEPT !.writeq = Rest(@)]
    OBVIOUS
  <2>3. /\ x \in PipeRec /\ x.size = pipe.size - k
        /\ x.writeq = Rest(pipe.writeq) /\ x.readq = pipe.readq
        /\ x.readers = pipe.readers /\ x.writers = pipe.writers
        /\ x.used = pipe.used /\ x.unlinked = pipe.unlinked
    <3>1. Drained(pipe, k, x)
      BY <2>1, <2>2, DrainFacts
    <3>2. QED
      BY <3>1 DEF Drained
  <2>4. pipes' = [pipes EXCEPT ![q] = x]
    BY <1>7, <2>1, <2>2
  <2>5. pipes' \in [Pipes -> PipeRec] /\ pipes'[q] = x /\ \A c \in Pipes : c # q => pipes'[c] = pipes[c]
    BY <1>1, <2>3, <2>4 DEF Types
  <2>6. OnOnePipe(q)
    BY <1>2, <2>3, <2>5 DEF OnOnePipe
  <2>7. /\ Stock(q, "read")' = pipe.size - k /\ Stock(q, "write")' = PIPE_CAP - (pipe.size - k)
        /\ Queue(q, "read")' = pipe.readq /\ Queue(q, "write")' = Rest(pipe.writeq)
    BY <2>3, <2>5 DEF Stock, Queue
  <2>8. /\ Stock(q, "write")' = Stock(q, "write") + k /\ Stock(q, "read") >= k
        /\ "long_calls" \notin may => k = 1
    BY <1>3, <1>5, <2>1, <2>7
  <2>9. Queued' /\ QueuesExact' /\ WakeupsReach'
    BY <1>5, <1>6, <1>7, <2>1, <2>6, <2>7, <2>8, MoveStep
  <2>10. pipes[q].used
    BY <1>1, <1>2, <1>7, NoPipeFacts DEF Vacant
  <2>11. Types' /\ Vacant' /\ RefsExact' /\ EndsExact' /\ Bounds'
    BY <1>1, <1>4, <1>6, <1>7, <2>6, <2>10, ReturnFacts, OnOnePipeFrame
  <2>12. SomebodyToWaitFor'
    BY <2>9, <2>11, QueuedMeansServedNext
  <2>13. QED
    BY <2>9, <2>11, <2>12 DEF Inv
<1>8. CASE /\ pipe.writers = 0 \/ pipe.size = 0
           /\ UNCHANGED pipes
           /\ procs' = Unblock(ps, {})
  <2>1. OnOnePipe(q)
    BY <1>1, <1>8 DEF OnOnePipe, Types
  <2>2. Queue(q, "read") = <<>> \/ Stock(q, "read") = 0
    BY <1>1, <1>2, <1>5, <1>8 DEF Queued, Queue
  <2>3. Queued' /\ QueuesExact' /\ WakeupsReach'
    BY <1>6, <1>8, <2>2, ReturnStep
  <2>4. Types' /\ Vacant' /\ RefsExact' /\ EndsExact' /\ Bounds'
    BY <1>1, <1>4, <1>6, <1>8, <2>1, ReturnFacts, OnOnePipeFrame
  <2>5. SomebodyToWaitFor'
    BY <2>3, <2>4, QueuedMeansServedNext
  <2>6. QED
    BY <2>3, <2>4, <2>5 DEF Inv
<1>9. CASE /\ pipe.size = 0 /\ pipe.writers > 0
           /\ pipes' = [pipes EXCEPT ![q] = [pipe EXCEPT !.readq = Append(pipe.readq, p)]]
           /\ Sleep(p, [op |-> "read", pipe |-> q, n |-> n, bytes |-> <<>>])
  <2>1. PICK u \in Seq(Slots) : u = Append(pipe.readq, p)
    <3>1. pipe.readq \in Seq(Slots)
      BY DEF PipeRec
    <3>2. QED
      BY <3>1, AppendProperties
  <2>2. PICK x : x = [pipe EXCEPT !.readq = u]
    OBVIOUS
  <2>3. /\ x \in PipeRec /\ x.size = pipe.size
        /\ x.writeq = pipe.writeq /\ x.readq = u
        /\ x.readers = pipe.readers /\ x.writers = pipe.writers
        /\ x.used = pipe.used /\ x.unlinked = pipe.unlinked
    BY <2>2 DEF PipeRec
  <2>4. pipes' = [pipes EXCEPT ![q] = x]
    BY <1>9, <2>1, <2>2
  <2>5. pipes' \in [Pipes -> PipeRec] /\ pipes'[q] = x /\ \A c \in Pipes : c # q => pipes'[c] = pipes[c]
    BY <1>1, <2>3, <2>4 DEF Types
  <2>6. OnOnePipe(q)
    BY <1>2, <2>3, <2>5 DEF OnOnePipe
  <2>7. PICK call : call = [op |-> "read", pipe |-> q, n |-> n, bytes |-> <<>>]
    OBVIOUS
  <2>8. call \in Calls /\ call.op = "read" /\ call.pipe = q /\ call.n = n
    BY <2>7, EmptySeq DEF Calls
  <2>9. procs' = [procs EXCEPT ![p] = [state |-> "BLOCKED", at |-> call]]
    BY <1>9, <2>7 DEF Sleep
  <2>10. /\ Queue(q, "read")' = Append(Queue(q, "read"), p)
         /\ Queue(q, "write")' = Queue(q, "write") /\ pipes'[q].size = pipes[q].size
    BY <1>2, <1>5, <2>1, <2>3, <2>5 DEF Queue
  <2>11. Stock(q, "read") = 0 /\ pipes[q].writers > 0
    BY <1>2, <1>5, <1>9
  <2>12. Queued' /\ QueuesExact' /\ WakeupsReach'
    BY <1>5, <2>6, <2>8, <2>9, <2>10, <2>11, SleepStep
  <2>13. /\ procs' \in [Slots -> ProcRec]
         /\ procs'[p].state = "BLOCKED" /\ procs'[p].at = call /\ call # None
         /\ \A s \in Slots : s # p => procs'[s] = procs[s]
    BY <1>1, <2>8, <2>9, PipeAssumption DEF Types, ProcRec
  <2>14. Fair(call)
    BY <2>8 DEF Fair
  <2>15. \A s \in Slots :
            /\ procs'[s].state \in {"FREE", "EXITED"} \/ procs[s].state \in {"FREE", "EXITED"} =>
                   procs'[s] = procs[s]
            /\ procs'[s].state = "BLOCKED" => procs'[s].at # None
            /\ procs'[s].at = procs[s].at \/ procs'[s].at = None \/ Fair(procs'[s].at)
    BY <1>1, <1>4, <2>13, <2>14 DEF Vacant
  <2>16. pipes[q].used
    BY <1>1, <1>2, <1>9, NoPipeFacts DEF Vacant
  <2>17. Types' /\ Vacant' /\ RefsExact' /\ EndsExact' /\ Bounds'
    BY <2>6, <2>13, <2>15, <2>16, OnOnePipeFrame
  <2>18. SomebodyToWaitFor'
    BY <2>12, <2>17, QueuedMeansServedNext
  <2>19. QED
    BY <2>12, <2>17, <2>18 DEF Inv
<1>10. QED
  <2>1. [procs EXCEPT ![p].at = None] = ps
    BY <1>6
  <2>2. QED
    BY <1>2, <1>7, <1>8, <1>9, <2>1 DEF kpipe_read, Return

\* So does a write that finds room, nobody to read or no memory.
LEMMA WriteStep ==
    ASSUME Inv, NEW p \in Slots, NEW q \in Pipes, Calling(p, q, "write"),
           NEW bytes \in Seq(Bytes), Len(bytes) > 0, "long_calls" \notin may => Len(bytes) = 1,
           kpipe_write(p, q, bytes), UNCHANGED <<files, tables, may>>
    PROVE  Inv'
<1>1. Types /\ Vacant /\ Queued
  BY DEF Inv
<1>2. PICK pipe \in PipeRec : pipe = pipes[q]
  BY <1>1 DEF Types
<1>3. /\ pipe.size \in Nat /\ pipe.size =< PIPE_CAP /\ PIPE_CAP \in Nat /\ pipe.readers \in Nat
      /\ Room(pipe) = PIPE_CAP - pipe.size /\ Room(pipe) \in Nat /\ Len(bytes) \in Nat
  BY PipeAssumption DEF PipeRec, Room
<1>4. procs[p].state = "READY"
  BY DEF Calling
<1>5. /\ Queue(q, "read") = pipe.readq /\ Queue(q, "write") = pipe.writeq
      /\ Stock(q, "read") = pipe.size /\ Stock(q, "write") = PIPE_CAP - pipe.size
      /\ Other("write") = "read"
  BY <1>2 DEF Queue, Stock, Other
<1>6. PICK ps : ps = [procs EXCEPT ![p] = [procs[p] EXCEPT !.at = None]]
  OBVIOUS
<1>7. CASE /\ pipe.readers > 0 /\ Room(pipe) > 0
           /\ moved' = SubSeq(bytes, 1, Lesser(Room(pipe), Len(bytes)))
           /\ pipes' = [pipes EXCEPT ![q] = [Fill(pipe, moved') EXCEPT !.readq = Rest(@)]]
           /\ procs' = Unblock(ps, First(pipe.readq))
  <2>1. PICK k \in Nat : /\ k = Lesser(Room(pipe), Len(bytes))
                         /\ k =< Room(pipe) /\ k =< Len(bytes) /\ k > 0
    BY <1>3, <1>7, LesserFacts
  <2>2. PICK part : part = SubSeq(bytes, 1, k)
    OBVIOUS
  <2>3. part \in Seq(Bytes) /\ Len(part) = k
    <3>1. \A i \in 1 .. k : i \in 1 .. Len(bytes)
      BY <1>3, <2>1
    <3>2. \A i \in 1 .. k : bytes[i] \in Bytes
      BY <3>1
    <3>3. part \in Seq(Bytes) /\ Len(part) = IF 1 =< k THEN k - 1 + 1 ELSE 0
      BY <1>3, <2>1, <2>2, <3>2, SubSeqProperties
    <3>4. QED
      BY <2>1, <3>3
  <2>4. PICK x : x = [Fill(pipe, part) EXCEPT !.readq = Rest(@)]
    OBVIOUS
  <2>5. Filled(pipe, part, x)
    BY <2>1, <2>3, <2>4, FillFacts
  <2>6. /\ x \in PipeRec /\ x.size = pipe.size + k
        /\ x.writeq = pipe.writeq /\ x.readq = Rest(pipe.readq)
        /\ x.readers = pipe.readers /\ x.writers = pipe.writers
        /\ x.used = pipe.used /\ x.unlinked = pipe.unlinked
    BY <2>3, <2>5 DEF Filled
  <2>7. pipes' = [pipes EXCEPT ![q] = x]
    BY <1>7, <2>1, <2>2, <2>4
  <2>8. pipes' \in [Pipes -> PipeRec] /\ pipes'[q] = x /\ \A c \in Pipes : c # q => pipes'[c] = pipes[c]
    BY <1>1, <2>6, <2>7 DEF Types
  <2>9. OnOnePipe(q)
    BY <1>2, <2>6, <2>8 DEF OnOnePipe
  <2>10. /\ Stock(q, "read")' = pipe.size + k /\ Stock(q, "write")' = PIPE_CAP - (pipe.size + k)
         /\ Queue(q, "write")' = pipe.writeq /\ Queue(q, "read")' = Rest(pipe.readq)
    BY <2>6, <2>8 DEF Stock, Queue
  <2>11. /\ Stock(q, "write")' = Stock(q, "write") - k /\ Stock(q, "write") >= k
         /\ "long_calls" \notin may => k = 1
    <3>1. "long_calls" \notin may => k = 1
      <4>1. "long_calls" \notin may => k =< 1
        BY <2>1
      <4>2. QED
        BY <2>1, <4>1
    <3>2. k =< PIPE_CAP - pipe.size
      BY <1>3, <2>1
    <3>3. Stock(q, "write") = PIPE_CAP - pipe.size /\ Stock(q, "write")' = PIPE_CAP - (pipe.size + k)
      BY <1>5, <2>10
    <3>4. PICK m \in Nat, cap \in Nat : m = pipe.size /\ cap = PIPE_CAP
      BY <1>3
    <3>5. k =< cap - m => cap - (m + k) = (cap - m) - k /\ cap - m >= k
      BY <3>4
    <3>6. QED
      BY <3>1, <3>2, <3>3, <3>4, <3>5
  <2>12. Queued' /\ QueuesExact' /\ WakeupsReach'
    BY <1>5, <1>6, <1>7, <2>1, <2>9, <2>10, <2>11, MoveStep
  <2>13. pipes[q].used
    BY <1>1, <1>2, <1>7, NoPipeFacts DEF Vacant
  <2>14. Types' /\ Vacant' /\ RefsExact' /\ EndsExact' /\ Bounds'
    BY <1>1, <1>4, <1>6, <1>7, <2>9, <2>13, ReturnFacts, OnOnePipeFrame
  <2>15. SomebodyToWaitFor'
    BY <2>12, <2>14, QueuedMeansServedNext
  <2>16. QED
    BY <2>12, <2>14, <2>15 DEF Inv
<1>8. CASE /\ pipe.readers = 0 \/ Room(pipe) = 0
           /\ UNCHANGED pipes
           /\ procs' = Unblock(ps, {})
  <2>1. OnOnePipe(q)
    BY <1>1, <1>8 DEF OnOnePipe, Types
  <2>2. Queue(q, "write") = <<>> \/ Stock(q, "write") = 0
    BY <1>1, <1>2, <1>3, <1>5, <1>8 DEF Queued, Queue
  <2>3. Queued' /\ QueuesExact' /\ WakeupsReach'
    BY <1>6, <1>8, <2>2, ReturnStep
  <2>4. Types' /\ Vacant' /\ RefsExact' /\ EndsExact' /\ Bounds'
    BY <1>1, <1>4, <1>6, <1>8, <2>1, ReturnFacts, OnOnePipeFrame
  <2>5. SomebodyToWaitFor'
    BY <2>3, <2>4, QueuedMeansServedNext
  <2>6. QED
    BY <2>3, <2>4, <2>5 DEF Inv
<1>9. CASE /\ pipe.readers > 0 /\ Room(pipe) = 0
           /\ pipes' = [pipes EXCEPT ![q] = [pipe EXCEPT !.writeq = Append(pipe.writeq, p)]]
           /\ Sleep(p, [op |-> "write", pipe |-> q, n |-> 0, bytes |-> bytes])
  <2>1. PICK u \in Seq(Slots) : u = Append(pipe.writeq, p)
    <3>1. pipe.writeq \in Seq(Slots)
      BY DEF PipeRec
    <3>2. QED
      BY <3>1, AppendProperties
  <2>2. PICK x : x = [pipe EXCEPT !.writeq = u]
    OBVIOUS
  <2>3. /\ x \in PipeRec /\ x.size = pipe.size
        /\ x.readq = pipe.readq /\ x.writeq = u
        /\ x.readers = pipe.readers /\ x.writers = pipe.writers
        /\ x.used = pipe.used /\ x.unlinked = pipe.unlinked
    BY <2>2 DEF PipeRec
  <2>4. pipes' = [pipes EXCEPT ![q] = x]
    BY <1>9, <2>1, <2>2
  <2>5. pipes' \in [Pipes -> PipeRec] /\ pipes'[q] = x /\ \A c \in Pipes : c # q => pipes'[c] = pipes[c]
    BY <1>1, <2>3, <2>4 DEF Types
  <2>6. OnOnePipe(q)
    BY <1>2, <2>3, <2>5 DEF OnOnePipe
  <2>7. PICK call : call = [op |-> "write", pipe |-> q, n |-> 0, bytes |-> bytes]
    OBVIOUS
  <2>8. call \in Calls /\ call.op = "write" /\ call.pipe = q /\ call.bytes = bytes
    BY <2>7 DEF Calls
  <2>9. procs' = [procs EXCEPT ![p] = [state |-> "BLOCKED", at |-> call]]
    BY <1>9, <2>7 DEF Sleep
  <2>10. /\ Queue(q, "write")' = Append(Queue(q, "write"), p)
         /\ Queue(q, "read")' = Queue(q, "read") /\ pipes'[q].size = pipes[q].size
    BY <1>2, <1>5, <2>1, <2>3, <2>5 DEF Queue
  <2>11. Stock(q, "write") = 0 /\ pipes[q].readers > 0
    BY <1>2, <1>3, <1>5, <1>9
  <2>12. Queued' /\ QueuesExact' /\ WakeupsReach'
    BY <1>5, <2>6, <2>8, <2>9, <2>10, <2>11, SleepStep
  <2>13. /\ procs' \in [Slots -> ProcRec]
         /\ procs'[p].state = "BLOCKED" /\ procs'[p].at = call /\ call # None
         /\ \A s \in Slots : s # p => procs'[s] = procs[s]
    BY <1>1, <2>8, <2>9, PipeAssumption DEF Types, ProcRec
  <2>14. Fair(call)
    BY <2>8 DEF Fair
  <2>15. \A s \in Slots :
            /\ procs'[s].state \in {"FREE", "EXITED"} \/ procs[s].state \in {"FREE", "EXITED"} =>
                   procs'[s] = procs[s]
            /\ procs'[s].state = "BLOCKED" => procs'[s].at # None
            /\ procs'[s].at = procs[s].at \/ procs'[s].at = None \/ Fair(procs'[s].at)
    BY <1>1, <1>4, <2>13, <2>14 DEF Vacant
  <2>16. pipes[q].used
    BY <1>1, <1>2, <1>9, NoPipeFacts DEF Vacant
  <2>17. Types' /\ Vacant' /\ RefsExact' /\ EndsExact' /\ Bounds'
    BY <2>6, <2>13, <2>15, <2>16, OnOnePipeFrame
  <2>18. SomebodyToWaitFor'
    BY <2>12, <2>17, QueuedMeansServedNext
  <2>19. QED
    BY <2>12, <2>17, <2>18 DEF Inv
<1>10. QED
  <2>1. [procs EXCEPT ![p].at = None] = ps
    BY <1>6
  <2>2. QED
    BY <1>2, <1>7, <1>8, <1>9, <2>1 DEF kpipe_write, Return

\* read, write and a call that goes on.
LEMMA TransferStep ==
    ASSUME Inv, NEW p \in Slots, Transfer(p) PROVE Inv'
<1>1. Types /\ Vacant /\ RefsExact /\ Bounds
  BY DEF Inv
<1>2. \A n \in Sizes : n \in Nat /\ n > 0 /\ ("long_calls" \notin may => n = 1)
  BY PipeAssumption DEF Sizes
<1>3. \A bytes \in Chunks : /\ bytes \in Seq(Bytes) /\ Len(bytes) > 0
                            /\ "long_calls" \notin may => Len(bytes) = 1
  <2> TAKE bytes \in Chunks
  <2>1. PICK n \in Sizes : bytes \in [1 .. n -> SomeBytes]
    BY DEF Chunks
  <2>2. SomeBytes \subseteq Bytes
    BY PipeAssumption DEF SomeBytes
  <2>3. bytes \in [1 .. n -> Bytes] /\ n \in Nat
    BY <1>2, <2>1, <2>2
  <2>4. bytes \in Seq(Bytes) /\ Len(bytes) = n
    BY <2>3
  <2>5. QED
    BY <1>2, <2>4
<1>4. ASSUME NEW fd \in Fds, tables[p][fd] # None
      PROVE  files[tables[p][fd]].ptr \in Pipes
  BY <1>1, <1>4, HeldFiles DEF Vacant
<1>5. ASSUME NEW fd \in Fds, read(p, fd) PROVE Inv'
  <2>1. PICK q \in Pipes, n \in Sizes : kpipe_read(p, q, n)
    BY <1>4, <1>5 DEF read
  <2>2. Calling(p, q, "read") /\ UNCHANGED <<files, tables, may>>
    BY <1>5 DEF read, InUserland, Runs, Calling
  <2>3. QED
    BY <1>2, <2>1, <2>2, ReadStep
<1>6. ASSUME NEW fd \in Fds, write(p, fd) PROVE Inv'
  <2>1. PICK q \in Pipes, bytes \in Chunks : kpipe_write(p, q, bytes)
    BY <1>4, <1>6 DEF write
  <2>2. Calling(p, q, "write") /\ UNCHANGED <<files, tables, may>>
    BY <1>6 DEF write, InUserland, Runs, Calling
  <2>3. QED
    BY <1>3, <2>1, <2>2, WriteStep
<1>7. ASSUME Resumes(p) PROVE Inv'
  <2>1. PICK call \in Calls : call = procs[p].at
    BY <1>1, <1>7 DEF Resumes, Types, ProcRec
  <2>2. /\ call.pipe \in Pipes /\ call.n \in Nat /\ call.bytes \in Seq(Bytes)
        /\ call.op \in {"read", "write"}
    BY DEF Calls
  <2>3. procs[p].state = "READY" /\ procs[p].at # None /\ UNCHANGED <<files, tables, may>>
    BY <1>7 DEF Resumes, Runs
  <2>4. CASE call.op = "read" /\ kpipe_read(p, call.pipe, call.n)
    <3>1. call.n > 0 /\ ("long_calls" \notin may => call.n = 1)
      BY <1>1, <2>1, <2>3, <2>4 DEF Bounds
    <3>2. Calling(p, call.pipe, "read")
      BY <2>1, <2>3, <2>4 DEF Calling
    <3>3. QED
      BY <2>2, <2>3, <2>4, <3>1, <3>2, ReadStep
  <2>5. CASE call.op = "write" /\ kpipe_write(p, call.pipe, call.bytes)
    <3>1. Len(call.bytes) > 0 /\ ("long_calls" \notin may => Len(call.bytes) = 1)
      BY <1>1, <2>1, <2>3, <2>5 DEF Bounds
    <3>2. Calling(p, call.pipe, "write")
      BY <2>1, <2>3, <2>5 DEF Calling
    <3>3. QED
      BY <2>2, <2>3, <2>5, <3>1, <3>2, WriteStep
  <2>6. QED
    BY <1>7, <2>1, <2>4, <2>5 DEF Resumes
<1>8. QED
  BY <1>5, <1>6, <1>7 DEF Transfer

-----------------------------------------------------------------------------
(* Zombies that are collected late *)

\* The more descriptors are released, the more files are closed.
LEMMA ClosingGrows ==
    ASSUME NEW p \in Slots, NEW A \in SUBSET Fds, NEW B \in SUBSET Fds, A \subseteq B, Types
    PROVE  Closing(p, A) \subseteq Closing(p, B)
<1> SUFFICES ASSUME NEW f \in Closing(p, A) PROVE f \in Closing(p, B)
  OBVIOUS
<1>1. PICK U, V : U = {fd \in A : tables[p][fd] = f} /\ V = {fd \in B : tables[p][fd] = f}
  OBVIOUS
<1>2. U \in SUBSET V /\ V \in SUBSET Fds
  BY <1>1
<1>3. IsFiniteSet(V) /\ Cardinality(V) \in Nat /\ Cardinality(U) \in Nat
  BY <1>2, FdsFinite
<1>4. Cardinality(U) =< Cardinality(V)
  BY <1>2, <1>3, FS_Subset
<1>5. Dropped(p, A, f) = Cardinality(U) /\ Dropped(p, B, f) = Cardinality(V)
  BY <1>1 DEF Dropped
<1>6. f \in Files /\ Cardinality(U) > 0 /\ files[f].refcount =< Cardinality(U) /\ files[f].refcount \in Nat
  BY <1>5 DEF Closing, Types, FileRec
<1>7. Cardinality(V) > 0 /\ files[f].refcount =< Cardinality(V)
  BY <1>3, <1>4, <1>6
<1>8. QED
  BY <1>5, <1>6, <1>7 DEF Closing

Upto(fd) == {x \in Fds : x =< fd}
Before(fd) == {x \in Fds : x < fd}

\* Descriptors are numbers.
LEMMA FdsAreNat == \A fd \in Fds : fd \in Nat
BY FdsFinite

\* One more descriptor closes its own file at most.
LEMMA ClosingOneMore ==
    ASSUME NEW p \in Slots, NEW fd \in Fds, NEW f \in Closing(p, Upto(fd)), f # tables[p][fd]
    PROVE  f \in Closing(p, Before(fd))
<1>1. \A x \in Fds : x =< fd <=> x < fd \/ x = fd
  BY FdsAreNat
<1>2. {x \in Upto(fd) : tables[p][x] = f} = {x \in Before(fd) : tables[p][x] = f}
  <2>1. \A x \in Upto(fd) : tables[p][x] = f => x \in Before(fd)
    BY <1>1 DEF Upto, Before
  <2>2. \A x \in Before(fd) : x \in Upto(fd)
    BY <1>1 DEF Upto, Before
  <2>3. QED
    BY <2>1, <2>2
<1>3. Dropped(p, Upto(fd), f) = Dropped(p, Before(fd), f)
  BY <1>2 DEF Dropped
<1>4. QED
  BY <1>3 DEF Closing

\* fd is the first descriptor of p whose release wakes somebody.
FirstToWake(p, fd) ==
    /\ fd \in Fds
    /\ WokenAfter(Closing(p, Upto(fd))) # {}
    /\ WokenAfter(Closing(p, Before(fd))) = {}

\* The first of the descriptors whose release wakes somebody.
LEMMA LeastWakes ==
    ASSUME NEW p \in Slots, NEW fd \in Fds, WokenAfter(Closing(p, Upto(fd))) # {},
           \A y \in Fds : WokenAfter(Closing(p, Upto(y))) # {} => fd =< y
    PROVE  FirstToWake(p, fd)
<1>1. FD_MAX \in Nat /\ fd \in 0 .. FD_MAX - 1 /\ \A x \in Fds : x \in Nat
  BY PipeAssumption, FdsAreNat DEF Fds
<1>2. CASE fd = 0
  <2>1. \A x \in Fds : ~(x < fd)
    BY <1>1, <1>2
  <2>2. \A f : {x \in Before(fd) : tables[p][x] = f} = {}
    BY <2>1 DEF Before
  <2>3. \A f : Dropped(p, Before(fd), f) = 0
    BY <2>2, FS_EmptySet DEF Dropped
  <2>4. ASSUME NEW f \in Closing(p, Before(fd)) PROVE FALSE
    <3>1. Dropped(p, Before(fd), f) > 0
      BY <2>4 DEF Closing
    <3>2. QED
      BY <2>3, <3>1
  <2>5. WokenAfter(Closing(p, Before(fd))) = {}
    BY <2>4 DEF WokenAfter, Touched
  <2>6. QED
    BY <2>5 DEF FirstToWake
<1>3. CASE fd # 0
  <2>1. PICK m \in 0 .. FD_MAX - 1 : m = fd - 1
    BY <1>1, <1>3
  <2>2. m \in Fds /\ ~(fd =< m)
    BY <1>1, <2>1 DEF Fds
  <2>3. \A x \in Fds : x < fd <=> x =< m
    BY <1>1, <2>1
  <2>4. Before(fd) = Upto(m)
    BY <2>3 DEF Before, Upto
  <2>5. WokenAfter(Closing(p, Before(fd))) = {}
    BY <2>2, <2>4
  <2>6. QED
    BY <2>5 DEF FirstToWake
<1>4. QED
  BY <1>2, <1>3

\* That descriptor closes its file, and with it an end of a pipe.
LEMMA FirstCloses ==
    ASSUME Types, Vacant, RefsExact, NEW p \in Slots, NEW fd, FirstToWake(p, fd)
    PROVE  /\ fd \in Fds /\ tables[p][fd] \in Closing(p, Upto(fd))
           /\ tables[p][fd] \in Closing(p, Fds)
           /\ files[tables[p][fd]].ptr \in Pipes
           /\ \A e, q : e \notin files[tables[p][fd]].ends =>
                  Count(Closing(p, Upto(fd)), q, e) = Count(Closing(p, Before(fd)), q, e)
<1>1. fd \in Fds /\ fd \in Nat /\ Upto(fd) \in SUBSET Fds /\ Before(fd) \in SUBSET Upto(fd)
  <2>1. fd \in Fds /\ fd \in Nat
    BY FdsAreNat DEF FirstToWake
  <2>2. \A x \in Fds : x < fd => x =< fd
    BY <2>1, FdsAreNat
  <2>3. QED
    BY <2>1, <2>2 DEF Upto, Before
<1>2. PICK f, A, B : f = tables[p][fd] /\ A = Closing(p, Upto(fd)) /\ B = Closing(p, Before(fd))
  OBVIOUS
<1>3. B \subseteq A /\ A \subseteq Closing(p, Fds)
  BY <1>1, <1>2, ClosingGrows
<1>4. \A g \in A : g = f \/ g \in B
  BY <1>1, <1>2, ClosingOneMore
<1>5. WokenAfter(A) # WokenAfter(B)
  BY <1>2 DEF FirstToWake
<1>6. f \in A
  <2>1. f \notin A => A = B
    BY <1>3, <1>4
  <2>2. QED
    BY <1>5, <2>1
<1>7. files[f].ptr \in Pipes
  BY <1>1, <1>2, <1>6, ClosingFacts
<1>8. ASSUME NEW e, NEW q, e \notin files[f].ends PROVE Count(A, q, e) = Count(B, q, e)
  <2>1. {g \in A : files[g].ptr = q /\ e \in files[g].ends}
           = {g \in B : files[g].ptr = q /\ e \in files[g].ends}
    BY <1>3, <1>4, <1>8
  <2>2. QED
    BY <2>1 DEF Count
<1>9. QED
  BY <1>1, <1>2, <1>3, <1>6, <1>7, <1>8

\* More files hold more ends.
LEMMA CountGrows ==
    ASSUME NEW A \in SUBSET Files, NEW B \in SUBSET A, NEW q, NEW e
    PROVE  Count(A, q, e) \in Nat /\ Count(B, q, e) \in Nat /\ Count(B, q, e) =< Count(A, q, e)
<1>1. PICK U, V : /\ U = {f \in A : files[f].ptr = q /\ e \in files[f].ends}
                  /\ V = {f \in B : files[f].ptr = q /\ e \in files[f].ends}
  OBVIOUS
<1>2. U \in SUBSET Files /\ V \in SUBSET U
  BY <1>1
<1>3. IsFiniteSet(U) /\ Cardinality(U) \in Nat /\ Cardinality(V) \in Nat
  BY <1>2, FilesFinite
<1>4. Cardinality(V) =< Cardinality(U)
  BY <1>2, <1>3, FS_Subset
<1>5. Count(A, q, e) = Cardinality(U) /\ Count(B, q, e) = Cardinality(V)
  BY <1>1 DEF Count
<1>6. QED
  BY <1>3, <1>4, <1>5

Side(q, e) == IF e = "read" THEN pipes[q].readers ELSE pipes[q].writers

\* A descriptor that does not stand for the end o does not wake those who wait for it.
LEMMA OtherSideStays ==
    ASSUME Inv, NEW p \in Slots, NEW fd, FirstToWake(p, fd),
           NEW f, f = tables[p][fd], NEW q, q = files[f].ptr,
           NEW op \in {"read", "write"}, Other(op) \notin files[f].ends,
           Less(Side(q, Other(op)), Count(Closing(p, Upto(fd)), q, Other(op))) = 0
    PROVE  Queue(q, op) = <<>>
<1>1. Types /\ Vacant /\ RefsExact /\ Queued
  BY DEF Inv
<1>2. PICK B, o : B = Closing(p, Before(fd)) /\ o = Other(op)
  OBVIOUS
<1>3. q \in Pipes /\ Count(Closing(p, Upto(fd)), q, o) = Count(B, q, o) /\ WokenAfter(B) = {}
  BY <1>1, <1>2, FirstCloses DEF FirstToWake
<1>4. B \in SUBSET Files
  BY <1>2 DEF Closing
<1>5. PICK n \in Nat, k \in Nat : n = Side(q, o) /\ k = Count(B, q, o)
  BY <1>1, <1>3, <1>4, CountFacts DEF Types, PipeRec, Side
<1>6. Less(n, k) = 0 /\ n =< k
  BY <1>2, <1>3, <1>5, LessFacts
<1>7. SUFFICES ASSUME Queue(q, op) # <<>> PROVE FALSE
  OBVIOUS
<1>8. n # 0
  BY <1>1, <1>2, <1>3, <1>5, <1>7 DEF Queued, Queue, Side, Other
<1>9. k # 0
  BY <1>6, <1>8
<1>10. PICK C : C = {g \in B : files[g].ptr = q /\ o \in files[g].ends}
  OBVIOUS
<1>11. Cardinality(C) # 0
  BY <1>5, <1>9, <1>10 DEF Count
<1>12. C # {}
  BY <1>11, FS_EmptySet
<1>13. q \in Touched(B)
  BY <1>10, <1>12 DEF Touched
<1>14. PICK w : w = WokenByClose(pipes[q], Count(B, q, "read"), Count(B, q, "write"))
  OBVIOUS
<1>15. InQueue(Queue(q, op)) \subseteq w
  BY <1>2, <1>5, <1>6, <1>14 DEF WokenByClose, Queue, Side, Other
<1>16. w \subseteq WokenAfter(B)
  BY <1>13, <1>14 DEF WokenAfter
<1>17. InQueue(Queue(q, op)) # {}
  <2>1. Queue(q, op) \in Seq(Slots)
    BY <1>1, <1>3 DEF Types, PipeRec, Queue
  <2>2. Head(Queue(q, op)) \in Members(Queue(q, op))
    BY <1>7, <2>1, TailMembers
  <2>3. QED
    BY <2>2, InQueueIsMembers
<1>18. QED
  BY <1>3, <1>15, <1>16, <1>17

\* kpipe_close sees only whether and how many ends are left.
LEMMA SameClose ==
    ASSUME NEW pipe, NEW rd, NEW wr, NEW rd2, NEW wr2,
           Less(pipe.readers, rd) = Less(pipe.readers, rd2),
           Less(pipe.writers, wr) = Less(pipe.writers, wr2)
    PROVE  kpipe_close(pipe, rd, wr) = kpipe_close(pipe, rd2, wr2)
BY DEF kpipe_close

\* How many waiters proc_unblock is called for while the file of fd is closed: the zombie is
\* released once more for each.
Again(p, fd) ==
    LET q == files[tables[p][fd]].ptr
        U == Closing(p, Upto(fd))
    IN  (IF Less(pipes[q].writers, Count(U, q, "write")) = 0 THEN Len(pipes[q].readq) ELSE 0)
        + (IF Less(pipes[q].readers, Count(U, q, "read")) = 0 THEN Len(pipes[q].writeq) ELSE 0)

\* Closing the file again changes nothing when it stands for one end: that was the last.
LEMMA AgainIsHarmless ==
    ASSUME Inv, NEW p \in Slots, NEW fd, FirstToWake(p, fd), "both_ends" \notin may,
           NEW f, f = tables[p][fd], NEW q, q = files[f].ptr,
           NEW S, S = Closing(p, Fds),
           NEW rd, rd = Count(S, q, "read") + Again(p, fd) * One(files[f].ends, "read"),
           NEW wr, wr = Count(S, q, "write") + Again(p, fd) * One(files[f].ends, "write")
    PROVE  /\ kpipe_close(pipes[q], rd, wr)
                = kpipe_close(pipes[q], Count(S, q, "read"), Count(S, q, "write"))
           /\ q \in Touched(S)
<1>1. Types /\ Vacant /\ RefsExact
  BY DEF Inv
<1>2. PICK U, pipe : U = Closing(p, Upto(fd)) /\ pipe = pipes[q]
  OBVIOUS
<1>3. q \in Pipes /\ f \in U /\ f \in S /\ fd \in Fds
  BY <1>1, <1>2, FirstCloses
<1>4. U \in SUBSET S /\ S \in SUBSET Files
  <2>1. Upto(fd) \in SUBSET Fds /\ Fds \in SUBSET Fds
    BY DEF Upto
  <2>2. Closing(p, Upto(fd)) \subseteq Closing(p, Fds) /\ Closing(p, Fds) \in SUBSET Files
    BY <1>1, <2>1, ClosingGrows DEF Closing
  <2>3. QED
    BY <1>2, <2>2
<1>5. q \in Touched(S)
  BY <1>3 DEF Touched
<1>6. /\ files[f].ends \in SUBSET {"read", "write"} /\ files[f].ends # {"read", "write"}
      /\ pipe.readers \in Nat /\ pipe.writers \in Nat
      /\ pipe.readq \in Seq(Slots) /\ pipe.writeq \in Seq(Slots)
  BY <1>1, <1>2, <1>3, <1>4 DEF Types, Vacant, FileRec, PipeRec
<1>7. PICK a \in Nat, b \in Nat, c \in Nat, d \in Nat :
           /\ a = Count(U, q, "read") /\ b = Count(U, q, "write")
           /\ c = Count(S, q, "read") /\ d = Count(S, q, "write") /\ a =< c /\ b =< d
  BY <1>4, CountGrows
<1>8. PICK x \in Nat, y \in Nat :
         /\ x = IF Less(pipe.writers, b) = 0 THEN Len(pipe.readq) ELSE 0
         /\ y = IF Less(pipe.readers, a) = 0 THEN Len(pipe.writeq) ELSE 0
  BY <1>6
<1>9. Again(p, fd) = x + y
  BY <1>2, <1>7, <1>8 DEF Again
<1>10. "read" \notin files[f].ends /\ Less(pipe.readers, a) = 0 => pipe.writeq = <<>>
  <2> SUFFICES ASSUME "read" \notin files[f].ends, Less(pipe.readers, a) = 0 PROVE pipe.writeq = <<>>
    OBVIOUS
  <2>1. Other("write") = "read" /\ Side(q, "read") = pipe.readers /\ Queue(q, "write") = pipe.writeq
    BY <1>2 DEF Other, Side, Queue
  <2>2. Less(Side(q, Other("write")), Count(Closing(p, Upto(fd)), q, Other("write"))) = 0
    BY <1>2, <1>7, <2>1
  <2>3. QED
    BY <2>1, <2>2, OtherSideStays
<1>11. "write" \notin files[f].ends /\ Less(pipe.writers, b) = 0 => pipe.readq = <<>>
  <2> SUFFICES ASSUME "write" \notin files[f].ends, Less(pipe.writers, b) = 0 PROVE pipe.readq = <<>>
    OBVIOUS
  <2>1. Other("read") = "write" /\ Side(q, "write") = pipe.writers /\ Queue(q, "read") = pipe.readq
    BY <1>2 DEF Other, Side, Queue
  <2>2. Less(Side(q, Other("read")), Count(Closing(p, Upto(fd)), q, Other("read"))) = 0
    BY <1>2, <1>7, <2>1
  <2>3. QED
    BY <2>1, <2>2, OtherSideStays
<1>12. Len(<<>>) = 0
  BY EmptySeq
<1>13. /\ "read" \notin files[f].ends => y = 0
       /\ "write" \notin files[f].ends => x = 0
  BY <1>8, <1>10, <1>11, <1>12
<1>14. y # 0 => pipe.readers =< c
  <2>1. y # 0 => Less(pipe.readers, a) = 0
    BY <1>8
  <2>2. y # 0 => pipe.readers =< a
    BY <1>6, <2>1, LessFacts
  <2>3. QED
    BY <1>6, <1>7, <2>2
<1>15. x # 0 => pipe.writers =< d
  <2>1. x # 0 => Less(pipe.writers, b) = 0
    BY <1>8
  <2>2. x # 0 => pipe.writers =< b
    BY <1>6, <2>1, LessFacts
  <2>3. QED
    BY <1>6, <1>7, <2>2
<1>16. /\ Less(pipe.readers, rd) = Less(pipe.readers, c)
       /\ Less(pipe.writers, wr) = Less(pipe.writers, d)
  <2>1. CASE "read" \in files[f].ends
    <3>1. "write" \notin files[f].ends
      BY <1>6, <2>1
    <3>2. One(files[f].ends, "read") = 1 /\ One(files[f].ends, "write") = 0
      BY <2>1, <3>1 DEF One
    <3>3. rd = c + y /\ wr = d
      BY <1>7, <1>9, <1>13, <3>1, <3>2
    <3>4. y = 0 \/ (pipe.readers =< c /\ pipe.readers =< c + y)
      BY <1>6, <1>14
    <3>5. QED
      BY <1>6, <3>3, <3>4 DEF Less
  <2>2. CASE "read" \notin files[f].ends
    <3>1. One(files[f].ends, "read") = 0
      BY <2>2 DEF One
    <3>2. rd = c
      BY <1>7, <1>9, <3>1
    <3>3. wr = d \/ wr = d + x
      <4>1. One(files[f].ends, "write") \in {0, 1}
        BY DEF One
      <4>2. QED
        BY <1>7, <1>9, <1>13, <2>2, <4>1
    <3>4. wr = d \/ (pipe.writers =< d /\ pipe.writers =< wr /\ wr \in Nat)
      BY <1>6, <1>7, <1>15, <3>3
    <3>5. QED
      BY <1>6, <3>2, <3>4 DEF Less
  <2>3. QED
    BY <2>1, <2>2
<1>17. kpipe_close(pipe, rd, wr) = kpipe_close(pipe, c, d)
  BY <1>16, SameClose
<1>18. QED
  BY <1>2, <1>5, <1>7, <1>17

\* collect_zombies, with and without the second release.
\* The ends that a zombie gives up are a number.
LEMMA AgainIsNat ==
    ASSUME Types, NEW p \in Slots, NEW fd, NEW q, q = files[tables[p][fd]].ptr, q \in Pipes,
           NEW S \in SUBSET Files
    PROVE  /\ Again(p, fd) \in Nat
           /\ \A e : Count(S, q, e) + Again(p, fd) * One(files[tables[p][fd]].ends, e) \in Nat
<1>1. \A e : Count(S, q, e) \in Nat
  BY CountFacts
<1>2. Len(pipes[q].readq) \in Nat /\ Len(pipes[q].writeq) \in Nat
  <2>1. pipes[q] \in PipeRec
    BY DEF Types
  <2>2. pipes[q].readq \in Seq(Slots) /\ pipes[q].writeq \in Seq(Slots)
    BY <2>1 DEF PipeRec
  <2>3. \A u \in Seq(Slots) : Len(u) \in Nat
    OBVIOUS
  <2>4. QED
    BY <2>2, <2>3
<1>3. Again(p, fd) \in Nat
  <2>1. PICK x, y : /\ x = IF Less(pipes[q].writers, Count(Closing(p, Upto(fd)), q, "write")) = 0
                           THEN Len(pipes[q].readq) ELSE 0
                    /\ y = IF Less(pipes[q].readers, Count(Closing(p, Upto(fd)), q, "read")) = 0
                           THEN Len(pipes[q].writeq) ELSE 0
    OBVIOUS
  <2>2. x \in Nat /\ y \in Nat
    BY <1>2, <2>1
  <2>3. Again(p, fd) = x + y
    BY <2>1 DEF Again
  <2>4. QED
    BY <2>2, <2>3
<1>4. \A ends, e : One(ends, e) \in {0, 1}
  BY DEF One
<1>5. \A n \in Nat, i \in {0, 1} : n * i \in Nat
  OBVIOUS
<1>6. QED
  BY <1>1, <1>3, <1>4, <1>5

\* The release of a zombie whose file of fd, an end of q, is closed once more for each waiter.
ClosedAgain(p, S, ps, fd, q, rd, wr) ==
    /\ FirstToWake(p, fd)
    /\ q = files[tables[p][fd]].ptr
    /\ rd = Count(S, q, "read") + Again(p, fd) * One(files[tables[p][fd]].ends, "read")
    /\ wr = Count(S, q, "write") + Again(p, fd) * One(files[tables[p][fd]].ends, "write")
    /\ pipes' = [PipesAfter(S) EXCEPT ![q] = kpipe_close(pipes[q], rd, wr)]
    /\ procs' = Unblock(ps, WokenAfter(S) \cup WokenByClose(pipes[q], rd, wr))

\* A zombie is released once, or its first file that wakes somebody is closed again.
LEMMA CollectCases ==
    ASSUME NEW p \in Slots, NEW head \in BOOLEAN, collect_zombies(p, head),
           NEW S, S = Closing(p, Fds), NEW ps, ps = [procs EXCEPT ![p] = NoProc]
    PROVE  \/ pipes' = PipesAfter(S) /\ procs' = Unblock(ps, WokenAfter(S))
           \/ \E fd \in Fds : \E q, rd, wr : ClosedAgain(p, S, ps, fd, q, rd, wr)
<1>1. PICK waking : waking = {fd \in Fds : WokenAfter(Closing(p, Upto(fd))) # {}}
  OBVIOUS
<1>2. CASE head /\ waking # {}
  <2>1. \E x \in waking : \A y \in waking : x =< y
    <3>1. waking \in SUBSET Nat
      BY <1>1, FdsAreNat
    <3>2. QED
      BY <1>2, <3>1, SmallestOf
  <2>2. PICK fd : fd = CHOOSE x \in waking : \A y \in waking : x =< y
    OBVIOUS
  <2>3. fd \in waking /\ \A y \in waking : fd =< y
    BY <2>1, <2>2
  <2>4. FirstToWake(p, fd)
    BY <1>1, <2>3, LeastWakes
  <2>5. /\ pipes' = [PipesAfter(S) EXCEPT ![files[tables[p][fd]].ptr] =
                        kpipe_close(pipes[files[tables[p][fd]].ptr],
                            Count(S, files[tables[p][fd]].ptr, "read")
                                + Again(p, fd) * One(files[tables[p][fd]].ends, "read"),
                            Count(S, files[tables[p][fd]].ptr, "write")
                                + Again(p, fd) * One(files[tables[p][fd]].ends, "write"))]
        /\ procs' = Unblock(ps, WokenAfter(S) \cup
                        WokenByClose(pipes[files[tables[p][fd]].ptr],
                            Count(S, files[tables[p][fd]].ptr, "read")
                                + Again(p, fd) * One(files[tables[p][fd]].ends, "read"),
                            Count(S, files[tables[p][fd]].ptr, "write")
                                + Again(p, fd) * One(files[tables[p][fd]].ends, "write")))
    <3> DEFINE up(x) == Closing(p, {y \in Fds : y =< x})
               wake == {x \in Fds : WokenAfter(up(x)) # {}}
               fd0 == CHOOSE x \in wake : \A y \in wake : x =< y
               f == tables[p][fd0]
               q == files[f].ptr
               again == (IF Less(pipes[q].writers, Count(up(fd0), q, "write")) = 0
                         THEN Len(pipes[q].readq) ELSE 0)
                        + (IF Less(pipes[q].readers, Count(up(fd0), q, "read")) = 0
                           THEN Len(pipes[q].writeq) ELSE 0)
               rd == Count(S, q, "read") + again * One(files[f].ends, "read")
               wr == Count(S, q, "write") + again * One(files[f].ends, "write")
    <3>1. waking = wake
      BY <1>1 DEF Upto
    <3>2. fd = fd0
      BY <2>2, <3>1
    <3>3. again = Again(p, fd)
      BY <3>2 DEF Again, Upto
    <3>4. wake # {} /\ head
      BY <1>2, <3>1
    <3>5. /\ pipes' = [PipesAfter(S) EXCEPT ![q] = kpipe_close(pipes[q], rd, wr)]
          /\ procs' = Unblock(ps, WokenAfter(S) \cup WokenByClose(pipes[q], rd, wr))
      BY <3>4 DEF collect_zombies
    <3> HIDE DEF again, fd0
    <3>6. QED
      BY <3>2, <3>3, <3>5
  <2>6. QED
    <3>1. PICK q, rd, wr :
            /\ q = files[tables[p][fd]].ptr
            /\ rd = Count(S, q, "read") + Again(p, fd) * One(files[tables[p][fd]].ends, "read")
            /\ wr = Count(S, q, "write") + Again(p, fd) * One(files[tables[p][fd]].ends, "write")
      OBVIOUS
    <3>2. ClosedAgain(p, S, ps, fd, q, rd, wr)
      BY <2>4, <2>5, <3>1 DEF ClosedAgain
    <3>3. fd \in Fds
      BY <2>4 DEF FirstToWake
    <3>4. QED
      BY <3>2, <3>3
<1>3. CASE ~(head /\ waking # {})
  <2>1. pipes' = PipesAfter(S) /\ procs' = Unblock(ps, WokenAfter(S))
    BY <1>1, <1>3 DEF collect_zombies, Upto
  <2>2. QED
    BY <2>1
<1>4. QED
  BY <1>2, <1>3

\* Collecting a zombie keeps the invariant, even if it releases what the death released.
LEMMA CollectStep ==
    ASSUME Inv, NEW p \in Slots, NEW head \in BOOLEAN, collect_zombies(p, head) PROVE Inv'
<1>1. /\ Types /\ Vacant /\ RefsExact /\ Queued
  BY DEF Inv
<1>2. PICK F, S, ps :
         /\ F \in SUBSET Fds
         /\ F = Fds /\ S = Closing(p, F)
         /\ ps = [procs EXCEPT ![p] = NoProc]
  OBVIOUS
<1> F \in SUBSET Fds
  BY <1>2
<1>3. PICK t : t = NoTable
  OBVIOUS
<1>4. t \in [Fds -> Files \cup {None}] /\ \A x \in Fds : t[x] = IF x \in F THEN None ELSE tables[p][x]
  BY <1>2, <1>3 DEF NoTable
<1>5. tables' = [tables EXCEPT ![p] = t]
  BY <1>3 DEF collect_zombies
<1>6. S \in SUBSET Files /\ \A f \in S : files[f].ptr \in Pipes
  BY <1>1, <1>2, ClosingFacts
<1>7. files' = FilesAfter(p, F) /\ UNCHANGED may /\ procs[p].state = "EXITED"
  BY <1>2 DEF collect_zombies, NoBytes
<1>8. "parent_dies" \in may /\ ~Undisturbed
  BY <1>1, <1>7 DEF Vacant, Undisturbed
<1>9. ps \in [Slots -> ProcRec] /\ Goes(p, t, ps)
  BY <1>1, <1>2, <1>3, <1>8 DEF Types, NoProc, ProcRec, Goes
<1>10. CASE pipes' = PipesAfter(S) /\ procs' = Unblock(ps, WokenAfter(S))
  <2>1. PICK W : W = WokenAfter(S)
    OBVIOUS
  <2>2. Releases(W)
    BY <1>1, <1>6, <1>10, <2>1, ReleasesByFiles
  <2>3. QED
    BY <1>2, <1>4, <1>5, <1>7, <1>9, <1>10, <2>1, <2>2, DropStep
<1>11. ASSUME NEW fd, FirstToWake(p, fd),
              NEW q, q = files[tables[p][fd]].ptr,
              NEW rd, rd = Count(S, q, "read") + Again(p, fd) * One(files[tables[p][fd]].ends, "read"),
              NEW wr, wr = Count(S, q, "write") + Again(p, fd) * One(files[tables[p][fd]].ends, "write"),
              pipes' = [PipesAfter(S) EXCEPT ![q] = kpipe_close(pipes[q], rd, wr)],
              procs' = Unblock(ps, WokenAfter(S) \cup WokenByClose(pipes[q], rd, wr))
       PROVE  Inv'
  <2>1. PICK W, w0 : /\ w0 = WokenByClose(pipes[q], rd, wr)
                     /\ W = WokenAfter(S) \cup WokenByClose(pipes[q], rd, wr)
    OBVIOUS
  <2>2. q \in Pipes
    BY <1>1, <1>11, FirstCloses
  <2>3. rd \in Nat /\ wr \in Nat
    BY <1>1, <1>6, <1>11, <2>2, AgainIsNat
  <2>4. PICK pp : pp = PipesAfter(S)
    OBVIOUS
  <2>5. /\ pipes' = [pp EXCEPT ![q] = kpipe_close(pipes[q], rd, wr)]
        /\ pp = [c \in Pipes |-> pp[c]]
    BY <1>11, <2>4 DEF PipesAfter
  <2>6. /\ pipes' = [c \in Pipes |-> pipes'[c]]
        /\ pipes'[q] = kpipe_close(pipes[q], rd, wr)
        /\ \A c \in Pipes : c # q => pipes'[c] = pp[c]
    BY <2>2, <2>5
  <2>7. Closes(q, w0)
    <3>1. PICK pipe \in PipeRec : pipe = pipes[q]
      BY <1>1, <2>2 DEF Types
    <3>2. ~pipe.used => pipe = NoPipe
      BY <1>1, <2>2, <3>1 DEF Vacant
    <3>3. QED
      BY <2>1, <2>3, <2>6, <3>1, <3>2 DEF Closes
  <2>8. ASSUME NEW c \in Pipes, c # q PROVE pipes'[c] = pipes[c] \/ \E w \in SUBSET W : Closes(c, w)
    <3>1. CASE c \notin Touched(S)
      BY <2>4, <2>6, <2>8, <3>1 DEF PipesAfter
    <3>2. CASE c \in Touched(S)
      <4>1. PICK pipe, x, y, w :
               /\ pipe \in PipeRec /\ x \in Nat /\ y \in Nat
               /\ pipe = pipes[c] /\ x = Count(S, c, "read") /\ y = Count(S, c, "write")
               /\ w = WokenByClose(pipe, x, y)
        BY <1>1, <1>6, CountFacts DEF Types
      <4> pipe \in PipeRec /\ x \in Nat /\ y \in Nat
        BY <4>1
      <4>2. ~pipe.used => pipe = NoPipe
        BY <1>1, <4>1 DEF Vacant
      <4>3. pipes'[c] = kpipe_close(pipe, x, y)
        BY <2>4, <2>6, <2>8, <3>2, <4>1 DEF PipesAfter
      <4>4. Closes(c, w)
        BY <4>1, <4>2, <4>3 DEF Closes
      <4>5. w \subseteq WokenAfter(S)
        BY <3>2, <4>1 DEF WokenAfter
      <4>6. QED
        BY <2>1, <4>4, <4>5
    <3>3. QED
      BY <3>1, <3>2
  <2>9. \A c \in Pipes : pipes'[c] = pipes[c] \/ \E w \in SUBSET W : Closes(c, w)
    <3>1. w0 \in SUBSET W
      BY <2>1
    <3>2. QED
      BY <2>7, <2>8, <3>1
  <2>10. Releases(W)
    BY <1>1, <1>8, <2>6, <2>9, ReleasesByClose
  <2>11. ~({"parent_dies", "both_ends"} \subseteq may) => pipes' = PipesAfter(S)
    <3> SUFFICES ASSUME "both_ends" \notin may PROVE pipes' = PipesAfter(S)
      BY <1>8
    <3>1. /\ kpipe_close(pipes[q], rd, wr)
               = kpipe_close(pipes[q], Count(S, q, "read"), Count(S, q, "write"))
          /\ q \in Touched(S)
      BY <1>2, <1>11, AgainIsHarmless
    <3>2. pp[q] = kpipe_close(pipes[q], rd, wr)
      BY <2>2, <2>4, <3>1 DEF PipesAfter
    <3>3. pipes' = pp
      BY <2>5, <2>6, <3>2
    <3>4. QED
      BY <2>4, <3>3
  <2>12. QED
    BY <1>2, <1>4, <1>5, <1>7, <1>9, <1>11, <2>1, <2>10, <2>11, DropStep
<1>12. \/ pipes' = PipesAfter(S) /\ procs' = Unblock(ps, WokenAfter(S))
       \/ \E fd \in Fds : \E q, rd, wr : ClosedAgain(p, S, ps, fd, q, rd, wr)
  <2>1. S = Closing(p, Fds) /\ ps = [procs EXCEPT ![p] = NoProc]
    BY <1>2
  <2>2. QED
    BY <2>1, CollectCases
<1>13. ASSUME NEW fd \in Fds, NEW q, NEW rd, NEW wr, ClosedAgain(p, S, ps, fd, q, rd, wr) PROVE Inv'
  BY <1>11, <1>13 DEF ClosedAgain
<1>14. QED
  BY <1>10, <1>12, <1>13

-----------------------------------------------------------------------------
(* The invariant *)

\* No pipe is open at the start.
LEMMA InitInv == Init => Inv
<1> SUFFICES ASSUME Init PROVE Inv
  OBVIOUS
<1>1. PICK p \in Slots :
         procs = [s \in Slots |-> IF s = p THEN [NoProc EXCEPT !.state = "READY"] ELSE NoProc]
  BY DEF Init
<1>2. /\ \A q \in Pipes : pipes[q] = NoPipe
      /\ \A f \in Files : files[f] = NoFile
      /\ \A s \in Slots : tables[s] = NoTable
  BY DEF Init
<1>3. NoProc \in ProcRec /\ NoProc.state = "FREE" /\ NoProc.at = None
  BY DEF NoProc, ProcRec
<1>4. PICK np : np = [NoProc EXCEPT !.state = "READY"]
  OBVIOUS
<1>5. np \in ProcRec /\ np.state = "READY" /\ np.at = None
  BY <1>3, <1>4 DEF NoProc, ProcRec
<1>6. /\ procs \in [Slots -> ProcRec] /\ procs[p].state = "READY"
      /\ \A s \in Slots : procs[s].at = None /\ (s # p => procs[s].state = "FREE")
  BY <1>1, <1>3, <1>4, <1>5
<1>7. NoFile \in FileRec /\ NoFile.refcount = 0 /\ NoFile.ptr = None /\ NoFile.ends = {}
  BY DEF NoFile, FileRec
<1>8. NoTable \in [Fds -> Files \cup {None}] /\ \A fd \in Fds : NoTable[fd] = None
  BY DEF NoTable
<1>9. Types
  <2>1. pipes \in [Pipes -> PipeRec]
    BY NoPipeFacts DEF Init
  <2>2. files \in [Files -> FileRec] /\ tables \in [Slots -> [Fds -> Files \cup {None}]]
    BY <1>7, <1>8 DEF Init
  <2>3. QED
    BY <1>6, <2>1, <2>2 DEF Types
<1>10. Vacant
  <2>1. \A s \in Slots : procs[s].state \in {"FREE", "READY"}
    BY <1>6
  <2>2. QED
    BY <1>2, <1>6, <1>7, <2>1 DEF Vacant
<1>11. RefsExact
  <2> SUFFICES ASSUME NEW f \in Files PROVE files[f].refcount = Cardinality(Holders(f))
    BY DEF RefsExact
  <2>1. Holders(f) = {}
    BY <1>2, <1>8, PipeAssumption DEF Holders
  <2>2. QED
    BY <1>2, <1>7, <2>1, FS_EmptySet
<1>12. EndsExact
  <2>1. \A q \in Pipes : \A e : OpenEnds(q, e) = {}
    BY <1>2, <1>7 DEF OpenEnds
  <2>2. \A q \in Pipes : \A e : Cardinality(OpenEnds(q, e)) = 0
    BY <2>1, FS_EmptySet
  <2>3. QED
    BY <1>2, <1>11, <2>1, <2>2, NoPipeFacts DEF EndsExact, RefsExact
<1>13. \A q \in Pipes, op \in {"read", "write"} : Queue(q, op) = <<>> /\ Sleeping(q, op) = {}
  BY <1>2, <1>6, NoPipeFacts DEF Queue, Sleeping, In
<1>14. Queued
  BY <1>2, <1>6, NoPipeFacts DEF Queued
<1>15. QueuesExact
  <2>1. Distinct(<<>>) /\ InQueue(<<>>) = {}
    BY DEF Distinct, InQueue
  <2>2. QED
    BY <1>13, <2>1 DEF QueuesExact
<1>16. SomebodyToWaitFor /\ WakeupsReach
  BY <1>13 DEF SomebodyToWaitFor, WakeupsReach
<1>17. Bounds
  <2>1. Used = {p}
    BY <1>6 DEF Used
  <2>2. Cardinality(Used) = 1
    BY <2>1, FS_Singleton
  <2>3. QED
    BY <1>6, <2>2 DEF Bounds
<1>18. QED
  BY <1>9, <1>10, <1>11, <1>12, <1>14, <1>15, <1>16, <1>17 DEF Inv

\* Each step keeps the invariant.
LEMMA NextInv == Inv /\ [Next]_vars => Inv'
<1> SUFFICES ASSUME Inv, [Next]_vars PROVE Inv'
  OBVIOUS
<1>1. CASE UNCHANGED vars
  <2>1. UNCHANGED <<pipes, files, tables, procs, may>>
    BY <1>1 DEF vars
  <2>2. Types' /\ Vacant' /\ Queued'
    BY <2>1 DEF Inv, Types, Vacant, Queued, Queue
  <2>3. RefsExact' /\ EndsExact'
    BY <2>1, RefsFrame DEF Inv
  <2>4. \A q, op : /\ Queue(q, op)' = Queue(q, op) /\ Stock(q, op)' = Stock(q, op)
                   /\ Sleeping(q, op)' = Sleeping(q, op) /\ Woken(q, op)' = Woken(q, op)
    BY <2>1 DEF Queue, Stock, Sleeping, Woken, In
  <2>5. QueuesExact' /\ WakeupsReach'
    BY <2>1, <2>4 DEF Inv, QueuesExact, WakeupsReach, Undisturbed
  <2>6. Bounds'
    BY <2>1, BoundsFrame DEF Inv
  <2>7. SomebodyToWaitFor'
    BY <2>2, QueuedMeansServedNext
  <2>8. QED
    BY <2>2, <2>3, <2>5, <2>6, <2>7 DEF Inv
<1>2. ASSUME NEW p \in Slots, Manage(p) PROVE Inv'
  <2>1. ASSUME proc_exit(p) PROVE Inv'
    BY <2>1, EndStep DEF proc_exit, InUserland, Runs
  <2>2. ASSUME proc_kill(p) PROVE Inv'
    <3>1. ~Undisturbed /\ procs[p].state # "FREE" /\ End(p)
      BY <2>2 DEF proc_kill, Undisturbed
    <3>2. QED
      BY <3>1, EndStep
  <2>3. ASSUME NEW oldfd \in Fds, NEW newfd \in Fds, dup2(p, oldfd, newfd) PROVE Inv'
    BY <2>3, Dup2Step
  <2>4. QED
    BY <1>2, <2>1, <2>2, <2>3, DetachStep, UnblockStep, CollectStep, CreateStep, CloseStep,
       UnlinkStep, OpenStep DEF Manage
<1>3. QED
  BY <1>1, <1>2, TransferStep DEF Next

\* Inv holds in every reachable state.
THEOREM Invariance == Spec => []Inv
BY InitInv, NextInv, PTL DEF Spec

\* Reference counts and counts of ends are exact, whoever duplicates, inherits, exits or is
\* killed: kpipe_close frees a pipe when, and only when, no process can reach it any more.
THEOREM EndsCounted == Spec => []EndsExact
<1>1. Inv => EndsExact
  BY DEF Inv
<1>2. QED
  BY <1>1, Invariance, PTL

\* Whoever sleeps in kpipe_read or kpipe_write has another side to wait for: kpipe_close wakes
\* everybody, and kpipe_open never leaves a waiter behind.
THEOREM Served == Spec => []SomebodyToWaitFor
<1>1. Inv => SomebodyToWaitFor
  BY DEF Inv
<1>2. QED
  BY <1>1, Invariance, PTL

\* Nobody sleeps beside bytes (or room) that no process has been woken for: one wake-up for
\* each call suffices when calls move one byte or there are two processes.
THEOREM NoWakeupLost == Spec => []NoLostWakeup
<1>1. Inv => NoLostWakeup
  <2> SUFFICES ASSUME Inv, Undisturbed, ~({"crowd", "long_calls"} \subseteq may), NEW q \in Pipes,
                      NEW op \in {"read", "write"}, Sleeping(q, op) # {}, Stock(q, op) > 0
               PROVE  Woken(q, op) # {}
    <3>1. \A q \in Pipes : Inv => (pipes[q].size < PIPE_CAP <=> PIPE_CAP - pipes[q].size > 0)
      BY PipeAssumption DEF Inv, Types, PipeRec
    <3>2. QED
      BY <3>1 DEF NoLostWakeup, Undisturbed, Stock
  <2>1. /\ WakeupsReach
        /\ "crowd" \notin may \/ "long_calls" \notin may
    BY DEF Inv
  <2>2. CASE "long_calls" \in may
    BY <2>1, <2>2 DEF WakeupsReach
  <2>3. CASE "long_calls" \notin may
    <3>1. Stock(q, op) =< Cardinality(Woken(q, op))
      BY <2>1, <2>3 DEF WakeupsReach
    <3>2. Woken(q, op) = {} => Cardinality(Woken(q, op)) = 0
      BY FS_EmptySet
    <3>3. Stock(q, op) \in Nat
      BY PipeAssumption DEF Inv, Types, PipeRec, Stock
    <3>4. QED
      BY <3>1, <3>2, <3>3
  <2>4. QED
    BY <2>2, <2>3
<1>2. QED
  BY <1>1, Invariance, PTL

-----------------------------------------------------------------------------
(* The ring buffers of Kernel/ipc/pipe.c are the channels of PipeChannel *)

\* Process p has a descriptor for the end op of pipe q.
HasEnd(p, q, op) ==
    \E fd \in Fds : /\ tables[p][fd] # None
                    /\ files[tables[p][fd]].ptr = q
                    /\ op \in files[tables[p][fd]].ends

\* A process inside kpipe_read or kpipe_write has the descriptor that it came with.
CallsHaveEnds ==
    \A p \in Slots : procs[p].state \in {"READY", "BLOCKED"} /\ procs[p].at # None =>
        HasEnd(p, procs[p].at.pipe, procs[p].at.op)

\* w is size bytes ahead of r.
RingExact == \A q \in Pipes : pipes[q].w = (pipes[q].r + pipes[q].size) % PIPE_CAP

\* No zombie that is released twice has a pipe open for reading and writing.
ReleasedOnce == ~({"parent_dies", "both_ends"} \subseteq may)

CInv == Inv /\ CallsHaveEnds /\ RingExact /\ ReleasedOnce

-----------------------------------------------------------------------------
(* The arithmetic of a ring *)

\* A position in a ring of c cells, at most one turn ahead.
Wrap(a, c) == IF a < c THEN a ELSE a - c

\* The remainder of a number below twice the divisor.
LEMMA ModStep ==
    ASSUME NEW a \in 0 .. 2 * PIPE_CAP - 1
    PROVE  a % PIPE_CAP = Wrap(a, PIPE_CAP)
<1>1. PICK c \in Nat \ {0} : c = PIPE_CAP
  BY PipeAssumption
<1>2. a \in Nat /\ a < 2 * c
  BY <1>1
<1>3. a < c => a % c = a
  BY <1>1, <1>2
<1>4. a >= c => a % c = a - c
  BY <1>1, <1>2
<1>5. QED
  BY <1>1, <1>2, <1>3, <1>4 DEF Wrap

Ring(pipe) == pipe.w = (pipe.r + pipe.size) % PIPE_CAP

\* s are the n bytes that start at cell r of buf.
Holds(s, buf, r, n, c) ==
    /\ s \in Seq(Bytes \cup {None}) /\ Len(s) = n
    /\ \A i \in 1 .. n, j \in Cells : j = r + i - 1 \/ j = r + i - 1 - c => s[i] = buf[j]

\* One of the bytes.
LEMMA HoldsAt ==
    ASSUME NEW s, NEW buf, NEW r, NEW n, NEW c, Holds(s, buf, r, n, c),
           NEW i \in 1 .. n, NEW j \in Cells, j = r + i - 1 \/ j = r + i - 1 - c
    PROVE  s[i] = buf[j]
BY DEF Holds

\* The bytes of a pipe, oldest first.
LEMMA ContentsFacts ==
    ASSUME NEW pipe \in PipeRec
    PROVE  Holds(Contents(pipe), pipe.buf, pipe.r, pipe.size, PIPE_CAP)
<1>1. /\ PIPE_CAP \in Nat \ {0} /\ pipe.size \in Nat /\ pipe.size =< PIPE_CAP
      /\ pipe.r \in 0 .. PIPE_CAP - 1 /\ pipe.buf \in [Cells -> Bytes \cup {None}]
      /\ Cells = 0 .. PIPE_CAP - 1
  BY PipeAssumption DEF PipeRec, Cells
<1>2. PICK s : s = Contents(pipe)
  OBVIOUS
<1>3. s = [i \in 1 .. pipe.size |-> pipe.buf[(pipe.r + i - 1) % PIPE_CAP]]
  BY <1>2 DEF Contents
<1>4. ASSUME NEW i \in 1 .. pipe.size
      PROVE  /\ \A j \in Cells :
                   j = pipe.r + i - 1 \/ j = pipe.r + i - 1 - PIPE_CAP => s[i] = pipe.buf[j]
             /\ s[i] \in Bytes \cup {None}
  <2>1. PICK a \in 0 .. 2 * PIPE_CAP - 1 : a = pipe.r + i - 1
    BY <1>1
  <2>2. s[i] = pipe.buf[a % PIPE_CAP]
    BY <1>3, <2>1
  <2>3. a % PIPE_CAP = IF a < PIPE_CAP THEN a ELSE a - PIPE_CAP
    BY ModStep DEF Wrap
  <2>4. PICK m \in Cells : m = a % PIPE_CAP
    BY <1>1, <2>3
  <2>5. \A j \in Cells : j = a \/ j = a - PIPE_CAP => j = m
    BY <1>1, <2>3, <2>4
  <2>6. s[i] = pipe.buf[m]
    BY <2>2, <2>4
  <2>7. pipe.buf[m] \in Bytes \cup {None}
    BY <1>1, <2>4
  <2>8. \A j \in Cells : j = pipe.r + i - 1 \/ j = pipe.r + i - 1 - PIPE_CAP => j = m
    <3>1. a - PIPE_CAP = pipe.r + i - 1 - PIPE_CAP
      BY <1>1, <2>1
    <3>2. QED
      BY <2>1, <2>5, <3>1
  <2>9. QED
    BY <2>6, <2>7, <2>8
<1>5. s \in Seq(Bytes \cup {None}) /\ Len(s) = pipe.size
  <2>1. s \in [1 .. pipe.size -> Bytes \cup {None}]
    BY <1>3, <1>4
  <2>2. \A n \in Nat : \A X : \A g \in [1 .. n -> X] : g \in Seq(X) /\ Len(g) = n
    OBVIOUS
  <2>3. QED
    BY <1>1, <2>1, <2>2
<1>6. QED
  BY <1>2, <1>4, <1>5 DEF Holds

\* r and w after k bytes were taken out, or put in, of a ring of c cells with n bytes.
Takes(r, n, k, c, r1) ==
    /\ r1 \in Nat /\ r1 < c /\ Wrap(r1 + (n - k), c) = Wrap(r + n, c)
    /\ \A i \in 1 .. n - k : \E j \in 0 .. c - 1 :
          /\ j = r1 + i - 1 \/ j = r1 + i - 1 - c
          /\ j = r + (k + i) - 1 \/ j = r + (k + i) - 1 - c

\* Taking k bytes out of a ring moves its start.
LEMMA WrapTakes ==
    ASSUME NEW c \in Nat, NEW r \in Nat, r < c, NEW n \in Nat, n =< c, NEW k \in Nat, k =< n,
           NEW r1, r1 = Wrap(r + k, c)
    PROVE  Takes(r, n, k, c, r1)
<1>1. r1 \in Nat /\ r1 < c /\ Wrap(r1 + (n - k), c) = Wrap(r + n, c)
  BY DEF Wrap
<1>2. ASSUME NEW i \in 1 .. n - k
      PROVE  \E j \in 0 .. c - 1 : /\ j = r1 + i - 1 \/ j = r1 + i - 1 - c
                                   /\ j = r + (k + i) - 1 \/ j = r + (k + i) - 1 - c
  <2>1. PICK j : j = Wrap(r1 + i - 1, c)
    OBVIOUS
  <2>2. /\ j \in 0 .. c - 1
        /\ j = r1 + i - 1 \/ j = r1 + i - 1 - c
        /\ j = r + (k + i) - 1 \/ j = r + (k + i) - 1 - c
    BY <2>1 DEF Wrap
  <2>3. QED
    BY <2>2
<1>3. QED
  BY <1>1, <1>2 DEF Takes

Puts(r, n, k, c, w) ==
    /\ w \in Nat /\ w < c /\ Wrap(w + k, c) = Wrap(r + (n + k), c)
    /\ \A i \in 1 .. n + k : \E j \in 0 .. c - 1, o \in Nat :
          /\ j = r + i - 1 \/ j = r + i - 1 - c
          /\ o = Wrap(j - w + c, c) /\ j - w + c \in 0 .. 2 * c - 1
          /\ IF i =< n THEN o >= k ELSE o = i - n - 1

\* Putting k bytes in moves its end.
LEMMA WrapPuts ==
    ASSUME NEW c \in Nat, NEW r \in Nat, r < c, NEW n \in Nat, NEW k \in Nat, n + k =< c,
           NEW w, w = Wrap(r + n, c)
    PROVE  Puts(r, n, k, c, w)
<1>1. w \in Nat /\ w < c /\ Wrap(w + k, c) = Wrap(r + (n + k), c)
  BY DEF Wrap
<1>2. ASSUME NEW i \in 1 .. n + k
      PROVE  \E j \in 0 .. c - 1, o \in Nat :
                /\ j = r + i - 1 \/ j = r + i - 1 - c
                /\ o = Wrap(j - w + c, c) /\ j - w + c \in 0 .. 2 * c - 1
                /\ IF i =< n THEN o >= k ELSE o = i - n - 1
  <2>1. PICK j : j = Wrap(r + i - 1, c)
    OBVIOUS
  <2>2. PICK o : o = Wrap(j - w + c, c)
    OBVIOUS
  <2>3. j \in 0 .. c - 1 /\ (j = r + i - 1 \/ j = r + i - 1 - c)
    BY <2>1 DEF Wrap
  <2>4. /\ o \in Nat /\ j - w + c \in 0 .. 2 * c - 1
        /\ IF i =< n THEN o >= k ELSE o = i - n - 1
    BY <2>2, <2>3 DEF Wrap
  <2>5. QED
    BY <2>2, <2>3, <2>4
<1>3. QED
  BY <1>1, <1>2 DEF Puts

\* The positions of a ring as integers of their own.
LEMMA RingNumbers ==
    ASSUME NEW pipe \in PipeRec
    PROVE  \E c \in Nat, r \in Nat, n \in Nat :
              /\ c = PIPE_CAP /\ r = pipe.r /\ n = pipe.size /\ r < c /\ n =< c
              /\ Cells = 0 .. c - 1 /\ r + n \in 0 .. 2 * PIPE_CAP - 1
<1>1. PICK c \in Nat \ {0} : c = PIPE_CAP
  BY PipeAssumption
<1>2. PICK r \in 0 .. c - 1, n \in 0 .. c : r = pipe.r /\ n = pipe.size
  BY <1>1 DEF PipeRec, Cells
<1>3. r \in Nat /\ n \in Nat /\ r < c /\ n =< c /\ r + n \in 0 .. 2 * c - 1
  BY <1>1, <1>2
<1>4. QED
  BY <1>1, <1>2, <1>3 DEF Cells

\* Taking k bytes out of the ring takes the k oldest out of the channel.
LEMMA DrainIsReceive ==
    ASSUME NEW pipe \in PipeRec, Ring(pipe), NEW k \in Nat, k =< pipe.size,
           NEW x, Drained(pipe, k, x)
    PROVE  /\ Ring(x)
           /\ Contents(x) = SubSeq(Contents(pipe), k + 1, Len(Contents(pipe)))
<1>1. PICK c \in Nat, r \in Nat, n \in Nat :
         /\ c = PIPE_CAP /\ r = pipe.r /\ n = pipe.size /\ r < c /\ n =< c
         /\ Cells = 0 .. c - 1 /\ r + n \in 0 .. 2 * PIPE_CAP - 1
  BY RingNumbers
<1>2. /\ x \in PipeRec /\ x.size = n - k /\ x.r = (r + k) % PIPE_CAP
      /\ x.buf = pipe.buf /\ x.w = (r + n) % PIPE_CAP
  BY <1>1 DEF Drained, Ring
<1>3. k =< n
  BY <1>1
<1>4. r + k \in 0 .. 2 * PIPE_CAP - 1
  BY <1>1, <1>3
<1>5. PICK r1 : r1 = Wrap(r + k, c)
  OBVIOUS
<1>6. x.r = r1 /\ x.w = Wrap(r + n, c)
  BY <1>1, <1>2, <1>4, <1>5, ModStep
<1>7. Takes(r, n, k, c, r1)
  BY <1>1, <1>3, <1>5, WrapTakes
<1>8. Ring(x)
  <2>1. r1 \in Nat /\ r1 < c /\ Wrap(r1 + (n - k), c) = Wrap(r + n, c)
    BY <1>7 DEF Takes
  <2>2. r1 + (n - k) \in 0 .. 2 * PIPE_CAP - 1
    BY <1>1, <1>3, <2>1
  <2>3. (r1 + (n - k)) % PIPE_CAP = Wrap(r + n, c)
    BY <1>1, <2>1, <2>2, ModStep
  <2>4. QED
    BY <1>2, <1>6, <2>3 DEF Ring
<1>9. PICK s, u : s = Contents(pipe) /\ u = Contents(x)
  OBVIOUS
<1>10. Holds(s, pipe.buf, r, n, c) /\ Holds(u, pipe.buf, r1, n - k, c)
  <2>1. Holds(s, pipe.buf, pipe.r, pipe.size, PIPE_CAP) /\ Holds(u, x.buf, x.r, x.size, PIPE_CAP)
    BY <1>2, <1>9, ContentsFacts
  <2>2. QED
    BY <1>1, <1>2, <1>6, <2>1
<1>11. /\ s \in Seq(Bytes \cup {None}) /\ Len(s) = n
       /\ u \in Seq(Bytes \cup {None}) /\ Len(u) = n - k
  BY <1>10 DEF Holds
<1>12. ASSUME NEW i \in 1 .. n - k PROVE u[i] = s[k + i]
  <2>1. PICK j \in 0 .. c - 1 : /\ j = r1 + i - 1 \/ j = r1 + i - 1 - c
                                /\ j = r + (k + i) - 1 \/ j = r + (k + i) - 1 - c
    BY <1>7 DEF Takes
  <2>2. PICK l \in 1 .. n : l = k + i
    OBVIOUS
  <2>3. j \in Cells /\ (j = r + l - 1 \/ j = r + l - 1 - c)
    BY <1>1, <2>1, <2>2
  <2>4. s[l] = pipe.buf[j]
    BY <1>10, <2>3 DEF Holds
  <2>5. u[i] = pipe.buf[j]
    <3>1. PICK m : m = n - k
      OBVIOUS
    <3>2. Holds(u, pipe.buf, r1, m, c) /\ i \in 1 .. m
      BY <1>10, <3>1
    <3>3. j \in Cells
      BY <2>3
    <3>4. j = r1 + i - 1 \/ j = r1 + i - 1 - c
      BY <2>1
    <3>5. QED
      BY <3>2, <3>3, <3>4, HoldsAt
  <2>6. QED
    BY <2>2, <2>4, <2>5
<1>13. PICK v : v = SubSeq(s, k + 1, n)
  OBVIOUS
<1>14. /\ v \in Seq(Bytes \cup {None}) /\ Len(v) = n - k
       /\ \A i \in 1 .. n - k : v[i] = s[k + i]
  <2>1. v = [i \in 1 .. n - k |-> s[k + i]]
    BY <1>3, <1>13
  <2>2. \A i \in 1 .. n - k : s[k + i] \in Bytes \cup {None}
    BY <1>3, <1>11
  <2>3. v \in [1 .. n - k -> Bytes \cup {None}] /\ n - k \in Nat
    BY <1>3, <2>1, <2>2
  <2>4. \A m \in Nat : \A X : \A g \in [1 .. m -> X] : g \in Seq(X) /\ Len(g) = m
    OBVIOUS
  <2>5. QED
    BY <2>1, <2>3, <2>4
<1>15. u = v
  BY <1>11, <1>12, <1>14, SeqEqual
<1>16. QED
  BY <1>8, <1>9, <1>11, <1>13, <1>15

\* Putting bytes into the ring puts them at the end of the channel.
LEMMA FillIsSend ==
    ASSUME NEW pipe \in PipeRec, Ring(pipe), NEW bytes \in Seq(Bytes),
           Len(bytes) =< PIPE_CAP - pipe.size,
           NEW x, Filled(pipe, bytes, x)
    PROVE  Ring(x) /\ Contents(x) = Contents(pipe) \o bytes
<1>1. PICK k \in Nat : k = Len(bytes)
  OBVIOUS
<1>2. PICK c \in Nat, r \in Nat, n \in Nat :
         /\ c = PIPE_CAP /\ r = pipe.r /\ n = pipe.size /\ r < c /\ n =< c
         /\ Cells = 0 .. c - 1 /\ r + n \in 0 .. 2 * PIPE_CAP - 1
  BY RingNumbers
<1>3. /\ x \in PipeRec /\ x.size = n + k /\ x.r = r
      /\ x.w = (pipe.w + k) % PIPE_CAP /\ pipe.w = (r + n) % PIPE_CAP
  BY <1>1, <1>2 DEF Filled, Ring
<1>4. n + k =< c
  BY <1>1, <1>2
<1>5. PICK w : w = Wrap(r + n, c)
  OBVIOUS
<1>6. pipe.w = w
  BY <1>2, <1>3, <1>5, ModStep
<1>7. Puts(r, n, k, c, w)
  BY <1>2, <1>4, <1>5, WrapPuts
<1>8. Ring(x)
  <2>1. w \in Nat /\ w < c /\ Wrap(w + k, c) = Wrap(r + (n + k), c)
    BY <1>7 DEF Puts
  <2>2. w + k \in 0 .. 2 * PIPE_CAP - 1 /\ r + (n + k) \in 0 .. 2 * PIPE_CAP - 1
    <3>1. \A a, b \in Nat : a < c /\ b =< c => a + b \in 0 .. 2 * c - 1
      OBVIOUS
    <3>2. r \in Nat /\ r < c /\ n + k \in Nat /\ k \in Nat /\ k =< c
      BY <1>2, <1>4
    <3>3. w + k \in 0 .. 2 * c - 1 /\ r + (n + k) \in 0 .. 2 * c - 1
      BY <1>4, <2>1, <3>1, <3>2
    <3>4. QED
      BY <1>2, <3>3
  <2>3. (w + k) % PIPE_CAP = Wrap(w + k, c) /\ (r + (n + k)) % PIPE_CAP = Wrap(r + (n + k), c)
    BY <1>2, <2>2, ModStep
  <2>4. QED
    BY <1>3, <1>6, <2>1, <2>3 DEF Ring
<1>9. PICK s, u : s = Contents(pipe) /\ u = Contents(x)
  OBVIOUS
<1>10. Holds(s, pipe.buf, r, n, c) /\ Holds(u, x.buf, r, n + k, c)
  <2>1. Holds(s, pipe.buf, pipe.r, pipe.size, PIPE_CAP) /\ Holds(u, x.buf, x.r, x.size, PIPE_CAP)
    BY <1>3, <1>9, ContentsFacts
  <2>2. QED
    BY <1>2, <1>3, <2>1
<1>11. /\ s \in Seq(Bytes \cup {None}) /\ Len(s) = n
       /\ u \in Seq(Bytes \cup {None}) /\ Len(u) = n + k
  BY <1>10 DEF Holds
<1>12. \A j \in Cells : \A o : o = (j - w + PIPE_CAP) % PIPE_CAP =>
          x.buf[j] = IF o < k THEN bytes[o + 1] ELSE pipe.buf[j]
  BY <1>1, <1>6 DEF Filled
<1>13. PICK v : v = s \o bytes
  OBVIOUS
<1>14. /\ v \in Seq(Bytes \cup {None}) /\ Len(v) = n + k
       /\ \A i \in 1 .. n + k : v[i] = IF i =< n THEN s[i] ELSE bytes[i - n]
  <2>1. bytes \in Seq(Bytes \cup {None})
    <3>1. \A i \in 1 .. Len(bytes) : bytes[i] \in Bytes \cup {None}
      OBVIOUS
    <3>2. QED
      BY <3>1
  <2>2. PICK B : B = Bytes \cup {None}
    OBVIOUS
  <2>3. s \in Seq(B) /\ bytes \in Seq(B)
    BY <1>11, <2>1, <2>2
  <2>4. /\ s \o bytes \in Seq(B) /\ Len(s \o bytes) = Len(s) + Len(bytes)
        /\ \A i \in 1 .. Len(s) + Len(bytes) :
              (s \o bytes)[i] = IF i <= Len(s) THEN s[i] ELSE bytes[i - Len(s)]
    BY <2>3, ConcatProperties
  <2>5. QED
    BY <1>1, <1>11, <1>13, <2>2, <2>4
<1>15. ASSUME NEW i \in 1 .. n + k PROVE u[i] = v[i]
  <2>1. PICK j \in 0 .. c - 1, o \in Nat :
          /\ j = r + i - 1 \/ j = r + i - 1 - c
          /\ o = Wrap(j - w + c, c) /\ j - w + c \in 0 .. 2 * c - 1
          /\ IF i =< n THEN o >= k ELSE o = i - n - 1
    BY <1>7 DEF Puts
  <2>2. j \in Cells
    BY <1>2
  <2>3. u[i] = x.buf[j]
    BY <1>10, <2>1, <2>2 DEF Holds
  <2>4. o = (j - w + PIPE_CAP) % PIPE_CAP
    BY <1>2, <2>1, ModStep
  <2>5. x.buf[j] = IF o < k THEN bytes[o + 1] ELSE pipe.buf[j]
    BY <1>12, <2>2, <2>4
  <2>6. CASE i =< n
    <3>1. ~(o < k)
      BY <2>1, <2>6
    <3>2. s[i] = pipe.buf[j]
      BY <1>10, <2>1, <2>2, <2>6 DEF Holds
    <3>3. QED
      BY <1>14, <2>3, <2>5, <2>6, <3>1, <3>2
  <2>7. CASE ~(i =< n)
    <3>1. o < k /\ o + 1 = i - n
      BY <2>1, <2>7
    <3>2. QED
      BY <1>14, <2>3, <2>5, <2>7, <3>1
  <2>8. QED
    BY <2>6, <2>7
<1>16. u = v
  BY <1>11, <1>14, <1>15, SeqEqual
<1>17. QED
  BY <1>8, <1>9, <1>13, <1>16

-----------------------------------------------------------------------------
(* Steps that move no bytes *)

SameBytes(x, pipe) == x.size = pipe.size /\ x.buf = pipe.buf /\ x.r = pipe.r /\ x.w = pipe.w

\* A pipe keeps its bytes until it is freed.
BytesStay == \A q \in Pipes : pipes'[q] = NoPipe \/ SameBytes(pipes'[q], pipes[q])

\* A file stays what it is while somebody refers to it.
FilesStay ==
    \A f \in Files : files[f].refcount > 0 /\ files'[f].refcount > 0 =>
        files'[f].ptr = files[f].ptr /\ files'[f].ends = files[f].ends

\* A process inside kpipe_read or kpipe_write keeps its descriptors.
CallsStay ==
    \A s \in Slots : procs'[s].state \in {"READY", "BLOCKED"} /\ procs'[s].at # None =>
        /\ procs[s].state \in {"READY", "BLOCKED"} /\ procs[s].at = procs'[s].at
        /\ tables'[s] = tables[s]

Keeps == moved' = <<>> /\ UNCHANGED may /\ BytesStay /\ FilesStay /\ CallsStay

\* kpipe_close frees the pipe or leaves its bytes alone.
LEMMA CloseKeepsBytes ==
    ASSUME NEW pipe \in PipeRec, NEW rd \in Nat, NEW wr \in Nat
    PROVE  kpipe_close(pipe, rd, wr) = NoPipe \/ SameBytes(kpipe_close(pipe, rd, wr), pipe)
<1>1. PICK x : x = kpipe_close(pipe, rd, wr)
  OBVIOUS
<1>2. Closed(pipe, rd, wr, x)
  BY <1>1, CloseFacts
<1>3. QED
  BY <1>1, <1>2 DEF Closed, SameBytes

\* The same for all the pipes that the files of S are ends of.
LEMMA ReleaseKeepsBytes ==
    ASSUME Types, NEW S \in SUBSET Files, pipes' = PipesAfter(S)
    PROVE  BytesStay
<1> SUFFICES ASSUME NEW q \in Pipes PROVE pipes'[q] = NoPipe \/ SameBytes(pipes'[q], pipes[q])
  BY DEF BytesStay
<1>1. PICK rd \in Nat, wr \in Nat : rd = Count(S, q, "read") /\ wr = Count(S, q, "write")
  BY CountFacts
<1>2. pipes'[q] = kpipe_close(pipes[q], rd, wr) \/ pipes'[q] = pipes[q]
  BY <1>1 DEF PipesAfter
<1>3. pipes[q] \in PipeRec
  BY DEF Types
<1>4. QED
  BY <1>2, <1>3, CloseKeepsBytes DEF SameBytes

\* A change of one pipe.
LEMMA OnePipeKeepsBytes ==
    ASSUME Types, NEW q \in Pipes, NEW x, pipes' = [pipes EXCEPT ![q] = x],
           x = NoPipe \/ SameBytes(x, pipes[q])
    PROVE  BytesStay
BY DEF Types, BytesStay, SameBytes

\* file_release forgets a file or leaves it what it is.
LEMMA DropKeepsFiles ==
    ASSUME Types, Vacant, RefsExact, NEW p \in Slots, NEW F \in SUBSET Fds, files' = FilesAfter(p, F)
    PROVE  FilesStay
<1>1. PICK g : g = FilesAfter(p, F)
  OBVIOUS
<1>2. \A f \in Files : /\ f \in Closing(p, F) => g[f] = NoFile
                       /\ f \notin Closing(p, F) => g[f].ptr = files[f].ptr /\ g[f].ends = files[f].ends
  BY <1>1, FilesAfterFacts
<1>3. QED
  BY <1>1, <1>2 DEF FilesStay, NoFile

\* Only the table of p changes, which is in no call, and procs only by proc_unblock.
LEMMA CallsOfOthers ==
    ASSUME Types, NEW p \in Slots, NEW t, tables' = [tables EXCEPT ![p] = t],
           NEW ps \in [Slots -> ProcRec], ps = procs \/ ps = [procs EXCEPT ![p] = NoProc],
           ps[p].at = None, NEW W, procs' = Unblock(ps, W)
    PROVE  CallsStay
<1> SUFFICES ASSUME NEW s \in Slots, procs'[s].state \in {"READY", "BLOCKED"}, procs'[s].at # None
             PROVE  /\ procs[s].state \in {"READY", "BLOCKED"} /\ procs[s].at = procs'[s].at
                    /\ tables'[s] = tables[s]
  BY DEF CallsStay
<1>1. /\ procs'[s].at = ps[s].at
      /\ procs'[s].state = IF s \in W /\ ps[s].state = "BLOCKED" THEN "READY" ELSE ps[s].state
  BY UnblockFacts
<1>2. s # p
  BY <1>1
<1>3. ps[s] = procs[s] /\ tables'[s] = tables[s]
  BY <1>2 DEF Types
<1>4. QED
  BY <1>1, <1>3

\* Closing ends changes no bytes.
LEMMA CloseKeeps ==
    ASSUME Inv, NEW p \in Slots, NEW fd \in Fds, close(p, fd) PROVE Keeps
<1>1. Types /\ Vacant /\ RefsExact
  BY DEF Inv
<1>2. PICK F, S, W, t, ps :
         /\ F \in SUBSET Fds
         /\ F = {fd} /\ S = Closing(p, F) /\ W = WokenAfter(S) /\ ps = procs
         /\ t = [tables[p] EXCEPT ![fd] = None]
  OBVIOUS
<1> F \in SUBSET Fds
  BY <1>2
<1>3. S \in SUBSET Files
  BY <1>1, <1>2, ClosingFacts
<1>4. /\ moved' = <<>> /\ UNCHANGED may /\ procs[p].at = None
      /\ files' = FilesAfter(p, F) /\ pipes' = PipesAfter(S) /\ procs' = Unblock(ps, W)
      /\ tables' = [tables EXCEPT ![p] = t]
  BY <1>1, <1>2 DEF close, NoBytes, InUserland, Types
<1>5. BytesStay
  BY <1>1, <1>3, <1>4, ReleaseKeepsBytes
<1>6. FilesStay
  BY <1>1, <1>4, DropKeepsFiles
<1>7. CallsStay
  BY <1>1, <1>2, <1>4, CallsOfOthers DEF Types
<1>8. QED
  BY <1>4, <1>5, <1>6, <1>7 DEF Keeps

\* Nor does dup2,
LEMMA Dup2Keeps ==
    ASSUME Inv, NEW p \in Slots, NEW oldfd \in Fds, NEW newfd \in Fds, dup2(p, oldfd, newfd)
    PROVE  Keeps
<1>1. Types /\ Vacant /\ RefsExact
  BY DEF Inv
<1>2. PICK F, S, W, src, t, ps :
         /\ F \in SUBSET Fds
         /\ F = {newfd} /\ S = Closing(p, F) /\ W = WokenAfter(S) /\ ps = procs
         /\ src = tables[p][oldfd] /\ t = [tables[p] EXCEPT ![newfd] = src]
  OBVIOUS
<1> F \in SUBSET Fds
  BY <1>2
<1>3. S \in SUBSET Files
  BY <1>1, <1>2, ClosingFacts
<1>4. /\ moved' = <<>> /\ UNCHANGED may /\ procs[p].at = None
      /\ pipes' = PipesAfter(S) /\ procs' = Unblock(ps, W)
      /\ tables' = [tables EXCEPT ![p] = t]
  BY <1>1, <1>2 DEF dup2, NoBytes, InUserland, Types
<1>5. BytesStay
  BY <1>1, <1>3, <1>4, ReleaseKeepsBytes
<1>6. FilesStay
  <2>1. PICK g : g = FilesAfter(p, F)
    OBVIOUS
  <2>2. src \in Files /\ files[src].refcount > 0
    BY <1>1, <1>2, HeldFiles DEF dup2
  <2>3. Dropped(p, F, src) + 1 =< files[src].refcount
    BY <1>1, <1>2, <2>2, SourceStays DEF dup2
  <2>4. /\ g \in [Files -> FileRec]
        /\ \A f \in Files : /\ g[f].refcount = files[f].refcount - Dropped(p, F, f)
                            /\ f \in S => g[f] = NoFile
                            /\ f \notin S => g[f].ptr = files[f].ptr /\ g[f].ends = files[f].ends
    BY <1>1, <1>2, <2>1, FilesAfterFacts
  <2>5. files' = [g EXCEPT ![src] = [g[src] EXCEPT !.refcount = g[src].refcount + 1]]
    BY <1>2, <2>1 DEF dup2, file_ref
  <2>6. src \notin S
    <3>1. Dropped(p, F, src) \in Nat /\ files[src].refcount \in Nat
      BY <1>1, <2>2, UsesBounded DEF Types, FileRec
    <3>2. PICK d \in Nat, n \in Nat : d = Dropped(p, F, src) /\ n = files[src].refcount
      BY <3>1
    <3>3. d + 1 =< n
      BY <2>3, <3>2
    <3>4. ~(n =< d)
      BY <3>3
    <3>5. QED
      BY <1>2, <3>2, <3>4 DEF Closing
  <2>7. files'[src].ptr = files[src].ptr /\ files'[src].ends = files[src].ends
    BY <2>2, <2>4, <2>5, <2>6 DEF FileRec
  <2>8. \A f \in Files : f # src => files'[f] = g[f]
    BY <2>4, <2>5
  <2>9. QED
    BY <2>4, <2>7, <2>8 DEF FilesStay, NoFile
<1>7. CallsStay
  BY <1>1, <1>2, <1>4, CallsOfOthers DEF Types
<1>8. QED
  BY <1>4, <1>5, <1>6, <1>7 DEF Keeps

\* nor a death,
LEMMA EndKeeps ==
    ASSUME Inv, NEW p \in Slots, End(p) PROVE Keeps
<1>1. Types /\ Vacant /\ RefsExact
  BY DEF Inv
<1>2. PICK F, S, W, t, ps :
         /\ F \in SUBSET Fds
         /\ F = Fds /\ S = Closing(p, F) /\ W = WokenAfter(S)
         /\ ps = [procs EXCEPT ![p] = NoProc] /\ t = NoTable
  OBVIOUS
<1> F \in SUBSET Fds
  BY <1>2
<1>3. S \in SUBSET Files
  BY <1>1, <1>2, ClosingFacts
<1>4. /\ moved' = <<>> /\ UNCHANGED may
      /\ files' = FilesAfter(p, F) /\ pipes' = PipesAfter(S) /\ procs' = Unblock(ps, W)
      /\ tables' = [tables EXCEPT ![p] = t]
  BY <1>2 DEF End, NoBytes
<1>5. BytesStay
  BY <1>1, <1>3, <1>4, ReleaseKeepsBytes
<1>6. FilesStay
  BY <1>1, <1>4, DropKeepsFiles
<1>7. ps \in [Slots -> ProcRec] /\ ps[p].at = None
  BY <1>1, <1>2 DEF Types, NoProc, ProcRec
<1>8. CallsStay
  BY <1>1, <1>2, <1>4, <1>7, CallsOfOthers
<1>9. QED
  BY <1>4, <1>5, <1>6, <1>8 DEF Keeps

\* nor collecting a zombie,
LEMMA CollectKeeps ==
    ASSUME Inv, NEW p \in Slots, NEW head \in BOOLEAN, collect_zombies(p, head) PROVE Keeps
<1>1. Types /\ Vacant /\ RefsExact
  BY DEF Inv
<1>2. PICK F, S, t, ps :
         /\ F \in SUBSET Fds
         /\ F = Fds /\ S = Closing(p, F) /\ ps = [procs EXCEPT ![p] = NoProc] /\ t = NoTable
  OBVIOUS
<1> F \in SUBSET Fds
  BY <1>2
<1>3. S \in SUBSET Files
  BY <1>1, <1>2, ClosingFacts
<1>4. /\ moved' = <<>> /\ UNCHANGED may
      /\ files' = FilesAfter(p, F) /\ tables' = [tables EXCEPT ![p] = t]
  BY <1>2 DEF collect_zombies, NoBytes
<1>5. FilesStay
  BY <1>1, <1>4, DropKeepsFiles
<1>6. ps \in [Slots -> ProcRec] /\ ps[p].at = None
  BY <1>1, <1>2 DEF Types, NoProc, ProcRec
<1>7. PICK W : procs' = Unblock(ps, W)
  BY <1>2 DEF collect_zombies
<1>8. CallsStay
  BY <1>1, <1>2, <1>4, <1>6, <1>7, CallsOfOthers
<1>9. CASE pipes' = PipesAfter(S)
  BY <1>1, <1>3, <1>4, <1>5, <1>8, <1>9, ReleaseKeepsBytes DEF Keeps
<1>10. ASSUME NEW fd, FirstToWake(p, fd),
              NEW q, q = files[tables[p][fd]].ptr,
              NEW rd, rd = Count(S, q, "read") + Again(p, fd) * One(files[tables[p][fd]].ends, "read"),
              NEW wr, wr = Count(S, q, "write") + Again(p, fd) * One(files[tables[p][fd]].ends, "write"),
              pipes' = [PipesAfter(S) EXCEPT ![q] = kpipe_close(pipes[q], rd, wr)]
       PROVE  Keeps
  <2>1. q \in Pipes
    BY <1>1, <1>10, FirstCloses
  <2>2. rd \in Nat /\ wr \in Nat
    BY <1>1, <1>3, <1>10, <2>1, AgainIsNat
  <2>3. PICK pp : pp = PipesAfter(S)
    OBVIOUS
  <2>4. /\ pp = [c \in Pipes |-> pp[c]]
        /\ pipes' = [pp EXCEPT ![q] = kpipe_close(pipes[q], rd, wr)]
    BY <1>10, <2>3 DEF PipesAfter
  <2>5. pipes'[q] = kpipe_close(pipes[q], rd, wr) /\ \A c \in Pipes : c # q => pipes'[c] = pp[c]
    BY <2>1, <2>4
  <2>6. pipes'[q] = NoPipe \/ SameBytes(pipes'[q], pipes[q])
    BY <1>1, <2>1, <2>2, <2>5, CloseKeepsBytes DEF Types
  <2>7. ASSUME NEW c \in Pipes, c # q PROVE pipes'[c] = NoPipe \/ SameBytes(pipes'[c], pipes[c])
    <3>1. PICK x \in Nat, y \in Nat : x = Count(S, c, "read") /\ y = Count(S, c, "write")
      BY <1>3, CountFacts
    <3>2. pp[c] = kpipe_close(pipes[c], x, y) \/ pp[c] = pipes[c]
      BY <2>3, <3>1 DEF PipesAfter
    <3>3. pipes[c] \in PipeRec
      BY <1>1 DEF Types
    <3>4. QED
      BY <2>5, <2>7, <3>2, <3>3, CloseKeepsBytes DEF SameBytes
  <2>8. BytesStay
    BY <2>6, <2>7 DEF BytesStay
  <2>9. QED
    BY <1>4, <1>5, <1>8, <2>8 DEF Keeps
<1>11. \/ pipes' = PipesAfter(S)
       \/ \E fd \in Fds : \E q, rd, wr : ClosedAgain(p, S, ps, fd, q, rd, wr)
  <2>1. S = Closing(p, Fds) /\ ps = [procs EXCEPT ![p] = NoProc]
    BY <1>2
  <2>2. QED
    BY <2>1, CollectCases
<1>12. ASSUME NEW fd \in Fds, NEW q, NEW rd, NEW wr, ClosedAgain(p, S, ps, fd, q, rd, wr) PROVE Keeps
  BY <1>10, <1>12 DEF ClosedAgain
<1>13. QED
  BY <1>9, <1>11, <1>12

\* nor the detaching of children,
LEMMA DetachKeeps ==
    ASSUME Inv, NEW p \in Slots, detach_children(p) PROVE Keeps
<1>1. Types
  BY DEF Inv
<1>2. /\ moved' = <<>> /\ UNCHANGED <<pipes, files, tables, may>>
      /\ procs' = [procs EXCEPT ![p] = [procs[p] EXCEPT !.state = "EXITED"]]
  BY DEF detach_children, NoBytes
<1>3. procs'[p].state = "EXITED" /\ \A s \in Slots : s # p => procs'[s] = procs[s]
  BY <1>1, <1>2 DEF Types, ProcRec
<1>4. QED
  BY <1>2, <1>3 DEF Keeps, BytesStay, FilesStay, CallsStay, SameBytes

\* nor a wake-up from outside,
LEMMA UnblockKeeps ==
    ASSUME Inv, NEW p \in Slots, proc_unblock(p) PROVE Keeps
<1>1. procs \in [Slots -> ProcRec]
  BY DEF Inv, Types
<1>2. moved' = <<>> /\ UNCHANGED <<pipes, files, tables, may>> /\ procs' = Unblock(procs, {p})
  BY DEF proc_unblock, NoBytes
<1>3. \A s \in Slots : /\ procs'[s].at = procs[s].at
                       /\ procs'[s].state = procs[s].state \/ procs[s].state = "BLOCKED"
  BY <1>1, <1>2, UnblockFacts
<1>4. QED
  BY <1>2, <1>3 DEF Keeps, BytesStay, FilesStay, CallsStay, SameBytes

\* nor unlinking a name,
LEMMA UnlinkKeeps ==
    ASSUME Inv, NEW p \in Slots, NEW name \in Names, pipe_unlink(p, name) PROVE Keeps
<1>1. Types
  BY DEF Inv
<1>2. PICK q \in Found(name) :
         pipes' = [pipes EXCEPT ![q] = IF pipes[q].readers = 0 /\ pipes[q].writers = 0 THEN NoPipe
                                       ELSE [pipes[q] EXCEPT !.unlinked = TRUE]]
  BY DEF pipe_unlink
<1>3. moved' = <<>> /\ UNCHANGED <<files, tables, procs, may>>
  BY DEF pipe_unlink, NoBytes
<1>4. PICK pipe \in PipeRec : q \in Pipes /\ pipe = pipes[q]
  BY <1>1 DEF Types, Found, Linked
<1>5. PICK x : x = IF pipe.readers = 0 /\ pipe.writers = 0 THEN NoPipe
                   ELSE [pipe EXCEPT !.unlinked = TRUE]
  OBVIOUS
<1>6. x = NoPipe \/ SameBytes(x, pipe)
  BY <1>5 DEF PipeRec, SameBytes
<1>7. pipes' = [pipes EXCEPT ![q] = x]
  BY <1>2, <1>4, <1>5
<1>8. BytesStay
  BY <1>1, <1>4, <1>6, <1>7, OnePipeKeepsBytes
<1>9. QED
  BY <1>3, <1>8 DEF Keeps, FilesStay, CallsStay

\* nor opening a pipe: a new one is empty.
LEMMA OpenKeeps ==
    ASSUME Inv, NEW p \in Slots, NEW name \in Names, NEW ends \in Ends, pipe_open(p, name, ends)
    PROVE  Keeps
<1>1. Types /\ Vacant
  BY DEF Inv
<1>2. ends \in SUBSET {"read", "write"}
  BY DEF Ends
<1>3. PICK fds, fd : /\ fds = {y \in Fds : tables[p][y] = None}
                     /\ fd = CHOOSE y \in fds : \A z \in fds : y =< z
  OBVIOUS
<1>4. moved' = <<>> /\ UNCHANGED may /\ procs[p].at = None
  BY DEF pipe_open, InUserland, NoBytes
<1>5. PICK q, x, pipe, rd, wr :
         /\ q \in Pipes
         /\ FoundOrNew(q, name, x)
         /\ pipe = Opened(x, ends)
         /\ rd = One(ends, "read") /\ wr = One(ends, "write")
         /\ \/ /\ fds # {}
               /\ \E f \in Files :
                    /\ files[f].refcount = 0
                    /\ files' = [files EXCEPT ![f] = [refcount |-> 1, ptr |-> q, ends |-> ends]]
                    /\ tables' = [tables EXCEPT ![p][fd] = f]
               /\ pipes' = [pipes EXCEPT ![q] = pipe]
               /\ UNCHANGED procs
            \/ /\ pipes' = [pipes EXCEPT ![q] = kpipe_close(pipe, rd, wr)]
               /\ procs' = Unblock(procs, WokenByClose(pipe, rd, wr))
               /\ UNCHANGED <<files, tables>>
  <2>1. Found(name) \subseteq Pipes
    BY DEF Found, Linked
  <2>2. QED
    BY <1>3, <2>1 DEF pipe_open, FoundOrNew
<1> q \in Pipes
  BY <1>5
<1>6. Openable(q, x)
  BY <1>1, <1>5, NewPipeFacts
<1>7. pipe \in PipeRec /\ SameBytes(pipe, pipes[q])
  BY <1>2, <1>5, <1>6, OpenedFacts DEF Openable, SameBytes
<1>8. rd \in Nat /\ wr \in Nat
  BY <1>5 DEF One
<1>9. kpipe_close(pipe, rd, wr) = NoPipe \/ SameBytes(kpipe_close(pipe, rd, wr), pipes[q])
  BY <1>7, <1>8, CloseKeepsBytes DEF SameBytes
<1>10. BytesStay
  BY <1>1, <1>5, <1>7, <1>9, OnePipeKeepsBytes
<1>11. FilesStay
  BY <1>1, <1>5 DEF FilesStay, Types
<1>12. CallsStay
  <2>1. ASSUME NEW f \in Files, tables' = [tables EXCEPT ![p][fd] = f], UNCHANGED procs PROVE CallsStay
    BY <1>1, <1>4, <2>1 DEF CallsStay, Types
  <2>2. ASSUME NEW W, procs' = Unblock(procs, W), UNCHANGED tables PROVE CallsStay
    <3>1. \A s \in Slots : /\ procs'[s].at = procs[s].at
                           /\ procs'[s].state = procs[s].state \/ procs[s].state = "BLOCKED"
      BY <1>1, <2>2, UnblockFacts DEF Types
    <3>2. QED
      BY <2>2, <3>1 DEF CallsStay
  <2>3. QED
    BY <1>5, <2>1, <2>2
<1>13. QED
  BY <1>4, <1>10, <1>11, <1>12 DEF Keeps

\* Nor does a new process.
LEMMA CreateKeeps ==
    ASSUME Inv, NEW p \in Slots, NEW child \in Slots, proc_create(p, child) PROVE Keeps
<1>1. Types
  BY DEF Inv
<1>2. /\ moved' = <<>> /\ UNCHANGED <<pipes, may>>
      /\ procs' = [procs EXCEPT ![child] = [NoProc EXCEPT !.state = "READY"]]
      /\ tables' = [tables EXCEPT ![child] = tables[p]]
      /\ files' = [f \in Files |-> file_ref(files[f], Dropped(p, Fds, f))]
  BY DEF proc_create, NoBytes
<1>3. procs'[child].at = None
  BY <1>1, <1>2 DEF Types, NoProc
<1>4. \A s \in Slots : s # child => procs'[s] = procs[s] /\ tables'[s] = tables[s]
  BY <1>1, <1>2 DEF Types
<1>5. CallsStay
  BY <1>3, <1>4 DEF CallsStay
<1>6. \A f \in Files : files'[f].ptr = files[f].ptr /\ files'[f].ends = files[f].ends
  BY <1>1, <1>2 DEF Types, FileRec, file_ref
<1>7. QED
  BY <1>2, <1>5, <1>6 DEF Keeps, BytesStay, FilesStay, SameBytes

\* No step that manages descriptors or processes changes the bytes in a pipe.
LEMMA ManageKeeps ==
    ASSUME Inv, NEW p \in Slots, Manage(p) PROVE Keeps
<1>1. ASSUME proc_exit(p) \/ proc_kill(p) PROVE Keeps
  BY <1>1, EndKeeps DEF proc_exit, proc_kill
<1>2. ASSUME NEW oldfd \in Fds, NEW newfd \in Fds, dup2(p, oldfd, newfd) PROVE Keeps
  BY <1>2, Dup2Keeps
<1>3. QED
  BY <1>1, <1>2, DetachKeeps, UnblockKeeps, CollectKeeps, CreateKeeps, CloseKeeps,
     UnlinkKeeps, OpenKeeps DEF Manage

-----------------------------------------------------------------------------
(* The steps of the channel *)

\* What PipeChannel calls ch and ends.
chan == [q \in Pipes |-> Contents(pipes[q])]
openEnds == [q \in Pipes |-> {e \in {"read", "write"} :
                                IF e = "read" THEN pipes[q].readers > 0 ELSE pipes[q].writers > 0}]

\* Descriptors name files in use, in the next state too.
LEMMA HeldFilesNext ==
    (Types /\ RefsExact => \A p \in Slots, fd \in Fds :
        tables[p][fd] # None => tables[p][fd] \in Files /\ files[tables[p][fd]].refcount > 0)'
<1>1. Types /\ RefsExact => \A p \in Slots, fd \in Fds :
         tables[p][fd] # None => tables[p][fd] \in Files /\ files[tables[p][fd]].refcount > 0
  BY HeldFiles
<1>2. QED
  BY <1>1, PTL

\* A call keeps its end over a step that moves no bytes.
LEMMA CallsKept ==
    ASSUME Inv, Inv', CallsHaveEnds, FilesStay, CallsStay
    PROVE  CallsHaveEnds'
<1> SUFFICES ASSUME NEW p \in Slots, procs'[p].state \in {"READY", "BLOCKED"}, procs'[p].at # None
             PROVE  HasEnd(p, procs[p].at.pipe, procs[p].at.op)'
  BY DEF CallsHaveEnds
<1>1. /\ procs[p].state \in {"READY", "BLOCKED"} /\ procs[p].at # None
      /\ procs[p].at = procs'[p].at /\ tables'[p] = tables[p]
  BY DEF CallsStay
<1>2. PICK fd \in Fds : /\ tables[p][fd] # None
                        /\ files[tables[p][fd]].ptr = procs[p].at.pipe
                        /\ procs[p].at.op \in files[tables[p][fd]].ends
  BY <1>1 DEF CallsHaveEnds, HasEnd
<1>3. PICK f \in Files : f = tables[p][fd] /\ files[f].refcount > 0
  BY <1>2, HeldFiles DEF Inv
<1>4. files'[f].refcount > 0
  BY <1>1, <1>2, <1>3, HeldFilesNext DEF Inv
<1>5. files'[f].ptr = files[f].ptr /\ files'[f].ends = files[f].ends
  BY <1>3, <1>4 DEF FilesStay
<1>6. QED
  BY <1>1, <1>2, <1>3, <1>5 DEF HasEnd

\* A step that moves no bytes opens and closes ends, and drops the bytes of freed pipes only.
LEMMA ReattachStep ==
    ASSUME RingExact, BytesStay, moved' = <<>>
    PROVE  Channel!Reattach /\ RingExact'
<1>1. Contents(NoPipe) = <<>>
  BY NoPipeFacts DEF Contents
<1>2. PICK Q : Q = {q \in Pipes : pipes'[q] = NoPipe}
  OBVIOUS
<1>3. openEnds' \in [Pipes -> SUBSET {"read", "write"}]
  BY DEF openEnds
<1>4. Q \in SUBSET {q \in Pipes : openEnds'[q] = {}}
  BY <1>2, NoPipeFacts DEF openEnds
<1>5. chan' = [q \in Pipes |-> IF q \in Q THEN <<>> ELSE chan[q]]
  <2>1. \A q \in Pipes : q \notin Q => Contents(pipes'[q]) = Contents(pipes[q])
    BY <1>2 DEF BytesStay, SameBytes, Contents
  <2>2. \A q \in Pipes : q \in Q => Contents(pipes'[q]) = <<>>
    BY <1>1, <1>2
  <2>3. QED
    BY <2>1, <2>2 DEF chan
<1>6. Channel!Reattach
  BY <1>3, <1>4, <1>5 DEF Channel!Reattach, chan, openEnds
<1>7. RingExact'
  <2>1. PIPE_CAP \in Nat \ {0}
    BY PipeAssumption
  <2>2. 0 = (0 + 0) % PIPE_CAP
    BY <2>1
  <2>3. QED
    BY <2>2, NoPipeFacts DEF RingExact, BytesStay, SameBytes
<1>8. QED
  BY <1>6, <1>7

\* Whoever has an end of a pipe is counted.
LEMMA EndIsCounted ==
    ASSUME CInv, NEW p \in Slots, NEW q \in Pipes, NEW op \in {"read", "write"}, HasEnd(p, q, op)
    PROVE  op \in openEnds[q]
<1>1. PICK fd \in Fds : /\ tables[p][fd] # None /\ files[tables[p][fd]].ptr = q
                        /\ op \in files[tables[p][fd]].ends
  BY DEF HasEnd
<1>2. tables[p][fd] \in OpenEnds(q, op)
  BY <1>1, HeldFiles DEF CInv, Inv, OpenEnds
<1>3. PICK n : n = Cardinality(OpenEnds(q, op))
  OBVIOUS
<1>4. n \in Nat /\ n # 0
  BY <1>2, <1>3, OpenEndsFinite
<1>5. IF op = "read" THEN pipes[q].readers = n ELSE pipes[q].writers = n
  BY <1>3 DEF CInv, Inv, EndsExact, ReleasedOnce
<1>6. QED
  BY <1>4, <1>5 DEF openEnds

\* The caller returns or sleeps in its call, and the others stay in theirs.
LEMMA CallsAfterTransfer ==
    ASSUME Types, CallsHaveEnds, NEW p \in Slots, NEW q \in Pipes, NEW op \in {"read", "write"},
           HasEnd(p, q, op), UNCHANGED <<files, tables>>,
           \/ \E W : Return(p, W)
           \/ \E call : call.op = op /\ call.pipe = q /\ Sleep(p, call)
    PROVE  CallsHaveEnds'
<1>1. \A s, c, e : HasEnd(s, c, e)' = HasEnd(s, c, e)
  BY DEF HasEnd
<1>2. ASSUME NEW W, Return(p, W) PROVE CallsHaveEnds'
  <2>1. PICK ps \in [Slots -> ProcRec] : ps = [procs EXCEPT ![p].at = None]
    BY DEF Types, ProcRec
  <2>2. procs' = Unblock(ps, W)
    BY <1>2, <2>1 DEF Return
  <2>3. \A s \in Slots :
           /\ procs'[s].at = ps[s].at
           /\ procs'[s].state = IF s \in W /\ ps[s].state = "BLOCKED" THEN "READY" ELSE ps[s].state
    BY <2>2, UnblockFacts
  <2>4. ps[p].at = None /\ \A s \in Slots : s # p => ps[s] = procs[s]
    BY <2>1 DEF Types, ProcRec
  <2>5. QED
    BY <1>1, <2>3, <2>4 DEF CallsHaveEnds
<1>3. ASSUME NEW call, call.op = op, call.pipe = q, Sleep(p, call) PROVE CallsHaveEnds'
  <2>1. procs'[p].at = call /\ \A s \in Slots : s # p => procs'[s] = procs[s]
    BY <1>3 DEF Sleep, Types
  <2>2. QED
    BY <1>1, <1>3, <2>1 DEF CallsHaveEnds
<1>4. QED
  BY <1>2, <1>3

\* kpipe_read takes bytes out of the channel, or nothing happens to it.
LEMMA ReadChannel ==
    ASSUME CInv, NEW p \in Slots, NEW q \in Pipes, HasEnd(p, q, "read"),
           NEW n \in Nat, n > 0, kpipe_read(p, q, n), UNCHANGED <<files, tables, may>>
    PROVE  Channel!Next /\ RingExact' /\ CallsHaveEnds'
<1>1. Types /\ CallsHaveEnds /\ RingExact
  BY DEF CInv, Inv
<1>2. PICK pipe \in PipeRec : pipe = pipes[q]
  BY <1>1 DEF Types
<1>3. pipe.size \in Nat /\ pipe.size =< PIPE_CAP /\ PIPE_CAP \in Nat
  BY PipeAssumption DEF PipeRec
<1>4. CallsHaveEnds'
  <2>1. \/ \E W : Return(p, W)
        \/ \E call : call.op = "read" /\ call.pipe = q /\ Sleep(p, call)
    BY DEF kpipe_read
  <2>2. QED
    BY <1>1, <2>1, CallsAfterTransfer
<1>5. CASE /\ pipe.size > 0
           /\ pipes' = [pipes EXCEPT ![q] = [Drain(pipe, Lesser(pipe.size, n)) EXCEPT !.writeq = Rest(@)]]
           /\ moved' = [i \in 1 .. Lesser(pipe.size, n) |-> pipe.buf[(pipe.r + i - 1) % PIPE_CAP]]
  <2>1. PICK k \in Nat : k = Lesser(pipe.size, n) /\ k =< pipe.size /\ k > 0
    BY <1>3, <1>5, LesserFacts
  <2>2. PICK x : x = [Drain(pipe, k) EXCEPT !.writeq = Rest(@)]
    OBVIOUS
  <2>3. Drained(pipe, k, x)
    BY <2>1, <2>2, DrainFacts
  <2>4. pipes' = [pipes EXCEPT ![q] = x]
    BY <1>5, <2>1, <2>2
  <2>5. pipes'[q] = x /\ \A c \in Pipes : c # q => pipes'[c] = pipes[c]
    BY <1>1, <2>4 DEF Types
  <2>6. Ring(pipe)
    BY <1>1, <1>2 DEF RingExact, Ring
  <2>7. Ring(x) /\ Contents(x) = SubSeq(Contents(pipe), k + 1, Len(Contents(pipe)))
    BY <2>1, <2>3, <2>6, DrainIsReceive
  <2>8. RingExact'
    BY <1>1, <2>5, <2>7 DEF RingExact, Ring
  <2>9. PICK s : s = Contents(pipe)
    OBVIOUS
  <2>10. s \in Seq(Bytes \cup {None}) /\ Len(s) = pipe.size
    BY <2>9, ContentsFacts DEF Holds
  <2>11. moved' = SubSeq(s, 1, k)
    <3>1. s = [i \in 1 .. pipe.size |-> pipe.buf[(pipe.r + i - 1) % PIPE_CAP]]
      BY <2>9 DEF Contents
    <3>2. moved' = [i \in 1 .. k |-> s[i]]
      BY <1>3, <1>5, <2>1, <3>1
    <3>3. SubSeq(s, 1, k) = [i \in 1 .. k |-> s[i]]
      BY <2>1
    <3>4. QED
      BY <3>2, <3>3
  <2>12. chan' = [chan EXCEPT ![q] = SubSeq(chan[q], k + 1, Len(chan[q]))]
    <3>1. \A c \in Pipes : chan[c] = Contents(pipes[c]) /\ chan'[c] = Contents(pipes'[c])
      BY DEF chan
    <3>2. chan'[q] = SubSeq(chan[q], k + 1, Len(chan[q])) /\ \A c \in Pipes : c # q => chan'[c] = chan[c]
      BY <1>2, <2>5, <2>7, <3>1
    <3>3. chan = [c \in Pipes |-> chan[c]] /\ chan' = [c \in Pipes |-> chan'[c]]
      BY DEF chan
    <3>4. QED
      BY <3>2, <3>3
  <2>13. k \in 1 .. Len(chan[q]) /\ chan[q] = s
    BY <1>2, <2>1, <2>9, <2>10 DEF chan
  <2>14. UNCHANGED openEnds
    BY <1>2, <2>3, <2>5 DEF openEnds, Drained
  <2>15. "read" \in openEnds[q]
    BY EndIsCounted
  <2>16. Channel!Receive(q)
    BY <2>11, <2>12, <2>13, <2>14, <2>15 DEF Channel!Receive, chan, openEnds
  <2>17. QED
    BY <1>4, <2>8, <2>16 DEF Channel!Next
<1>6. CASE moved' = <<>> /\ BytesStay
  BY <1>1, <1>4, <1>6, ReattachStep DEF Channel!Next
<1>7. CASE UNCHANGED pipes /\ moved' = <<>>
  BY <1>6, <1>7 DEF BytesStay, SameBytes
<1>8. CASE moved' = <<>> /\ pipes' = [pipes EXCEPT ![q] = [pipe EXCEPT !.readq = Append(pipe.readq, p)]]
  <2>1. PICK x : x = [pipe EXCEPT !.readq = Append(pipe.readq, p)]
    OBVIOUS
  <2>2. SameBytes(x, pipe)
    BY <2>1 DEF SameBytes, PipeRec
  <2>3. QED
    BY <1>1, <1>2, <1>6, <1>8, <2>1, <2>2, OnePipeKeepsBytes
<1>9. QED
  BY <1>2, <1>5, <1>7, <1>8 DEF kpipe_read

\* kpipe_write puts bytes into the channel, or nothing happens to it.
LEMMA WriteChannel ==
    ASSUME CInv, NEW p \in Slots, NEW q \in Pipes, HasEnd(p, q, "write"),
           NEW bytes \in Seq(Bytes), Len(bytes) > 0,
           kpipe_write(p, q, bytes), UNCHANGED <<files, tables, may>>
    PROVE  Channel!Next /\ RingExact' /\ CallsHaveEnds'
<1>1. Types /\ CallsHaveEnds /\ RingExact
  BY DEF CInv, Inv
<1>2. PICK pipe \in PipeRec : pipe = pipes[q]
  BY <1>1 DEF Types
<1>3. /\ pipe.size \in Nat /\ pipe.size =< PIPE_CAP /\ PIPE_CAP \in Nat
      /\ Room(pipe) = PIPE_CAP - pipe.size /\ Room(pipe) \in Nat /\ Len(bytes) \in Nat
  BY PipeAssumption DEF PipeRec, Room
<1>4. CallsHaveEnds'
  <2>1. \/ \E W : Return(p, W)
        \/ \E call : call.op = "write" /\ call.pipe = q /\ Sleep(p, call)
    BY DEF kpipe_write
  <2>2. QED
    BY <1>1, <2>1, CallsAfterTransfer
<1>5. CASE /\ pipe.readers > 0 /\ Room(pipe) > 0
           /\ moved' = SubSeq(bytes, 1, Lesser(Room(pipe), Len(bytes)))
           /\ pipes' = [pipes EXCEPT ![q] = [Fill(pipe, moved') EXCEPT !.readq = Rest(@)]]
  <2>1. PICK k \in Nat : /\ k = Lesser(Room(pipe), Len(bytes))
                         /\ k =< Room(pipe) /\ k =< Len(bytes) /\ k > 0
    BY <1>3, <1>5, LesserFacts
  <2>2. PICK part : part = SubSeq(bytes, 1, k)
    OBVIOUS
  <2>3. part \in Seq(Bytes) /\ Len(part) = k
    <3>1. \A i \in 1 .. k : i \in 1 .. Len(bytes)
      BY <1>3, <2>1
    <3>2. \A i \in 1 .. k : bytes[i] \in Bytes
      BY <3>1
    <3>3. part \in Seq(Bytes) /\ Len(part) = IF 1 =< k THEN k - 1 + 1 ELSE 0
      BY <1>3, <2>1, <2>2, <3>2, SubSeqProperties
    <3>4. QED
      BY <2>1, <3>3
  <2>4. PICK x : x = [Fill(pipe, part) EXCEPT !.readq = Rest(@)]
    OBVIOUS
  <2>5. Filled(pipe, part, x)
    BY <2>1, <2>3, <2>4, FillFacts
  <2>6. pipes' = [pipes EXCEPT ![q] = x] /\ moved' = part
    BY <1>5, <2>1, <2>2, <2>4
  <2>7. pipes'[q] = x /\ \A c \in Pipes : c # q => pipes'[c] = pipes[c]
    BY <1>1, <2>6 DEF Types
  <2>8. Ring(pipe)
    BY <1>1, <1>2 DEF RingExact, Ring
  <2>9. Ring(x) /\ Contents(x) = Contents(pipe) \o part
    BY <1>3, <2>1, <2>3, <2>5, <2>8, FillIsSend
  <2>10. RingExact'
    BY <1>1, <2>7, <2>9 DEF RingExact, Ring
  <2>11. chan' = [chan EXCEPT ![q] = chan[q] \o part]
    <3>1. \A c \in Pipes : chan[c] = Contents(pipes[c]) /\ chan'[c] = Contents(pipes'[c])
      BY DEF chan
    <3>2. chan'[q] = chan[q] \o part /\ \A c \in Pipes : c # q => chan'[c] = chan[c]
      BY <1>2, <2>7, <2>9, <3>1
    <3>3. chan = [c \in Pipes |-> chan[c]] /\ chan' = [c \in Pipes |-> chan'[c]]
      BY DEF chan
    <3>4. QED
      BY <3>2, <3>3
  <2>12. k \in 1 .. PIPE_CAP - Len(chan[q])
    <3>1. chan[q] = Contents(pipe)
      BY <1>2 DEF chan
    <3>2. Len(chan[q]) = pipe.size
      BY <3>1, ContentsFacts DEF Holds
    <3>3. QED
      BY <1>3, <2>1, <3>2
  <2>13. part \in [1 .. k -> Bytes]
    BY <2>3
  <2>14. UNCHANGED openEnds
    BY <1>2, <2>5, <2>7 DEF openEnds, Filled
  <2>15. openEnds[q] = {"read", "write"}
    <3>1. "write" \in openEnds[q]
      BY EndIsCounted
    <3>2. "read" \in openEnds[q] /\ openEnds[q] \in SUBSET {"read", "write"}
      BY <1>2, <1>5 DEF openEnds
    <3>3. QED
      BY <3>1, <3>2
  <2>16. Channel!Send(q)
    BY <2>6, <2>11, <2>12, <2>13, <2>14, <2>15 DEF Channel!Send, chan, openEnds
  <2>17. QED
    BY <1>4, <2>10, <2>16 DEF Channel!Next
<1>6. CASE moved' = <<>> /\ BytesStay
  BY <1>1, <1>4, <1>6, ReattachStep DEF Channel!Next
<1>7. CASE UNCHANGED pipes /\ moved' = <<>>
  BY <1>6, <1>7 DEF BytesStay, SameBytes
<1>8. CASE moved' = <<>> /\ pipes' = [pipes EXCEPT ![q] = [pipe EXCEPT !.writeq = Append(pipe.writeq, p)]]
  <2>1. PICK x : x = [pipe EXCEPT !.writeq = Append(pipe.writeq, p)]
    OBVIOUS
  <2>2. SameBytes(x, pipe)
    BY <2>1 DEF SameBytes, PipeRec
  <2>3. QED
    BY <1>1, <1>2, <1>6, <1>8, <2>1, <2>2, OnePipeKeepsBytes
<1>9. QED
  BY <1>2, <1>5, <1>7, <1>8 DEF kpipe_write

\* read, write and a call that goes on.
LEMMA TransferChannel ==
    ASSUME CInv, NEW p \in Slots, Transfer(p)
    PROVE  Channel!Next /\ RingExact' /\ CallsHaveEnds' /\ UNCHANGED may
<1>1. Types /\ Vacant /\ RefsExact /\ Bounds
  BY DEF CInv, Inv
<1>2. \A n \in Sizes : n \in Nat /\ n > 0
  BY PipeAssumption DEF Sizes
<1>3. \A bytes \in Chunks : bytes \in Seq(Bytes) /\ Len(bytes) > 0
  <2> TAKE bytes \in Chunks
  <2>1. PICK n \in Sizes : bytes \in [1 .. n -> SomeBytes]
    BY DEF Chunks
  <2>2. SomeBytes \subseteq Bytes
    BY PipeAssumption DEF SomeBytes
  <2>3. bytes \in [1 .. n -> Bytes] /\ n \in Nat /\ n > 0
    BY <1>2, <2>1, <2>2
  <2>4. bytes \in Seq(Bytes) /\ Len(bytes) = n
    BY <2>3
  <2>5. QED
    BY <2>3, <2>4
<1>4. ASSUME NEW fd \in Fds, tables[p][fd] # None
      PROVE  files[tables[p][fd]].ptr \in Pipes
  BY <1>1, <1>4, HeldFiles DEF Vacant
<1>5. ASSUME NEW fd \in Fds, read(p, fd)
      PROVE  Channel!Next /\ RingExact' /\ CallsHaveEnds' /\ UNCHANGED may
  <2>1. PICK q \in Pipes, n \in Sizes : q = files[tables[p][fd]].ptr /\ kpipe_read(p, q, n)
    BY <1>4, <1>5 DEF read
  <2>2. HasEnd(p, q, "read") /\ UNCHANGED <<files, tables, may>>
    BY <1>5, <2>1 DEF read, HasEnd
  <2>3. QED
    BY <1>2, <2>1, <2>2, ReadChannel
<1>6. ASSUME NEW fd \in Fds, write(p, fd)
      PROVE  Channel!Next /\ RingExact' /\ CallsHaveEnds' /\ UNCHANGED may
  <2>1. PICK q \in Pipes, bytes \in Chunks : q = files[tables[p][fd]].ptr /\ kpipe_write(p, q, bytes)
    BY <1>4, <1>6 DEF write
  <2>2. HasEnd(p, q, "write") /\ UNCHANGED <<files, tables, may>>
    BY <1>6, <2>1 DEF write, HasEnd
  <2>3. QED
    BY <1>3, <2>1, <2>2, WriteChannel
<1>7. ASSUME Resumes(p)
      PROVE  Channel!Next /\ RingExact' /\ CallsHaveEnds' /\ UNCHANGED may
  <2>1. PICK call \in Calls : call = procs[p].at
    BY <1>1, <1>7 DEF Resumes, Types, ProcRec
  <2>2. call.pipe \in Pipes /\ call.n \in Nat /\ call.bytes \in Seq(Bytes)
    BY DEF Calls
  <2>3. procs[p].state = "READY" /\ procs[p].at # None /\ UNCHANGED <<files, tables, may>>
    BY <1>7 DEF Resumes, Runs
  <2>4. HasEnd(p, call.pipe, call.op)
    BY <2>1, <2>3 DEF CInv, CallsHaveEnds
  <2>5. CASE call.op = "read" /\ kpipe_read(p, call.pipe, call.n)
    <3>1. call.n > 0
      BY <1>1, <2>1, <2>3, <2>5 DEF Bounds
    <3>2. QED
      BY <2>2, <2>3, <2>4, <2>5, <3>1, ReadChannel
  <2>6. CASE call.op = "write" /\ kpipe_write(p, call.pipe, call.bytes)
    <3>1. Len(call.bytes) > 0
      BY <1>1, <2>1, <2>3, <2>6 DEF Bounds
    <3>2. QED
      BY <2>2, <2>3, <2>4, <2>6, <3>1, WriteChannel
  <2>7. QED
    BY <1>7, <2>1, <2>5, <2>6 DEF Resumes
<1>8. QED
  BY <1>5, <1>6, <1>7 DEF Transfer

-----------------------------------------------------------------------------
(* The refinement *)

\* Pipes without ends are empty channels.
LEMMA InitChannel == Init /\ ReleasedOnce => CInv /\ Channel!Init
<1> SUFFICES ASSUME Init, ReleasedOnce PROVE CInv /\ Channel!Init
  OBVIOUS
<1>1. Inv
  BY InitInv
<1>2. pipes = [q \in Pipes |-> NoPipe] /\ \A s \in Slots : procs[s].at = None
  BY DEF Init, NoProc
<1>3. CallsHaveEnds
  BY <1>2 DEF CallsHaveEnds
<1>4. RingExact
  <2>1. PIPE_CAP \in Nat \ {0}
    BY PipeAssumption
  <2>2. 0 = (0 + 0) % PIPE_CAP
    BY <2>1
  <2>3. QED
    BY <1>2, <2>2, NoPipeFacts DEF RingExact
<1>5. Contents(NoPipe) = <<>>
  BY NoPipeFacts DEF Contents
<1>6. Channel!Init
  BY <1>2, <1>5, NoPipeFacts DEF Init, Channel!Init
<1>7. QED
  BY <1>1, <1>3, <1>4, <1>6 DEF CInv

\* Every step is a step of the channels, or none.
LEMMA NextChannel == CInv /\ [Next]_vars => CInv' /\ [Channel!Next]_(Channel!vars)
<1> SUFFICES ASSUME CInv, [Next]_vars PROVE CInv' /\ [Channel!Next]_(Channel!vars)
  OBVIOUS
<1>1. Inv'
  BY NextInv DEF CInv
<1>2. CASE UNCHANGED vars
  <2>1. UNCHANGED <<pipes, files, tables, procs, moved, may>>
    BY <1>2 DEF vars
  <2>2. CInv'
    BY <1>1, <2>1 DEF CInv, CallsHaveEnds, HasEnd, RingExact, ReleasedOnce
  <2>3. UNCHANGED <<chan, openEnds, moved>>
    BY <2>1 DEF chan, openEnds
  <2>4. UNCHANGED Channel!vars
    BY <2>3 DEF Channel!vars, chan, openEnds
  <2>5. QED
    BY <2>2, <2>4
<1>3. ASSUME NEW p \in Slots, Transfer(p) PROVE CInv' /\ Channel!Next
  BY <1>1, <1>3, TransferChannel DEF CInv, ReleasedOnce
<1>4. ASSUME NEW p \in Slots, Manage(p) PROVE CInv' /\ Channel!Next
  <2>1. Keeps
    BY <1>4, ManageKeeps DEF CInv
  <2>2. CallsHaveEnds'
    BY <1>1, <2>1, CallsKept DEF CInv, Keeps
  <2>3. Channel!Reattach /\ RingExact'
    BY <2>1, ReattachStep DEF CInv, Keeps
  <2>4. QED
    BY <1>1, <2>1, <2>2, <2>3 DEF CInv, Keeps, ReleasedOnce, Channel!Next
<1>5. QED
  BY <1>2, <1>3, <1>4 DEF Next

\* The ring buffer of kpipe_read and kpipe_write delivers the bytes in the order in which they
\* were written, loses none while the pipe has an end and makes none up, whoever opens,
\* duplicates, inherits, closes, exits or is killed in between.
THEOREM DeliversInOrder == Spec /\ ReleasedOnce => ImplementsChannel
<1>1. Init /\ ReleasedOnce => CInv /\ Channel!Init
  BY InitChannel
<1>2. CInv /\ [Next]_vars => CInv' /\ [Channel!Next]_(Channel!vars)
  BY NextChannel
<1>3. QED
  BY <1>1, <1>2, PTL DEF Spec, ImplementsChannel, Channel!Spec
=============================================================================
