-------------------------------- MODULE Pipe --------------------------------
(***************************************************************************)
(* Named pipes: Kernel/ipc/pipe.c, seen through the descriptor tables of   *)
(* Kernel/fs/fd.c and the system calls of Kernel/sys/syscalls.c.           *)
(*                                                                         *)
(*   pipes   the kpipe_t objects: the ring buffer (buf, r, w, size), the   *)
(*           counts of ends and the two queues of waiting processes        *)
(*   files   the file_t objects: refcount, pipe, and the ends it stands for*)
(*   tables  the descriptor table of each slot of the process table        *)
(*   procs   per slot: FREE, READY, BLOCKED or EXITED (ended together with *)
(*           its parent and not yet collected), and the kpipe_read or      *)
(*           kpipe_write that it is in, or None                            *)
(*   moved   history: the bytes that the step just taken has copied        *)
(*           between a process and a ring buffer                           *)
(*   may     which scenarios may happen, an element of Situations          *)
(*                                                                         *)
(* A system call is one step up to its sched_force_yield: interrupts are   *)
(* disabled, so what kpipe_read and kpipe_write look at twice (before and  *)
(* after they allocate the waiter) is the same both times.  A waiter is a  *)
(* pointer to a slot; nobody takes it out of the queue when the process    *)
(* dies, and by the time it is used the slot may belong to another one.    *)
(***************************************************************************)
EXTENDS Integers, Sequences, FiniteSets

CONSTANTS
    Slots,      \* slots of the process table
    Pipes,      \* addresses that mm_malloc can return for a kpipe_t
    Files,      \* addresses that mm_malloc can return for a file_t
    FD_MAX,     \* descriptors in a table
    Names,      \* names of pipes
    Bytes,      \* what a byte can be
    PIPE_CAP,   \* size of the ring buffer
    Chunk,      \* bound: the most bytes that a call reads or writes
    QueueBound, \* bound: no sleeper is killed or unblocked from outside once its
                \* pipe has more waiters than that, stale ones included
    None,       \* NULL
    Situations  \* for each way of using the system: the set of the
                \* scenarios below that may happen in it

\* "kill"         proc_kill ends a process
\* "parent_dies"  a process dies with its parent, in detach_children
\* "unblock"      proc_unblock is called for a process inside a pipe
\* "both_ends"    a file is opened for reading and writing
\* "crowd"        there are more than two processes
\* "long_calls"   a call may read or write more than one byte, and bytes differ
\* "no_memory"    allocations may fail
\* and, in module Shell:
\* "long"         a command may print more than a pipe holds
AllScenarios ==
    {"kill", "parent_dies", "unblock", "both_ends", "crowd", "long_calls", "no_memory", "long"}

\* A call of kpipe_read (for n bytes) or of kpipe_write.
Calls == [op : {"read", "write"}, pipe : Pipes, n : Nat, bytes : Seq(Bytes)]

ASSUME PipeAssumption ==
    /\ IsFiniteSet(Slots) /\ IsFiniteSet(Pipes) /\ IsFiniteSet(Files)
    /\ None \notin Pipes \cup Files \cup Names \cup Bytes /\ None \notin Calls
    /\ Bytes # {}
    /\ FD_MAX \in Nat /\ PIPE_CAP \in Nat \ {0} /\ Chunk \in Nat /\ QueueBound \in Nat
    /\ Situations \subseteq SUBSET AllScenarios

VARIABLES pipes, files, tables, procs, moved, may

vars == <<pipes, files, tables, procs, moved, may>>

Fds == 0 .. FD_MAX - 1
Cells == 0 .. PIPE_CAP - 1

\* What a call is given: one byte, always the same, unless calls are long.
Sizes == IF "long_calls" \in may THEN 1 .. Chunk ELSE {1}
SomeBytes == IF "long_calls" \in may THEN Bytes ELSE {CHOOSE b \in Bytes : TRUE}
Chunks == UNION {[1 .. n -> SomeBytes] : n \in Sizes}
Ends == {{"read"}, {"write"}}
        \cup IF "both_ends" \in may THEN {{"read", "write"}} ELSE {}

-----------------------------------------------------------------------------
NoPipe == [used |-> FALSE, name |-> None, buf |-> [i \in Cells |-> None], r |-> 0,
           w |-> 0, size |-> 0, readers |-> 0, writers |-> 0, unlinked |-> FALSE,
           readq |-> <<>>, writeq |-> <<>>]
NoFile == [refcount |-> 0, ptr |-> None, ends |-> {}]
NoTable == [fd \in Fds |-> None]
NoProc == [state |-> "FREE", at |-> None]

Runs(p) == procs[p].state = "READY"
InUserland(p) == Runs(p) /\ procs[p].at = None

One(ends, e) == IF e \in ends THEN 1 ELSE 0
Less(a, b) == IF b < a THEN a - b ELSE 0

\* proc_unblock for the processes that slots of S belong to now.
Unblock(ps, S) ==
    [p \in Slots |-> IF p \in S /\ ps[p].state = "BLOCKED"
                     THEN [ps[p] EXCEPT !.state = "READY"] ELSE ps[p]]

First(q) == IF q = <<>> THEN {} ELSE {Head(q)}
Rest(q) == IF q = <<>> THEN q ELSE Tail(q)
InQueue(q) == {q[i] : i \in DOMAIN q}

-----------------------------------------------------------------------------
(* The ring buffer *)

\* Faulty variant of Fill: w is not wrapped by the bytes of this call.
Fill_no_wrap(pipe, bytes) ==
    LET n == Len(bytes)
    IN  [pipe EXCEPT !.buf = [i \in Cells |-> IF i - pipe.w \in 0 .. n - 1
                                              THEN bytes[i - pipe.w + 1] ELSE pipe.buf[i]],
                     !.w = (@ + n) % PIPE_CAP,
                     !.size = @ + n]

\* The pipe after bytes were copied in at w, and after n were taken from r.
Fill(pipe, bytes) ==
    LET n == Len(bytes)
        Offset(i) == (i - pipe.w + PIPE_CAP) % PIPE_CAP
    IN  [pipe EXCEPT !.buf = [i \in Cells |-> IF Offset(i) < n THEN bytes[Offset(i) + 1]
                                              ELSE pipe.buf[i]],
                     !.w = (@ + n) % PIPE_CAP,
                     !.size = @ + n]

Drain(pipe, n) == [pipe EXCEPT !.r = (@ + n) % PIPE_CAP, !.size = @ - n]

Contents(pipe) == [i \in 1 .. pipe.size |-> pipe.buf[(pipe.r + i - 1) % PIPE_CAP]]

-----------------------------------------------------------------------------
(* kpipe_open, kpipe_close and the descriptor tables *)

Linked == {q \in Pipes : pipes[q].used /\ ~pipes[q].unlinked}
Found(name) == {q \in Linked : pipes[q].name = name}

Opened(pipe, ends) ==
    [pipe EXCEPT !.readers = @ + One(ends, "read"), !.writers = @ + One(ends, "write")]

\* Calls of kpipe_close that take away rd read ends and wr write ends: when no
\* end of a kind is left, everybody who waits for the other side wakes up.
kpipe_close(pipe, rd, wr) ==
    LET readers == Less(pipe.readers, rd)
        writers == Less(pipe.writers, wr)
    IN  IF pipe.unlinked /\ readers = 0 /\ writers = 0 THEN NoPipe
        ELSE [pipe EXCEPT !.readers = readers, !.writers = writers,
                          !.readq = IF writers = 0 THEN <<>> ELSE @,
                          !.writeq = IF readers = 0 THEN <<>> ELSE @]

\* Faulty variant of WokenByClose: nobody is woken for end of file.
WokenByClose_writers_only(pipe, rd, wr) ==
    IF Less(pipe.readers, rd) = 0 THEN InQueue(pipe.writeq) ELSE {}

WokenByClose(pipe, rd, wr) ==
    (IF Less(pipe.writers, wr) = 0 THEN InQueue(pipe.readq) ELSE {})
        \cup IF Less(pipe.readers, rd) = 0 THEN InQueue(pipe.writeq) ELSE {}

\* file_release for each descriptor of F in the table of p.
Dropped(p, F, f) == Cardinality({fd \in F : tables[p][fd] = f})
Closing(p, F) ==
    {f \in Files : Dropped(p, F, f) > 0 /\ files[f].refcount =< Dropped(p, F, f)}
FilesAfter(p, F) ==
    [f \in Files |-> IF f \in Closing(p, F) THEN NoFile
                     ELSE [files[f] EXCEPT !.refcount = @ - Dropped(p, F, f)]]

\* How many files of S are an end of pipe q of kind e.
Count(S, q, e) == Cardinality({f \in S : files[f].ptr = q /\ e \in files[f].ends})
Touched(S) == {files[f].ptr : f \in S}

PipesAfter(S) ==
    [q \in Pipes |-> IF q \in Touched(S)
                     THEN kpipe_close(pipes[q], Count(S, q, "read"), Count(S, q, "write"))
                     ELSE pipes[q]]
WokenAfter(S) ==
    UNION {WokenByClose(pipes[q], Count(S, q, "read"), Count(S, q, "write")) : q \in Touched(S)}

-----------------------------------------------------------------------------
\* The first process runs and no pipe exists.
Init ==
    /\ pipes = [q \in Pipes |-> NoPipe]
    /\ files = [f \in Files |-> NoFile]
    /\ tables = [p \in Slots |-> NoTable]
    /\ moved = <<>>
    /\ may \in Situations
    /\ \E p \in Slots :
        procs = [s \in Slots |-> IF s = p THEN [NoProc EXCEPT !.state = "READY"] ELSE NoProc]

\* A call that copies no bytes.
NoBytes == moved' = <<>> /\ UNCHANGED may

\* sys_pipe_open: find or create the pipe, make a file for it and take the
\* first free descriptor.  With the table full the file is released, and so is
\* the end; without memory for a file the end is closed.
pipe_open(p, name, ends) ==
    LET fds == {fd \in Fds : tables[p][fd] = None}
        fd == CHOOSE x \in fds : \A y \in fds : x =< y
        rd == One(ends, "read")
        wr == One(ends, "write")
        Attach(q, pipe) ==
            \/ /\ fds # {}
               /\ \E f \in Files :
                    /\ files[f].refcount = 0
                    /\ files' = [files EXCEPT ![f] = [refcount |-> 1, ptr |-> q, ends |-> ends]]
                    /\ tables' = [tables EXCEPT ![p][fd] = f]
               /\ pipes' = [pipes EXCEPT ![q] = pipe]
               /\ UNCHANGED procs
            \/ /\ fds = {} \/ "no_memory" \in may \/ \A f \in Files : files[f].refcount # 0
               /\ pipes' = [pipes EXCEPT ![q] = kpipe_close(pipe, rd, wr)]
               /\ procs' = Unblock(procs, WokenByClose(pipe, rd, wr))
               /\ UNCHANGED <<files, tables>>
    IN  /\ InUserland(p)
        /\ NoBytes
        /\ \/ \E q \in Found(name) : Attach(q, Opened(pipes[q], ends))
           \/ \E q \in Pipes :
                /\ Found(name) = {}
                /\ ~pipes[q].used
                /\ Attach(q, Opened([NoPipe EXCEPT !.used = TRUE, !.name = name], ends))

\* fd_table_close.
close(p, fd) ==
    LET S == Closing(p, {fd})
    IN  /\ InUserland(p)
        /\ NoBytes
        /\ tables[p][fd] # None
        /\ tables' = [tables EXCEPT ![p][fd] = None]
        /\ files' = FilesAfter(p, {fd})
        /\ pipes' = PipesAfter(S)
        /\ procs' = Unblock(procs, WokenAfter(S))

\* Faulty variant of file_ref: the reference is forgotten.
file_ref_forgets(f, n) == f

\* The reference that fd_table_dup2 and fd_table_clone take.
file_ref(f, n) == [f EXCEPT !.refcount = @ + n]

\* fd_table_dup2 releases what newfd was before it takes the reference.
dup2(p, oldfd, newfd) ==
    LET src == tables[p][oldfd]
        S == Closing(p, {newfd})
    IN  /\ InUserland(p)
        /\ NoBytes
        /\ src # None
        /\ oldfd # newfd
        /\ tables' = [tables EXCEPT ![p][newfd] = src]
        /\ files' = [FilesAfter(p, {newfd}) EXCEPT ![src] = file_ref(@, 1)]
        /\ pipes' = PipesAfter(S)
        /\ procs' = Unblock(procs, WokenAfter(S))

\* kpipe_unlink.
pipe_unlink(p, name) ==
    /\ InUserland(p)
    /\ NoBytes
    /\ \E q \in Found(name) :
        pipes' = [pipes EXCEPT ![q] = IF @.readers = 0 /\ @.writers = 0 THEN NoPipe
                                      ELSE [@ EXCEPT !.unlinked = TRUE]]
    /\ UNCHANGED <<files, tables, procs>>

-----------------------------------------------------------------------------
(* kpipe_read and kpipe_write: one turn of their loop.  Who would have to   *)
(* sleep but has no memory for a node of the queue gets an error.           *)

Sleep(p, call) == procs' = [procs EXCEPT ![p] = [state |-> "BLOCKED", at |-> call]]
Return(p, woken) == procs' = Unblock([procs EXCEPT ![p].at = None], woken)

Lesser(a, b) == IF a < b THEN a ELSE b

\* Faulty variant of kpipe_read: the writers that wait for room are forgotten.
kpipe_read_wakes_nobody(p, q, n) ==
    LET pipe == pipes[q]
    IN  \/ /\ pipe.size > 0
           /\ pipes' = [pipes EXCEPT ![q] = Drain(pipe, Lesser(pipe.size, n))]
           /\ moved' = [i \in 1 .. Lesser(pipe.size, n) |-> pipe.buf[(pipe.r + i - 1) % PIPE_CAP]]
           /\ Return(p, {})
        \/ /\ pipe.size = 0 /\ (pipe.writers = 0 \/ "no_memory" \in may)
           /\ Return(p, {})
           /\ moved' = <<>>
           /\ UNCHANGED pipes
        \/ /\ pipe.size = 0 /\ pipe.writers > 0
           /\ pipes' = [pipes EXCEPT ![q].readq = Append(@, p)]
           /\ moved' = <<>>
           /\ Sleep(p, [op |-> "read", pipe |-> q, n |-> n, bytes |-> <<>>])

kpipe_read(p, q, n) ==
    LET pipe == pipes[q]
    IN  \/ /\ pipe.size > 0
           /\ pipes' = [pipes EXCEPT ![q] = [Drain(pipe, Lesser(pipe.size, n))
                                                EXCEPT !.writeq = Rest(@)]]
           /\ moved' = [i \in 1 .. Lesser(pipe.size, n) |-> pipe.buf[(pipe.r + i - 1) % PIPE_CAP]]
           /\ Return(p, First(pipe.writeq))
        \/ /\ pipe.size = 0 /\ (pipe.writers = 0 \/ "no_memory" \in may)
           /\ Return(p, {})
           /\ moved' = <<>>
           /\ UNCHANGED pipes
        \/ /\ pipe.size = 0 /\ pipe.writers > 0
           /\ pipes' = [pipes EXCEPT ![q].readq = Append(@, p)]
           /\ moved' = <<>>
           /\ Sleep(p, [op |-> "read", pipe |-> q, n |-> n, bytes |-> <<>>])

Room(pipe) == PIPE_CAP - pipe.size

kpipe_write(p, q, bytes) ==
    LET pipe == pipes[q]
        space == Room(pipe)
    IN  \/ /\ pipe.readers = 0 \/ (space = 0 /\ "no_memory" \in may)
           /\ Return(p, {})
           /\ moved' = <<>>
           /\ UNCHANGED pipes
        \/ /\ pipe.readers > 0 /\ space > 0
           /\ moved' = SubSeq(bytes, 1, Lesser(space, Len(bytes)))
           /\ pipes' = [pipes EXCEPT ![q] = [Fill(pipe, moved') EXCEPT !.readq = Rest(@)]]
           /\ Return(p, First(pipe.readq))
        \/ /\ pipe.readers > 0 /\ space = 0
           /\ pipes' = [pipes EXCEPT ![q].writeq = Append(@, p)]
           /\ moved' = <<>>
           /\ Sleep(p, [op |-> "write", pipe |-> q, n |-> 0, bytes |-> bytes])

read(p, fd) ==
    LET f == tables[p][fd]
    IN  /\ InUserland(p)
        /\ f # None
        /\ "read" \in files[f].ends
        /\ \E n \in Sizes : kpipe_read(p, files[f].ptr, n)
        /\ UNCHANGED <<files, tables, may>>

write(p, fd) ==
    LET f == tables[p][fd]
    IN  /\ InUserland(p)
        /\ f # None
        /\ "write" \in files[f].ends
        /\ \E bytes \in Chunks : kpipe_write(p, files[f].ptr, bytes)
        /\ UNCHANGED <<files, tables, may>>

\* The process has the CPU back after sched_force_yield and tries again.
Resumes(p) ==
    LET call == procs[p].at
    IN  /\ Runs(p)
        /\ call # None
        /\ \/ call.op = "read" /\ kpipe_read(p, call.pipe, call.n)
           \/ call.op = "write" /\ kpipe_write(p, call.pipe, call.bytes)
        /\ UNCHANGED <<files, tables, may>>

-----------------------------------------------------------------------------
(* The life of processes, as far as it concerns descriptors *)

\* proc_create: the child has its parent's descriptors (fd_table_clone).  Bound:
\* without "crowd" there are two processes at a time.
proc_create(p, child) ==
    /\ InUserland(p)
    /\ NoBytes
    /\ procs[child].state = "FREE"
    /\ "crowd" \in may \/ Cardinality({q \in Slots : procs[q].state # "FREE"}) < 2
    /\ procs' = [procs EXCEPT ![child] = [NoProc EXCEPT !.state = "READY"]]
    /\ tables' = [tables EXCEPT ![child] = tables[p]]
    /\ files' = [f \in Files |-> file_ref(files[f], Dropped(p, Fds, f))]
    /\ UNCHANGED pipes

\* fd_table_destroy as proc_exit and proc_kill make it: at once.
End(p) ==
    LET S == Closing(p, Fds)
    IN  /\ tables' = [tables EXCEPT ![p] = NoTable]
        /\ NoBytes
        /\ files' = FilesAfter(p, Fds)
        /\ pipes' = PipesAfter(S)
        /\ procs' = Unblock([procs EXCEPT ![p] = NoProc], WokenAfter(S))

\* The bound on queues: p is not asleep, or asleep in a queue that is short.
FewWaiters(p) ==
    procs[p].state = "BLOCKED" =>
        LET q == procs[p].at.pipe IN Len(pipes[q].readq) + Len(pipes[q].writeq) =< QueueBound

proc_exit(p) == InUserland(p) /\ End(p)

proc_kill(p) ==
    /\ "kill" \in may
    /\ procs[p].state \in {"READY", "BLOCKED"}
    /\ FewWaiters(p)
    /\ End(p)

\* detach_children leaves the descriptors to whoever collects the zombie.
detach_children(p) ==
    /\ "parent_dies" \in may
    /\ NoBytes
    /\ procs[p].state \in {"READY", "BLOCKED"}
    /\ FewWaiters(p)
    /\ procs' = [procs EXCEPT ![p].state = "EXITED"]
    /\ UNCHANGED <<pipes, files, tables>>

\* collect_zombies calls release_slot, which destroys the table.  If that closes
\* a pipe on which somebody waits, proc_unblock collects zombies again: a zombie
\* at the head of the list is released once more for each waiter, and the same
\* file is closed again.
collect_zombies(p, head) ==
    LET S == Closing(p, Fds)
        Upto(fd) == Closing(p, {x \in Fds : x =< fd})
        waking == {fd \in Fds : WokenAfter(Upto(fd)) # {}}
        fd0 == CHOOSE x \in waking : \A y \in waking : x =< y
        f == tables[p][fd0]
        q == files[f].ptr
        again == (IF Less(pipes[q].writers, Count(Upto(fd0), q, "write")) = 0
                  THEN Len(pipes[q].readq) ELSE 0)
                 + (IF Less(pipes[q].readers, Count(Upto(fd0), q, "read")) = 0
                    THEN Len(pipes[q].writeq) ELSE 0)
        rd == Count(S, q, "read") + again * One(files[f].ends, "read")
        wr == Count(S, q, "write") + again * One(files[f].ends, "write")
    IN  /\ procs[p].state = "EXITED"
        /\ NoBytes
        /\ tables' = [tables EXCEPT ![p] = NoTable]
        /\ files' = FilesAfter(p, Fds)
        /\ IF head /\ waking # {}
           THEN /\ pipes' = [PipesAfter(S) EXCEPT ![q] = kpipe_close(pipes[q], rd, wr)]
                /\ procs' = Unblock([procs EXCEPT ![p] = NoProc],
                                    WokenAfter(S) \cup WokenByClose(pipes[q], rd, wr))
           ELSE /\ pipes' = PipesAfter(S)
                /\ procs' = Unblock([procs EXCEPT ![p] = NoProc], WokenAfter(S))

proc_unblock(p) ==
    /\ "unblock" \in may
    /\ NoBytes
    /\ procs[p].state = "BLOCKED"
    /\ FewWaiters(p)
    /\ procs' = Unblock(procs, {p})
    /\ UNCHANGED <<pipes, files, tables>>

Transfer(p) == Resumes(p) \/ \E fd \in Fds : read(p, fd) \/ write(p, fd)

Manage(p) ==
    \/ proc_exit(p) \/ proc_kill(p) \/ detach_children(p) \/ proc_unblock(p)
    \/ \E head \in BOOLEAN : collect_zombies(p, head)
    \/ \E child \in Slots : proc_create(p, child)
    \/ \E fd \in Fds : close(p, fd)
    \/ \E oldfd, newfd \in Fds : dup2(p, oldfd, newfd)
    \/ \E name \in Names : pipe_unlink(p, name)
    \/ \E name \in Names, ends \in Ends : pipe_open(p, name, ends)

Next == \E p \in Slots : Transfer(p) \/ Manage(p)

Spec == Init /\ [][Next]_vars

-----------------------------------------------------------------------------
(* Properties *)

Holders(f) == {pf \in Slots \X Fds : tables[pf[1]][pf[2]] = f}
OpenEnds(q, e) == {f \in Files : files[f].ptr = q /\ e \in files[f].ends}

\* The counts are exact across dup2, proc_create, exit, kill and zombies that
\* are collected late: refcount counts the descriptors of a file, readers and
\* writers the files of a pipe.  So nobody reads or writes a pipe that was freed,
\* a pipe without a name and without ends is freed, and end of file and broken
\* pipe are reported when, and only when, the other side is gone.  This is not so
\* when a zombie that is released twice has a pipe open for reading and writing.
EndsExact ==
    ~({"parent_dies", "both_ends"} \subseteq may) =>
    /\ \A f \in Files : files[f].refcount = Cardinality(Holders(f))
    /\ \A q \in Pipes : /\ pipes[q].readers = Cardinality(OpenEnds(q, "read"))
                        /\ pipes[q].writers = Cardinality(OpenEnds(q, "write"))
                        /\ OpenEnds(q, "read") \cup OpenEnds(q, "write") # {} => pipes[q].used
                        /\ pipes[q].used /\ pipes[q].unlinked =>
                               OpenEnds(q, "read") \cup OpenEnds(q, "write") # {}

In(q, op) == {p \in Slots : procs[p].at # None /\ procs[p].at.op = op /\ procs[p].at.pipe = q}
Sleeping(q, op) == {p \in In(q, op) : procs[p].state = "BLOCKED"}
Woken(q, op) == {p \in In(q, op) : procs[p].state = "READY"}

\* Nobody waits for a side that is gone: whoever sleeps in kpipe_read has a
\* writer to wait for, whoever sleeps in kpipe_write a reader.
SomebodyToWaitFor ==
    \A q \in Pipes : /\ Sleeping(q, "read") # {} => pipes[q].writers > 0
                     /\ Sleeping(q, "write") # {} => pipes[q].readers > 0

\* kpipe_read sleeps only on an empty pipe and kpipe_write only on a full one: if
\* there are bytes (or is room) while somebody sleeps, another one that was woken
\* for them has still to come.  Processes that are killed or unblocked leave their
\* waiters behind, and these take wake-ups meant for others; and a call that moves
\* several bytes wakes one process only, where several could go on.
NoLostWakeup ==
    may \cap {"kill", "parent_dies", "unblock"} = {} /\ ~({"crowd", "long_calls"} \subseteq may) =>
    \A q \in Pipes :
        /\ Sleeping(q, "read") # {} /\ pipes[q].size > 0 => Woken(q, "read") # {}
        /\ Sleeping(q, "write") # {} /\ pipes[q].size < PIPE_CAP => Woken(q, "write") # {}

\* The ring buffers seen as channels.
Channel == INSTANCE PipeChannel WITH
    ch <- [q \in Pipes |-> Contents(pipes[q])],
    ends <- [q \in Pipes |-> {e \in {"read", "write"} :
                                IF e = "read" THEN pipes[q].readers > 0 ELSE pipes[q].writers > 0}]

\* The ring buffer is a channel that delivers in order, whoever reads, writes,
\* opens, closes, exits or is killed in between.
ImplementsChannel == Channel!Spec
=============================================================================
