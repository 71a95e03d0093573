-------------------------------- MODULE Tty ---------------------------------
(***************************************************************************)
(* The terminal of Kernel/fs/tty.c, read through the descriptor of         *)
(* Kernel/fs/fd.c.  Bytes are counted, not told apart.                     *)
(*                                                                         *)
(*   size, eof  the bytes in the buffer, and the mark that Ctrl+D leaves   *)
(*   queue      the processes that wait, as pointers to their slots        *)
(*   fg         the process that fg_pid names, or None                     *)
(*   procs      per slot: FREE, READY or BLOCKED, and how many bytes the   *)
(*              tty_read that it is in was asked for (want, 0: in none)    *)
(*   may        which scenarios may happen, an element of Situations       *)
(*                                                                         *)
(* Keys arrive in the keyboard interrupt; a system call is one step up to  *)
(* its sched_force_yield.  Nobody takes a dead process out of the queue.   *)
(***************************************************************************)
EXTENDS Integers, Sequences

CONSTANTS
    Slots,           \* slots of the process table
    None,
    TTY_BUFFER_CAP,
    Chunk,           \* bound: the most bytes that a call of tty_read asks for
    QueueBound,      \* bound: no sleeper is killed or unblocked from outside once
                     \* more than that many waiters are queued, stale ones included
    Situations       \* for each way of using the system: the set of the
                     \* scenarios below that may happen in it

\* "kill"      a process that sleeps in tty_read is killed, by Ctrl+C say
\* "unblock"   proc_unblock is called for a process that sleeps in tty_read
\* "takeover"  the terminal passes to another process while its owner is inside
\*             tty_read
\* "no_memory" mm_malloc fails for a waiter
AllScenarios == {"kill", "unblock", "takeover", "no_memory"}

ASSUME TtyAssumption ==
    /\ None \notin Slots
    /\ TTY_BUFFER_CAP \in Nat \ {0} /\ Chunk \in Nat /\ QueueBound \in Nat
    /\ Situations \subseteq SUBSET AllScenarios

VARIABLES size, eof, queue, fg, procs, may

vars == <<size, eof, queue, fg, procs, may>>

NoProc == [state |-> "FREE", want |-> 0]
Live == {p \in Slots : procs[p].state # "FREE"}
Runs(p) == procs[p].state = "READY"
InUserland(p) == Runs(p) /\ procs[p].want = 0
Sleeps(p) == procs[p].state = "BLOCKED"

-----------------------------------------------------------------------------
\* The shell runs and owns the terminal.
Init ==
    /\ may \in Situations
    /\ size = 0 /\ eof = FALSE /\ queue = <<>>
    /\ \E p \in Slots :
        /\ fg = p
        /\ procs = [q \in Slots |-> IF q = p THEN [NoProc EXCEPT !.state = "READY"] ELSE NoProc]

Lesser(a, b) == IF a < b THEN a ELSE b

\* Faulty variant of enqueue_waiter: last come, first served.
enqueue_waiter_first(p) == queue' = <<p>> \o queue

enqueue_waiter(p) == queue' = Append(queue, p)

\* One turn of the loop of tty_read, which gives up without memory for its waiter.
tty_read(p, n) ==
    \/ /\ size > 0
       /\ size' = size - Lesser(size, n)
       /\ procs' = [procs EXCEPT ![p].want = 0]
       /\ UNCHANGED <<eof, queue>>
    \/ /\ size = 0 /\ eof
       /\ eof' = FALSE
       /\ procs' = [procs EXCEPT ![p].want = 0]
       /\ UNCHANGED <<size, queue>>
    \/ /\ size = 0 /\ ~eof
       /\ enqueue_waiter(p)
       /\ procs' = [procs EXCEPT ![p] = [state |-> "BLOCKED", want |-> n]]
       /\ UNCHANGED <<size, eof>>
    \/ /\ size = 0 /\ ~eof
       /\ "no_memory" \in may
       /\ procs' = [procs EXCEPT ![p].want = 0]
       /\ UNCHANGED <<size, eof, queue>>

tty_can_read(p) == fg = p

\* fd_tty_read: the others are turned away with E_BG_INPUT.
read(p, n) ==
    /\ InUserland(p)
    /\ tty_can_read(p)
    /\ tty_read(p, n)
    /\ UNCHANGED <<fg, may>>

\* The process has the CPU back after sched_force_yield and tries again.
Resumes(p) ==
    /\ Runs(p)
    /\ procs[p].want > 0
    /\ tty_read(p, procs[p].want)
    /\ UNCHANGED <<fg, may>>

\* Faulty variants of dequeue_waiter: nobody is woken, or the first one stays.
wake_first_never == UNCHANGED <<queue, procs>>
wake_first_keeps_node ==
    /\ procs' = IF queue # <<>> /\ Sleeps(Head(queue))
                THEN [procs EXCEPT ![Head(queue)].state = "READY"] ELSE procs
    /\ UNCHANGED queue

\* dequeue_waiter, then proc_unblock for the process that the slot belongs to now.
wake_first ==
    IF queue = <<>> THEN UNCHANGED <<queue, procs>>
    ELSE /\ queue' = Tail(queue)
         /\ procs' = IF Sleeps(Head(queue)) THEN [procs EXCEPT ![Head(queue)].state = "READY"]
                     ELSE procs

\* Faulty variant of Stored: the buffer grows past its end.
Stored_past_end == size + 1

\* A byte pushed into a full buffer takes the place of the oldest one.
Stored == IF size = TTY_BUFFER_CAP THEN size ELSE size + 1

\* tty_push_char for a character and for Ctrl+D.
tty_push_char ==
    /\ size' = Stored
    /\ wake_first
    /\ UNCHANGED <<eof, fg, may>>

CtrlD ==
    /\ eof' = TRUE
    /\ wake_first
    /\ UNCHANGED <<size, fg, may>>

-----------------------------------------------------------------------------
(* Processes and the terminal's owner *)

\* proc_create, in the background or in the foreground.
proc_create(p, child, foreground) ==
    /\ InUserland(p)
    /\ procs[child].state = "FREE"
    /\ procs' = [procs EXCEPT ![child].state = "READY"]
    /\ foreground /\ fg # None => procs[fg].want = 0 \/ "takeover" \in may
    /\ fg' = IF foreground THEN child ELSE fg
    /\ UNCHANGED <<size, eof, queue, may>>

\* proc_exit and proc_kill; what the owner leaves goes to its parent or to nobody.
Ends(p, heir) ==
    /\ heir \in (Live \ {p}) \cup {None}
    /\ procs' = [procs EXCEPT ![p] = NoProc]
    /\ fg' = IF fg = p THEN heir ELSE fg
    /\ UNCHANGED <<size, eof, queue, may>>

proc_exit(p, heir) == InUserland(p) /\ Ends(p, heir)

proc_kill(p, heir) ==
    /\ p \in Live
    /\ Sleeps(p) => "kill" \in may /\ Len(queue) =< QueueBound
    /\ Ends(p, heir)

proc_unblock(p) ==
    /\ "unblock" \in may
    /\ Sleeps(p)
    /\ Len(queue) =< QueueBound
    /\ procs' = [procs EXCEPT ![p].state = "READY"]
    /\ UNCHANGED <<size, eof, queue, fg, may>>

Next ==
    \/ tty_push_char \/ CtrlD
    \/ \E p \in Slots :
        \/ Resumes(p) \/ proc_unblock(p)
        \/ \E n \in 1 .. Chunk : read(p, n)
        \/ \E child \in Slots, foreground \in BOOLEAN : proc_create(p, child, foreground)
        \/ \E heir \in Slots \cup {None} : proc_exit(p, heir) \/ proc_kill(p, heir)

Spec == Init /\ [][Next]_vars

-----------------------------------------------------------------------------
(* Properties *)

\* Types; the buffer never holds more than TTY_BUFFER_CAP bytes.
TypeOK ==
    /\ size \in 0 .. TTY_BUFFER_CAP /\ eof \in BOOLEAN
    /\ queue \in Seq(Slots) /\ fg \in Slots \cup {None}
    /\ procs \in [Slots -> [state : {"FREE", "READY", "BLOCKED"}, want : 0 .. Chunk]]

\* Nobody sleeps in tty_read while there is something to read, unless another
\* reader that was woken for it has still to come.  A reader that is killed or
\* unblocked leaves its waiter behind, and a key can be spent on that.
NoLostWakeup ==
    may = {} /\ (size > 0 \/ eof) /\ (\E p \in Slots : Sleeps(p)) =>
        \E p \in Slots : Runs(p) /\ procs[p].want > 0

\* The first entry of p in the queue is the i-th.
Turn(i, p) == i \in DOMAIN queue /\ queue[i] = p /\ \A j \in 1 .. i - 1 : queue[j] # p

\* Nobody who sleeps in tty_read is forgotten or overtaken: it has its place in the
\* queue, each key that does not wake it brings it one nearer, and nothing else moves
\* it: no reader that comes later, none that is killed, unblocked or finds its slot
\* in the queue already, and no terminal that passes to somebody else.
ServedInTurn ==
    [][\A p \in Slots : Sleeps(p) /\ Sleeps(p)' =>
            \E i \in DOMAIN queue :
                /\ Turn(i, p)
                /\ IF tty_push_char \/ CtrlD THEN Turn(i - 1, p)' ELSE Turn(i, p)']_vars

\* Whatever is killed or unblocked meanwhile, a process that sleeps in tty_read
\* is woken after finitely many keys.
KeysReachReaders ==
    \A p \in Slots : ~(<>[](Sleeps(p)) /\ []<><<tty_push_char \/ CtrlD>>_vars)
=============================================================================
