----------------------------- MODULE Semaphore ------------------------------
(***************************************************************************)
(* Named semaphores: Kernel/ipc/semaphore.c and the handle table that      *)
(* Kernel/sys/syscalls.c keeps in front of it.                             *)
(*                                                                         *)
(*   sems     the ksem_t objects: memory in use or not, name, count,       *)
(*            refcount, unlinked, and the queue of waiting processes       *)
(*   handles  sem_handles[]: the semaphore and the owner of each handle    *)
(*   procs    per slot of the process table: pid (0: no process), whether  *)
(*            it is READY or BLOCKED, and the semaphore inside whose       *)
(*            ksem_wait it is (at), or None                                *)
(*   next_pid the next pid                                                 *)
(*   due      history: units that were put into each semaphore (initial    *)
(*            count and posts) and not yet taken by a wait that returned   *)
(*   may      which scenarios may happen, an element of Situations         *)
(*                                                                         *)
(* Each system call is one step, up to the sched_force_yield of ksem_wait: *)
(* interrupts are disabled, so sem_creation_lock and the spinlocks are     *)
(* always found free and the second search of ksem_open finds what the     *)
(* first one found.  A waiter is a pointer to a slot, and the slot may     *)
(* belong to somebody else by the time the pointer is used.                *)
(***************************************************************************)
EXTENDS Queues

CONSTANTS
    Slots,       \* slots of the process table
    Sems,        \* addresses that mm_malloc can return for a ksem_t
    Names,       \* semaphore names
    None,        \* NULL
    HANDLE_MAX,  \* KSEM_HANDLE_MAX
    CountBound,  \* bound: nobody posts to a semaphore whose count has reached it
    ProcBound,   \* bound: the processes that may live at a time, but for a "crowd"
    PidBound,    \* bound: no process is created once next_pid exceeds it
    QueueBound,  \* bound: nobody is unblocked inside ksem_wait while the queues of all
                 \* semaphores hold more than that many waiters, stale ones included
    Situations   \* for each way of using the system: the set of the
                 \* scenarios below that may happen in it

\* "kill"          proc_kill ends a process
\* "parent_dies"   a process dies with its parent, in detach_children
\* "unblock"       proc_unblock is called for a process inside ksem_wait
\* "shared_handle" a process uses a handle that another one opened
\* "no_memory"     mm_malloc fails for a ksem_t or for a waiter
\* "crowd"         more than ProcBound processes at a time
AllScenarios == {"kill", "parent_dies", "unblock", "shared_handle", "no_memory", "crowd"}

ASSUME SemAssumption ==
    /\ IsFiniteSet(Slots) /\ IsFiniteSet(Sems)
    /\ None \notin Sems \cup Names
    /\ HANDLE_MAX \in Nat /\ CountBound \in Nat /\ ProcBound \in Nat
    /\ PidBound \in Nat
    /\ QueueBound \in Nat
    /\ Situations \subseteq SUBSET AllScenarios

VARIABLES sems, handles, procs, next_pid, due, may

vars == <<sems, handles, procs, next_pid, due, may>>

Handles == 1 .. HANDLE_MAX

-----------------------------------------------------------------------------
Freed == [used |-> FALSE, name |-> None, count |-> 0, refcount |-> 0,
          unlinked |-> FALSE, waiters |-> <<>>]
NoHandle == [sem |-> None, owner |-> 0]
NoProc == [pid |-> 0, state |-> "READY", at |-> None]

Live == {p \in Slots : procs[p].pid # 0}
CanRun(p) == procs[p].pid # 0 /\ procs[p].state = "READY"
InUserland(p) == CanRun(p) /\ procs[p].at = None

\* The semaphore that a name leads to: sem_buckets holds those not unlinked.
Linked == {s \in Sems : sems[s].used /\ ~sems[s].unlinked}
Found(name) == {s \in Linked : sems[s].name = name}

Waiting(s, p) == \E i \in DOMAIN sems[s].waiters : sems[s].waiters[i] = p

\* Faulty variant of wait_queue_push: last come, first served.
wait_queue_push_front(q, p) == <<p>> \o q

wait_queue_push(q, p) == Append(q, p)

\* wait_queue_remove_proc: the queue q without the entries of p, in its order.
wait_queue_remove_proc(q, p) == Filter(q, Slots \ {p})

\* Faulty variant: nobody looks whether somebody still waits.
sem_ready_to_destroy_busy(sem) == sem.unlinked /\ sem.refcount = 0

sem_ready_to_destroy(sem) == sem.unlinked /\ sem.refcount = 0 /\ sem.waiters = <<>>

\* Faulty variant of ksem_close: no reference is given back.
ksem_close_keeps(sem, n) == sem

\* n calls of ksem_close, the last of which may free the semaphore.
ksem_close(sem, n) ==
    LET closed == [sem EXCEPT !.refcount = IF n < @ THEN @ - n ELSE 0]
    IN  IF n = 0 \/ sem.refcount = 0 THEN sem
        ELSE IF sem_ready_to_destroy(closed) THEN Freed ELSE closed

\* The handles that a process may pass to a system call: any number works, for
\* sem_handle_peek does not look at the owner.
Usable(p) ==
    {h \in Handles : /\ handles[h].sem # None
                     /\ handles[h].owner = procs[p].pid \/ "shared_handle" \in may}

-----------------------------------------------------------------------------
\* The first process is running and no semaphore exists.
Init ==
    /\ sems = [s \in Sems |-> Freed]
    /\ handles = [h \in Handles |-> NoHandle]
    /\ \E p \in Slots : procs = [q \in Slots |-> IF q = p THEN [NoProc EXCEPT !.pid = 1]
                                                 ELSE NoProc]
    /\ next_pid = 2
    /\ due = [s \in Sems |-> 0]
    /\ may \in Situations

\* sys_sem_open: find or create, then take the first free handle.  With the
\* table full the reference is given back; without memory nothing happens.
sem_open(p, name, init) ==
    LET free == {h \in Handles : handles[h].sem = None}
        h == CHOOSE x \in free : \A y \in free : x =< y
        Attach(s, sem) ==
            IF free = {}
            THEN sems' = [sems EXCEPT ![s] = ksem_close(sem, 1)] /\ UNCHANGED handles
            ELSE /\ sems' = [sems EXCEPT ![s] = sem]
                 /\ handles' = [handles EXCEPT ![h] = [sem |-> s, owner |-> procs[p].pid]]
    IN  /\ InUserland(p)
        /\ \/ \E s \in Found(name) :
                /\ Attach(s, [sems[s] EXCEPT !.refcount = @ + 1])
                /\ UNCHANGED due
           \/ \E s \in Sems :
                /\ Found(name) = {}
                /\ ~sems[s].used
                /\ Attach(s, [Freed EXCEPT !.used = TRUE, !.name = name,
                                           !.count = init, !.refcount = 1])
                /\ due' = [due EXCEPT ![s] = init]
           \/ /\ "no_memory" \in may
              /\ Found(name) = {}
              /\ UNCHANGED <<sems, handles, due>>
        /\ UNCHANGED <<procs, next_pid, may>>

HasUnit(s) == sems[s].count > 0

\* ksem_wait with a unit at hand; with none, up to sched_force_yield; and without
\* memory for its waiter, which it takes first: it returns -1 at once.
sem_wait(p, h) ==
    LET s == handles[h].sem
    IN  /\ InUserland(p)
        /\ h \in Usable(p)
        /\ \/ /\ HasUnit(s)
              /\ sems' = [sems EXCEPT ![s].count = @ - 1]
              /\ due' = [due EXCEPT ![s] = @ - 1]
              /\ UNCHANGED procs
           \/ /\ ~HasUnit(s)
              /\ sems' = [sems EXCEPT ![s].waiters = wait_queue_push(@, p)]
              /\ procs' = [procs EXCEPT ![p].state = "BLOCKED", ![p].at = s]
              /\ UNCHANGED due
           \/ "no_memory" \in may /\ UNCHANGED <<sems, procs, due>>
        /\ UNCHANGED <<handles, next_pid, may>>

\* The process has the CPU back and ksem_wait returns 0.
WaitReturns(p) ==
    /\ CanRun(p)
    /\ procs[p].at # None
    /\ procs' = [procs EXCEPT ![p].at = None]
    /\ due' = [due EXCEPT ![procs[p].at] = @ - 1]
    /\ UNCHANGED <<sems, handles, next_pid, may>>

\* Faulty variant of Wakes: proc_unblock is taken to fail always.
Wakes_never(s) == FALSE

\* proc_unblock succeeds for the first waiter of s.
Wakes(s) ==
    LET target == Head(sems[s].waiters)
    IN  sems[s].waiters # <<>> /\ procs[target].pid # 0 /\ procs[target].state = "BLOCKED"

\* Faulty variant of Posted: the count grows although the unit was handed over.
Posted_counts_twice(s) ==
    [sems[s] EXCEPT !.waiters = IF @ = <<>> THEN @ ELSE Tail(@), !.count = @ + 1]

\* ksem_post: the unit goes to the first waiter, or into the count if there is
\* none or if proc_unblock fails for it.
Posted(s) ==
    [sems[s] EXCEPT !.waiters = IF @ = <<>> THEN @ ELSE Tail(@),
                    !.count = IF Wakes(s) THEN @ ELSE @ + 1]

sem_post(p, h) ==
    LET s == handles[h].sem
    IN  /\ InUserland(p)
        /\ h \in Usable(p)
        /\ sems[s].count < CountBound
        /\ sems' = [sems EXCEPT ![s] = Posted(s)]
        /\ procs' = IF Wakes(s) THEN [procs EXCEPT ![Head(sems[s].waiters)].state = "READY"]
                    ELSE procs
        /\ due' = [due EXCEPT ![s] = @ + 1]
        /\ UNCHANGED <<handles, next_pid, may>>

sem_close(p, h) ==
    LET s == handles[h].sem
    IN  /\ InUserland(p)
        /\ h \in Usable(p)
        /\ sems' = [sems EXCEPT ![s] = ksem_close(@, 1)]
        /\ handles' = [handles EXCEPT ![h] = NoHandle]
        /\ due' = IF sems'[s].used THEN due ELSE [due EXCEPT ![s] = 0]
        /\ UNCHANGED <<procs, next_pid, may>>

sem_unlink(p, name) ==
    /\ InUserland(p)
    /\ \E s \in Found(name) :
        LET sem == [sems[s] EXCEPT !.unlinked = TRUE]
        IN  /\ sems' = [sems EXCEPT ![s] = IF sem_ready_to_destroy(sem) THEN Freed ELSE sem]
            /\ due' = IF sems'[s].used THEN due ELSE [due EXCEPT ![s] = 0]
    /\ UNCHANGED <<handles, procs, next_pid, may>>

-----------------------------------------------------------------------------
(* The life of processes, as far as it concerns semaphores *)

Create(p) ==
    /\ procs[p].pid = 0
    /\ \E q \in Slots : InUserland(q)
    /\ "crowd" \in may \/ Cardinality(Live) < ProcBound
    /\ next_pid =< PidBound
    /\ procs' = [procs EXCEPT ![p] = [NoProc EXCEPT !.pid = next_pid]]
    /\ next_pid' = next_pid + 1
    /\ UNCHANGED <<sems, handles, due, may>>

\* ksem_remove_waiters_for visits the buckets, so it misses unlinked semaphores.
ksem_remove_waiters_for(p) ==
    [s \in Sems |-> IF s \in Linked
                    THEN [sems[s] EXCEPT !.waiters = wait_queue_remove_proc(@, p)]
                    ELSE sems[s]]

\* The handles that a process has on a semaphore.
Owned(p, s) == {h \in Handles : handles[h].sem = s /\ handles[h].owner = procs[p].pid}

\* Faulty variant: the handles stay open.
sem_cleanup_process_handles_skipped(p) == handles

\* The handle table after every handle of the process was closed.
sem_cleanup_process_handles(p) ==
    [h \in Handles |-> IF handles[h].owner = procs[p].pid THEN NoHandle ELSE handles[h]]

Gone(P) == procs' = [q \in Slots |-> IF q \in P THEN NoProc ELSE procs[q]]

\* The processes of P that a post woke and whose ksem_wait has not returned yet:
\* if they die now, the unit dies with them.
Granted(P, s) == Cardinality({q \in P : procs[q].at = s /\ ~Waiting(s, q)})

\* kids are the children that detach_children ends together with p.
Kids(p) == IF "parent_dies" \in may THEN SUBSET (Live \ {p}) ELSE {{}}

proc_exit(p, kids) ==
    /\ InUserland(p)
    /\ sems' = [s \in Sems |-> ksem_close(ksem_remove_waiters_for(p)[s],
                                          Cardinality(Owned(p, s)))]
    /\ handles' = sem_cleanup_process_handles(p)
    /\ Gone({p} \cup kids)
    /\ due' = [s \in Sems |-> IF sems'[s].used THEN due[s] - Granted(kids, s) ELSE 0]
    /\ UNCHANGED <<next_pid, may>>

\* proc_kill takes the process out of the queues but leaves its handles open.
proc_kill(p, kids) ==
    /\ "kill" \in may
    /\ p \in Live
    /\ \E q \in Slots \ {p} : InUserland(q)
    /\ sems' = ksem_remove_waiters_for(p)
    /\ Gone({p} \cup kids)
    /\ due' = [s \in Sems |-> due[s] - Granted({p} \cup kids, s)]
    /\ UNCHANGED <<handles, next_pid, may>>

proc_unblock(p) ==
    /\ "unblock" \in may
    /\ p \in Live
    /\ procs[p].state = "BLOCKED"
    /\ Cardinality({w \in Sems \X (1 .. QueueBound + 1) : w[2] \in DOMAIN sems[w[1]].waiters})
        =< QueueBound
    /\ procs' = [procs EXCEPT ![p].state = "READY"]
    /\ UNCHANGED <<sems, handles, next_pid, due, may>>

Next ==
    \/ \E p \in Slots :
        \/ Create(p)
        \/ WaitReturns(p)
        \/ proc_unblock(p)
        \/ \E name \in Names : sem_unlink(p, name)
        \/ \E name \in Names, init \in 0 .. 1 : sem_open(p, name, init)
        \/ \E h \in Handles : sem_wait(p, h) \/ sem_post(p, h) \/ sem_close(p, h)
        \/ \E kids \in Kids(p) : proc_exit(p, kids) \/ proc_kill(p, kids)

Spec == Init /\ [][Next]_vars

-----------------------------------------------------------------------------
(* Properties *)

\* Units are neither made nor lost, and none is taken before it is there: what was
\* put into a semaphore and not taken yet is in its count, never below zero, or with
\* a process that a post has woken.  A process that proc_unblock wakes returns from
\* ksem_wait without a unit, the waiters of dead processes take units, and a handle
\* that is closed while another process waits through it can free the semaphore
\* under a process that was just woken.
UnitsConserved ==
    may \subseteq {"crowd", "no_memory"} =>
    \A s \in Sems : sems[s].used => /\ due[s] = sems[s].count + Granted(Live, s)
                                   /\ due[s] >= 0 /\ sems[s].count >= 0

SleepsOn(s, p) == Waiting(s, p) /\ procs[p].state = "BLOCKED" /\ procs[p].at = s

\* Nobody sleeps on a semaphore that has units to give, unless a process that died
\* or was unblocked has left its waiter in the queue, where a post is spent on it.
NoLostWakeup ==
    may \cap {"unblock", "kill", "parent_dies"} = {} =>
    \A s \in Sems, p \in Live : SleepsOn(s, p) => sems[s].count = 0

\* refcount counts the open handles, so that close and unlink free a semaphore
\* when the last handle goes: no handle is left pointing to freed memory, none
\* of the semaphores without a handle, a name or a waiter stays allocated.
RefcountExact ==
    /\ \A h \in Handles : handles[h].sem # None => sems[handles[h].sem].used
    /\ \A s \in Sems : sems[s].used =>
        /\ sems[s].refcount = Cardinality({h \in Handles : handles[h].sem = s})
        /\ sems[s].unlinked /\ sems[s].refcount = 0 => sems[s].waiters # <<>>

\* A post can reach whoever sleeps in ksem_wait: it stands in the queue of a
\* semaphore that is still in memory, whatever was killed, unblocked, unlinked or
\* closed meanwhile, through whose handle ever, and whoever had its slot before.
\* That somebody comes to post is up to the programs.
WaitersReachable ==
    \A p \in Live : procs[p].state = "BLOCKED" =>
        \E s \in Sems : sems[s].used /\ SleepsOn(s, p)

\* Handles are cleaned up with their process: each belongs to one that lives.
\* This is so for proc_exit only, not for proc_kill and detach_children.
HandlesHaveOwners ==
    may \cap {"kill", "parent_dies"} = {} =>
    \A h \in Handles : handles[h].sem # None => \E p \in Live : procs[p].pid = handles[h].owner
=============================================================================
