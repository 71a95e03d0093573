------------------------------- MODULE Sched --------------------------------
(***************************************************************************)
(* The scheduler together with the calls of Kernel/process/proc.c that     *)
(* change who may run: one action per handler.  The caller of a system     *)
(* call is the process on the CPU; the timer and the keyboard interrupt    *)
(* at any time.  Which children a dying process takes along, and whom it   *)
(* wakes (its waiting parent, then the processes blocked at the other end  *)
(* of the pipes it held open), is decided by state kept elsewhere: here    *)
(* any children and any blocked processes in any order are allowed.  The   *)
(* death of the process on the CPU as somebody else's child is in module   *)
(* Proc.                                                                   *)
(***************************************************************************)
EXTENDS SchedCore

CONSTANT SelfNice  \* whether a program may change its own priority

ASSUME SelfNiceAssumption == SelfNice \in BOOLEAN

VARIABLE sched

-----------------------------------------------------------------------------
\* Every process system call starts by releasing the slots of the zombies.
\* The wake-ups this can cause are the step reap, which the code takes just
\* before such a call.
collect_zombies(s) ==
    [s EXCEPT !.pcb = [p \in Procs \cup {Idle} |->
        IF s.pcb[p].state = "EXITED" THEN [s.pcb[p] EXCEPT !.state = "FREE"]
                                     ELSE s.pcb[p]]]

Live(s) == {p \in Procs : s.pcb[p].state \in {"READY", "RUNNING", "BLOCKED"}}
Blocked(s) == {p \in Procs : s.pcb[p].state = "BLOCKED"}

NewPCB(prio) == [state |-> "FREE", priority |-> Clamp(prio), base_priority |-> Clamp(prio),
                 ticks_left |-> TIME_SLICE_TICKS, aging_ticks |-> 0]

\* proc_unblock on a process that is BLOCKED.
unblock(s, p) ==
    sched_enqueue([s EXCEPT !.pcb[p] = [@ EXCEPT !.state = "READY",
                                                 !.ticks_left = TIME_SLICE_TICKS,
                                                 !.aging_ticks = 0]], p)

\* proc_unblock on each process of the queue w, in the order of w.
wake(s, w) ==
    [s EXCEPT
       !.pcb = [p \in Procs \cup {Idle} |->
                  IF p \in Members(w)
                  THEN [s.pcb[p] EXCEPT !.state = "READY",
                                        !.ticks_left = TIME_SLICE_TICKS,
                                        !.aging_ticks = 0]
                  ELSE s.pcb[p]],
       !.ready = [i \in Prios |->
                  s.ready[i] \o Filter(w, {p \in Procs : s.pcb[p].priority = i})]]

Orders == {w \in UNION {[1 .. n -> Procs] : n \in 0 .. Cardinality(Procs)} :
              \A a, b \in DOMAIN w : w[a] = w[b] => a = b}

\* What dies, dies as in proc_kill and detach_children: out of its queue and EXITED.
bury(s, F) ==
    LET t == q_remove(s, F \cap Ready(s))
    IN  [t EXCEPT !.pcb = [p \in Procs \cup {Idle} |->
            IF p \in F THEN [s.pcb[p] EXCEPT !.state = "EXITED", !.ticks_left = 0]
                       ELSE s.pcb[p]]]

\* A call to proc_nice that gets past its two early returns.
renice(s, p, prio) ==
    LET wasRunning == s.pcb[p].state = "RUNNING" /\ p = s.current
        wasReady == s.pcb[p].state = "READY"
        t == [s EXCEPT !.pcb[p] = [@ EXCEPT !.base_priority = prio,
                                            !.aging_ticks = 0,
                                            !.state = IF wasRunning THEN "READY"
                                                      ELSE s.pcb[p].state]]
        u == IF wasReady \/ wasRunning THEN sched_remove(t, p) ELSE t
        v == [u EXCEPT !.pcb[p].priority = prio]
        w == IF wasReady \/ wasRunning THEN sched_enqueue(v, p) ELSE v
    IN  IF wasRunning THEN sched_force_yield(w) ELSE w

-----------------------------------------------------------------------------
Init == sched = sched_init

\* A process other than idle is on the CPU and can make a system call.
InUserland == sched.enabled /\ sched.cpu # Idle

\* main() creates the shell while idle is current, then starts the scheduler.
BootShell(p) ==
    /\ ~sched.enabled
    /\ \A q \in Procs : sched.pcb[q].state = "FREE"
    /\ sched' = sched_enqueue([sched EXCEPT !.pcb[p] = NewPCB(DEFAULT_PRIO)], p)

sched_start ==
    /\ ~sched.enabled
    /\ \E q \in Procs : sched.pcb[q].state # "FREE"
    /\ sched' = [sched EXCEPT !.enabled = TRUE]

Tick == sched' = schedule(sched)

sys_yield ==
    /\ InUserland
    /\ sched' = sched_force_yield(sched)

proc_create(p, prio) ==
    LET s == collect_zombies(sched)
    IN  /\ InUserland
        /\ s.pcb[p].state = "FREE"
        /\ sched' = sched_enqueue([s EXCEPT !.pcb[p] = NewPCB(prio)], p)

\* Faulty variant of block: the sleeper is unhooked from the scheduler.
block_clears_current(s, p) ==
    [s EXCEPT !.current = IF p = @ THEN NULL ELSE @,
              !.pcb[p] = [@ EXCEPT !.state = "BLOCKED", !.ticks_left = 0]]

\* The state change of proc_block and of every handler that goes to sleep.
block(s, p) == [s EXCEPT !.pcb[p] = [@ EXCEPT !.state = "BLOCKED", !.ticks_left = 0]]

\* Faulty variant: the process that blocks itself keeps the CPU.
proc_block_keeps_cpu(p) ==
    /\ InUserland
    /\ p \in Live(sched) \ Blocked(sched)
    /\ sched' = block(sched, p)

proc_block(p) ==
    LET s == collect_zombies(sched)
    IN  /\ InUserland
        /\ p \in Live(s)
        /\ \/ p \in Blocked(s) /\ sched' = s
           \/ p \in Ready(s) /\ p # s.current /\ sched' = block(sched_remove(s, p), p)
           \/ p = s.current /\ sched' = sched_force_yield(block(s, p))

\* Called by a process, by a handler on its behalf, or by the keyboard interrupt.
proc_unblock(p) ==
    LET s == collect_zombies(sched)
    IN  /\ sched.enabled
        /\ \/ p \in Blocked(s) /\ sched' = unblock(s, p)
           \/ p \notin Blocked(s) /\ sched' = s

proc_nice(p, prio) ==
    LET s == collect_zombies(sched)
    IN  /\ InUserland
        /\ s.pcb[p].state # "FREE"
        /\ SelfNice \/ p # s.current
        /\ \/ s.pcb[p].priority = Clamp(prio) /\ sched' = s
           \/ s.pcb[p].priority # Clamp(prio) /\ sched' = renice(s, p, Clamp(prio))

\* A handler that finds nothing to do puts its caller to sleep: ksem_wait,
\* kpipe_read, kpipe_write, tty_read and proc_wait.
sleep ==
    /\ InUserland
    /\ sched.current # NULL
    /\ sched' = sched_force_yield(block(sched, sched.current))

\* proc_exit, also reached from proc_kill(current) and so from Ctrl+C.  It
\* buries, notifies the parent, closes the descriptors and passes the CPU on.
proc_exit(kids, woken) ==
    LET s == collect_zombies(sched)
        dead == {s.current} \cup kids
    IN  /\ s.enabled
        /\ s.current \notin {NULL, Idle}
        /\ kids \subseteq Live(s) \ {s.current}
        /\ Members(woken) \subseteq Blocked(s) \ dead
        /\ sched' = sched_force_yield(wake(bury(s, dead), woken))

proc_kill(p, kids, woken) ==
    LET s == collect_zombies(sched)
        dead == {p} \cup kids
    IN  /\ s.enabled
        /\ p \in Live(s)
        /\ kids \subseteq Live(s)
        /\ s.current \notin dead
        /\ Members(woken) \subseteq Blocked(s) \ dead
        /\ sched' = collect_zombies(wake(bury(s, dead), woken))

\* release_slot closes the descriptors of a child that died with its parent.
reap(woken) ==
    /\ sched.enabled
    /\ \E p \in Procs : sched.pcb[p].state = "EXITED"
    /\ Members(woken) \subseteq Blocked(sched)
    /\ sched' = wake(collect_zombies(sched), woken)

Next ==
    \/ Tick
    \/ sched_start
    \/ sys_yield
    \/ sleep
    \/ \E p \in Procs :
        \/ BootShell(p)
        \/ \E prio \in (MIN_PRIO - 1) .. (HIGHEST_PRIO + 1) : proc_create(p, prio)
        \/ proc_block(p)
        \/ proc_unblock(p)
        \/ \E kids \in SUBSET Procs, woken \in Orders : proc_kill(p, kids, woken)
    \/ \E p \in Procs \cup {Idle}, prio \in Prios : proc_nice(p, prio)
    \/ \E kids \in SUBSET Procs, woken \in Orders : proc_exit(kids, woken)
    \/ \E woken \in Orders : reap(woken)

Spec == Init /\ [][Next]_sched

\* The timer keeps interrupting, and main() reaches sched_start.  The second
\* conjunct is WF_sched(Tick) with ENABLED <<Tick>>_sched written out.
FairSpec ==
    /\ Spec
    /\ []<>(schedule(sched) = sched) \/ []<><<Tick>>_sched
    /\ <>(sched.enabled)

-----------------------------------------------------------------------------
(* Properties *)

\* Every field keeps its C range: priorities index ready_head, tick and aging
\* counters stay within their limits, queues hold processes.
TypeOK == sched \in SchedState

\* A process waits in a queue exactly when it is READY, in the queue of its
\* priority and nowhere else, once: q_remove, which searches that queue only,
\* always finds it, and q_push never links a node that is already linked.
QueuesHoldReady ==
    /\ QueueShape(sched)
    /\ Queued(sched) = Ready(sched)

\* RUNNING describes the process current points to and no other.
RunningIsCurrent ==
    \A p \in Procs : sched.pcb[p].state = "RUNNING" <=> sched.current = p

\* schedule() saves the interrupted registers in current->kframe: they must be
\* the registers of current.
CpuIsCurrent == sched.current # NULL => sched.cpu = sched.current

\* Aging raises a waiting process above its own priority, never below, and the
\* raise ends when the process gets the CPU.
AgingIsTemporary ==
    \A p \in Procs :
        /\ p \in Ready(sched) => sched.pcb[p].priority >= sched.pcb[p].base_priority
        /\ sched.current = p => sched.pcb[p].priority = sched.pcb[p].base_priority

\* The timer can always take the CPU away: schedule() gives up when current is
\* NULL, and nothing outside schedule() sets it again.
SchedulerAlive == sched.enabled => sched.current # NULL

\* Idle runs only for want of a READY process: a switch to idle leaves no queue
\* with a process in it.
IdleOnlyIfNothingReady ==
    [][(sched.current # Idle /\ sched'.current = Idle) => Ready(sched') = {}]_sched

\* Nobody waits for the CPU for ever: a process that stays READY is one whose
\* priority is set anew again and again, which puts it at the back of a queue
\* with no aging credit each time.
Reniced(p) ==
    \/ sched'.pcb[p].base_priority # sched.pcb[p].base_priority
    \/ sched'.pcb[p].priority < sched.pcb[p].priority

NoStarvation ==
    \A p \in Procs :
        ~(<>[](p \in Ready(sched)) /\ <>[][~Reniced(p)]_sched)

\* The scheduler implements ProcStates: a zombie counts as gone, and the CPU
\* belongs to current.
Abstract == INSTANCE ProcStates WITH
    state <- [p \in Procs |-> IF sched.pcb[p].state = "EXITED" THEN "FREE"
                              ELSE sched.pcb[p].state],
    running <- sched.current

ImplementsProcStates == Abstract!Spec
=============================================================================
