------------------------------ MODULE SchedCore ------------------------------
(***************************************************************************)
(* The scheduler of the kernel, Kernel/process/sched.c, as operators on    *)
(* its state.  A scheduler state s is a record                             *)
(*                                                                         *)
(*   s.enabled   scheduler_enabled                                         *)
(*   s.current   the global pointer current, NULL when it is NULL          *)
(*   s.cpu       the process whose registers are loaded: what schedule()   *)
(*               last returned to irq_timer_handler                        *)
(*   s.ready     ready_head/ready_tail: one FIFO queue per priority        *)
(*   s.pcb       the fields of each pcb_t the scheduler reads or writes    *)
(*                                                                         *)
(* Every operation returns the state it leaves behind, so that a handler   *)
(* that makes several calls is their composition: the handlers run with    *)
(* interrupts disabled (interrupt gates, idtLoader.c) on one CPU.          *)
(***************************************************************************)
EXTENDS Queues

CONSTANTS
    Procs,             \* the slots of procs[], the idle process excepted
    Idle,              \* idle_proc
    NULL,              \* the null pointer
    MAX_PRIOS,
    TIME_SLICE_TICKS,
    AGING_THRESHOLD,
    DEFAULT_PRIO

ASSUME SchedAssumption ==
    /\ IsFiniteSet(Procs)
    /\ Idle \notin Procs
    /\ NULL \notin Procs \cup {Idle}
    /\ MAX_PRIOS \in Nat \ {0}
    /\ TIME_SLICE_TICKS \in Nat \ {0}
    /\ AGING_THRESHOLD \in Nat \ {0}
    /\ DEFAULT_PRIO \in 0 .. MAX_PRIOS - 1

MIN_PRIO == 0
HIGHEST_PRIO == MAX_PRIOS - 1
Prios == MIN_PRIO .. HIGHEST_PRIO

\* Faulty variant of Clamp: off by one at the upper end.
Clamp_off_by_one(prio) ==
    IF prio < MIN_PRIO THEN MIN_PRIO
    ELSE IF prio > MAX_PRIOS THEN HIGHEST_PRIO ELSE prio

\* The range check that proc_create, proc_nice, sched_enqueue and q_push share.
Clamp(prio) ==
    IF prio < MIN_PRIO THEN MIN_PRIO
    ELSE IF prio > HIGHEST_PRIO THEN HIGHEST_PRIO ELSE prio

\* FREE is a slot with used = false.  NEW lives only inside proc_create.
ProcState == {"FREE", "READY", "RUNNING", "BLOCKED", "EXITED"}

PCB == [state : ProcState,
        priority : Prios,
        base_priority : Prios,
        ticks_left : 0 .. TIME_SLICE_TICKS,
        aging_ticks : 0 .. AGING_THRESHOLD]

SchedState == [enabled : BOOLEAN,
               current : Procs \cup {Idle, NULL},
               cpu : Procs \cup {Idle},
               ready : [Prios -> Seq(Procs)],
               pcb : [Procs \cup {Idle} -> PCB]]

-----------------------------------------------------------------------------
Queued(s) == UNION {Members(s.ready[i]) : i \in Prios}
Ready(s) == {p \in Procs : s.pcb[p].state = "READY"}

\* Each queue holds processes of its own priority, each of them once.
QueueShape(s) ==
    \A i \in Prios :
        /\ \A a, b \in DOMAIN s.ready[i] : s.ready[i][a] = s.ready[i][b] => a = b
        /\ \A a \in DOMAIN s.ready[i] : s.pcb[s.ready[i][a]].priority = i

q_push(s, p) == [s EXCEPT !.ready[Clamp(s.pcb[p].priority)] = Append(@, p)]

\* Takes each process of F out of the queue of its own priority.
q_remove(s, F) ==
    [s EXCEPT !.ready =
        [i \in Prios |->
            Filter(s.ready[i], {q \in Procs : ~(q \in F /\ s.pcb[q].priority = i)})]]

\* The first non-empty queue that pick_next meets on its way down.
TopPrio(s) ==
    CHOOSE i \in Prios : /\ s.ready[i] # <<>>
                         /\ \A j \in Prios : j > i => s.ready[j] = <<>>

sched_enqueue(s, p) ==
    IF ~s.enabled /\ s.current = NULL
    THEN [s EXCEPT !.current = p,
                   !.pcb[p] = [@ EXCEPT !.state = "RUNNING",
                                        !.ticks_left = TIME_SLICE_TICKS]]
    ELSE q_push([s EXCEPT !.pcb[p] = [@ EXCEPT !.state = "READY",
                                               !.priority = Clamp(s.pcb[p].priority),
                                               !.ticks_left = TIME_SLICE_TICKS,
                                               !.aging_ticks = 0]], p)

\* Faulty variant: the process stays linked in its queue.
sched_remove_keeps_link(s, p) == [s EXCEPT !.current = IF p = @ THEN NULL ELSE @]

sched_remove(s, p) ==
    LET t == [s EXCEPT !.current = IF p = @ THEN NULL ELSE @]
    IN  IF s.pcb[p].state = "READY" THEN q_remove(t, {p}) ELSE t

-----------------------------------------------------------------------------
\* One round of aging.  A process waits in the queue of its priority, so the
\* promoted processes that q_push puts behind queue i all come from queue i-1,
\* and promoted_head .. promoted_tail holds them in the order of that queue.
AgedTicks(s, p) == IF s.pcb[p].aging_ticks < AGING_THRESHOLD
                   THEN s.pcb[p].aging_ticks + 1 ELSE AGING_THRESHOLD

Promoted(s) ==
    {p \in Queued(s) : /\ s.pcb[p].priority < HIGHEST_PRIO
                       /\ AgedTicks(s, p) >= AGING_THRESHOLD}

\* Faulty variant: nobody ages.
apply_aging_never(s) == s

apply_aging(s) ==
    LET promoted == Promoted(s)
    IN  [s EXCEPT
           !.pcb = [p \in Procs \cup {Idle} |->
                      IF p \in promoted
                      THEN [s.pcb[p] EXCEPT !.priority = @ + 1, !.aging_ticks = 0]
                      ELSE IF p \in Queued(s)
                      THEN [s.pcb[p] EXCEPT !.aging_ticks = AgedTicks(s, p)]
                      ELSE s.pcb[p]],
           !.ready = [i \in Prios |->
                      Filter(s.ready[i], Procs \ promoted)
                        \o (IF i = MIN_PRIO THEN <<>>
                            ELSE Filter(s.ready[i - 1], promoted))]]

\* What schedule() does to the process that leaves the CPU.
requeue(s) ==
    LET prev == s.current
    IN  CASE s.pcb[prev].state = "RUNNING" /\ prev # Idle ->
               q_push([s EXCEPT !.pcb[prev] =
                          [@ EXCEPT !.state = "READY",
                                    !.ticks_left = TIME_SLICE_TICKS,
                                    !.priority = s.pcb[prev].base_priority,
                                    !.aging_ticks = 0]], prev)
          [] s.pcb[prev].state \in {"BLOCKED", "EXITED"} ->
               [s EXCEPT !.pcb[prev].ticks_left = 0]
          [] OTHER -> s

\* The switch to idle.
run_idle(s) ==
    [s EXCEPT !.pcb[Idle] = [@ EXCEPT !.state = "RUNNING",
                                      !.ticks_left = TIME_SLICE_TICKS],
              !.current = Idle,
              !.cpu = Idle]

\* Faulty variants: the chosen process keeps the state READY; it keeps the priority
\* that aging lent it; the search stops before the lowest queue.
pick_next_not_running(s) ==
    IF \A i \in Prios : s.ready[i] = <<>> THEN run_idle(s)
    ELSE LET next == Head(s.ready[TopPrio(s)])
         IN  [s EXCEPT !.ready[TopPrio(s)] = Tail(@), !.current = next, !.cpu = next]

pick_next_keeps_priority(s) ==
    IF \A i \in Prios : s.ready[i] = <<>> THEN run_idle(s)
    ELSE LET next == Head(s.ready[TopPrio(s)])
         IN  [s EXCEPT !.ready[TopPrio(s)] = Tail(@), !.current = next, !.cpu = next,
                       !.pcb[next] = [@ EXCEPT !.state = "RUNNING"]]

pick_next_stops_early(s) ==
    IF \A i \in Prios \ {MIN_PRIO} : s.ready[i] = <<>> THEN run_idle(s)
    ELSE LET next == Head(s.ready[TopPrio(s)])
         IN  [s EXCEPT !.ready[TopPrio(s)] = Tail(@), !.current = next, !.cpu = next,
                       !.pcb[next] = [@ EXCEPT !.state = "RUNNING",
                                               !.priority = s.pcb[next].base_priority]]

\* pick_next, the fallback to idle, and the switch to the chosen process.
pick_next(s) ==
    IF \A i \in Prios : s.ready[i] = <<>> THEN run_idle(s)
    ELSE LET top == TopPrio(s)
             next == Head(s.ready[top])
         IN  [s EXCEPT !.ready[top] = Tail(@),
                       !.pcb[next] = [@ EXCEPT !.state = "RUNNING",
                                               !.ticks_left = TIME_SLICE_TICKS,
                                               !.priority = s.pcb[next].base_priority,
                                               !.aging_ticks = 0],
                       !.current = next,
                       !.cpu = next]

\* The timer interrupt.  With current = NULL it returns before choosing.
schedule(s) ==
    IF ~s.enabled \/ s.current = NULL THEN s
    ELSE LET t == [s EXCEPT !.pcb[s.current].ticks_left = IF @ > 0 THEN @ - 1 ELSE 0]
         IN  IF t.pcb[s.current].ticks_left > 0 /\ t.pcb[s.current].state = "RUNNING"
             THEN t
             ELSE pick_next(apply_aging(requeue(t)))

sched_force_yield(s) ==
    schedule(IF s.current = NULL THEN s ELSE [s EXCEPT !.pcb[s.current].ticks_left = 0])

-----------------------------------------------------------------------------
\* The state in which main() enters sched_init: nothing created yet.
NoPCB == [state |-> "FREE", priority |-> MIN_PRIO, base_priority |-> MIN_PRIO,
          ticks_left |-> 0, aging_ticks |-> 0]

PowerOn == [enabled |-> FALSE, current |-> NULL, cpu |-> Idle,
            ready |-> [i \in Prios |-> <<>>],
            pcb |-> [p \in Procs \cup {Idle} |-> NoPCB]]

\* Faulty variant of sched_init: current is not set again after sched_remove.
sched_init_leaves_null == sched_remove(sched_enqueue(PowerOn, Idle), Idle)

\* sched_init creates the idle process, which the empty current makes RUNNING,
\* takes it away from the queues and makes it current again.  The registers
\* that main() runs with become idle's at the first switch, so cpu is Idle.
sched_init ==
    LET created == sched_enqueue(PowerOn, Idle)
        removed == sched_remove(created, Idle)
    IN  [removed EXCEPT !.pcb[Idle] = [@ EXCEPT !.state = "RUNNING",
                                                !.ticks_left = TIME_SLICE_TICKS],
                        !.current = Idle]
=============================================================================
