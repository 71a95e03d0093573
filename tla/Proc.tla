-------------------------------- MODULE Proc --------------------------------
(***************************************************************************)
(* The process table of Kernel/process/proc.c: slots, pids, the tree of    *)
(* parents and children, zombies, exit results and proc_wait, and the      *)
(* process that owns the terminal.  The state is one record                *)
(*                                                                         *)
(*   kernel.pcb       procs[]: one record per slot                         *)
(*   kernel.current   the slot of sched_current()                          *)
(*   kernel.zombies   the list that starts at zombie_head                  *)
(*   kernel.next_pid  next_pid                                             *)
(*   kernel.fg_pid    default_tty.fg_pid                                   *)
(*   kernel.may       which scenarios may happen, an element of Situations *)
(*                                                                         *)
(* and each function of proc.c is an operator that returns the state it    *)
(* leaves behind.  Which READY process runs next is left open, as in       *)
(* ProcStates, which module Sched shows the scheduler to implement.        *)
(*                                                                         *)
(* System calls and interrupt handlers run with interrupts disabled, so a  *)
(* handler is one step up to the point where it gives the CPU away.  The   *)
(* exception is the proc_exit that trampoline makes when the program's     *)
(* entry function returns: it runs with interrupts enabled.                *)
(***************************************************************************)
EXTENDS Integers, Sequences, FiniteSets

CONSTANTS
    MAX_PROCS,  \* slots in procs[]
    PidBound,   \* bound: no process is created once next_pid exceeds it
    Situations  \* for each way of using the system: the set of the
                \* scenarios below that may happen in it

\* "kill_parent"     a process dies while one of its children is on the CPU
\* "nested_fg"       a program other than the shell creates foreground processes
\* "unblock_waiter"  proc_unblock is called for a process inside proc_wait
\* "malloc_fails"    mm_malloc returns NULL
\* "exit_preempted"  the timer interrupts the proc_exit made by trampoline
AllScenarios ==
    {"kill_parent", "nested_fg", "unblock_waiter", "malloc_fails", "exit_preempted"}

ASSUME ProcAssumption ==
    /\ MAX_PROCS \in Nat /\ MAX_PROCS >= 2
    /\ PidBound \in Nat
    /\ Situations \subseteq SUBSET AllScenarios

VARIABLE kernel

Slots == 0 .. MAX_PROCS - 1
Idle == 0                 \* sched_init creates the idle process first
IdlePid == 1
Shell == 2                \* the pid of the process named "shell"

-----------------------------------------------------------------------------
\* A slot outside use.  allocate_slot clears a slot before it hands it out.  at and
\* target are what the kernel stack of the process holds: whether it is inside
\* proc_wait (for which child) or inside the proc_exit of trampoline.
Unused == [used |-> FALSE, pid |-> 0, state |-> "EXITED", parent_pid |-> -1,
           kids |-> {}, waiting_for |-> 0, results |-> <<>>, pending |-> 0,
           zombie_reapable |-> FALSE, fg |-> FALSE, at |-> "user", target |-> 0]

\* The slots in use whose pid is pid, and the first of them.
Having(k, pid) == {s \in Slots : k.pcb[s].used /\ k.pcb[s].pid = pid}
proc_by_pid(k, pid) == CHOOSE s \in Having(k, pid) : \A t \in Having(k, pid) : s =< t

\* The state k with pcb in slot s.
Put(k, s, pcb) == [k EXCEPT !.pcb = [t \in Slots |-> IF t = s THEN pcb ELSE k.pcb[t]]]

Alive(k) == {s \in Slots : k.pcb[s].used /\ k.pcb[s].state # "EXITED"}
InState(k, st) == {s \in Slots \ {Idle} : k.pcb[s].used /\ k.pcb[s].state = st}

collect_zombies(k) ==
    LET done == {z \in k.zombies : k.pcb[z].zombie_reapable \/ k.pcb[z].parent_pid < 0}
    IN  [k EXCEPT !.pcb = [s \in Slots |-> IF s \in done THEN Unused ELSE k.pcb[s]],
                  !.zombies = @ \ done]

\* proc_unblock for each process of S; it collects zombies even if S stays as it is.
unblock(k, S) ==
    LET c == collect_zombies(k)
    IN  IF S = {} THEN k
        ELSE [c EXCEPT !.pcb = [s \in Slots |->
                IF s \in S /\ s \in InState(c, "BLOCKED")
                THEN [c.pcb[s] EXCEPT !.state = "READY"] ELSE c.pcb[s]]]

\* Faulty variant of SwitchFrom: the process that leaves the CPU is never next.
SwitchFrom_skips_prev(k) ==
    LET r == IF k.current # Idle /\ k.pcb[k.current].state = "RUNNING"
             THEN Put(k, k.current, [k.pcb[k.current] EXCEPT !.state = "READY"]) ELSE k
        next == InState(r, "READY") \ {k.current}
    IN  \/ next = {} /\ kernel' = [r EXCEPT !.current = Idle]
        \/ \E s \in next :
              kernel' = Put([r EXCEPT !.current = s], s, [r.pcb[s] EXCEPT !.state = "RUNNING"])

\* The CPU passes to any READY process, to idle if there is none.
SwitchFrom(k) ==
    LET r == IF k.current # Idle /\ k.pcb[k.current].state = "RUNNING"
             THEN Put(k, k.current, [k.pcb[k.current] EXCEPT !.state = "READY"]) ELSE k
    IN  \/ InState(r, "READY") = {} /\ kernel' = [r EXCEPT !.current = Idle]
        \/ \E s \in InState(r, "READY") :
              kernel' = Put([r EXCEPT !.current = s], s, [r.pcb[s] EXCEPT !.state = "RUNNING"])

-----------------------------------------------------------------------------
(* The terminal's foreground process *)

proc_set_foreground(k, pid) ==
    [k EXCEPT !.fg_pid = pid,
              !.pcb = [s \in Slots |->
                         IF k.pcb[s].used THEN [k.pcb[s] EXCEPT !.fg = (k.pcb[s].pid = pid)]
                         ELSE k.pcb[s]]]

HasLiveParent(k, s) ==
    \E p \in Having(k, k.pcb[s].parent_pid) : p \in Alive(k)

\* Faulty variant of exit_foreground: the terminal stays with the dead.
exit_foreground_keeps(k, s) == k

\* The hand-over at the start of proc_exit: to the parent, else to nobody.
exit_foreground(k, s) ==
    IF ~k.pcb[s].fg THEN k
    ELSE IF HasLiveParent(k, s) THEN proc_set_foreground(k, k.pcb[s].parent_pid)
    ELSE [k EXCEPT !.fg_pid = -1]

\* The hand-over of proc_kill tries the shell before it leaves the terminal free.
kill_foreground(k, s) ==
    IF k.pcb[s].fg /\ ~HasLiveParent(k, s) /\ Having(k, Shell) \cap Alive(k) # {}
    THEN proc_set_foreground(k, Shell)
    ELSE exit_foreground(k, s)

\* proc_get_foreground_pid: the terminal's word, else the first process marked fg.
ForegroundPid(k) ==
    LET marked == {s \in Alive(k) : k.pcb[s].fg}
    IN  IF k.fg_pid > 0 THEN k.fg_pid
        ELSE IF marked = {} THEN -1
        ELSE k.pcb[CHOOSE s \in marked : \A t \in marked : s =< t].pid

-----------------------------------------------------------------------------
(* Exit results *)

push_wait_result(k, p, pid, nomem) ==
    IF nomem THEN Put(k, p, [k.pcb[p] EXCEPT !.pending = pid])
    ELSE Put(k, p, [k.pcb[p] EXCEPT !.results = Append(@, pid)])

\* The queued results of p that a wait for pid (any child: -1) can take.
Matching(k, p, pid) ==
    {i \in DOMAIN k.pcb[p].results : pid =< 0 \/ k.pcb[p].results[i] = pid}

PendingMatches(k, p, pid) ==
    k.pcb[p].pending # 0 /\ (pid =< 0 \/ k.pcb[p].pending = pid)

HasResult(k, p, pid) == Matching(k, p, pid) # {} \/ PendingMatches(k, p, pid)

\* Takes the oldest queued result that matches, else the pending one.
consume_wait_result(k, p, pid) ==
    LET r == k.pcb[p].results
        first == CHOOSE i \in Matching(k, p, pid) :
                    \A j \in Matching(k, p, pid) : i =< j
    IN  IF Matching(k, p, pid) # {}
        THEN Put(k, p, [k.pcb[p] EXCEPT !.results =
                           SubSeq(r, 1, first - 1) \o SubSeq(r, first + 1, Len(r))])
        ELSE IF PendingMatches(k, p, pid) THEN Put(k, p, [k.pcb[p] EXCEPT !.pending = 0])
        ELSE k

-----------------------------------------------------------------------------
(* Death *)

\* Faulty variant of detach_children: the grandchildren are forgotten.
detach_children_forgets(k, s) ==
    LET dying == k.pcb[s].kids \cap Alive(k)
    IN  [k EXCEPT
           !.pcb = [t \in Slots |->
                      CASE t = s -> [k.pcb[t] EXCEPT !.kids = {}]
                        [] t \in dying -> [k.pcb[t] EXCEPT !.state = "EXITED", !.kids = {},
                                             !.parent_pid = -1, !.waiting_for = 0,
                                             !.pending = 0, !.results = <<>>]
                        [] OTHER -> k.pcb[t]],
           !.zombies = @ \cup dying]

\* The children die with s, with no word to anybody; their own children are orphaned.
detach_children(k, s) ==
    LET kids == k.pcb[s].kids
        dying == kids \cap Alive(k)
        orphans == UNION {k.pcb[c].kids : c \in dying}
        Killed(pcb) == [pcb EXCEPT !.state = "EXITED", !.waiting_for = 0, !.pending = 0,
                                   !.parent_pid = -1, !.kids = {}, !.results = <<>>]
    IN  [k EXCEPT
           !.pcb = [t \in Slots |->
                      CASE t = s -> [k.pcb[t] EXCEPT !.kids = {}]
                        [] t \in dying -> Killed(k.pcb[t])
                        [] t \in (kids \ dying) \cup orphans ->
                             [k.pcb[t] EXCEPT !.parent_pid = -1]
                        [] OTHER -> k.pcb[t]],
           !.zombies = @ \cup dying]

\* Faulty variants of Awaits: a wait for any child does not count, or every wait does.
Awaits_only_named(k, p, pid) ==
    k.pcb[p].state = "BLOCKED" /\ k.pcb[p].waiting_for = pid
Awaits_whichever(k, p, pid) ==
    k.pcb[p].state = "BLOCKED" /\ k.pcb[p].waiting_for # 0

\* The process in slot p sleeps in proc_wait until the child pid, or any, ends.
Awaits(k, p, pid) ==
    k.pcb[p].state = "BLOCKED" /\ k.pcb[p].waiting_for \in {pid, -1}

\* Leaves the exit result with the parent and wakes it if it waits for s.
notify_parent_exit(k, s, nomem) ==
    LET pid == k.pcb[s].pid
        p == proc_by_pid(k, k.pcb[s].parent_pid)
        wakes == Awaits(k, p, pid)
        reapable == [k.pcb[s] EXCEPT !.zombie_reapable = TRUE]
        unlinked == Put(k, p, [k.pcb[p] EXCEPT !.kids = @ \ {s},
                                               !.waiting_for = IF wakes THEN 0 ELSE @])
        told == push_wait_result(Put(unlinked, s, [reapable EXCEPT !.parent_pid = -1]),
                                 p, pid, nomem)
    IN  IF Having(k, k.pcb[s].parent_pid) = {} THEN Put(k, s, reapable)
        ELSE IF wakes THEN unblock(told, {p}) ELSE told

retire(k, s) ==
    Put(k, s, [k.pcb[s] EXCEPT !.state = "EXITED", !.waiting_for = 0])

\* Faulty variant of bury: the slot never reaches the zombie list.
bury_loses_slot(k, s, nomem, woken) ==
    LET t == unblock(notify_parent_exit(detach_children(k, s), s, nomem), woken)
    IN  Put(t, s, [t.pcb[s] EXCEPT !.results = <<>>, !.pending = 0])

\* What proc_exit and proc_kill share once the process is EXITED.  Closing its
\* descriptors wakes the processes that sleep at the other end of its pipes.
bury(k, s, nomem, woken) ==
    LET t == unblock(notify_parent_exit(detach_children(k, s), s, nomem), woken)
    IN  Put([t EXCEPT !.zombies = @ \cup {s}], s,
            [t.pcb[s] EXCEPT !.results = <<>>, !.pending = 0])

exit(k, s, nomem, woken) == bury(retire(exit_foreground(k, s), s), s, nomem, woken)

\* Faulty variant of Kill: a process that kills itself is treated like any other.
Kill_self_as_other(k, s, nomem, woken) ==
    kernel' = collect_zombies(bury(retire(kill_foreground(k, s), s), s, nomem, woken))

\* proc_kill of the process in slot s: on itself it is proc_exit.
Kill(k, s, nomem, woken) ==
    LET t == kill_foreground(k, s)
    IN  IF s = k.current THEN SwitchFrom(exit(t, s, nomem, woken))
        ELSE kernel' = collect_zombies(bury(retire(t, s), s, nomem, woken))

-----------------------------------------------------------------------------
\* main() has created the idle process (pid 1) and the shell (pid 2), which owns
\* the terminal, and has started the scheduler.
Init ==
    \E may \in Situations :
    kernel = [pcb |-> [s \in Slots |->
                 CASE s = Idle -> [Unused EXCEPT !.used = TRUE, !.state = "RUNNING",
                                                 !.pid = IdlePid, !.kids = {1}]
                   [] s = 1 -> [Unused EXCEPT !.used = TRUE, !.state = "READY",
                                              !.pid = Shell, !.parent_pid = IdlePid,
                                              !.fg = TRUE]
                   [] OTHER -> Unused],
              zombies |-> {}, current |-> Idle, fg_pid |-> Shell, next_pid |-> 3,
              may |-> may]

Caller == kernel.current
InUserland == Caller # Idle /\ kernel.pcb[Caller].at = "user"
InterruptsOn == kernel.pcb[Caller].at # "wait"
Pids == {kernel.pcb[s].pid : s \in {t \in Slots : kernel.pcb[t].used}}
NoMem == IF "malloc_fails" \in kernel.may THEN BOOLEAN ELSE {FALSE}

\* Who may be woken by a post, a write, a key press or a closed descriptor: a
\* process that sleeps in a handler other than proc_wait.
Sleepers(k) ==
    {s \in InState(k, "BLOCKED") : k.pcb[s].at = "user" \/ "unblock_waiter" \in kernel.may}

\* schedule(): the time slice ends, or a process calls sys_yield.
Tick ==
    /\ InterruptsOn
    /\ kernel.pcb[Caller].at = "exit" => "exit_preempted" \in kernel.may
    /\ SwitchFrom(kernel)

\* Faulty variant of FreshPid: the counter does not move.
FreshPid_stuck(k) == k

FreshPid(k) == [k EXCEPT !.next_pid = @ + 1]

proc_create(fg, nomem) ==
    LET k == collect_zombies(kernel)
        free == {s \in Slots : ~k.pcb[s].used}
        slot == CHOOSE s \in free : \A t \in free : s =< t
        counted == FreshPid(k)
        child == [Unused EXCEPT !.used = TRUE, !.pid = k.next_pid, !.state = "READY",
                                !.fg = fg, !.parent_pid = k.pcb[Caller].pid]
        linked == Put(Put(counted, slot, child), Caller,
                      [k.pcb[Caller] EXCEPT !.kids = @ \cup {slot}])
    IN  /\ InUserland
        /\ kernel.next_pid =< PidBound
        /\ fg => kernel.pcb[Caller].pid = Shell \/ "nested_fg" \in kernel.may
        /\ kernel' = IF free = {} THEN k
                     ELSE IF nomem THEN counted
                     ELSE IF fg THEN [linked EXCEPT !.fg_pid = k.next_pid] ELSE linked

\* proc_wait up to its return or to the switch that puts the caller to sleep.
proc_wait(pid) ==
    LET k == collect_zombies(kernel)
        kids == {s \in k.pcb[Caller].kids : pid =< 0 \/ k.pcb[s].pid = pid}
        asleep == Put(k, Caller, [k.pcb[Caller] EXCEPT !.waiting_for = pid, !.state = "BLOCKED",
                                                       !.at = "wait", !.target = pid])
    IN  /\ InUserland
        /\ \/ HasResult(k, Caller, pid) /\ kernel' = consume_wait_result(k, Caller, pid)
           \/ ~HasResult(k, Caller, pid) /\ kids = {} /\ kernel' = k
           \/ ~HasResult(k, Caller, pid) /\ kids # {} /\ SwitchFrom(asleep)

\* The rest of proc_wait, when the caller has the CPU back.
WaitReturns ==
    LET k == collect_zombies(kernel)
        t == consume_wait_result(k, Caller, k.pcb[Caller].target)
    IN  /\ kernel.pcb[Caller].at = "wait"
        /\ kernel' = Put(t, Caller, [t.pcb[Caller] EXCEPT !.waiting_for = 0, !.at = "user",
                                                          !.target = 0])

\* sys_exit.
proc_exit(nomem, woken) ==
    LET k == collect_zombies(kernel)
    IN  /\ InUserland
        /\ SwitchFrom(exit(k, Caller, nomem, woken))

\* The entry function returns, and trampoline calls proc_exit with interrupts
\* enabled: up to the moment the process is EXITED, and the rest.
EntryReturns ==
    LET r == retire(exit_foreground(collect_zombies(kernel), Caller), Caller)
    IN  /\ InUserland
        /\ kernel' = Put(r, Caller, [r.pcb[Caller] EXCEPT !.at = "exit"])

TrampolineExit(nomem, woken) ==
    /\ kernel.pcb[Caller].at = "exit"
    /\ SwitchFrom(bury(kernel, Caller, nomem, woken))

\* A death that takes along the child that is on the CPU.
TakesCurrent(k, s) == k.current \in k.pcb[s].kids

proc_kill(pid, nomem, woken) ==
    LET k == collect_zombies(kernel)
        s == proc_by_pid(k, pid)
    IN  /\ InUserland
        /\ Having(k, pid) \ {Idle} # {}
        /\ TakesCurrent(k, s) => "kill_parent" \in kernel.may
        /\ Kill(k, s, nomem, woken)

\* Ctrl+C: tty_push_char kills the foreground process from the keyboard interrupt.
CtrlC(nomem, woken) ==
    LET k == collect_zombies(kernel)
        s == proc_by_pid(k, ForegroundPid(kernel))
    IN  /\ InterruptsOn
        /\ Having(k, ForegroundPid(kernel)) \ {Idle} # {}
        /\ TakesCurrent(k, s) => "kill_parent" \in kernel.may
        /\ Kill(k, s, nomem, woken)

\* sys_block, and every handler that puts its caller to sleep.
proc_block(pid) ==
    LET k == collect_zombies(kernel)
        s == proc_by_pid(k, pid)
        blocked == Put(k, s, [k.pcb[s] EXCEPT !.state = "BLOCKED"])
    IN  /\ InUserland
        /\ Having(k, pid) \cap (InState(k, "READY") \cup {Caller}) # {}
        /\ IF s = Caller THEN SwitchFrom(blocked) ELSE kernel' = blocked

\* sys_unblock, and the wake-ups made by handlers, interrupts and closed pipes.
proc_unblock(s) ==
    /\ InterruptsOn
    /\ s \in Sleepers(kernel)
    /\ kernel' = unblock(kernel, {s})

\* proc_snapshot, proc_nice and the calls that fail only collect the zombies.
proc_snapshot ==
    /\ InUserland
    /\ kernel' = collect_zombies(kernel)

Next ==
    \/ Tick \/ WaitReturns \/ EntryReturns \/ proc_snapshot
    \/ \E fg \in BOOLEAN, nomem \in NoMem : proc_create(fg, nomem)
    \/ \E pid \in Pids \cup {-1} : proc_wait(pid)
    \/ \E nomem \in NoMem, woken \in SUBSET Sleepers(kernel) :
        \/ proc_exit(nomem, woken)
        \/ TrampolineExit(nomem, woken)
        \/ CtrlC(nomem, woken)
        \/ \E pid \in Pids : proc_kill(pid, nomem, woken)
    \/ \E pid \in Pids : proc_block(pid)
    \/ \E s \in Slots : proc_unblock(s)

Spec == Init /\ [][Next]_kernel

-----------------------------------------------------------------------------
(* Properties *)

\* procs[] and the child lists tell the same tree: a process is on the list of
\* the process its parent_pid names and on no other, and no parent_pid names a
\* process that is gone.
ChildrenExact ==
    \A s \in Slots : kernel.pcb[s].used =>
        /\ kernel.pcb[s].kids =
              {t \in Slots : kernel.pcb[t].used /\ kernel.pcb[t].parent_pid = kernel.pcb[s].pid}
        /\ kernel.pcb[s].parent_pid > 0 =>
              \E p \in Having(kernel, kernel.pcb[s].parent_pid) : p \notin kernel.zombies

\* No two processes share a pid, and no exit result names a process that lives:
\* wait, kill and the terminal address processes by pid.
PidsIdentify ==
    \A s, t \in {u \in Slots : kernel.pcb[u].used} :
        /\ kernel.pcb[s].pid = kernel.pcb[t].pid => s = t
        /\ HasResult(kernel, s, kernel.pcb[t].pid) => t \in kernel.zombies
        /\ Cardinality(Matching(kernel, s, -1)) =
              Cardinality({kernel.pcb[s].results[i] : i \in DOMAIN kernel.pcb[s].results})

\* A slot outlives its process only on the zombie list, which the next call
\* empties: no slot is lost for good and none is freed twice.
ZombiesReturn ==
    /\ kernel.zombies =
          {s \in Slots : kernel.pcb[s].used /\ kernel.pcb[s].state = "EXITED"}
             \ {s \in {Caller} : kernel.pcb[s].at = "exit"}
    /\ collect_zombies(kernel).zombies = {}

\* The process on the CPU has a slot, and with it the stack it runs on.
CurrentIsUsed == kernel.pcb[Caller].used

\* Whoever sleeps in proc_wait has no result to take and a child left that can wake
\* it: one that lives, or one on its way out that still has the CPU.  (A waiter that
\* was unblocked, and then blocked again before it ran, may have missed its child.)
WaitersHaveChildren ==
    "unblock_waiter" \notin kernel.may =>
    \A s \in InState(kernel, "BLOCKED") :
        LET pid == kernel.pcb[s].waiting_for
        IN  pid # 0 =>
              /\ ~HasResult(kernel, s, pid)
              /\ \E c \in kernel.pcb[s].kids \cap (Alive(kernel) \cup {Caller}) :
                    pid =< 0 \/ kernel.pcb[c].pid = pid

\* A process that proc_wait wakes up finds the result of the child it waited
\* for: the call does not fail while its child lives.  It may fail if proc_unblock
\* is called for it, and if two results in a row find no memory.
WaitHasResult ==
    kernel.may \cap {"unblock_waiter", "malloc_fails"} = {} =>
    \A s \in InState(kernel, "READY") \cup InState(kernel, "RUNNING") :
        kernel.pcb[s].at = "wait" => HasResult(kernel, s, kernel.pcb[s].target)

\* The terminal belongs to a process that lives, or to nobody: the keyboard
\* always reaches somebody, and Ctrl+C kills a process or does nothing.  This needs
\* the shell to be the only one that starts foreground processes: one that dies
\* with its parent does not hand the terminal over.
ForegroundAlive ==
    "nested_fg" \notin kernel.may /\ kernel.fg_pid > 0 => Having(kernel, kernel.fg_pid) \cap Alive(kernel) # {}

\* Seen from the scheduler, the process table does what ProcStates allows.
Abstract == INSTANCE ProcStates WITH
    Procs <- Slots \ {Idle},
    state <- [s \in Slots \ {Idle} |->
                IF s = Caller THEN "RUNNING"
                ELSE IF s \in Alive(kernel) THEN kernel.pcb[s].state ELSE "FREE"],
    running <- Caller

\* ProcStates starts before the shell exists, so only its steps are compared.
ImplementsProcStates == [][Abstract!Next]_<<Abstract!vars>>
=============================================================================
