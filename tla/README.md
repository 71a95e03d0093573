# A TLA+ model of the TP2 kernel

TP2-Kernel is a small 64-bit teaching kernel: one CPU, preemptive priority
scheduling, processes with parents and children, named semaphores, named pipes
behind Unix-like descriptors, a terminal with a foreground process, and a choice
of two heap allocators. This directory holds TLA+ modules for the parts that carry
the kernel's own logic and for the shell and the `mvar` program that use it, TLC
configurations that check them on small instances, and TLAPS proofs about the scheduler, the
process table, semaphores, pipes, the terminal and the default heap for every value of their
constants.

Paths below are relative to `src/Kernel/`; `sh.c` and `mvar.c` are in
`src/Userland/SampleCodeModule/`.

## 1. Inventory

| Component | Source | State | Operations | What makes it correct |
|---|---|---|---|---|
| Scheduler | `process/sched.c` | `current`, a ready queue per priority, per process state, priority, base priority, ticks, aging | `schedule` (timer), `sched_force_yield`, `sched_enqueue`, `sched_remove` | queues hold exactly the READY processes; registers are saved into the process they belong to; aging prevents starvation; the timer never loses `current` |
| Process table | `process/proc.c` | `procs[]`, child lists, zombie list, exit results, `next_pid`, `fg_pid` | create, exit, kill, block, unblock, nice, wait, snapshot, set foreground | tree and table agree; pids identify; every slot returns; a wait gets the result it waited for; the running process has a slot; the terminal has a living owner |
| Semaphores | `ipc/semaphore.c`, `sys/syscalls.c` | named semaphores with count, references and wait queue; a table of handles | open, wait, post, close, unlink, clean-up at exit | units conserved, no lost wake-up, exact references, sleepers reachable, no leaked handle, FIFO service |
| Pipes | `ipc/pipe.c`, `ipc/pipe_fd.c` | ring buffer, counts of ends, two wait queues | open, close, read, write, unlink | bytes in order; nobody waits for a side that is gone; no lost wake-up |
| Descriptors | `fs/fd.c` | `file_t` with references, a table per process | allocate, close, dup2, clone, destroy | references count descriptors, ends count files |
| Terminal | `fs/tty.c` | ring buffer, end-of-file mark, wait queue, `fg_pid` | read, push character, Ctrl+C, Ctrl+D, set foreground | keys wake readers, in the order in which they came |
| Heap | `mm/first_fit.c`, `mm/memory_manager.c` | list of block headers | malloc, free | disjoint regions of the size asked for; the list tiles the heap; free neighbours merge |
| Buddy heap | `mm/buddy_system.c` | free lists, order and use maps | init, alloc, free | the same promise, which it breaks |
| System call layer, interrupts | `sys/`, `interrupt/`, `asm/` | the IDT and a dispatch table | dispatch | handlers are not interrupted |
| Drivers, boot, libraries | `drivers/`, `lib/`, `kernel.c` | devices | I/O | not modelled (boot order excepted) |
| Shell | `shell/sh.c` | the line, background flag, saved descriptors and pipe of `execute_pipe`, argument vectors | run a command in the foreground or background, run two around a `\|` | files, pipes and memory are given back whatever fails; the prompt returns |
| mvar | `programs/mvar.c` | a context with one value, two named semaphores, handles | start, write, read | each value is read once; nobody is left out |
| Other programs | `programs/`, `lib/`, `tests/` | | read, print, kill | they free their arguments (of the tests: when they free them and whether they end) |
| Bootloader, toolchain | `src/Bootloader/`, `src/Toolchain/` | | | third-party boot code and host tools, not modelled |

**How they interact.** A process enters the kernel by `int 80h`; the keyboard and
the timer interrupt it. All three pass through *interrupt gates*
(`interrupt/idtLoader.c`), so interrupts are disabled inside and a handler runs
alone until it gives the CPU away in `sched_force_yield`. Semaphores, pipes, the
terminal and `proc_wait` put their caller to sleep by setting it BLOCKED, remembering
a pointer to its slot in a queue and yielding; `proc_unblock` makes it READY again.
`proc_unblock` first calls `collect_zombies`, as nearly every process call does, and
that releases slots, closes descriptors and so may wake others. Two places run kernel
code with interrupts *enabled*: the `proc_exit` that `trampoline` makes after a
program's entry function returns, and `main()` before the scheduler starts.

The shell creates a process per command with descriptors inherited from its own, and waits
for it unless the line ends in `&`. For `left | right` it saves its standard files, puts a
pipe in the place of standard output, runs *left* to its end, then puts the pipe in the place
of standard input and runs *right*. `mvar` makes a variable for one value out of two
semaphores that processes open by name.

**What is hard here.** Waiters are pointers to slots that nobody retracts
when the process is killed (semaphores retract some); `sys_block`/`sys_unblock` work on
processes asleep inside any handler; a parent takes its children along whatever they
are doing; `collect_zombies` runs at surprising moments; `schedule` depends on `current`
never being NULL; one preemptible `proc_exit`; a shell that redirects itself, can fail at
every step and holds a read end while it waits for the writer. The list of hazards with their lines is
in `PROJECT.json`.

## 2. Modules

| Module | Models | State and actions |
|---|---|---|
| `SchedCore` | `sched.c` as operators on a record | each C function returns the state it leaves behind; handlers compose them |
| `Sched` | the scheduler with the calls of `proc.c` that change who may run | `sched`; `Tick`, `sys_yield`, `proc_create`, `proc_block`, `proc_unblock`, `proc_nice`, `sleep`, `proc_exit`, `proc_kill`, `reap`, and the boot steps |
| `ProcStates` | abstract: process states and who runs | Create, Yield, BlockSelf, BlockOther, Unblock, Exit, Kill |
| `Queues` | `Filter` and the operators on queues that several modules share | |
| `Proc` | the process table | `kernel`: table, current slot, zombies, `next_pid`, `fg_pid`; which READY process runs next is left open as in `ProcStates` |
| `Semaphore` | semaphores and handles | `sems`, `handles`, `procs`, and the history `due` of units put in and not taken |
| `PipeChannel` | abstract: a bounded FIFO channel per pipe | Send, Receive, Reattach |
| `Pipe` | pipes and descriptors | `pipes`, `files`, `tables`, `procs`, and the history `moved` of bytes just copied |
| `Tty` | terminal input | `size`, `eof`, `queue`, `fg`, `procs` |
| `Allocator` | abstract: regions in use | Malloc, Free |
| `Buddy` | the heap of `USE_BUDDY_SYSTEM` | `free_lists`, `meta` (the two maps, one behind the other as in memory), `owned`; `buddy_alloc`, `buddy_free` |
| `OnePlace` | abstract: a place for one value | Put, Take, Done, Lose |
| `Mvar` | `mvar.c` on top of `Semaphore` (EXTENDS) | adds `prog` (what each process does next, its handles and value) and `ctx`; each system call is the action of `Semaphore` joined to the step of the program |
| `Shell` | `sh.c` and the programs it starts, on top of `Pipe` (EXTENDS) | adds `sh` (the line and the progress of `execute_pipe`), `progs` and `heap`; each system call is the action of `Pipe` joined to the step of the shell or program |
| `FirstFit` | the default heap | `mem` (block headers by address), `count`, `owned`, and `freer`, the `first_fit_free` under way in its interruptible steps |
| `SchedProofs`, `ProcProofs`, `SemaphoreProofs`, `PipeProofs`, `ShellProofs`, `TtyProofs`, `FirstFitProofs` | theorems about the module of that name; `SemaphoreProofs` also about `Mvar` | `ShellProofs` EXTENDS `PipeProofs` for its lemmas on files and their counts |
| `QueueProofs` | lemmas about `Queues` and finite sets that these share | |
| `MC*` | instances for TLC | symmetry sets, and checks of two helpers of `SchedCore`/`Sched` against reference definitions |

`ProcStates` is the joint between scheduler and process table: `Sched` is shown to
implement it and `Proc` relies on nothing more about scheduling (and is shown to take
only its steps). `Semaphore`, `Pipe` and `Tty` contain the life of a process as far as
it concerns them: exit, kill, death with the parent, `proc_unblock` from outside, and
the reuse of slots, so that a stale waiter may come to point at somebody else.

**Abstractions.** Names, bytes and addresses are model values; error codes are not told
apart where no state depends on them. Spinlocks are always free, because one CPU with
interrupts disabled takes them. The number of processes woken by a closing pipe is any
set (in any order) in `Sched` and `Proc`, and exact in `Pipe`. `Tty` counts bytes.
`FirstFit` keeps sizes as integers modulo `WORD`. In `Shell` a byte stands for all that a
command prints at once, a line is the names of its commands, argument vectors are counted in
blocks of memory, and what `nice` and `block` do to other processes is left to `Proc`. In
`Mvar` there is one context, since two share nothing.

**Situations.** `Proc`, `Semaphore`, `Pipe` and `Tty` have a constant `Situations`: a set
of sets of scenarios (a kill, an unblock from outside, a failing allocation, ...). Each
behaviour picks one at the start (`may`) and contains only those. Properties that hold
only without some scenario say so in their hypothesis, and the comment says why. The
hypotheses are needed: section 5. `SemUnits` uses a `VIEW` that leaves out the history
`due` in the situations in which no property looks at it; no action reads it.

**Faulty variants.** Operators whose comment says *faulty variant* are plausible bugs (a
dropped guard, an off-by-one, a missing reset). No specification uses them. Each property
of a passing run fails when the variant named in `PROJECT.json` takes the place of the
definition it follows.

## 3. Runs

Passing:

| Run | Checks | Bounds |
|---|---|---|
| `Sched` | types; queues exact; RUNNING = current; the CPU holds current's registers; aging only lends; `current` never NULL; idle only for want of a READY process; refinement of `ProcStates`; no starvation | 3 processes, 2 priorities, slice and aging threshold 2: enough for a preempted, a promoted and a waiting process at once, and for both ends of each counter |
| `ProcTable` | tree, pids, zombies, running slot, waits, results, terminal, steps of `ProcStates` | 4 slots (idle, shell, two more: siblings or a grandchild), 5 pids so that slots are reused, with and without nested foreground, unblocked waiters and failing allocations |
| `SemUnits` | units, lost wake-ups, references, reachability of sleepers, handle owners | 3 slots and 4 pids, so that slots are reused, 2 semaphores of one name (one unlinked, one new), 3 handles; undisturbed; with kills and deaths with the parent; with handles used by others; and, two processes at a time, with unblocks from outside; memory may run out undisturbed. `WaitersReachable` in every situation |
| `Mvar` | refinement of `OnePlace`; everyone served (liveness) | the shell and 3 members: two writers and a reader, or one and two, the least with competition on either side; 6 handles, as many as the members need, of which one may be taken so that opening fails half way; 4 pids; undisturbed, with kills, and, with two members, while memory runs out |
| `Pipe` | ends exact, nobody waits for a side that is gone, no lost wake-up, refinement of `PipeChannel` | 2 files of one pipe of capacity 2, 2 descriptors each. Two processes with calls of up to 2 bytes of 2 values, so that chunks wrap and order shows; three processes with one-byte calls and kills, or with files open at both ends; two at a time over three slots with kills, deaths with the parent, unblocks and failing allocations, so that stale waiters meet reused slots |
| `Shell` | files restored, pipes released, arguments owned; the prompt returns (liveness) | the shell and 2 programs, 6 descriptors, 2 pipes, 17 lines: a command of every kind alone or in the background and a pipeline of every kind of command; undisturbed, with kills and Ctrl+C, with failing allocations, and with output larger than a pipe |
| `Heap` | tiling, in use = owned, coalescing, refinement of `Allocator` | heap of 37 bytes, header 4, alignment 2, sizes around every boundary of `split_block` |
| `TtyInput` | types, lost wake-ups, turns kept (action property), keys reach readers (temporal) | 3 processes, buffer 2, calls of up to 2; undisturbed, and with kill, unblock, take-over and failing allocations |

Runs whose system may rightly stop (everyone asleep, all programs ended, heap full)
switch deadlock checking off; `Sched`, `ProcTable` and `TtyInput` never stop, since timer
and keyboard keep coming, and check for deadlock.

Named bounds: `PidBound` (processes created), `CountBound` (count of a semaphore),
`QueueBound` (unblocks from outside, and in `Pipe` and `Tty` kills of sleepers, which would
let stale waiters grow without limit), `ProcBound` (processes that live at a time but for a
`"crowd"`), the situations `"crowd"` (more than two processes at
a time) and `"long_calls"` (calls of more than one byte), `Chunk` (bytes per call), `Requests` (sizes), `OtherHandles`
(handles that `mvar` does not get), `BackgroundBound` (programs left from earlier lines when
a line with `&` is entered), `LeakBound` (blocks without an owner when somebody is killed).

Expected violations (the property restates what a comment of the code says; `findings`
in `PROJECT.json` quotes it):

* `SchedSelfNice`: `proc_nice` on the caller sets `current` to NULL before it yields;
  `schedule` returns at once for a NULL `current`, and no other process ever runs.
* `ProcPreemptedExit`: a tick inside the preemptible `proc_exit` of `trampoline`, after the
  state became EXITED, loses the process: its parent is not told and waits for ever.
* `Buddy`: `buddy_alloc` computes the index of the second half of a block with the order of
  the whole block, so that a page of another block goes to the free list; and `buddy_init`
  marks the first blocks with indices from another base. Regions are handed out while they
  are in use, and past the end of the heap.
* `HeapPreempted`: `first_fit_free` marks a block free, then clears it; a tick in between
  lets the block be handed out, and its new contents are cleared. The interrupted free is
  one that `trampoline`'s `proc_exit` makes before the state becomes EXITED (what zombies had,
  in `collect_zombies`, or a semaphore whose last handle it closes); a process interrupted later
  does not resume, so its block is not wiped behind the new owner's back.

## 4. Fairness

`Sched` is checked under `FairSpec`: the timer interrupt, which the hardware raises
periodically and no user code can mask, is never withheld for ever from a state it would
change, and `main()` reaches `sched_start`. No fairness is assumed of programs. The
condition on the timer is weak fairness with its enabling condition written out.
`KeysReachReaders` needs no fairness: it says that something cannot last for ever *while*
keys keep coming, which is part of its statement.

`Mvar` and `Shell` assume `WF_vars` of the steps of each process. That a READY process gets
the CPU again and again is what `NoStarvation` of `Sched` says; a process that is BLOCKED has
no step enabled, so nothing is assumed about wake-ups; and `active_random_wait` is a bounded
loop. Nothing is assumed of the user: entering a line, typing into `cat`, Ctrl+C and the kill
command are outside the fairness.

## 5. Limits that the hypotheses of the properties mark

Each hypothesis on `may` (and each restricted constant) excludes a situation in which TLC
finds the property violated by what the code does:

* `WaitHasResult`: `sys_unblock` on a process inside `proc_wait` makes the wait return with
  no result; two exit results without memory share one place (`proc.c` 856-879).
* `WaitersHaveChildren`: a waiter unblocked and blocked again misses its child.
* `ForegroundAlive`: `detach_children` ends a foreground child without passing the
  terminal on (`proc.c` 956-1015).
* `CurrentIsUsed`: situation `kill_parent`, left out of `ProcTable`: a child that kills its
  parent dies with it, and loses its slot and stack while it runs.
* `UnitsConserved`, `NoLostWakeup` (semaphores): `ksem_wait` does not look again after
  waking, so a process that is unblocked from outside goes on without a unit;
  `detach_children` leaves waiters in queues, and `ksem_remove_waiters_for` does not
  find unlinked semaphores. No property covers the post that follows to such a stale waiter.
* `HandlesHaveOwners`: only `proc_exit` releases handles, not `proc_kill` or
  `detach_children`.
* `ImplementsOnePlace`: `writer_process` and `reader_process` ignore the result of
  `sys_sem_wait` (`mvar.c` 132, 176), which is -1 when there is no memory for a waiter
  (`semaphore.c` 301). They go on without a unit: a value is overwritten that nobody has read, or
  read twice. In situation `"no_memory"` TLC refutes the refinement.
* `NoLostWakeup` (pipes): killed and unblocked sleepers leave their entries behind. Situation
  `{"crowd", "long_calls"}`, left out of `Pipe`, fails even undisturbed: one wake-up is made
  for several bytes, and a second reader sleeps on while bytes are left.
* `EndsExact`, `ImplementsChannel`: situation `{"parent_dies", "both_ends"}`, a hypothesis of the
  first and left out of `Pipe` for the second:
  `collect_zombies` is re-entered through `fd_table_destroy`, `kpipe_close` and `proc_unblock`
  (`proc.c` 558) and closes a read-write file twice, so that the pipe believes that an end is
  gone which is still open.
* `EveryoneServed`: a killed writer or reader takes the unit that it has along, and the others
  wait for ever.
* `PipesReleased`: `execute_pipe` notes that the pipe exists only after it has opened the reader
  (`sh.c` 922); if that fails for want of memory the named pipe stays.
* `ArgsHaveOwners`: argument vectors are freed by the programs themselves; one that is killed
  leaves its vector allocated.
* `PromptReturns`: a left command that prints more than the pipe holds sleeps for ever, since
  the only reader is the shell, which waits for it (`sh.c` 932). `loop`, `test_mm` and
  `test_processes` loop for ever (`tests/test_mm.c` 30, `tests/test_processes.c` 77), and commands
  that read the terminal last as long as the user likes; only in the background, without a `|`,
  do they give the prompt back.
* `NoLostWakeup` (terminal): the entry of a killed reader takes the next key. The right to
  read is checked before sleeping only (`fs/fd.c` 43), so that after a change of the foreground a
  reader in the background may get keys; `"takeover"` models that, and no property forbids it.
* `ImplementsAllocator`: sizes within seven of 2^64 wrap when rounded up. `Requests` in
  `Heap.cfg` stays below; with a request of `WORD - 1` the refinement fails.

One more disagreement was read off and is not modelled: `proc_nice` compares the request
with the priority that aging has lent, and ignores it when they are equal (`proc.c` 295).

## 6. Proofs

Every theorem holds for all values of the constants that satisfy the assumption of the
module (`SchedAssumption`, `ProcAssumption`, ...): finite sets of processes, pipes and so on,
buffers with at least one place, bounds that are numbers, any set of situations. The
properties of a component follow from an inductive invariant (`THEOREM Invariance`), where that
grew large from one in layers; lemmas follow the code bottom up, first what an operator of the
model does to a record, then one lemma per action.

**`SchedProofs`.** `TypeCorrect`, `QueuesExact`, `OneRunning`, `ContextOfCurrent`, `AgingLends`;
under `~SelfNice` also `Alive` (`current` is never NULL once the scheduler runs),
`IdleIsLastResort`, and `Refinement`: `Sched` implements `ProcStates`. `Inv` has types, shape
of the queues (each entry once, in the queue of its priority), queues = READY, RUNNING =
current, registers = current, and the relation of priority and base priority. None of the
parts is inductive alone: that a removal finds its process needs the shape of the queues, that
a push keeps the shape needs queues = READY, and that `requeue` may push `current` needs RUNNING
= current. Inside `schedule` the invariant is broken between `requeue` and `pick_next`, where
nobody is RUNNING; a weaker form of it describes the state there. `Filter` is defined by
positions rather than recursively, so that it can be reasoned about; `MCSched` checks it
against `SelectSeq`.

**`ProcProofs`.** `ChildrenAreExact`, `PidsAreUnique`, `SlotsComeBack` and `CurrentHasSlot`, as long
as no process dies while its child is on the CPU and no `proc_exit` is interrupted (`Orderly`:
neither `kill_parent` nor `exit_preempted`, which `ProcTable` leaves out too; foreground processes
of any program, unblocked waiters and failing allocations are included). The invariant says more
than the properties: a parent's pid is smaller than its child's, so that no process is its own
grandchild when `detach_children` walks two levels down; no zombie has a place in the tree, so
that `collect_zombies`, which each handler may call in the middle of its work, changes nothing a
handler has already looked at; a result names only processes that are zombies or gone. It is
broken inside `proc_exit` and `proc_kill`: `Sound(k, D, N)` is the same invariant with a set `D`
of the dead that are not on the zombie list yet and a set `N` of those whose parent knows of
their end already, and follows a dying process through `retire`, `detach_children`,
`notify_parent_exit` and `bury`.

On top of it, `WaitersAreWoken`, `WokenHaveResults` and `ForegroundLives` (`WaitersHaveChildren`,
`WaitHasResult`, `ForegroundAlive`, in the situations that their hypotheses name) follow from a
second layer, `Settled`: `Waits` ties `waiting_for`, the state, the results and the child list of
a waiter together, and `Ruled` says that the mark `fg` is with idle, the shell or a child of a
living shell. That is what makes the hand-over work: whoever dies with the mark has a living
parent to take it, and no grandchild that dies unseen in `detach_children` can have it. Each
action has a lemma that says that it keeps both layers (`Onward`) and that it is a step of
`ProcStates`; `StatesImplemented` is the refinement, in which a process that is EXITED but still
has the CPU counts as running until it switches away. Inside `proc_exit` and `proc_kill`, `Flow`,
`Kept` and `Calm` say what one part of the handler leaves of the processes that live on: who is
woken, who loses its parent, and that nobody else notices.

**`SemaphoreProofs`.** `References`, `HandleOwners`, `SleepersReachable`, `NoWakeupLost`, `Units`:
all safety properties of run `SemUnits`, each in the situations that its hypothesis names
(`SleepersReachable` in all of them: a semaphore is freed only when nobody waits on it, and
whatever is killed, closed or unblocked, a process that sleeps still stands in the queue of one
that is in use).
`Inv` adds how pids name processes, that a process inside `ksem_wait` has a handle on its
semaphore (as long as each uses its own; this is what keeps the semaphore in memory), and that
undisturbed queues hold sleepers only, and only when no unit is left.

The same module proves `MvarIsOnePlace`: as long as there is memory for waiters (section 5)
`Mvar` implements `OnePlace`, for any number of writers
and readers, members that cannot open their semaphores or are killed included. Each step of
`Mvar` is a step of `Semaphore` or leaves the semaphores alone (`MvarUsesSemaphores`), so `Inv`
holds for it and supplies what the calls promise. `MInv` adds what the programs make of them:
there is at most one unit, in the count of `empty` or of `full` or with one process between its
wait and its post (`OneUnit`), which is why nobody writes over a value that nobody has read;
each process has its handles for itself; a wait queue holds those that sleep on that semaphore;
no semaphore goes away or changes its name, since `mvar` unlinks none; and nobody is in the
loop before `mvar_start` has both semaphores (`NobodyYet`). A unit of a killed process is lost,
which `OneUnit` allows and `Lose` of `OnePlace` stands for. The conjunction of the two
invariants is what is inductive: who has a unit depends on who is woken, and a sleeper is woken
only while its handle is its own.

**`PipeProofs`.** `EndsCounted`, `Served`, `NoWakeupLost`, and
`DeliversInOrder`: `Pipe` implements `PipeChannel` unless a zombie that has a pipe open at both
ends may be released twice (`ReleasedOnce`, section 5). `Inv` adds that whoever sleeps stands in
the queue of its pipe, that no queue is left behind when a side goes, and how many
processes have been woken for the bytes (or the room) in a pipe. The refinement needs two more
facts: the write position is `size` ahead of the read position, and a process inside
`kpipe_read` or `kpipe_write` still has the descriptor it came with.

**`TtyProofs`.** `TypeCorrect`, `WakeupsReach` and `ReadersInTurn` (`ServedInTurn`): the types, the
lost wake-ups and the action property of run `TtyInput`. `Inv` adds that whoever sleeps stands in
the queue, and that undisturbed the queue holds exactly the readers that sleep. For the turns,
the first entry of a sleeper is what moves: a key takes the head away and wakes whoever it names,
so the head is not a sleeper's own entry if it sleeps on, and everybody else only appends.

**`FirstFitProofs`.** `HeapTiled`, `OwnersInUse`, `FreeMerged`, as long as no `first_fit_free` is
interrupted (`~Preempted`, as in run `Heap`; run `HeapPreempted` shows what happens otherwise);
for sizes that rounding up does not wrap around (`NoWrap`, section 5) also `WipeSafe` (the
property that `HeapPreempted` refutes) and `AllocatorImplemented`: `FirstFit` implements `Allocator`.
The list of blocks is described by the set of its addresses and the order of numbers, since
what a recursive walk returns is out of the prover's reach: each block ends where the next
begins, the last at the end of the heap.

**`ShellProofs`.** `StandardFilesComeBack`, `ArgumentsAreFreed` and `PipesAreReleased`, for any
set of lines and situations. For the first, `FilesInv` says at each step of `execute_pipe` what it has done
(`Phase`: which backups are taken, which ends are open, which of the three parts it is in) and
what the table of the shell then holds (`Redirected`: a standard file is the terminal's or saved
at its backup; any other descriptor is one of the two ends). No fact about reference counts is
needed for it: the programs' calls do not touch the table of the shell, and its own calls are seen from
that table only. For the second, `ArgsInv` says that the shell holds an argument vector only
between building it and `sys_create`, which is the next step of its script; that every program
that was given one has a step `free` before its `exit`; that free slots hold none; and, unless
programs may be killed, that the heap holds as many blocks as those vectors have. The blocks are
counted as a set of pairs of slot and position, so that one more or one less is a fact about
finite sets and not about a sum.

For the third, `PipesInv` has counts and names. Of the counts, upper bounds are enough: the file
of a pipe has no more references than descriptors stand for it, a pipe no more readers and
writers than such files (`Behind`), and one that is unlinked has an end left, so somebody must
have it open. The invariant of `Pipe` itself does not hold here, since the kernel keeps
references of its own to the standard files of the terminal, and since a zombie with both ends
open is released twice (section 5): that lowers a count, never raises it, and the bounds survive
it. Of the names, no pipe has one but that of the line that is executed, from `open_writer` until
`execute_pipe` unlinks it (`OneName`), and the shell is back at its prompt only after that. With
`FilesInv` the shell itself holds no end at its prompt, so it is a program that does. Memory may
not run short: this is the hypothesis of the property, and section 5 says what happens otherwise.

Only model-checked: liveness, `EveryoneServed` of `Mvar` and `PromptReturns` of `Shell` included,
and ENABLED (out of the prover's reach). About `Buddy` there is nothing to prove: the promise of
an allocator is refuted by its run (section 3). Every safety property of a passing run has a
theorem.

## 7. Not modelled

Contents of stacks and registers; device I/O and drawing; the dispatch table; exception
screens; module loading; the bootloader and host tools. The wrap of `next_pid` at 2^31 is
beyond any bound. In `FirstFit` only one `first_fit_free` is preempted at a time. In `Buddy`
callers do not write over the links of free blocks that they were wrongly given.

Of the shell: the line editor and its history (a recalled line may leave an old `|` behind its
end, and a full line takes no more keys, not even Enter: both are in the list of hazards),
parsing of arguments, `waitpid`, `exit` and the commands that only draw on the screen. Of the
programs: what they print, the library, and what the tests do at work, with memory or with the
processes they start; `mvar` inside a pipeline.

## 8. Plan

1. The line editor of the shell: the line, its length and what is shown must agree.
2. The keyboard driver in front of `Tty`: modifiers, the translation of scan codes, Ctrl.
