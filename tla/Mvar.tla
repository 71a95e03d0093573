-------------------------------- MODULE Mvar --------------------------------
(***************************************************************************)
(* The mvar command: Userland/SampleCodeModule/programs/mvar.c on top of   *)
(* the semaphores of the kernel.  The shell starts writers and readers     *)
(* that share a variable through two named semaphores, "empty" and "full". *)
(*                                                                         *)
(*   prog   per slot: which program runs there (role), what it does next   *)
(*          (pc), its handles (0: none), its letter, the value that it has *)
(*          read, and for the shell the processes it has still to create   *)
(*   ctx    the mvar_context_t: in_use and value.  There is one, for       *)
(*          MVAR_MAX_INSTANCES; two contexts share nothing.                *)
(*                                                                         *)
(* A system call of a program is the action of Semaphore for it, joined to *)
(* what the program does with the result.  The program runs in userland,   *)
(* where the timer may interrupt it between any two steps.                 *)
(***************************************************************************)
EXTENDS Semaphore

CONSTANTS
    Launches,   \* the <<writer_count, reader_count>> that users ask for
    OtherHandles \* bound: how many handles are used for other things

ASSUME MvarAssumption ==
    /\ Slots \subseteq Nat /\ Slots # {}
    /\ {"empty", "full", "other"} \subseteq Names \cap Sems
    /\ OtherHandles \in Nat
    /\ Launches \subseteq (Nat \ {0}) \X (Nat \ {0})

VARIABLES prog, ctx

mvars == <<sems, handles, procs, next_pid, due, may, prog, ctx>>

NoProg == [role |-> "none", pc |-> "none", empty |-> 0, full |-> 0, letter |-> None,
           value |-> None, todo |-> <<>>]

Is(p, role, pc) == prog[p].role = role /\ prog[p].pc = pc
Goto(p, pc) == prog' = [prog EXCEPT ![p].pc = pc]
First(S) == CHOOSE p \in S : \A q \in S : p =< q

-----------------------------------------------------------------------------
\* The shell is at its prompt.
MvarInit ==
    /\ Init
    /\ procs[First(Slots)].pid = 1
    /\ prog = [p \in Slots |-> IF procs[p].pid = 1
                               THEN [NoProg EXCEPT !.role = "shell", !.pc = "prompt"]
                               ELSE NoProg]
    /\ ctx = [in_use |-> FALSE, value |-> None]

\* The processes that mvar_start creates for w writers and r readers, in order.
Team(w, r) ==
    [i \in 1 .. w + r |-> [NoProg EXCEPT !.role = IF i =< w THEN "writer" ELSE "reader",
                                         !.pc = "open_empty",
                                         !.letter = IF i =< w THEN i ELSE None]]

\* cmd_mvar and the start of mvar_start; with no context free it gives up.
mvar_start(p) ==
    /\ Is(p, "shell", "prompt")
    /\ ~ctx.in_use
    /\ \E n \in Launches :
        prog' = [prog EXCEPT ![p].pc = "open_empty", ![p].todo = Team(n[1], n[2])]
    /\ ctx' = [in_use |-> TRUE, value |-> None]
    /\ UNCHANGED vars

\* Faulty variant of InitialEmpty: the place starts with room for two values.
InitialEmpty_two == 2

InitialEmpty == 1

\* sys_sem_open, with the address of a semaphore called like the semaphore: which
\* addresses mm_malloc returns makes no difference.
open(p, name, init) ==
    /\ sem_open(p, name, init)
    /\ \A s \in Sems : sems'[s].used => sems'[s].name = s

\* A handle of the table that all processes share is taken for something else.
take_handle(p) ==
    /\ Is(p, "shell", "prompt")
    /\ ~ctx.in_use
    /\ Cardinality({h \in Handles : handles[h].sem # None}) < OtherHandles
    /\ open(p, "other", 0)
    /\ UNCHANGED <<prog, ctx>>

\* The handle that this step has opened, or 0 if sys_sem_open failed, for want of
\* memory or of a free handle.
Opened ==
    LET new == {h \in Handles : handles'[h] # handles[h]}
    IN  IF new = {} THEN 0 ELSE CHOOSE h \in new : TRUE

open_empty(p) ==
    /\ prog[p].pc = "open_empty"
    /\ open(p, "empty", InitialEmpty)
    /\ prog' = [prog EXCEPT ![p].pc = "open_full", ![p].empty = Opened]
    /\ UNCHANGED ctx

\* With both handles a writer or a reader starts its loop; otherwise, and in
\* mvar_start, the handles are closed again.
open_full(p) ==
    /\ prog[p].pc = "open_full"
    /\ open(p, "full", 0)
    /\ LET both == prog[p].empty # 0 /\ Opened # 0
       IN  /\ prog' = [prog EXCEPT ![p].full = Opened,
                                   ![p].pc = IF both /\ prog[p].role # "shell" THEN "wait"
                                             ELSE "close",
                                   ![p].todo = IF both THEN @ ELSE <<>>]
           /\ ctx' = [ctx EXCEPT !.in_use = @ /\ (both \/ prog[p].role # "shell")]

close_handle(p) ==
    LET field == IF prog[p].empty # 0 THEN "empty" ELSE "full"
    IN  /\ prog[p].pc = "close"
        /\ prog[p][field] # 0
        /\ sem_close(p, prog[p][field])
        /\ prog' = [prog EXCEPT ![p][field] = 0]
        /\ UNCHANGED ctx

Closed(p) == prog[p].pc = "close" /\ prog[p].empty = 0 /\ prog[p].full = 0

\* A writer or a reader without its semaphores: sys_exit(-1).
give_up(p) ==
    /\ Closed(p)
    /\ prog[p].role # "shell"
    /\ proc_exit(p, {})
    /\ prog' = [prog EXCEPT ![p] = NoProg]
    /\ UNCHANGED ctx

\* sys_create_process_ex for the next writer or reader.  Without a slot, or without
\* memory for the arguments or the stack, mvar_start gives up, and what it has
\* created before goes on running.
create_next(p) ==
    LET free == {q \in Slots : procs[q].pid = 0}
    IN  /\ Closed(p)
        /\ prog[p].todo # <<>>
        /\ UNCHANGED ctx
        /\ \/ /\ free # {}
              /\ Create(First(free))
              /\ prog' = [prog EXCEPT ![p].todo = Tail(@), ![First(free)] = Head(prog[p].todo)]
           \/ /\ prog' = [prog EXCEPT ![p].todo = <<>>]
              /\ UNCHANGED vars

\* mvar_start returns to the prompt.
launched(p) ==
    /\ Closed(p)
    /\ prog[p].role = "shell"
    /\ prog[p].todo = <<>>
    /\ Goto(p, "prompt")
    /\ UNCHANGED <<vars, ctx>>

-----------------------------------------------------------------------------
(* The loops of writer_process and reader_process *)

\* The semaphore that a process waits for, and the one that it posts.
WaitsFor(p) == IF prog[p].role = "writer" THEN prog[p].empty ELSE prog[p].full
Posts(p) == IF prog[p].role = "writer" THEN prog[p].full ELSE prog[p].empty

\* active_random_wait and sys_sem_wait, whose result nobody looks at: when it failed
\* the program goes on like one that was given a unit.
wait(p) ==
    /\ prog[p].pc = "wait"
    /\ sem_wait(p, WaitsFor(p))
    /\ Goto(p, "use")
    /\ UNCHANGED ctx

wait_returns(p) ==
    /\ WaitReturns(p)
    /\ UNCHANGED <<prog, ctx>>

write_value(p) ==
    /\ Is(p, "writer", "use")
    /\ InUserland(p)
    /\ ctx' = [ctx EXCEPT !.value = prog[p].letter]
    /\ Goto(p, "post")
    /\ UNCHANGED vars

read_value(p) ==
    /\ Is(p, "reader", "use")
    /\ InUserland(p)
    /\ prog' = [prog EXCEPT ![p].pc = "post", ![p].value = ctx.value]
    /\ UNCHANGED <<vars, ctx>>

post(p) ==
    /\ prog[p].pc = "post"
    /\ sem_post(p, Posts(p))
    /\ Goto(p, IF prog[p].role = "writer" THEN "wait" ELSE "print")
    /\ UNCHANGED ctx

\* printcColor and sys_yield.
print_value(p) ==
    /\ prog[p].pc = "print"
    /\ InUserland(p)
    /\ prog' = [prog EXCEPT ![p].pc = "wait", ![p].value = None]
    /\ UNCHANGED <<vars, ctx>>

\* The kill command, typed at the prompt, for a writer or a reader.
kill_member(p) ==
    /\ \E q \in Slots : Is(q, "shell", "prompt")
    /\ prog[p].role \in {"writer", "reader"}
    /\ proc_kill(p, {})
    /\ prog' = [prog EXCEPT ![p] = NoProg]
    /\ UNCHANGED ctx

Step(p) ==
    \/ mvar_start(p) \/ open_empty(p) \/ open_full(p) \/ close_handle(p) \/ give_up(p)
    \/ create_next(p) \/ launched(p)
    \/ wait(p) \/ wait_returns(p) \/ write_value(p) \/ read_value(p) \/ post(p) \/ print_value(p)

MvarNext == \E p \in Slots : Step(p) \/ kill_member(p) \/ take_handle(p)

\* The scheduler gives the CPU to every READY process again and again (module
\* Sched, NoStarvation), and active_random_wait ends.
Fairness == \A p \in Slots : WF_mvars(Step(p))

MvarSpec == MvarInit /\ [][MvarNext]_mvars /\ Fairness

-----------------------------------------------------------------------------
(* Properties *)

Asleep(p) == \E s \in Sems : SleepsOn(s, p)

\* A value was written and not yet read: its writer is about to post it, it is in
\* the count of "full", or with a reader that has its unit.
HasValue ==
    \/ \E p \in Slots : Is(p, "writer", "post")
    \/ \E p \in Slots : Is(p, "reader", "use") /\ ~Asleep(p)
    \/ \E s \in Found("full") : sems[s].count > 0

Box == IF HasValue THEN <<ctx.value>> ELSE <<>>
Got == [p \in Slots |-> prog[p].value]

Place == INSTANCE OnePlace WITH
    Procs <- Slots,
    Letters <- UNION {1 .. n[1] : n \in Launches},
    box <- Box,
    got <- Got

\* The two semaphores make a place for one value: no writer overwrites a value
\* that nobody has read, no value is read twice or before it was written, also
\* when handles run out at the start, processes cannot all be created, or are
\* killed.  It needs memory for every waiter: writer_process and reader_process
\* ignore that sys_sem_wait failed, and then use the place without a unit.
ImplementsOnePlace ==
    Place!Init /\ [][("no_memory" \notin may) => Place!Next]_<<Box, Got>>

InLoop(p, role) == prog[p].role = role /\ prog[p].pc \in {"wait", "use", "post", "print"}

OtherRole(role) == IF role = "writer" THEN "reader" ELSE "writer"

\* Unless somebody is killed, every writer comes to write and every reader to read
\* again and again, as long as there is somebody on the other side: nobody is
\* overtaken for ever by others of its kind.
EveryoneServed ==
    \A p \in Slots \ {First(Slots)} :
        (/\ "kill" \notin may
         /\ prog[p].pc = "wait"
         /\ \E q \in Slots : InLoop(q, OtherRole(prog[p].role))) ~> (prog[p].pc = "post")
=============================================================================
