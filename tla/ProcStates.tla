----------------------------- MODULE ProcStates -----------------------------
(***************************************************************************)
(* What the rest of the kernel relies on the scheduler for, with the       *)
(* policy left out: each process is free, ready, running or blocked; one   *)
(* process or idle holds the CPU; whoever gives it up is followed by some  *)
(* ready process, and by idle only when there is none.  Sched implements   *)
(* this specification; the modules of the other components use it in place *)
(* of the queues, priorities and time slices of Sched.                     *)
(***************************************************************************)
CONSTANTS Procs, Idle

VARIABLES state, running

vars == <<state, running>>

States == {"FREE", "READY", "RUNNING", "BLOCKED"}

With(st, S, v) == [p \in Procs |-> IF p \in S THEN v ELSE st[p]]

Are(st, v) == {p \in Procs : st[p] = v}

\* The CPU passes on: any ready process may be chosen, idle if there is none.
SwitchFrom(st) ==
    \/ /\ Are(st, "READY") = {}
       /\ running' = Idle
       /\ state' = st
    \/ \E q \in Are(st, "READY") :
       /\ running' = q
       /\ state' = With(st, {q}, "RUNNING")

Init ==
    /\ state = [p \in Procs |-> "FREE"]
    /\ running = Idle

Create(p) ==
    /\ state[p] = "FREE"
    /\ state' = With(state, {p}, "READY")
    /\ UNCHANGED running

Yield == SwitchFrom(With(state, {running}, "READY"))

BlockSelf ==
    /\ running # Idle
    /\ SwitchFrom(With(state, {running}, "BLOCKED"))

BlockOther(p) ==
    /\ state[p] = "READY"
    /\ state' = With(state, {p}, "BLOCKED")
    /\ UNCHANGED running

Unblock(p) ==
    /\ state[p] = "BLOCKED"
    /\ state' = With(state, {p}, "READY")
    /\ UNCHANGED running

\* dead is the victim and the children it takes along; woken, the parent that
\* was waiting for it and the processes that were blocked on its pipes.  With
\* nobody dead, Kill is the wake-up of several processes at once.
Exit(dead, woken) ==
    /\ running \in dead
    /\ woken \subseteq Are(state, "BLOCKED") \ dead
    /\ SwitchFrom(With(With(state, dead, "FREE"), woken, "READY"))

Kill(dead, woken) ==
    /\ running \notin dead
    /\ woken \subseteq Are(state, "BLOCKED") \ dead
    /\ state' = With(With(state, dead, "FREE"), woken, "READY")
    /\ UNCHANGED running

Next ==
    \/ Yield
    \/ BlockSelf
    \/ \E p \in Procs : Create(p) \/ BlockOther(p) \/ Unblock(p)
    \/ \E dead, woken \in SUBSET Procs : Exit(dead, woken) \/ Kill(dead, woken)

Spec == Init /\ [][Next]_vars
=============================================================================
