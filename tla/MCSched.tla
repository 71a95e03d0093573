------------------------------ MODULE MCSched -------------------------------
(* Instances of Sched for TLC. *)
EXTENDS Sched

\* Filter agrees with SelectSeq on every sequence of up to four elements.
ASSUME FilterIsSelectSeq ==
    \A n \in 0 .. 4 : \A q \in [1 .. n -> 1 .. 3], T \in SUBSET (1 .. 3) :
        LET In(x) == x \in T IN Filter(q, T) = SelectSeq(q, In)

\* wake is proc_unblock, process by process.
ASSUME WakeIsUnblocks ==
    LET Asleep(f) == [sched_init EXCEPT !.enabled = TRUE,
                        !.pcb = [p \in Procs \cup {Idle} |->
                                   IF p = Idle THEN sched_init.pcb[p]
                                   ELSE block([sched_init EXCEPT !.pcb[p] = NewPCB(f[p])], p).pcb[p]]]
    IN  \A f \in [Procs -> Prios], w \in Orders :
           /\ Len(w) = 1 => wake(Asleep(f), w) = unblock(Asleep(f), w[1])
           /\ Len(w) = 2 => wake(Asleep(f), w) = unblock(unblock(Asleep(f), w[1]), w[2])
=============================================================================
