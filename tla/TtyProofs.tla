------------------------------ MODULE TtyProofs ------------------------------
(***************************************************************************)
(* Proofs about Tty, for every set of processes, capacity of the buffer    *)
(* and set of situations.  Inv is inductive: next to the types it says     *)
(* that an unused slot is inside no call, that whoever sleeps has asked    *)
(* for bytes and stands in the queue, that the check of fd_tty_read at the *)
(* start of a call holds until its end unless the terminal is taken over,  *)
(* and that, when nothing disturbs the readers, the queue holds exactly    *)
(* those that sleep.                                                       *)
(***************************************************************************)
EXTENDS Tty, QueueProofs

\* A slot that nobody uses is inside no tty_read; a sleeper is inside one.
CallsOK ==
    \A p \in Slots : /\ procs[p].state = "FREE" => procs[p].want = 0
                     /\ Sleeps(p) => procs[p].want > 0

\* Whoever sleeps stands in the queue.
Queued == \A p \in Slots : Sleeps(p) => \E i \in DOMAIN queue : queue[i] = p

\* Only the owner of the terminal is inside tty_read.
OwnerReads == "takeover" \notin may => \A p \in Live : procs[p].want > 0 => fg = p

\* Undisturbed, the queue holds nobody but the sleepers, and each once.
QueueExact ==
    may = {} =>
        /\ \A i \in DOMAIN queue : Sleeps(queue[i])
        /\ \A i, j \in DOMAIN queue : queue[i] = queue[j] => i = j

Inv == TypeOK /\ CallsOK /\ Queued /\ OwnerReads /\ QueueExact /\ NoLostWakeup

-----------------------------------------------------------------------------
\* When tty_read takes bytes, some or all of those in the buffer go.
LEMMA LesserType ==
    ASSUME NEW n \in 1 .. Chunk, size \in 0 .. TTY_BUFFER_CAP
    PROVE  size - Lesser(size, n) \in 0 .. TTY_BUFFER_CAP
BY TtyAssumption DEF Lesser

\* One turn of the loop of tty_read keeps Inv, whoever owns the terminal and runs.
LEMMA ReadStep ==
    ASSUME Inv, NEW p \in Slots, Runs(p), NEW n \in 1 .. Chunk, tty_read(p, n),
           UNCHANGED <<fg, may>>, "takeover" \notin may => fg = p
    PROVE  Inv'
<1> USE DEF Inv
<1>0. /\ procs' \in [Slots -> [state : {"FREE", "READY", "BLOCKED"}, want : 0 .. Chunk]]
      /\ \A q \in Slots \ {p} : procs'[q] = procs[q]
      /\ procs'[p] = [state |-> "READY", want |-> 0] \/ procs'[p] = [state |-> "BLOCKED", want |-> n]
  <2>1. CASE procs' = [procs EXCEPT ![p].want = 0]
    BY <2>1, TtyAssumption DEF TypeOK, Runs
  <2>2. CASE procs' = [procs EXCEPT ![p] = [state |-> "BLOCKED", want |-> n]]
    BY <2>2, TtyAssumption DEF TypeOK
  <2>3. QED
    BY <2>1, <2>2 DEF tty_read
<1>1. TypeOK'
  <2>1. size' \in 0 .. TTY_BUFFER_CAP
    BY LesserType DEF TypeOK, tty_read
  <2>2. eof' \in BOOLEAN
    BY DEF TypeOK, tty_read
  <2>3. queue' \in Seq(Slots)
    <3>1. queue \in Seq(Slots) /\ (queue' = queue \/ queue' = Append(queue, p))
      BY DEF TypeOK, tty_read, enqueue_waiter
    <3>2. QED
      BY <3>1, AppendProperties
  <2>4. QED
    BY <1>0, <2>1, <2>2, <2>3 DEF TypeOK
<1>2. CallsOK'
  BY <1>0 DEF CallsOK, Sleeps
<1>3. OwnerReads'
  BY DEF TypeOK, CallsOK, OwnerReads, tty_read, Runs, Live
<1>4. QueueExact' /\ Queued'
  <2>1. CASE UNCHANGED queue /\ procs' = [procs EXCEPT ![p].want = 0]
    BY <2>1 DEF TypeOK, QueueExact, Queued, Sleeps
  <2>2. CASE queue' = Append(queue, p) /\ procs' = [procs EXCEPT ![p] = [state |-> "BLOCKED", want |-> n]]
    <3>1. /\ DOMAIN queue' = 1 .. Len(queue) + 1 /\ DOMAIN queue = 1 .. Len(queue)
          /\ \A i \in DOMAIN queue : queue'[i] = queue[i]
          /\ queue'[Len(queue) + 1] = p
          /\ Len(queue) \in Nat
      BY <2>2 DEF TypeOK
    <3>2. may = {} => \A i \in DOMAIN queue : queue[i] # p
      BY DEF QueueExact, Sleeps, Runs
    <3>3. \A q \in Slots : Sleeps(q)' <=> Sleeps(q) \/ q = p
      BY <2>2 DEF TypeOK, Sleeps
    <3>4. \A i \in DOMAIN queue : queue[i] \in Slots
      BY DEF TypeOK
    <3>5. QueueExact'
      BY <2>2, <3>1, <3>2, <3>3, <3>4 DEF QueueExact
    <3>6. Queued'
      BY <3>1, <3>3 DEF Queued
    <3>7. QED
      BY <3>5, <3>6
  <2>3. QED
    BY <2>1, <2>2 DEF tty_read, enqueue_waiter
<1>5. NoLostWakeup'
  <2> SUFFICES ASSUME may = {} PROVE ~((size > 0 \/ eof)' /\ \E q \in Slots : Sleeps(q)')
    BY DEF NoLostWakeup
  <2>1. \A q \in Slots \ {p} : ~Sleeps(q)
    BY DEF CallsOK, OwnerReads, Sleeps, Live
  <2>2. \A q \in Slots \ {p} : ~Sleeps(q)'
    BY <1>0, <2>1 DEF Sleeps
  <2>3. (size > 0 \/ eof)' => procs'[p].state = "READY"
    BY DEF tty_read, TypeOK, Runs
  <2>4. QED
    BY <2>2, <2>3 DEF Sleeps
<1>6. QED
  BY <1>1, <1>2, <1>3, <1>4, <1>5

\* What the keyboard interrupt does to the waiters keeps Inv; in a full buffer and in
\* an empty one, the first sleeper is woken for the byte or the mark.
LEMMA WakeStep ==
    ASSUME Inv, wake_first, size' \in 0 .. TTY_BUFFER_CAP, eof' \in BOOLEAN,
           UNCHANGED <<fg, may>>
    PROVE  Inv'
<1> USE DEF Inv
<1>0. /\ procs' \in [Slots -> [state : {"FREE", "READY", "BLOCKED"}, want : 0 .. Chunk]]
      /\ \A q \in Slots : /\ procs'[q].want = procs[q].want
                          /\ procs'[q].state = IF queue # <<>> /\ q = Head(queue) /\ Sleeps(q)
                                               THEN "READY" ELSE procs[q].state
  BY DEF TypeOK, wake_first, Sleeps
<1>1. TypeOK'
  <2>1. queue' \in Seq(Slots)
    <3>1. queue \in Seq(Slots) /\ (queue' = queue \/ (queue # <<>> /\ queue' = Tail(queue)))
      BY DEF TypeOK, wake_first
    <3>2. QED
      BY <3>1, HeadTailProperties
  <2>2. QED
    BY <1>0, <2>1 DEF TypeOK
<1>2. CallsOK'
  BY <1>0 DEF CallsOK, Sleeps
<1>3. OwnerReads'
  BY <1>0 DEF OwnerReads, CallsOK, Live, Sleeps
<1>4. QueueExact' /\ Queued'
  <2>1. CASE queue = <<>>
    BY <2>1, <1>0 DEF QueueExact, Queued, wake_first, Sleeps
  <2>2. CASE queue # <<>>
    <3>1. /\ Len(queue) \in Nat /\ DOMAIN queue = 1 .. Len(queue) /\ 1 \in DOMAIN queue
          /\ DOMAIN queue' = 1 .. Len(queue) - 1
          /\ \A i \in DOMAIN queue' : queue'[i] = queue[i + 1] /\ i + 1 \in DOMAIN queue
          /\ Head(queue) = queue[1]
      BY <2>2 DEF TypeOK, wake_first
    <3>2. \A i \in DOMAIN queue : queue[i] \in Slots
      BY DEF TypeOK
    <3>3. \A q \in Slots : Sleeps(q)' <=> Sleeps(q) /\ q # queue[1]
      BY <1>0, <2>2, <3>1, <3>2 DEF Sleeps
    <3>4. \A i \in DOMAIN queue : i # 1 => i - 1 \in DOMAIN queue' /\ queue'[i - 1] = queue[i]
      BY <3>1
    <3>5. may = {} => \A i \in DOMAIN queue' : Sleeps(queue[i])'
      BY <3>1, <3>2, <3>3 DEF QueueExact
    <3>6. may = {} => \A i, j \in DOMAIN queue' : queue'[i] = queue'[j] => i = j
      BY <3>1 DEF QueueExact
    <3>7. \A q \in Slots : Sleeps(q)' => \E i \in DOMAIN queue' : queue'[i] = q
      BY <3>1, <3>3, <3>4 DEF Queued
    <3>8. QED
      BY <3>5, <3>6, <3>7 DEF QueueExact, Queued
  <2>3. QED
    BY <2>1, <2>2
<1>5. NoLostWakeup'
  <2> SUFFICES ASSUME may = {}, NEW q \in Slots, Sleeps(q)' PROVE FALSE
    BY DEF NoLostWakeup
  <2>1. Sleeps(q)
    BY <1>0 DEF Sleeps
  <2>2. PICK i \in DOMAIN queue : queue[i] = q
    BY <2>1 DEF Queued
  <2>3. queue # <<>> /\ Head(queue) \in Slots /\ Sleeps(Head(queue))
    BY <2>2 DEF QueueExact, TypeOK
  <2>4. Head(queue) = q
    BY <2>1, <2>3 DEF OwnerReads, CallsOK, Sleeps, Live
  <2>5. QED
    BY <2>3, <2>4, <1>0 DEF Sleeps
<1>6. QED
  BY <1>1, <1>2, <1>3, <1>4, <1>5

-----------------------------------------------------------------------------
\* The owner's slot passes to a foreground child only while the owner is inside no
\* tty_read, unless take-overs may happen.
LEMMA CreateStep ==
    ASSUME Inv, NEW p \in Slots, NEW child \in Slots, NEW foreground \in BOOLEAN,
           proc_create(p, child, foreground)
    PROVE  Inv'
<1> USE DEF Inv
<1>0. /\ procs' \in [Slots -> [state : {"FREE", "READY", "BLOCKED"}, want : 0 .. Chunk]]
      /\ \A q \in Slots \ {child} : procs'[q] = procs[q]
      /\ procs'[child].state = "READY" /\ procs'[child].want = 0
  BY DEF TypeOK, CallsOK, proc_create
<1>1. TypeOK'
  BY <1>0 DEF TypeOK, proc_create
<1>2. CallsOK'
  BY <1>0 DEF CallsOK, Sleeps
<1>3. OwnerReads'
  BY <1>0, TtyAssumption DEF TypeOK, OwnerReads, proc_create, Live
<1>4. \A q \in Slots : Sleeps(q)' <=> Sleeps(q)
  BY <1>0 DEF Sleeps, proc_create
<1>5. QueueExact' /\ Queued'
  <2>1. \A i \in DOMAIN queue : queue[i] \in Slots
    BY DEF TypeOK
  <2>2. QED
    BY <1>4, <2>1 DEF QueueExact, Queued, proc_create
<1>6. NoLostWakeup'
  BY <1>0, <1>4 DEF NoLostWakeup, proc_create, Runs
<1>7. QED
  BY <1>1, <1>2, <1>3, <1>5, <1>6

\* A process that ends leaves its waiter in the queue if it sleeps: only where kills
\* may happen.
LEMMA EndStep ==
    ASSUME Inv, NEW p \in Live, NEW heir, Ends(p, heir), may = {} => ~Sleeps(p)
    PROVE  Inv'
<1> USE DEF Inv
<1>0. /\ procs' \in [Slots -> [state : {"FREE", "READY", "BLOCKED"}, want : 0 .. Chunk]]
      /\ \A q \in Slots \ {p} : procs'[q] = procs[q]
      /\ procs'[p] = NoProc
  BY TtyAssumption DEF TypeOK, Ends, NoProc, Live
<1>1. TypeOK'
  BY <1>0 DEF TypeOK, Ends, Live
<1>2. CallsOK'
  BY <1>0 DEF CallsOK, Sleeps, NoProc
<1>3. OwnerReads'
  BY <1>0 DEF OwnerReads, Ends, Live, NoProc
<1>4. may = {} => \A q \in Slots : Sleeps(q)' <=> Sleeps(q)
  BY <1>0 DEF Sleeps, NoProc
<1>5. QueueExact' /\ Queued'
  <2>1. \A i \in DOMAIN queue : queue[i] \in Slots
    BY DEF TypeOK
  <2>2. \A q \in Slots : Sleeps(q)' => Sleeps(q)
    BY <1>0 DEF Sleeps, NoProc
  <2>3. QED
    BY <1>4, <2>1, <2>2 DEF QueueExact, Queued, Ends
<1>6. NoLostWakeup'
  <2> SUFFICES ASSUME may = {}, (size > 0 \/ eof), NEW q \in Slots, Sleeps(q) PROVE FALSE
    BY <1>4 DEF NoLostWakeup, Ends
  <2>1. PICK r \in Slots : Runs(r) /\ procs[r].want > 0
    BY DEF NoLostWakeup
  <2>2. QED
    BY <2>1 DEF OwnerReads, CallsOK, Sleeps, Runs, Live
<1>7. QED
  BY <1>1, <1>2, <1>3, <1>5, <1>6

\* sys_unblock on a sleeper.
LEMMA UnblockStep ==
    ASSUME Inv, NEW p \in Slots, proc_unblock(p)
    PROVE  Inv'
<1> USE DEF Inv
<1>0. /\ procs' \in [Slots -> [state : {"FREE", "READY", "BLOCKED"}, want : 0 .. Chunk]]
      /\ \A q \in Slots \ {p} : procs'[q] = procs[q]
      /\ procs'[p].state = "READY" /\ procs'[p].want = procs[p].want
  BY DEF TypeOK, proc_unblock
<1>1. TypeOK'
  BY <1>0 DEF TypeOK, proc_unblock
<1>2. CallsOK'
  BY <1>0 DEF CallsOK, Sleeps
<1>3. OwnerReads'
  BY <1>0 DEF OwnerReads, proc_unblock, Live, Sleeps
<1>4. QueueExact' /\ NoLostWakeup' /\ Queued'
  <2>1. \A q \in Slots : Sleeps(q)' => Sleeps(q)
    BY <1>0 DEF Sleeps
  <2>2. QED
    BY <2>1 DEF QueueExact, NoLostWakeup, Queued, proc_unblock
<1>5. QED
  BY <1>1, <1>2, <1>3, <1>4

-----------------------------------------------------------------------------
\* Nobody waits at the start.
LEMMA Initially == Init => Inv
<1> SUFFICES ASSUME Init PROVE Inv
  OBVIOUS
<1>1. PICK p \in Slots :
        /\ fg = p
        /\ procs = [q \in Slots |-> IF q = p THEN [NoProc EXCEPT !.state = "READY"] ELSE NoProc]
  BY DEF Init
<1>2. \A q \in Slots : procs[q].want = 0 /\ ~Sleeps(q)
  BY <1>1 DEF NoProc, Sleeps
<1>3. TypeOK
  <2>1. procs \in [Slots -> [state : {"FREE", "READY", "BLOCKED"}, want : 0 .. Chunk]]
    BY <1>1, TtyAssumption DEF NoProc
  <2>2. size = 0 /\ eof = FALSE /\ queue = <<>> /\ fg \in Slots
    BY <1>1 DEF Init
  <2>3. size \in 0 .. TTY_BUFFER_CAP /\ queue \in Seq(Slots)
    BY <2>2, TtyAssumption
  <2>4. QED
    BY <2>1, <2>2, <2>3 DEF TypeOK
<1>4. QED
  BY <1>2, <1>3 DEF Init, Inv, CallsOK, Queued, OwnerReads, QueueExact, NoLostWakeup,
                      Live

\* Each step keeps the invariant.
LEMMA NextStep == Inv /\ [Next]_vars => Inv'
<1> SUFFICES ASSUME Inv, [Next]_vars PROVE Inv'
  OBVIOUS
<1>1. CASE tty_push_char
  <2>1. size' \in 0 .. TTY_BUFFER_CAP
    BY <1>1, TtyAssumption DEF tty_push_char, Stored, Inv, TypeOK
  <2>2. QED
    BY <1>1, <2>1, WakeStep DEF tty_push_char, Inv, TypeOK
<1>2. CASE CtrlD
  BY <1>2, WakeStep DEF CtrlD, Inv, TypeOK
<1>3. ASSUME NEW p \in Slots, Resumes(p) PROVE Inv'
  <2>1. procs[p].want \in 1 .. Chunk
    BY <1>3, TtyAssumption DEF Resumes, Inv, TypeOK
  <2>2. "takeover" \notin may => fg = p
    BY <1>3 DEF Resumes, Inv, OwnerReads, Live, Runs
  <2>3. QED
    BY <1>3, <2>1, <2>2, ReadStep DEF Resumes
<1>4. ASSUME NEW p \in Slots, proc_unblock(p) PROVE Inv'
  BY <1>4, UnblockStep
<1>5. ASSUME NEW p \in Slots, NEW n \in 1 .. Chunk, read(p, n) PROVE Inv'
  BY <1>5, ReadStep DEF read, InUserland, tty_can_read
<1>6. ASSUME NEW p \in Slots, NEW child \in Slots, NEW foreground \in BOOLEAN,
             proc_create(p, child, foreground)
      PROVE  Inv'
  BY <1>6, CreateStep
<1>7. ASSUME NEW p \in Slots, NEW heir \in Slots \cup {None}, proc_exit(p, heir) PROVE Inv'
  BY <1>7, EndStep DEF proc_exit, InUserland, Runs, Live, Sleeps
<1>8. ASSUME NEW p \in Slots, NEW heir \in Slots \cup {None}, proc_kill(p, heir) PROVE Inv'
  BY <1>8, EndStep DEF proc_kill
<1>9. CASE UNCHANGED vars
  BY <1>9 DEF vars, Inv, TypeOK, CallsOK, Queued, OwnerReads, QueueExact,
              NoLostWakeup, Live, Sleeps, Runs
<1>10. QED
  BY <1>1, <1>2, <1>3, <1>4, <1>5, <1>6, <1>7, <1>8, <1>9 DEF Next

-----------------------------------------------------------------------------
(* The order in which readers are served *)

\* Who stands in the queue has a first entry there.
LEMMA FirstEntry ==
    ASSUME TypeOK, NEW p, \E i \in DOMAIN queue : queue[i] = p
    PROVE  \E i \in DOMAIN queue : Turn(i, p)
<1> DEFINE S == {i \in DOMAIN queue : queue[i] = p}
<1>1. S \in SUBSET Nat /\ S # {} /\ DOMAIN queue = 1 .. Len(queue) /\ Len(queue) \in Nat
  BY DEF TypeOK
<1>2. PICK i \in S : \A j \in S : i =< j
  BY <1>1, SmallestOf
<1>3. \A j \in 1 .. i - 1 : queue[j] # p
  BY <1>1, <1>2
<1>4. QED
  BY <1>2, <1>3 DEF Turn

\* What the step does to the turns of those who sleep.
Served ==
    \A p \in Slots : Sleeps(p) /\ Sleeps(p)' =>
        \E i \in DOMAIN queue :
            /\ Turn(i, p)
            /\ IF tty_push_char \/ CtrlD THEN Turn(i - 1, p)' ELSE Turn(i, p)'

\* A key takes the first entry away and wakes whoever has it; all others put their
\* entries at the end, if anywhere.
LEMMA ServedStep == Inv /\ [Next]_vars => [Served]_vars
<1> SUFFICES ASSUME Inv, Next, NEW p \in Slots, Sleeps(p), Sleeps(p)'
             PROVE  \E i \in DOMAIN queue :
                        /\ Turn(i, p)
                        /\ IF tty_push_char \/ CtrlD THEN Turn(i - 1, p)' ELSE Turn(i, p)'
  BY DEF Served
<1>1. PICK i \in DOMAIN queue : Turn(i, p)
  BY FirstEntry DEF Inv, Queued
<1>2. /\ queue \in Seq(Slots) /\ Len(queue) \in Nat /\ DOMAIN queue = 1 .. Len(queue)
      /\ procs \in [Slots -> [state : {"FREE", "READY", "BLOCKED"}, want : 0 .. Chunk]]
  BY DEF Inv, TypeOK
<1>3. CASE tty_push_char \/ CtrlD
  <2>1. wake_first /\ queue # <<>>
    BY <1>2, <1>3 DEF tty_push_char, CtrlD
  <2>2. /\ queue' = Tail(queue) /\ Head(queue) = queue[1]
        /\ DOMAIN queue' = 1 .. Len(queue) - 1
        /\ \A k \in 1 .. Len(queue) - 1 : queue'[k] = queue[k + 1]
    BY <1>2, <2>1 DEF wake_first
  <2>3. p # queue[1]
    BY <1>2, <2>1, <2>2 DEF wake_first, Sleeps
  <2>4. i # 1
    BY <1>1, <2>3 DEF Turn
  <2>5. Turn(i - 1, p)'
    BY <1>1, <1>2, <2>2, <2>4 DEF Turn
  <2>6. QED
    BY <1>1, <1>3, <2>5
<1>4. CASE ~(tty_push_char \/ CtrlD)
  <2>1. queue' = queue \/ \E q \in Slots : queue' = Append(queue, q)
    BY <1>4 DEF Next, Resumes, proc_unblock, read, proc_create, proc_exit, proc_kill, Ends,
                tty_read, enqueue_waiter
  <2>2. DOMAIN queue \subseteq DOMAIN queue' /\ \A k \in DOMAIN queue : queue'[k] = queue[k]
    BY <1>2, <2>1, AppendProperties
  <2>3. Turn(i, p)'
    BY <1>1, <1>2, <2>2 DEF Turn
  <2>4. QED
    BY <1>1, <1>4, <2>3
<1>5. QED
  BY <1>3, <1>4

-----------------------------------------------------------------------------
\* The invariant of the terminal: who waits is queued, and may read.
THEOREM Invariance == Spec => []Inv
BY Initially, NextStep, PTL DEF Spec

\* The buffer never holds more bytes than it has room for, and tty.c's queue holds
\* slots of the process table only.
THEOREM TypeCorrect == Spec => []TypeOK
<1>1. Inv => TypeOK
  BY DEF Inv
<1>2. QED
  BY <1>1, Invariance, PTL

\* Whoever sleeps in tty_read keeps its turn: each key that does not wake it brings it
\* one place nearer, and nothing else moves it, whatever is killed, unblocked or taken
\* over meanwhile.
THEOREM ReadersInTurn == Spec => ServedInTurn
<1>1. Inv /\ [Next]_vars =>
        [\A p \in Slots : Sleeps(p) /\ Sleeps(p)' =>
            \E i \in DOMAIN queue :
                /\ Turn(i, p)
                /\ IF tty_push_char \/ CtrlD THEN Turn(i - 1, p)' ELSE Turn(i, p)']_vars
  BY ServedStep DEF Served
<1>2. QED
  BY <1>1, Invariance, PTL DEF Spec, ServedInTurn

\* Undisturbed, no reader sleeps beside a byte or an end of file: the wake-up of
\* tty_push_char reaches the sleeper before somebody else takes what it was for.
THEOREM WakeupsReach == Spec => []NoLostWakeup
<1>1. Inv => NoLostWakeup
  BY DEF Inv
<1>2. QED
  BY <1>1, Invariance, PTL
=============================================================================
