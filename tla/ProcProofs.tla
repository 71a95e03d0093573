----------------------------- MODULE ProcProofs -----------------------------
(***************************************************************************)
(* Proofs about Proc, for any number of processes.  When no process dies   *)
(* while its child is on the CPU and no proc_exit is interrupted, the      *)
(* process table is a tree of processes with pids of their own, and the    *)
(* zombie list has exactly the dead; whoever sleeps in proc_wait has a     *)
(* child that will wake it, and finds the result; the terminal belongs to  *)
(* a process that lives; and every step is one that ProcStates allows.     *)
(***************************************************************************)
EXTENDS Proc, QueueProofs

\* The records of the process table.
Pcb == [used : BOOLEAN, pid : Nat, state : {"READY", "RUNNING", "BLOCKED", "EXITED"},
        parent_pid : Int, kids : SUBSET Slots, waiting_for : Int, results : Seq(Nat),
        pending : Nat, zombie_reapable : BOOLEAN, fg : BOOLEAN,
        at : {"user", "wait", "exit"}, target : Int]

Kernel == [pcb : [Slots -> Pcb], zombies : SUBSET Slots, current : Slots, fg_pid : Int,
           next_pid : Nat, may : SUBSET AllScenarios]

\* Neither a process that dies while its child is on the CPU nor an exit that is
\* interrupted.
Orderly == kernel.may \cap {"kill_parent", "exit_preempted"} = {}

-----------------------------------------------------------------------------
(* The invariant, of the table P, the zombies Z, the current slot c and next_pid n *)

\* A slot out of use holds nothing.
Vacant(P) == \A s \in Slots : ~P[s].used => P[s] = Unused

\* Pids identify processes, and a parent is older than its child.
Numbered(P, n) ==
    /\ \A s \in Slots : P[s].used =>
          P[s].pid \in 1 .. n - 1 /\ P[s].parent_pid < P[s].pid
    /\ \A s, t \in Slots : P[s].used /\ P[t].used /\ P[s].pid = P[t].pid => s = t

\* The pids in the exit results of a process.
Named(pcb) == {pcb.results[i] : i \in DOMAIN pcb.results} \cup ({pcb.pending} \ {0})

\* A process whose exit result its parent has is a zombie, in N, or gone; its parent has
\* it once.
Reported(P, Z, n, N) ==
    /\ \A s \in Slots : \A x \in Named(P[s]) :
          x \in 1 .. n - 1 /\ \A t \in Slots : P[t].used /\ P[t].pid = x => t \in Z \cup N
    /\ \A s \in Slots : \A i, j \in DOMAIN P[s].results :
          P[s].results[i] = P[s].results[j] => i = j

\* The child lists and parent_pid tell the same tree, in which no zombie has a place.
Tree(P, Z) ==
    /\ \A s, t \in Slots : P[s].used =>
          (t \in P[s].kids <=> P[t].used /\ P[t].parent_pid = P[s].pid)
    /\ \A t \in Slots : P[t].used =>
          \/ P[t].parent_pid = -1
          \/ \E p \in Slots \ Z : P[p].used /\ P[p].pid = P[t].parent_pid
    /\ \A z \in Z : P[z].kids = {} /\ P[z].parent_pid = -1

\* The dead are zombies, and have no results, unless they are in D, on their way there.
Dead(P, Z, D) ==
    /\ D \subseteq Slots /\ Z = {s \in Slots : P[s].used /\ P[s].state = "EXITED"} \ D
    /\ \A z \in Z : P[z].results = <<>> /\ P[z].pending = 0
    /\ \A s \in Slots : P[s].used /\ P[s].at = "exit" => P[s].state = "EXITED"
    /\ \A s \in D : P[s].used /\ P[s].state = "EXITED"

\* Nobody but the current process runs; idle does all the time.
OnCpu(P, c) ==
    /\ P[c].used
    /\ P[Idle].used /\ P[Idle].pid = IdlePid /\ P[Idle].state = "RUNNING" /\ P[Idle].at = "user"
    /\ \A s \in Slots \ {Idle} : P[s].used /\ P[s].state = "RUNNING" => s = c

Core(P, Z, c, n, D, N) ==
    /\ Vacant(P) /\ Numbered(P, n) /\ Reported(P, Z, n, N) /\ Tree(P, Z) /\ Dead(P, Z, D)
    /\ OnCpu(P, c)

Sound(k, D, N) ==
    k \in Kernel /\ Core(k.pcb, k.zombies, k.current, k.next_pid, D, N)

\* The process that is in the proc_exit of trampoline.
Exiting(k) == {s \in {k.current} : k.pcb[s].at = "exit"}

Good(k) ==
    /\ Sound(k, Exiting(k), {})
    /\ k.current = Idle \/ k.pcb[k.current].state = "RUNNING" \/ k.current \in Exiting(k)

Inv == Orderly /\ Good(kernel)

-----------------------------------------------------------------------------
(* Changes that matter to no part of the invariant but OnCpu *)

\* P2 differs from P only in what the tree, the pids, the results and the dead do not
\* tell apart.
Alike(P, P2) ==
    /\ P2 \in [Slots -> Pcb]
    /\ \A s \in Slots :
          /\ P2[s].used = P[s].used /\ P2[s].pid = P[s].pid /\ P2[s].kids = P[s].kids
          /\ P2[s].parent_pid = P[s].parent_pid
          /\ P2[s].results = P[s].results /\ P2[s].pending = P[s].pending
          /\ P2[s].state = "EXITED" <=> P[s].state = "EXITED"
          /\ P2[s].at = "exit" => P2[s].state = "EXITED"
          /\ ~P[s].used => P2[s] = P[s]

\* The invariant without OnCpu.
Family(P, Z, n, D, N) ==
    Vacant(P) /\ Numbered(P, n) /\ Reported(P, Z, n, N) /\ Tree(P, Z) /\ Dead(P, Z, D)

\* A table like one that is in order is in order.
LEMMA AlikeKeeps ==
    ASSUME NEW P, NEW P2, NEW Z, NEW n, NEW D, NEW N, Family(P, Z, n, D, N), Alike(P, P2),
           Z \subseteq Slots, D \subseteq Slots
    PROVE  Family(P2, Z, n, D, N)
<1>1. Vacant(P2)
  BY DEF Family, Vacant, Alike
<1>2. Numbered(P2, n)
  BY DEF Family, Numbered, Alike
<1>3. Reported(P2, Z, n, N)
  <2>1. \A s \in Slots : Named(P2[s]) = Named(P[s]) /\ P2[s].results = P[s].results
    BY DEF Alike, Named
  <2>2. \A t \in Slots : P2[t].used = P[t].used /\ P2[t].pid = P[t].pid
    BY DEF Alike
  <2>3. QED
    BY <2>1, <2>2 DEF Family, Reported
<1>4. Tree(P2, Z)
  <2>1. \A s \in Slots : /\ P2[s].used = P[s].used /\ P2[s].pid = P[s].pid
                         /\ P2[s].kids = P[s].kids /\ P2[s].parent_pid = P[s].parent_pid
    BY DEF Alike
  <2>2. QED
    BY <2>1 DEF Family, Tree
<1>5. Dead(P2, Z, D)
  <2>1. \A s \in Slots : /\ P2[s].used = P[s].used
                         /\ P2[s].state = "EXITED" <=> P[s].state = "EXITED"
                         /\ P2[s].at = "exit" => P2[s].state = "EXITED"
                         /\ P2[s].results = P[s].results /\ P2[s].pending = P[s].pending
    BY DEF Alike
  <2>2. {s \in Slots : P2[s].used /\ P2[s].state = "EXITED"}
           = {s \in Slots : P[s].used /\ P[s].state = "EXITED"}
    BY <2>1
  <2>3. QED
    BY <2>1, <2>2 DEF Family, Dead
<1>6. QED
  BY <1>1, <1>2, <1>3, <1>4, <1>5 DEF Family

\* Core is the family and the CPU.
LEMMA CoreIs ==
    ASSUME NEW P, NEW Z, NEW c, NEW n, NEW D, NEW N
    PROVE  Core(P, Z, c, n, D, N) <=> Family(P, Z, n, D, N) /\ OnCpu(P, c)
BY DEF Core, Family

\* The slots: idle's is one of them.
LEMMA SlotFacts == Idle \in Slots /\ IdlePid = 1 /\ Shell = 2 /\ Slots \subseteq Nat
BY ProcAssumption DEF Idle, IdlePid, Shell, Slots

\* What collect_zombies leaves of a record.
LEMMA UnusedFacts ==
    /\ Unused \in Pcb
    /\ ~Unused.used /\ Unused.kids = {} /\ Unused.results = <<>> /\ Unused.pending = 0
    /\ Unused.state = "EXITED" /\ Unused.at = "user" /\ Unused.parent_pid = -1
BY DEF Unused, Pcb

\* Parts of the state.
LEMMA KernelFacts ==
    ASSUME NEW k \in Kernel
    PROVE  /\ k.pcb \in [Slots -> Pcb] /\ k.zombies \subseteq Slots /\ k.current \in Slots
           /\ k.fg_pid \in Int /\ k.next_pid \in Nat /\ k.may \subseteq AllScenarios
BY DEF Kernel

-----------------------------------------------------------------------------
(* collect_zombies *)

\* All zombies go, for none of them has a parent.
Collected(k, j) ==
    /\ j \in Kernel
    /\ j.pcb = [s \in Slots |-> IF s \in k.zombies THEN Unused ELSE k.pcb[s]]
    /\ j.zombies = {} /\ j.current = k.current /\ j.fg_pid = k.fg_pid
    /\ j.next_pid = k.next_pid /\ j.may = k.may

\* collect_zombies frees the slot of every zombie: none of them has a parent.
LEMMA CollectFacts ==
    ASSUME NEW k \in Kernel, Tree(k.pcb, k.zombies), NEW j, j = collect_zombies(k)
    PROVE  Collected(k, j)
<1>1. {z \in k.zombies : k.pcb[z].zombie_reapable \/ k.pcb[z].parent_pid < 0} = k.zombies
  BY DEF Tree
<1>2. PICK Z : Z = k.zombies
  OBVIOUS
<1>3. j = [k EXCEPT !.pcb = [s \in Slots |-> IF s \in Z THEN Unused ELSE k.pcb[s]],
                    !.zombies = Z \ Z]
  BY <1>1, <1>2 DEF collect_zombies
<1>4. PICK P2 : P2 = [s \in Slots |-> IF s \in Z THEN Unused ELSE k.pcb[s]]
  OBVIOUS
<1>5. P2 \in [Slots -> Pcb]
  BY <1>4, UnusedFacts, KernelFacts
<1>6. j = [k EXCEPT !.pcb = P2, !.zombies = {}]
  BY <1>3, <1>4
<1>7. QED
  BY <1>2, <1>4, <1>5, <1>6 DEF Collected, Kernel

\* collect_zombies keeps the table in order.
LEMMA CollectSound ==
    ASSUME NEW k, NEW D, NEW N, Sound(k, D, N), k.current \notin k.zombies, NEW j, Collected(k, j)
    PROVE  Sound(j, D, N)
<1>1. PICK P, P2, Z, n : P = k.pcb /\ P2 = j.pcb /\ Z = k.zombies /\ n = k.next_pid
  OBVIOUS
<1>2. /\ P \in [Slots -> Pcb] /\ Z \subseteq Slots /\ k.current \in Slots
      /\ Vacant(P) /\ Numbered(P, n) /\ Reported(P, Z, n, N) /\ Tree(P, Z) /\ Dead(P, Z, D)
      /\ OnCpu(P, k.current)
  BY <1>1, KernelFacts DEF Sound, Core
<1>3. \A s \in Slots : P2[s] = IF s \in Z THEN Unused ELSE P[s]
  BY <1>1 DEF Collected
<1>4. \A s \in Slots : P2[s].used => s \notin Z /\ P2[s] = P[s] /\ P[s].used
  BY <1>3, UnusedFacts
<1>5. \A s \in Slots \ Z : P2[s] = P[s]
  BY <1>3
<1>6. Vacant(P2)
  BY <1>2, <1>3 DEF Vacant
<1>7. Numbered(P2, n)
  BY <1>2, <1>4 DEF Numbered
<1>8. Reported(P2, {}, n, N)
  <2>1. \A s \in Slots : s \in Z => Named(P2[s]) = {} /\ P2[s].results = <<>>
    BY <1>3, UnusedFacts DEF Named
  <2>2. \A s \in Slots : s \notin Z => P2[s] = P[s]
    BY <1>3
  <2>3. ASSUME NEW s \in Slots, NEW x \in Named(P2[s])
        PROVE  x \in 1 .. n - 1 /\ \A t \in Slots : P2[t].used /\ P2[t].pid = x => t \in {} \cup N
    <3>1. x \in Named(P[s])
      BY <2>1, <2>2, <2>3
    <3>2. x \in 1 .. n - 1 /\ \A t \in Slots : P[t].used /\ P[t].pid = x => t \in Z \cup N
      BY <1>2, <3>1 DEF Reported
    <3>3. QED
      BY <1>4, <3>2
  <2>4. \A s \in Slots : \A i, j2 \in DOMAIN P2[s].results :
           P2[s].results[i] = P2[s].results[j2] => i = j2
    BY <1>2, <2>1, <2>2 DEF Reported
  <2>5. QED
    BY <2>3, <2>4 DEF Reported
<1>9. Tree(P2, {})
  <2>1. ASSUME NEW s \in Slots, NEW t \in Slots, P2[s].used
        PROVE  t \in P2[s].kids <=> P2[t].used /\ P2[t].parent_pid = P2[s].pid
    <3>1. P2[s] = P[s] /\ P[s].used /\ P[s].pid # -1
      BY <1>2, <1>4, <2>1 DEF Numbered
    <3>2. t \in P[s].kids <=> P[t].used /\ P[t].parent_pid = P[s].pid
      BY <1>2, <3>1 DEF Tree
    <3>3. CASE t \in Z
      BY <1>2, <1>3, <3>1, <3>2, <3>3, UnusedFacts DEF Tree
    <3>4. CASE t \notin Z
      BY <1>5, <3>1, <3>2, <3>4
    <3>5. QED
      BY <3>3, <3>4
  <2>2. ASSUME NEW t \in Slots, P2[t].used, P2[t].parent_pid # -1
        PROVE  \E p \in Slots \ {} : P2[p].used /\ P2[p].pid = P2[t].parent_pid
    <3>1. P2[t] = P[t] /\ P[t].used
      BY <1>4, <2>2
    <3>2. PICK p \in Slots \ Z : P[p].used /\ P[p].pid = P[t].parent_pid
      BY <1>2, <2>2, <3>1 DEF Tree
    <3>3. QED
      BY <1>5, <3>1, <3>2
  <2>3. QED
    BY <2>1, <2>2 DEF Tree
<1>10. Dead(P2, {}, D)
  <2>1. \A s \in D : s \in Slots /\ s \notin Z /\ P[s].used /\ P[s].state = "EXITED"
    <3>1. \A s \in D : P[s].used /\ P[s].state = "EXITED"
      BY <1>2 DEF Dead
    <3>2. Z = {s \in Slots : P[s].used /\ P[s].state = "EXITED"} \ D
      BY <1>2 DEF Dead
    <3>3. D \subseteq Slots
      BY DEF Sound, Core, Dead
    <3>4. QED
      BY <3>1, <3>2, <3>3
  <2>2. \A s \in Slots : P[s].used /\ P[s].state = "EXITED" => s \in Z \/ s \in D
    BY <1>2 DEF Dead
  <2>3. {s \in Slots : P2[s].used /\ P2[s].state = "EXITED"} \ D = {}
    BY <1>4, <2>2
  <2>4. \A s \in Slots : P2[s].used /\ P2[s].at = "exit" => P2[s].state = "EXITED"
    BY <1>2, <1>4 DEF Dead
  <2>5. \A s \in D : P2[s].used /\ P2[s].state = "EXITED"
    BY <1>5, <2>1
  <2>6. QED
    BY <2>1, <2>3, <2>4, <2>5 DEF Dead
<1>11. OnCpu(P2, k.current)
  <2>1. k.current \in Slots \ Z
    BY <1>1, <1>2
  <2>2. Idle \in Slots \ Z
    <3>1. P[Idle].state # "EXITED"
      BY <1>2 DEF OnCpu
    <3>2. QED
      BY <1>2, <3>1, SlotFacts DEF Dead
  <2>3. QED
    BY <1>2, <1>4, <1>5, <2>1, <2>2 DEF OnCpu
<1>12. QED
  BY <1>1, <1>6, <1>7, <1>8, <1>9, <1>10, <1>11 DEF Sound, Core, Collected

-----------------------------------------------------------------------------
(* Changes of single records, and the CPU *)

\* A state that differs in the table only.
LEMMA TableChanged ==
    ASSUME NEW k \in Kernel, NEW P2 \in [Slots -> Pcb], NEW j, j = [k EXCEPT !.pcb = P2]
    PROVE  /\ j \in Kernel /\ j.pcb = P2 /\ j.zombies = k.zombies /\ j.current = k.current
           /\ j.fg_pid = k.fg_pid /\ j.next_pid = k.next_pid /\ j.may = k.may
BY DEF Kernel

\* A write to one record of procs[].
LEMMA PutFacts ==
    ASSUME NEW k \in Kernel, NEW s \in Slots, NEW pcb \in Pcb, NEW j, j = Put(k, s, pcb)
    PROVE  /\ j \in Kernel /\ j.zombies = k.zombies /\ j.current = k.current
           /\ j.fg_pid = k.fg_pid /\ j.next_pid = k.next_pid /\ j.may = k.may
           /\ j.pcb \in [Slots -> Pcb]
           /\ j.pcb[s] = pcb /\ \A t \in Slots : t # s => j.pcb[t] = k.pcb[t]
<1>1. PICK P2 : P2 = [t \in Slots |-> IF t = s THEN pcb ELSE k.pcb[t]]
  OBVIOUS
<1>2. P2 \in [Slots -> Pcb] /\ P2[s] = pcb /\ \A t \in Slots : t # s => P2[t] = k.pcb[t]
  BY <1>1, KernelFacts
<1>3. j = [k EXCEPT !.pcb = P2]
  BY <1>1 DEF Put
<1>4. QED
  BY <1>2, <1>3, TableChanged

\* A process in another state, inside or outside a handler.
Restated(pcb, new) ==
    /\ new \in Pcb /\ new.used = pcb.used /\ new.pid = pcb.pid /\ new.kids = pcb.kids
    /\ new.parent_pid = pcb.parent_pid /\ new.results = pcb.results /\ new.pending = pcb.pending

\* A record in another state.
LEMMA StateChanged ==
    ASSUME NEW pcb \in Pcb, NEW st \in {"READY", "RUNNING", "BLOCKED", "EXITED"}, NEW new,
           new = [pcb EXCEPT !.state = st]
    PROVE  Restated(pcb, new) /\ new.state = st /\ new.at = pcb.at /\ new \in Pcb
BY DEF Restated, Pcb

\* A table in which one process is in another state is like the one before.
LEMMA RestatedAlike ==
    ASSUME NEW P \in [Slots -> Pcb], NEW s \in Slots, P[s].used, NEW P2 \in [Slots -> Pcb],
           Restated(P[s], P2[s]), \A t \in Slots : t # s => P2[t] = P[t],
           P2[s].state = "EXITED" <=> P[s].state = "EXITED",
           \A t \in Slots : P[t].used /\ P[t].at = "exit" => P[t].state = "EXITED",
           P2[s].at = "exit" => P2[s].state = "EXITED", Vacant(P)
    PROVE  Alike(P, P2)
<1>1. \A t \in Slots : P[t].at = "exit" => P[t].state = "EXITED"
  BY UnusedFacts DEF Vacant
<1>2. QED
  BY <1>1 DEF Alike, Restated

\* What a switch from k leaves in j: another process runs, or idle.
Switched(k, j) ==
    /\ j \in Kernel /\ j.zombies = k.zombies /\ j.next_pid = k.next_pid /\ j.may = k.may
    /\ j.fg_pid = k.fg_pid
    /\ Alike(k.pcb, j.pcb) /\ OnCpu(j.pcb, j.current)
    /\ j.current = Idle \/ j.pcb[j.current].state = "RUNNING"
    /\ j.pcb[j.current].at # "exit"

\* Alike twice.
LEMMA AlikeTrans ==
    ASSUME NEW P, NEW P2, NEW P3, Alike(P, P2), Alike(P2, P3)
    PROVE  Alike(P, P3)
BY DEF Alike

\* Before a switch, the process that has the CPU becomes ready if it still runs.
LEMMA YieldFacts ==
    ASSUME NEW k, NEW D, NEW N, Sound(k, D, N), NEW r,
           r = IF k.current # Idle /\ k.pcb[k.current].state = "RUNNING"
               THEN Put(k, k.current, [k.pcb[k.current] EXCEPT !.state = "READY"]) ELSE k
    PROVE  /\ r \in Kernel /\ r.zombies = k.zombies /\ r.next_pid = k.next_pid /\ r.may = k.may
           /\ r.fg_pid = k.fg_pid /\ Alike(k.pcb, r.pcb)
           /\ \A s \in Slots \ {Idle} : r.pcb[s].used => r.pcb[s].state # "RUNNING"
           /\ r.pcb[Idle] = k.pcb[Idle]
<1>1. k \in Kernel /\ Vacant(k.pcb) /\ Dead(k.pcb, k.zombies, D) /\ OnCpu(k.pcb, k.current)
  BY DEF Sound, Core
<1>2. PICK P, c : P = k.pcb /\ c = k.current
  OBVIOUS
<1>3. P \in [Slots -> Pcb] /\ c \in Slots /\ P[c].used /\ P[c] \in Pcb
  BY <1>1, <1>2, KernelFacts DEF OnCpu
<1>4. \A t \in Slots : P[t].at = "exit" => P[t].state = "EXITED"
  BY <1>1, <1>2, UnusedFacts DEF Vacant, Dead
<1>5. CASE c # Idle /\ P[c].state = "RUNNING"
  <2>1. PICK new : new = [P[c] EXCEPT !.state = "READY"]
    OBVIOUS
  <2>2. Restated(P[c], new) /\ new.state = "READY" /\ new.at = P[c].at /\ new \in Pcb
    BY <1>3, <2>1, StateChanged
  <2>3. r = Put(k, c, new)
    BY <1>2, <1>5, <2>1
  <2>4. /\ r \in Kernel /\ r.zombies = k.zombies /\ r.next_pid = k.next_pid /\ r.may = k.may
        /\ r.fg_pid = k.fg_pid /\ r.pcb \in [Slots -> Pcb]
        /\ r.pcb[c] = new /\ \A t \in Slots : t # c => r.pcb[t] = P[t]
    <3>1. PICK y : y = Put(k, c, new)
      OBVIOUS
    <3>2. /\ y \in Kernel /\ y.zombies = k.zombies /\ y.next_pid = k.next_pid /\ y.may = k.may
          /\ y.fg_pid = k.fg_pid /\ y.pcb \in [Slots -> Pcb]
          /\ y.pcb[c] = new /\ \A t \in Slots : t # c => y.pcb[t] = k.pcb[t]
      <4>1. k \in Kernel /\ c \in Slots /\ new \in Pcb
        BY <1>1, <1>3, <2>2
      <4>2. QED
        BY <3>1, <4>1, PutFacts
    <3>3. y = r
      BY <2>3, <3>1
    <3>4. k.pcb = P
      BY <1>2
    <3>5. QED
      BY <3>2, <3>3, <3>4
  <2>5. Alike(P, r.pcb)
    <3>1. new.state # "EXITED" /\ P[c].state # "EXITED" /\ new.at # "exit"
      BY <1>3, <1>4, <1>5, <2>2
    <3>2. QED
      BY <1>1, <1>2, <1>3, <1>4, <2>2, <2>4, <3>1, RestatedAlike
  <2>6. \A s \in Slots \ {Idle} : r.pcb[s].used => r.pcb[s].state # "RUNNING"
    BY <1>1, <1>2, <2>2, <2>4 DEF OnCpu
  <2>7. QED
    BY <1>2, <1>5, <2>4, <2>5, <2>6, SlotFacts
<1>6. CASE ~(c # Idle /\ P[c].state = "RUNNING")
  <2>1. r = k
    BY <1>2, <1>6
  <2>2. Alike(P, P)
    BY <1>3, <1>4 DEF Alike
  <2>3. \A s \in Slots \ {Idle} : P[s].used => P[s].state # "RUNNING"
    BY <1>1, <1>2, <1>6 DEF OnCpu
  <2>4. QED
    BY <1>1, <1>2, <2>1, <2>2, <2>3
<1>7. QED
  BY <1>5, <1>6

\* schedule hands the CPU to a ready process, or to idle.
LEMMA SwitchFacts ==
    ASSUME NEW k, NEW D, NEW N, Sound(k, D, N), SwitchFrom(k)
    PROVE  Switched(k, kernel')
<1>1. PICK r : r = IF k.current # Idle /\ k.pcb[k.current].state = "RUNNING"
                   THEN Put(k, k.current, [k.pcb[k.current] EXCEPT !.state = "READY"]) ELSE k
  OBVIOUS
<1>2. /\ r \in Kernel /\ r.zombies = k.zombies /\ r.next_pid = k.next_pid /\ r.may = k.may
      /\ r.fg_pid = k.fg_pid /\ Alike(k.pcb, r.pcb)
      /\ \A s \in Slots \ {Idle} : r.pcb[s].used => r.pcb[s].state # "RUNNING"
      /\ r.pcb[Idle] = k.pcb[Idle]
  BY <1>1, YieldFacts
<1>3. OnCpu(k.pcb, k.current)
  BY DEF Sound, Core
<1>4. PICK j : j = kernel'
  OBVIOUS
<1>5. \/ j = [r EXCEPT !.current = Idle]
      \/ \E s \in InState(r, "READY") :
            j = Put([r EXCEPT !.current = s], s, [r.pcb[s] EXCEPT !.state = "RUNNING"])
  BY <1>1, <1>4 DEF SwitchFrom
<1>6. ASSUME NEW s \in Slots, NEW x, x = [r EXCEPT !.current = s]
      PROVE  /\ x \in Kernel /\ x.current = s /\ x.pcb = r.pcb /\ x.zombies = r.zombies
             /\ x.next_pid = r.next_pid /\ x.may = r.may /\ x.fg_pid = r.fg_pid
  BY <1>2, <1>6 DEF Kernel
<1>7. CASE j = [r EXCEPT !.current = Idle]
  <2>1. /\ j \in Kernel /\ j.current = Idle /\ j.pcb = r.pcb /\ j.zombies = k.zombies
        /\ j.next_pid = k.next_pid /\ j.may = k.may /\ j.fg_pid = k.fg_pid
    BY <1>2, <1>6, <1>7, SlotFacts
  <2>2. OnCpu(j.pcb, j.current) /\ j.pcb[Idle].at = "user"
    BY <1>2, <1>3, <2>1 DEF OnCpu
  <2>3. QED
    BY <1>2, <1>4, <2>1, <2>2 DEF Switched
<1>8. ASSUME NEW s \in InState(r, "READY"),
             j = Put([r EXCEPT !.current = s], s, [r.pcb[s] EXCEPT !.state = "RUNNING"])
      PROVE  Switched(k, j)
  <2>1. PICK x : x = [r EXCEPT !.current = s]
    OBVIOUS
  <2>2. PICK P, new : P = r.pcb /\ new = [P[s] EXCEPT !.state = "RUNNING"]
    OBVIOUS
  <2>3. s \in Slots /\ s # Idle /\ P[s].used /\ P[s].state = "READY"
    BY <2>2 DEF InState
  <2>4. P \in [Slots -> Pcb] /\ P[s] \in Pcb
    BY <1>2, <2>2, <2>3, KernelFacts
  <2>5. Restated(P[s], new) /\ new.state = "RUNNING" /\ new.at = P[s].at /\ new \in Pcb
    BY <2>2, <2>4, StateChanged DEF Restated
  <2>6. /\ x \in Kernel /\ x.current = s /\ x.pcb = P /\ x.zombies = k.zombies
        /\ x.next_pid = k.next_pid /\ x.may = k.may /\ x.fg_pid = k.fg_pid
    BY <1>2, <1>6, <2>1, <2>2, <2>3
  <2>7. j = Put(x, s, new)
    BY <1>8, <2>1, <2>2
  <2>8. /\ j \in Kernel /\ j.zombies = k.zombies /\ j.next_pid = k.next_pid /\ j.may = k.may
        /\ j.fg_pid = k.fg_pid /\ j.current = s /\ j.pcb \in [Slots -> Pcb]
        /\ j.pcb[s] = new /\ \A t \in Slots : t # s => j.pcb[t] = P[t]
    BY <2>3, <2>5, <2>6, <2>7, PutFacts
  <2>9. P[s].at # "exit"
    BY <1>2, <2>2, <2>3 DEF Alike
  <2>10. Alike(P, j.pcb)
    <3>1. \A t \in Slots : P[t].at = "exit" => P[t].state = "EXITED"
      BY <1>2, <2>2 DEF Alike
    <3>2. Vacant(P)
      BY <1>2, <2>2, UnusedFacts DEF Vacant, Alike, Sound, Core
    <3>3. QED
      BY <2>3, <2>4, <2>5, <2>8, <2>9, <3>1, <3>2, RestatedAlike
  <2>11. OnCpu(j.pcb, s)
    <3>1. j.pcb[s].used
      BY <2>3, <2>5, <2>8 DEF Restated
    <3>2. j.pcb[Idle] = P[Idle] /\ P[Idle] = k.pcb[Idle]
      BY <1>2, <2>2, <2>3, <2>8, SlotFacts
    <3>3. \A t \in Slots \ {Idle} : j.pcb[t].used /\ j.pcb[t].state = "RUNNING" => t = s
      BY <1>2, <2>2, <2>8
    <3>4. QED
      BY <1>3, <3>1, <3>2, <3>3 DEF OnCpu
  <2>12. Alike(k.pcb, j.pcb)
    BY <1>2, <2>2, <2>10, AlikeTrans
  <2>13. QED
    BY <2>5, <2>8, <2>9, <2>11, <2>12 DEF Switched
<1>9. QED
  BY <1>4, <1>5, <1>7, <1>8

\* After a switch the invariant holds if the dead were all on the zombie list.
LEMMA SwitchGood ==
    ASSUME NEW k, Sound(k, {}, {}), SwitchFrom(k)
    PROVE  Good(kernel') /\ kernel'.may = k.may
<1>1. PICK j : j = kernel'
  OBVIOUS
<1>2. Switched(k, j)
  BY <1>1, SwitchFacts
<1>3. Exiting(j) = {}
  BY <1>2 DEF Switched, Exiting
<1>4. Family(k.pcb, k.zombies, k.next_pid, {}, {}) /\ k.zombies \subseteq Slots
  BY CoreIs, KernelFacts DEF Sound
<1>5. Family(j.pcb, j.zombies, j.next_pid, {}, {})
  BY <1>2, <1>4, AlikeKeeps DEF Switched
<1>6. Sound(j, {}, {})
  BY <1>2, <1>5, CoreIs DEF Sound, Switched
<1>7. QED
  BY <1>1, <1>2, <1>3, <1>6 DEF Good, Switched

-----------------------------------------------------------------------------
(* Changes that leave the family as it is *)

\* What the family and the CPU know of a process.
SameLife(a, b) ==
    /\ a.used = b.used /\ a.pid = b.pid /\ a.kids = b.kids /\ a.parent_pid = b.parent_pid
    /\ a.results = b.results /\ a.pending = b.pending /\ a.at = b.at
    /\ a.state = "EXITED" <=> b.state = "EXITED"
    /\ a.state = "RUNNING" <=> b.state = "RUNNING"

\* j differs from k in the terminal, in who waits and in who is ready.
Kin(k, j) ==
    /\ j \in Kernel /\ j.zombies = k.zombies /\ j.current = k.current
    /\ j.next_pid = k.next_pid /\ j.may = k.may
    /\ \A s \in Slots : SameLife(k.pcb[s], j.pcb[s]) /\ (~k.pcb[s].used => j.pcb[s] = k.pcb[s])

\* j differs from k as in Kin, and zombies may be gone.
Passive(k, j) ==
    /\ j \in Kernel /\ j.current = k.current /\ j.next_pid = k.next_pid /\ j.may = k.may
    /\ j.zombies \subseteq k.zombies
    /\ \A s \in Slots \ k.zombies : SameLife(k.pcb[s], j.pcb[s])

\* SameLife twice.
LEMMA SameLifeTrans ==
    ASSUME NEW a, NEW b, NEW c, SameLife(a, b), SameLife(b, c)
    PROVE  SameLife(a, c)
BY DEF SameLife

\* Passive twice.
LEMMA PassiveTrans ==
    ASSUME NEW k, NEW i, NEW j, Passive(k, i), Passive(i, j)
    PROVE  Passive(k, j)
<1>1. \A s \in Slots \ k.zombies : SameLife(k.pcb[s], j.pcb[s])
  BY SameLifeTrans DEF Passive
<1>2. QED
  BY <1>1 DEF Passive

\* Kin is Passive with the zombies where they were.
LEMMA KinPassive ==
    ASSUME NEW k, NEW j, Kin(k, j)
    PROVE  Passive(k, j)
BY DEF Kin, Passive

\* No change is Kin.
LEMMA KinRefl ==
    ASSUME NEW k \in Kernel
    PROVE  Kin(k, k)
BY DEF Kin, SameLife

\* What Kin changes is no part of the invariant.
LEMMA KinSound ==
    ASSUME NEW k, NEW D, NEW N, Sound(k, D, N), NEW j, Kin(k, j)
    PROVE  Sound(j, D, N)
<1>1. PICK P, P2, Z, c, n : P = k.pcb /\ P2 = j.pcb /\ Z = k.zombies /\ c = k.current /\ n = k.next_pid
  OBVIOUS
<1>2. Family(P, Z, n, D, N) /\ OnCpu(P, c) /\ Z \subseteq Slots /\ D \subseteq Slots
  BY <1>1, CoreIs, KernelFacts DEF Sound, Family, Dead
<1>3. P2 \in [Slots -> Pcb]
  BY <1>1, KernelFacts DEF Kin
<1>4. \A s \in Slots : SameLife(P[s], P2[s]) /\ (~P[s].used => P2[s] = P[s])
  BY <1>1 DEF Kin
<1>5. \A s \in Slots : P[s].at = "exit" => P[s].state = "EXITED"
  BY <1>2, UnusedFacts DEF Family, Vacant, Dead
<1>6. Alike(P, P2)
  BY <1>3, <1>4, <1>5 DEF Alike, SameLife
<1>7. Family(P2, Z, n, D, N)
  BY <1>2, <1>6, AlikeKeeps
<1>8. OnCpu(P2, c)
  <2>1. Idle \in Slots /\ c \in Slots
    BY <1>1, SlotFacts, KernelFacts DEF Sound
  <2>2. QED
    BY <1>2, <1>4, <2>1 DEF OnCpu, SameLife
<1>9. QED
  BY <1>1, <1>7, <1>8, CoreIs DEF Sound, Kin

\* collect_zombies touches zombies only.
LEMMA CollectedPassive ==
    ASSUME NEW k, NEW j, Collected(k, j)
    PROVE  Passive(k, j)
BY DEF Collected, Passive, SameLife

\* collect_zombies keeps the invariant and touches nobody but zombies.
LEMMA Collecting ==
    ASSUME NEW k, NEW D, NEW N, Sound(k, D, N), k.current \notin k.zombies,
           NEW j, j = collect_zombies(k)
    PROVE  Sound(j, D, N) /\ Passive(k, j) /\ j.zombies = {} /\ Collected(k, j)
<1>1. k \in Kernel /\ Tree(k.pcb, k.zombies)
  BY DEF Sound, Core
<1>2. Collected(k, j)
  BY <1>1, CollectFacts
<1>3. QED
  BY <1>2, CollectSound, CollectedPassive DEF Collected

\* The wake-up made by proc_unblock.
LEMMA WakeKin ==
    ASSUME NEW c \in Kernel, NEW S, NEW j,
           j = [c EXCEPT !.pcb = [s \in Slots |->
                   IF s \in S /\ s \in InState(c, "BLOCKED")
                   THEN [c.pcb[s] EXCEPT !.state = "READY"] ELSE c.pcb[s]]]
    PROVE  Kin(c, j)
<1>1. PICK W : W = {s \in S : s \in InState(c, "BLOCKED")}
  OBVIOUS
<1>2. PICK P : P = c.pcb
  OBVIOUS
<1>3. PICK P2 : P2 = [s \in Slots |-> IF s \in W THEN [P[s] EXCEPT !.state = "READY"] ELSE P[s]]
  OBVIOUS
<1>4. j = [c EXCEPT !.pcb = P2]
  BY <1>1, <1>2, <1>3
<1>5. \A s \in Slots : s \in W => P[s].state = "BLOCKED" /\ P[s].used
  BY <1>1, <1>2 DEF InState
<1>6. P \in [Slots -> Pcb]
  BY <1>2, KernelFacts
<1>7. \A s \in Slots : /\ P2[s] \in Pcb /\ SameLife(P[s], P2[s])
                       /\ ~P[s].used => P2[s] = P[s]
  <2> SUFFICES ASSUME NEW s \in Slots
               PROVE  /\ P2[s] \in Pcb /\ SameLife(P[s], P2[s])
                      /\ ~P[s].used => P2[s] = P[s]
    OBVIOUS
  <2>1. P[s] \in Pcb
    BY <1>6
  <2>2. CASE s \in W
    <3>1. P2[s] = [P[s] EXCEPT !.state = "READY"]
      BY <1>3, <2>2
    <3>2. Restated(P[s], P2[s]) /\ P2[s].state = "READY" /\ P2[s].at = P[s].at /\ P2[s] \in Pcb
      BY <2>1, <3>1, StateChanged
    <3>3. QED
      BY <1>5, <2>2, <3>2 DEF Restated, SameLife
  <2>3. CASE s \notin W
    BY <1>3, <2>1, <2>3 DEF SameLife
  <2>4. QED
    BY <2>2, <2>3
<1>8. P2 \in [Slots -> Pcb]
  BY <1>3, <1>7
<1>9. /\ j \in Kernel /\ j.pcb = P2 /\ j.zombies = c.zombies /\ j.current = c.current
      /\ j.next_pid = c.next_pid /\ j.may = c.may
  <2>1. PICK i : i = [c EXCEPT !.pcb = P2]
    OBVIOUS
  <2>2. /\ i \in Kernel /\ i.pcb = P2 /\ i.zombies = c.zombies /\ i.current = c.current
        /\ i.next_pid = c.next_pid /\ i.may = c.may
    BY <1>8, <2>1, TableChanged
  <2>3. j = i
    BY <1>4, <2>1
  <2>4. QED
    BY <2>2, <2>3
<1>10. QED
  BY <1>2, <1>7, <1>9 DEF Kin

\* proc_unblock keeps the table in order, and with it the zombies it collects.
LEMMA UnblockSound ==
    ASSUME NEW k, NEW D, NEW N, Sound(k, D, N), k.current \notin k.zombies,
           NEW S, NEW j, j = unblock(k, S)
    PROVE  Sound(j, D, N) /\ Passive(k, j)
<1>1. CASE S = {}
  BY <1>1, KinRefl, KinPassive DEF unblock, Sound
<1>2. CASE S # {}
  <2>1. PICK c : c = collect_zombies(k)
    OBVIOUS
  <2>2. Sound(c, D, N) /\ Passive(k, c)
    BY <2>1, Collecting
  <2>3. j = [c EXCEPT !.pcb = [s \in Slots |->
                IF s \in S /\ s \in InState(c, "BLOCKED")
                THEN [c.pcb[s] EXCEPT !.state = "READY"] ELSE c.pcb[s]]]
    BY <1>2, <2>1 DEF unblock
  <2>4. Kin(c, j)
    BY <2>2, <2>3, WakeKin DEF Sound
  <2>5. QED
    BY <2>2, <2>4, KinSound, KinPassive, PassiveTrans
<1>3. QED
  BY <1>1, <1>2

-----------------------------------------------------------------------------
(* The terminal *)

\* proc_set_foreground changes the terminal only.
LEMMA SetForegroundKin ==
    ASSUME NEW k \in Kernel, NEW pid \in Int, NEW j, j = proc_set_foreground(k, pid)
    PROVE  Kin(k, j)
<1>1. PICK P : P = k.pcb
  OBVIOUS
<1>2. PICK P2 : P2 = [s \in Slots |-> IF P[s].used THEN [P[s] EXCEPT !.fg = (P[s].pid = pid)]
                                      ELSE P[s]]
  OBVIOUS
<1>3. P \in [Slots -> Pcb]
  BY <1>1, KernelFacts
<1>4. \A pcb \in Pcb, b \in BOOLEAN :
         [pcb EXCEPT !.fg = b] \in Pcb /\ SameLife(pcb, [pcb EXCEPT !.fg = b])
  BY DEF Pcb, SameLife
<1>5. \A s \in Slots : /\ P2[s] \in Pcb /\ SameLife(P[s], P2[s])
                       /\ ~P[s].used => P2[s] = P[s]
  <2> SUFFICES ASSUME NEW s \in Slots
               PROVE  /\ P2[s] \in Pcb /\ SameLife(P[s], P2[s])
                      /\ ~P[s].used => P2[s] = P[s]
    OBVIOUS
  <2>1. P[s] \in Pcb
    BY <1>3
  <2>2. PICK b \in BOOLEAN : b = (P[s].pid = pid)
    OBVIOUS
  <2>3. P[s].used => P2[s] = [P[s] EXCEPT !.fg = b]
    BY <1>2, <2>2
  <2>4. ~P[s].used => P2[s] = P[s]
    BY <1>2
  <2>5. CASE P[s].used
    BY <1>4, <2>1, <2>3, <2>5
  <2>6. CASE ~P[s].used
    BY <2>1, <2>4, <2>6 DEF SameLife
  <2>7. QED
    BY <2>5, <2>6
<1>6. P2 \in [Slots -> Pcb]
  BY <1>2, <1>5
<1>7. j = [k EXCEPT !.fg_pid = pid, !.pcb = P2]
  BY <1>1, <1>2 DEF proc_set_foreground
<1>8. /\ j \in Kernel /\ j.pcb = P2 /\ j.zombies = k.zombies /\ j.current = k.current
      /\ j.next_pid = k.next_pid /\ j.may = k.may
  BY <1>6, <1>7 DEF Kernel
<1>9. QED
  BY <1>1, <1>5, <1>8 DEF Kin

\* The hand-over of proc_exit changes the terminal only.
LEMMA ExitForegroundKin ==
    ASSUME NEW k \in Kernel, NEW s \in Slots, NEW j, j = exit_foreground(k, s)
    PROVE  Kin(k, j)
<1>1. CASE ~k.pcb[s].fg
  BY <1>1, KinRefl DEF exit_foreground
<1>2. CASE k.pcb[s].fg /\ HasLiveParent(k, s)
  <2>1. k.pcb[s] \in Pcb
    BY KernelFacts
  <2>2. k.pcb[s].parent_pid \in Int
    BY <2>1 DEF Pcb
  <2>3. j = proc_set_foreground(k, k.pcb[s].parent_pid)
    BY <1>2 DEF exit_foreground
  <2>4. QED
    BY <2>2, <2>3, SetForegroundKin
<1>3. CASE k.pcb[s].fg /\ ~HasLiveParent(k, s)
  <2>1. j = [k EXCEPT !.fg_pid = -1]
    BY <1>3 DEF exit_foreground
  <2>2. /\ j \in Kernel /\ j.pcb = k.pcb /\ j.zombies = k.zombies /\ j.current = k.current
        /\ j.next_pid = k.next_pid /\ j.may = k.may
    BY <2>1 DEF Kernel
  <2>3. QED
    BY <2>2 DEF Kin, SameLife
<1>4. QED
  BY <1>1, <1>2, <1>3

\* The hand-over of proc_kill changes the terminal only.
LEMMA KillForegroundKin ==
    ASSUME NEW k \in Kernel, NEW s \in Slots, NEW j, j = kill_foreground(k, s)
    PROVE  Kin(k, j)
<1>1. CASE k.pcb[s].fg /\ ~HasLiveParent(k, s) /\ Having(k, Shell) \cap Alive(k) # {}
  <2>1. j = proc_set_foreground(k, Shell) /\ Shell \in Int
    BY <1>1 DEF kill_foreground, Shell
  <2>2. QED
    BY <2>1, SetForegroundKin
<1>2. CASE ~(k.pcb[s].fg /\ ~HasLiveParent(k, s) /\ Having(k, Shell) \cap Alive(k) # {})
  BY <1>2, ExitForegroundKin DEF kill_foreground
<1>3. QED
  BY <1>1, <1>2

-----------------------------------------------------------------------------
(* retire: a process becomes EXITED *)

\* Records with another waiting_for.
LEMMA WaitingChanged ==
    ASSUME NEW pcb \in Pcb, NEW w \in Int, NEW new, new = [pcb EXCEPT !.waiting_for = w]
    PROVE  Restated(pcb, new) /\ new.state = pcb.state /\ new.at = pcb.at
BY DEF Restated, Pcb

\* The record of a process whose state has become EXITED.
LEMMA RetiredMade ==
    ASSUME NEW pcb \in Pcb, NEW new, new = [pcb EXCEPT !.state = "EXITED", !.waiting_for = 0]
    PROVE  Restated(pcb, new) /\ new.state = "EXITED" /\ new.at = pcb.at /\ new \in Pcb
<1>1. PICK mid : mid = [pcb EXCEPT !.state = "EXITED"]
  OBVIOUS
<1>2. Restated(pcb, mid) /\ mid.state = "EXITED" /\ mid.at = pcb.at /\ mid \in Pcb
  BY <1>1, StateChanged
<1>3. PICK w \in Int : w = 0
  OBVIOUS
<1>4. PICK last : last = [mid EXCEPT !.waiting_for = w]
  OBVIOUS
<1>5. Restated(mid, last) /\ last.state = mid.state /\ last.at = mid.at
  BY <1>2, <1>3, <1>4, WaitingChanged
<1>6. last = new
  BY <1>1, <1>3, <1>4
<1>7. QED
  BY <1>2, <1>5, <1>6 DEF Restated

\* What retire does to slot s.
Retired(k, j, s) ==
    /\ j \in Kernel /\ j.zombies = k.zombies /\ j.current = k.current
    /\ j.next_pid = k.next_pid /\ j.may = k.may
    /\ Restated(k.pcb[s], j.pcb[s]) /\ j.pcb[s].state = "EXITED"
    /\ \A t \in Slots : t # s => j.pcb[t] = k.pcb[t]

\* What proc_exit and proc_kill write before they detach the children.
LEMMA RetireFacts ==
    ASSUME NEW k \in Kernel, NEW s \in Slots, NEW j, j = retire(k, s)
    PROVE  Retired(k, j, s) /\ j.pcb[s].at = k.pcb[s].at
<1>1. PICK pcb, new : pcb = k.pcb[s] /\ new = [pcb EXCEPT !.state = "EXITED", !.waiting_for = 0]
  OBVIOUS
<1>2. pcb \in Pcb
  BY <1>1, KernelFacts
<1>3. Restated(pcb, new) /\ new.state = "EXITED" /\ new.at = pcb.at /\ new \in Pcb
  BY <1>1, <1>2, RetiredMade
<1>4. j = Put(k, s, new)
  BY <1>1 DEF retire
<1>5. /\ j \in Kernel /\ j.zombies = k.zombies /\ j.current = k.current
      /\ j.next_pid = k.next_pid /\ j.may = k.may
      /\ j.pcb[s] = new /\ \A t \in Slots : t # s => j.pcb[t] = k.pcb[t]
  BY <1>3, <1>4, PutFacts
<1>6. QED
  BY <1>1, <1>3, <1>5 DEF Retired

\* A process becomes one of the dead that are no zombies yet.
LEMMA RetireSound ==
    ASSUME NEW k, NEW D, NEW N, Sound(k, D, N), NEW s \in Slots, k.pcb[s].used, s # Idle,
           s \notin k.zombies, NEW j, Retired(k, j, s)
    PROVE  Sound(j, D \cup {s}, N)
<1>1. PICK P, P2, Z, c, n : P = k.pcb /\ P2 = j.pcb /\ Z = k.zombies /\ c = k.current /\ n = k.next_pid
  OBVIOUS
<1>2. /\ Vacant(P) /\ Numbered(P, n) /\ Reported(P, Z, n, N) /\ Tree(P, Z) /\ Dead(P, Z, D)
      /\ OnCpu(P, c)
  BY <1>1 DEF Sound, Core
<1>3. /\ Restated(P[s], P2[s]) /\ P2[s].state = "EXITED"
      /\ \A t \in Slots : t # s => P2[t] = P[t]
  BY <1>1 DEF Retired
<1>4. P[s].used /\ s \notin Z
  BY <1>1
<1>5. \A t \in Slots : /\ P2[t].used = P[t].used /\ P2[t].pid = P[t].pid
                       /\ P2[t].kids = P[t].kids /\ P2[t].parent_pid = P[t].parent_pid
                       /\ P2[t].results = P[t].results /\ P2[t].pending = P[t].pending
  BY <1>3 DEF Restated
<1>6. Vacant(P2)
  BY <1>2, <1>3, <1>4, <1>5 DEF Vacant
<1>7. Numbered(P2, n)
  BY <1>2, <1>5 DEF Numbered
<1>8. Reported(P2, Z, n, N)
  <2>1. \A t \in Slots : Named(P2[t]) = Named(P[t])
    BY <1>5 DEF Named
  <2>2. QED
    BY <1>2, <1>5, <2>1 DEF Reported
<1>9. Tree(P2, Z)
  <2>1. \A t \in Slots : /\ P2[t].used = P[t].used /\ P2[t].pid = P[t].pid
                         /\ P2[t].kids = P[t].kids /\ P2[t].parent_pid = P[t].parent_pid
    BY <1>5
  <2>2. \A z \in Z : z \in Slots
    BY <1>2 DEF Dead
  <2>3. QED
    BY <1>2, <2>1, <2>2 DEF Tree
<1>10. Dead(P2, Z, D \cup {s})
  <2>1. \A t \in Slots : P2[t].used /\ P2[t].state = "EXITED"
                           <=> t = s \/ (P[t].used /\ P[t].state = "EXITED")
    BY <1>3, <1>4, <1>5
  <2>2. Z = {t \in Slots : P[t].used /\ P[t].state = "EXITED"} \ D
    BY <1>2 DEF Dead
  <2>3. Z = {t \in Slots : P2[t].used /\ P2[t].state = "EXITED"} \ (D \cup {s})
    BY <1>4, <2>1, <2>2
  <2>4. \A z \in Z : P2[z].results = <<>> /\ P2[z].pending = 0
    BY <1>2, <1>4, <1>5, <2>2 DEF Dead
  <2>5. \A t \in Slots : P2[t].used /\ P2[t].at = "exit" => P2[t].state = "EXITED"
    BY <1>2, <1>3 DEF Dead
  <2>6. \A t \in D \cup {s} : P2[t].used /\ P2[t].state = "EXITED"
    BY <1>2, <2>1 DEF Dead
  <2>7. D \subseteq Slots
    BY <1>2 DEF Dead
  <2>8. QED
    BY <2>3, <2>4, <2>5, <2>6, <2>7 DEF Dead
<1>11. OnCpu(P2, c)
  <2>1. c \in Slots
    BY <1>1, KernelFacts DEF Sound
  <2>2. P2[Idle] = P[Idle]
    BY <1>3, SlotFacts
  <2>3. QED
    BY <1>2, <1>3, <1>5, <2>1, <2>2 DEF OnCpu
<1>12. QED
  BY <1>1, <1>6, <1>7, <1>8, <1>9, <1>10, <1>11 DEF Sound, Core, Retired

-----------------------------------------------------------------------------
(* detach_children *)

\* Slot s has no children any more, those in dying are dead, and those in R have no parent.
Cut(P, P2, s, dying, R) ==
    \A t \in Slots :
      /\ P2[t].used = P[t].used /\ P2[t].pid = P[t].pid /\ P2[t].at = P[t].at
      /\ P2[t].kids = IF t \in dying \cup {s} THEN {} ELSE P[t].kids
      /\ P2[t].parent_pid = IF t \in R THEN -1 ELSE P[t].parent_pid
      /\ P2[t].results = IF t \in dying THEN <<>> ELSE P[t].results
      /\ P2[t].pending = IF t \in dying THEN 0 ELSE P[t].pending
      /\ P2[t].state = IF t \in dying THEN "EXITED" ELSE P[t].state
      /\ ~P[t].used => P2[t] = P[t]

\* A process is neither its own child nor its own grandchild.
LEMMA NoCycles ==
    ASSUME NEW P \in [Slots -> Pcb], NEW Z, NEW n, Numbered(P, n), Tree(P, Z), NEW s \in Slots, P[s].used
    PROVE  /\ s \notin P[s].kids
           /\ \A c \in P[s].kids : /\ c \in Slots /\ P[c].used /\ s \notin P[c].kids
                                   /\ P[c].kids \cap P[s].kids = {}
<1>1. \A t \in Slots : P[t].pid \in Int /\ P[t].parent_pid \in Int /\ P[t].kids \subseteq Slots
  BY DEF Pcb
<1>2. \A t \in Slots : P[t].used => P[t].parent_pid < P[t].pid
  BY DEF Numbered
<1>3. \A t, u \in Slots : P[t].used /\ u \in P[t].kids => P[u].used /\ P[u].parent_pid = P[t].pid
  BY DEF Tree
<1>4. \A t, u \in Slots : P[t].used /\ u \in P[t].kids => P[u].used /\ P[t].pid < P[u].pid
  BY <1>1, <1>2, <1>3
<1>5. s \notin P[s].kids
  BY <1>1, <1>4
<1>6. ASSUME NEW c \in P[s].kids
      PROVE  c \in Slots /\ P[c].used /\ s \notin P[c].kids /\ P[c].kids \cap P[s].kids = {}
  <2>1. c \in Slots /\ P[c].used /\ P[s].pid < P[c].pid
    BY <1>1, <1>4
  <2>2. s \notin P[c].kids
    BY <1>1, <1>4, <2>1
  <2>3. P[c].kids \cap P[s].kids = {}
    BY <1>1, <1>3, <2>1
  <2>4. QED
    BY <2>1, <2>2, <2>3
<1>7. QED
  BY <1>5, <1>6

\* With the children of s killed and theirs cut off, the family is in order.
LEMMA CutFamily ==
    ASSUME NEW P \in [Slots -> Pcb], NEW P2, NEW Z, NEW n, NEW D, Family(P, Z, n, D, {}),
           NEW s \in Slots, P[s].used, s \notin Z,
           NEW dying, dying = {c \in P[s].kids : P[c].state # "EXITED"},
           NEW R, R = P[s].kids \cup UNION {P[c].kids : c \in dying},
           Cut(P, P2, s, dying, R)
    PROVE  Family(P2, Z \cup dying, n, D, {})
<1>1. Vacant(P) /\ Numbered(P, n) /\ Reported(P, Z, n, {}) /\ Tree(P, Z) /\ Dead(P, Z, D)
  BY DEF Family
<1>2. dying \subseteq Slots /\ \A c \in dying : P[c].used /\ c # s /\ P[c].state # "EXITED" /\ c \in P[s].kids
  BY <1>1, NoCycles
<1>3. \A t \in Slots : /\ P2[t].used = P[t].used /\ P2[t].pid = P[t].pid /\ P2[t].at = P[t].at
  BY DEF Cut
<1>4. \A t \in Slots : t \in R <=>
         t \in P[s].kids \/ \E c \in dying : t \in P[c].kids
  OBVIOUS
<1>5. \A t \in Slots : P[t].used =>
         (t \in R <=> \E u \in dying \cup {s} : P[t].parent_pid = P[u].pid)
  BY <1>1, <1>2, <1>4 DEF Tree
<1>6. Vacant(P2)
  BY <1>1, <1>3 DEF Vacant, Cut
<1>7. Numbered(P2, n)
  <2>1. \A t \in Slots : P[t].used =>
           P[t].pid \in 1 .. n - 1 /\ P2[t].parent_pid < P[t].pid
    <3> SUFFICES ASSUME NEW t \in Slots, P[t].used
                 PROVE  P[t].pid \in 1 .. n - 1 /\ P2[t].parent_pid < P[t].pid
      OBVIOUS
    <3>1. P[t].pid \in 1 .. n - 1 /\ P[t].parent_pid < P[t].pid
      BY <1>1 DEF Numbered
    <3>2. P2[t].parent_pid = -1 \/ P2[t].parent_pid = P[t].parent_pid
      BY DEF Cut
    <3>3. QED
      BY <3>1, <3>2
  <2>2. QED
    BY <1>1, <1>3, <2>1 DEF Numbered
<1>8. Reported(P2, Z \cup dying, n, {})
  <2>1. \A t \in Slots : /\ t \in dying => P2[t].results = <<>> /\ P2[t].pending = 0
                         /\ t \notin dying => P2[t].results = P[t].results /\ P2[t].pending = P[t].pending
    BY DEF Cut
  <2>2. \A t \in Slots : Named(P2[t]) \subseteq Named(P[t])
    <3>1. \A t \in Slots : t \in dying => Named(P2[t]) = {}
      BY <2>1 DEF Named
    <3>2. \A t \in Slots : t \notin dying => Named(P2[t]) = Named(P[t])
      BY <2>1 DEF Named
    <3>3. QED
      BY <3>1, <3>2
  <2>3. \A t \in Slots : \A i, j \in DOMAIN P2[t].results :
           P2[t].results[i] = P2[t].results[j] => i = j
    BY <1>1, <2>1 DEF Reported
  <2>4. \A t \in Slots : \A x \in Named(P2[t]) :
          x \in 1 .. n - 1 /\ \A u \in Slots : P[u].used /\ P[u].pid = x => u \in Z
    BY <1>1, <2>2 DEF Reported
  <2>5. QED
    BY <1>3, <2>3, <2>4 DEF Reported
<1>9. Tree(P2, Z \cup dying)
  <2>1. \A t \in Slots : /\ t \in R => P2[t].parent_pid = -1
                         /\ t \notin R => P2[t].parent_pid = P[t].parent_pid
                         /\ t \in dying \cup {s} => P2[t].kids = {}
                         /\ t \notin dying \cup {s} => P2[t].kids = P[t].kids
    BY DEF Cut
  <2>2. \A t \in Slots : P[t].used => P[t].pid # -1
    BY <1>1 DEF Numbered
  <2>3. \A t, u \in Slots : P[t].used /\ P[u].used /\ P[t].pid = P[u].pid => t = u
    BY <1>1 DEF Numbered
  <2>4. ASSUME NEW t \in Slots, NEW u \in Slots, P[u].used
        PROVE  t \in P2[u].kids <=> P[t].used /\ P2[t].parent_pid = P[u].pid
    <3>1. t \in P[u].kids <=> P[t].used /\ P[t].parent_pid = P[u].pid
      BY <1>1, <2>4 DEF Tree
    <3>2. CASE u \in dying \cup {s}
      <4>1. t \in P[u].kids => t \in R
        BY <1>4, <3>2
      <4>2. QED
        BY <2>1, <2>2, <2>4, <3>1, <3>2, <4>1
    <3>3. CASE u \notin dying \cup {s}
      <4>1. t \in R => ~(t \in P[u].kids)
        BY <1>2, <1>5, <2>3, <2>4, <3>1, <3>3
      <4>2. QED
        BY <2>1, <2>2, <2>4, <3>1, <3>3, <4>1
    <3>4. QED
      BY <3>2, <3>3
  <2>5. ASSUME NEW t \in Slots, P[t].used, P2[t].parent_pid # -1
        PROVE  \E p \in Slots \ (Z \cup dying) : P[p].used /\ P[p].pid = P2[t].parent_pid
    <3>1. t \notin R /\ P2[t].parent_pid = P[t].parent_pid
      BY <2>1, <2>5
    <3>2. PICK p \in Slots \ Z : P[p].used /\ P[p].pid = P[t].parent_pid
      BY <1>1, <2>5, <3>1 DEF Tree
    <3>3. p \notin dying
      BY <1>5, <2>5, <3>1, <3>2
    <3>4. QED
      BY <3>1, <3>2, <3>3
  <2>6. ASSUME NEW z \in Z \cup dying
        PROVE  P2[z].kids = {} /\ P2[z].parent_pid = -1
    <3>1. CASE z \in dying
      BY <1>2, <1>4, <2>1, <3>1
    <3>2. CASE z \in Z /\ z \notin dying
      <4>1. z \in Slots /\ P[z].kids = {} /\ P[z].parent_pid = -1
        BY <1>1, <3>2 DEF Tree, Dead
      <4>2. QED
        BY <2>1, <3>2, <4>1
    <3>3. QED
      BY <2>6, <3>1, <3>2
  <2>7. QED
    BY <1>3, <2>4, <2>5, <2>6 DEF Tree
<1>10. Dead(P2, Z \cup dying, D)
  <2>1. \A t \in Slots : /\ t \in dying => P2[t].state = "EXITED" /\ P2[t].results = <<>> /\ P2[t].pending = 0
                         /\ t \notin dying => /\ P2[t].state = P[t].state
                                              /\ P2[t].results = P[t].results /\ P2[t].pending = P[t].pending
    BY DEF Cut
  <2>2. /\ D \subseteq Slots /\ Z = {t \in Slots : P[t].used /\ P[t].state = "EXITED"} \ D
        /\ \A z \in Z : P[z].results = <<>> /\ P[z].pending = 0
        /\ \A t \in Slots : P[t].used /\ P[t].at = "exit" => P[t].state = "EXITED"
        /\ \A t \in D : P[t].used /\ P[t].state = "EXITED"
    BY <1>1 DEF Dead
  <2>3. \A t \in Slots : P2[t].used /\ P2[t].state = "EXITED"
                           <=> t \in dying \/ (P[t].used /\ P[t].state = "EXITED")
    BY <1>2, <1>3, <2>1
  <2>4. \A t \in dying : t \notin D
    BY <1>2, <2>2
  <2>5. Z \cup dying = {t \in Slots : P2[t].used /\ P2[t].state = "EXITED"} \ D
    BY <1>2, <2>2, <2>3, <2>4
  <2>6. \A z \in Z \cup dying : P2[z].results = <<>> /\ P2[z].pending = 0
    BY <1>2, <2>1, <2>2
  <2>7. \A t \in Slots : P2[t].used /\ P2[t].at = "exit" => P2[t].state = "EXITED"
    BY <1>3, <2>2, <2>3
  <2>8. \A t \in D : P2[t].used /\ P2[t].state = "EXITED"
    BY <2>2, <2>3
  <2>9. QED
    BY <2>2, <2>5, <2>6, <2>7, <2>8 DEF Dead
<1>11. QED
  BY <1>6, <1>7, <1>8, <1>9, <1>10 DEF Family

\* The parent, a child that dies with it, and an orphan.
Childless(pcb) == [pcb EXCEPT !.kids = {}]
Killed(pcb) == [pcb EXCEPT !.state = "EXITED", !.waiting_for = 0, !.pending = 0,
                           !.parent_pid = -1, !.kids = {}, !.results = <<>>]
Orphaned(pcb) == [pcb EXCEPT !.parent_pid = -1]

\* The record of a child that dies with its parent.
LEMMA KilledMade ==
    ASSUME NEW pcb \in Pcb, NEW new, new = Killed(pcb)
    PROVE  /\ new \in Pcb /\ new.used = pcb.used /\ new.pid = pcb.pid /\ new.at = pcb.at
           /\ new.kids = {} /\ new.parent_pid = -1 /\ new.results = <<>> /\ new.pending = 0
           /\ new.state = "EXITED"
<1>1. /\ new.used = pcb.used /\ new.pid = pcb.pid /\ new.at = pcb.at
      /\ new.zombie_reapable = pcb.zombie_reapable /\ new.fg = pcb.fg /\ new.target = pcb.target
  BY DEF Pcb, Killed
<1>2. /\ new.kids = {} /\ new.parent_pid = -1 /\ new.results = <<>> /\ new.pending = 0
      /\ new.state = "EXITED" /\ new.waiting_for = 0
  BY DEF Pcb, Killed
<1>3. new \in [used : BOOLEAN, pid : Nat, state : {"EXITED"}, parent_pid : {-1}, kids : {{}},
               waiting_for : {0}, results : {<<>>}, pending : {0}, zombie_reapable : BOOLEAN,
               fg : BOOLEAN, at : {"user", "wait", "exit"}, target : Int]
  BY DEF Pcb, Killed
<1>4. {0} \subseteq Nat /\ {0} \subseteq Int /\ {-1} \subseteq Int /\ {<<>>} \subseteq Seq(Nat)
      /\ {{}} \subseteq SUBSET Slots
  OBVIOUS
<1>5. new \in Pcb
  BY <1>3, <1>4 DEF Pcb
<1>6. QED
  BY <1>1, <1>2, <1>5

\* The record of a process whose parent is gone.
LEMMA OrphanMade ==
    ASSUME NEW pcb \in Pcb, NEW new, new = Orphaned(pcb)
    PROVE  /\ new \in Pcb /\ new.used = pcb.used /\ new.pid = pcb.pid /\ new.at = pcb.at
           /\ new.kids = pcb.kids /\ new.parent_pid = -1 /\ new.results = pcb.results
           /\ new.pending = pcb.pending /\ new.state = pcb.state
BY DEF Pcb, Orphaned

\* The record of a process whose child list is empty.
LEMMA ChildlessMade ==
    ASSUME NEW pcb \in Pcb, NEW new, new = Childless(pcb)
    PROVE  /\ new \in Pcb /\ new.used = pcb.used /\ new.pid = pcb.pid /\ new.at = pcb.at
           /\ new.kids = {} /\ new.parent_pid = pcb.parent_pid /\ new.results = pcb.results
           /\ new.pending = pcb.pending /\ new.state = pcb.state
BY DEF Pcb, Childless

\* What detach_children does.
Detached(k, j, s, dying, R) ==
    /\ j \in Kernel /\ j.zombies = k.zombies \cup dying /\ j.current = k.current
    /\ j.next_pid = k.next_pid /\ j.may = k.may
    /\ Cut(k.pcb, j.pcb, s, dying, R)

\* The table after detach_children.
CutTable(P, s, dying, lost) ==
    [t \in Slots |-> CASE t = s -> Childless(P[t])
                       [] t \in dying -> Killed(P[t])
                       [] t \in lost -> Orphaned(P[t])
                       [] OTHER -> P[t]]

\* detach_children, as one change of the table and one of the zombie list.
LEMMA DetachForm ==
    ASSUME NEW k, NEW s
    PROVE  LET kids == k.pcb[s].kids
               dying == kids \cap Alive(k)
               orphans == UNION {k.pcb[c].kids : c \in dying}
           IN  detach_children(k, s) =
                  [k EXCEPT !.pcb = CutTable(k.pcb, s, dying, (kids \ dying) \cup orphans),
                            !.zombies = @ \cup dying]
BY DEF detach_children, CutTable, Childless, Killed, Orphaned

\* Which record of the new table is which.
LEMMA CutTableIs ==
    ASSUME NEW P, NEW s, NEW dying, NEW lost, NEW t \in Slots, s \notin dying, s \notin lost,
           dying \cap lost = {},
           NEW new, new = CutTable(P, s, dying, lost)[t]
    PROVE  /\ t = s => new = Childless(P[t])
           /\ t \in dying => new = Killed(P[t])
           /\ t \in lost => new = Orphaned(P[t])
           /\ t # s /\ t \notin dying /\ t \notin lost => new = P[t]
<1>1. new = CASE t = s -> Childless(P[t])
              [] t \in dying -> Killed(P[t])
              [] t \in lost -> Orphaned(P[t])
              [] OTHER -> P[t]
  BY DEF CutTable
<1>2. t \notin dying \/ t \notin lost
  OBVIOUS
<1>3. t = s => new = Childless(P[t])
  BY <1>1
<1>4. t \in dying => new = Killed(P[t])
  BY <1>1, <1>2
<1>5. t \in lost => new = Orphaned(P[t])
  BY <1>1, <1>2
<1>6. t # s /\ t \notin dying /\ t \notin lost => new = P[t]
  BY <1>1
<1>7. QED
  BY <1>3, <1>4, <1>5, <1>6

\* What detach_children leaves of the table and of the kernel.
LEMMA DetachFacts ==
    ASSUME NEW k \in Kernel, Numbered(k.pcb, k.next_pid), Tree(k.pcb, k.zombies),
           NEW s \in Slots, k.pcb[s].used, NEW j, j = detach_children(k, s),
           NEW dying, dying = {c \in k.pcb[s].kids : k.pcb[c].state # "EXITED"},
           NEW R, R = k.pcb[s].kids \cup UNION {k.pcb[c].kids : c \in dying}
    PROVE  Detached(k, j, s, dying, R)
<1>1. PICK P, kids : P = k.pcb /\ kids = P[s].kids
  OBVIOUS
<1>2. P \in [Slots -> Pcb] /\ Numbered(P, k.next_pid) /\ Tree(P, k.zombies) /\ P[s].used
  BY <1>1, KernelFacts
<1>3. /\ s \notin kids
      /\ \A c \in kids : c \in Slots /\ P[c].used /\ s \notin P[c].kids /\ P[c].kids \cap kids = {}
  BY <1>1, <1>2, NoCycles
<1>4. kids \cap Alive(k) = dying
  BY <1>1, <1>3 DEF Alive
<1>5. PICK lost : lost = (kids \ dying) \cup UNION {P[c].kids : c \in dying}
  OBVIOUS
<1>6. s \notin dying /\ s \notin lost /\ dying \cap lost = {} /\ dying \subseteq kids
      /\ dying \subseteq Slots /\ R = dying \cup lost
  BY <1>1, <1>3, <1>5
<1>7. PICK P2 : P2 = CutTable(P, s, dying, lost)
  OBVIOUS
<1>8. j = [k EXCEPT !.pcb = P2, !.zombies = k.zombies \cup dying]
  <2>1. j = [k EXCEPT
               !.pcb = CutTable(k.pcb, s, k.pcb[s].kids \cap Alive(k),
                          (k.pcb[s].kids \ (k.pcb[s].kids \cap Alive(k)))
                             \cup UNION {k.pcb[c].kids : c \in k.pcb[s].kids \cap Alive(k)}),
               !.zombies = k.zombies \cup (k.pcb[s].kids \cap Alive(k))]
    BY DetachForm
  <2>2. P = k.pcb /\ kids = P[s].kids
    BY <1>1
  <2>3. PICK dy, lo, T : dy = kids \cap Alive(k) /\ lo = (kids \ dy) \cup UNION {P[c].kids : c \in dy}
                         /\ T = CutTable(P, s, dy, lo)
    OBVIOUS
  <2>4. j = [k EXCEPT !.pcb = T, !.zombies = k.zombies \cup dy]
    BY <2>1, <2>2, <2>3
  <2>5. dy = dying
    BY <1>4, <2>3
  <2>6. lo = lost
    BY <1>5, <2>3, <2>5
  <2>7. T = P2
    BY <1>7, <2>3, <2>5, <2>6
  <2>8. QED
    BY <2>4, <2>5, <2>7
<1>9. \A t \in lost : t \in Slots => P[t].used
  BY <1>1, <1>2, <1>3, <1>5, <1>6 DEF Tree
<1>10. ASSUME NEW t \in Slots
       PROVE  /\ P2[t] \in Pcb
              /\ P2[t].used = P[t].used /\ P2[t].pid = P[t].pid /\ P2[t].at = P[t].at
              /\ P2[t].kids = IF t \in dying \cup {s} THEN {} ELSE P[t].kids
              /\ P2[t].parent_pid = IF t \in R THEN -1 ELSE P[t].parent_pid
              /\ P2[t].results = IF t \in dying THEN <<>> ELSE P[t].results
              /\ P2[t].pending = IF t \in dying THEN 0 ELSE P[t].pending
              /\ P2[t].state = IF t \in dying THEN "EXITED" ELSE P[t].state
              /\ ~P[t].used => P2[t] = P[t]
  <2>1. PICK pcb, new : pcb = P[t] /\ new = P2[t]
    OBVIOUS
  <2>2. pcb \in Pcb
    BY <1>2, <2>1
  <2>8. /\ t = s => new = Childless(P[t])
        /\ t \in dying => new = Killed(P[t])
        /\ t \in lost => new = Orphaned(P[t])
        /\ t # s /\ t \notin dying /\ t \notin lost => new = P[t]
    <3>1. new = CutTable(P, s, dying, lost)[t] /\ s \notin dying /\ s \notin lost /\ dying \cap lost = {}
      BY <1>6, <1>7, <2>1
    <3>2. QED
      BY <3>1, CutTableIs
  <2>3. CASE t = s
    <3>1. new = Childless(pcb)
      BY <2>1, <2>3, <2>8
    <3>2. /\ new \in Pcb /\ new.used = pcb.used /\ new.pid = pcb.pid /\ new.at = pcb.at
          /\ new.kids = {} /\ new.parent_pid = pcb.parent_pid /\ new.results = pcb.results
          /\ new.pending = pcb.pending /\ new.state = pcb.state
      BY <2>2, <3>1, ChildlessMade
    <3>3. QED
      BY <1>2, <1>6, <2>1, <2>3, <3>2
  <2>4. CASE t \in dying
    <3>1. t # s
      BY <1>6, <2>4
    <3>2. new = Killed(pcb)
      BY <2>1, <2>4, <2>8, <3>1
    <3>3. /\ new \in Pcb /\ new.used = pcb.used /\ new.pid = pcb.pid /\ new.at = pcb.at
          /\ new.kids = {} /\ new.parent_pid = -1 /\ new.results = <<>> /\ new.pending = 0
          /\ new.state = "EXITED"
      BY <2>2, <3>2, KilledMade
    <3>4. P[t].used
      BY <1>3, <1>6, <2>4
    <3>5. QED
      BY <1>6, <2>1, <2>4, <3>3, <3>4
  <2>5. CASE t \in lost
    <3>1. t # s /\ t \notin dying
      BY <1>6, <2>5
    <3>2. new = Orphaned(pcb)
      BY <2>1, <2>5, <2>8, <3>1
    <3>3. /\ new \in Pcb /\ new.used = pcb.used /\ new.pid = pcb.pid /\ new.at = pcb.at
          /\ new.kids = pcb.kids /\ new.parent_pid = -1 /\ new.results = pcb.results
          /\ new.pending = pcb.pending /\ new.state = pcb.state
      BY <2>2, <3>2, OrphanMade
    <3>4. QED
      BY <1>6, <1>9, <2>1, <2>5, <3>1, <3>3
  <2>6. CASE t # s /\ t \notin dying /\ t \notin lost
    <3>1. new = pcb
      BY <2>1, <2>6, <2>8
    <3>2. QED
      BY <1>6, <2>1, <2>2, <2>6, <3>1
  <2>7. QED
    BY <2>3, <2>4, <2>5, <2>6
<1>11. P2 \in [Slots -> Pcb]
  BY <1>7, <1>10 DEF CutTable
<1>12. Cut(P, P2, s, dying, R)
  BY <1>10 DEF Cut
<1>13. /\ j \in Kernel /\ j.pcb = P2 /\ j.zombies = k.zombies \cup dying /\ j.current = k.current
       /\ j.next_pid = k.next_pid /\ j.may = k.may
  BY <1>6, <1>8, <1>11 DEF Kernel
<1>14. QED
  BY <1>1, <1>12, <1>13 DEF Detached

\* The children of s die with it; nobody else is disturbed if none of them has the CPU.
LEMMA DetachSound ==
    ASSUME NEW k, NEW D, Sound(k, D, {}), NEW s \in Slots, k.pcb[s].used, s \notin k.zombies,
           k.current \notin k.zombies, k.current \notin k.pcb[s].kids,
           NEW j, j = detach_children(k, s)
    PROVE  /\ Sound(j, D, {}) /\ j.current = k.current /\ j.may = k.may /\ j.next_pid = k.next_pid
           /\ s \notin j.zombies /\ j.current \notin j.zombies
           /\ j.pcb[s].kids = {} /\ j.pcb[s].used
           /\ \A t \in {s, k.current} : j.pcb[t].at = k.pcb[t].at /\ j.pcb[t].state = k.pcb[t].state
<1>1. PICK P, P2, Z, c, n : P = k.pcb /\ P2 = j.pcb /\ Z = k.zombies /\ c = k.current /\ n = k.next_pid
  OBVIOUS
<1>2. PICK dying : dying = {x \in k.pcb[s].kids : k.pcb[x].state # "EXITED"}
  OBVIOUS
<1>3. PICK R : R = k.pcb[s].kids \cup UNION {k.pcb[x].kids : x \in dying}
  OBVIOUS
<1>4. Family(P, Z, n, D, {}) /\ OnCpu(P, c) /\ k \in Kernel /\ P \in [Slots -> Pcb] /\ c \in Slots
  BY <1>1, CoreIs, KernelFacts DEF Sound
<1>5. Numbered(P, n) /\ Tree(P, Z)
  BY <1>4 DEF Family
<1>6. Detached(k, j, s, dying, R)
  BY <1>1, <1>2, <1>3, <1>4, <1>5, DetachFacts
<1>7. Cut(P, P2, s, dying, R)
  BY <1>1, <1>6 DEF Detached
<1>8. dying = {x \in P[s].kids : P[x].state # "EXITED"} /\ R = P[s].kids \cup UNION {P[x].kids : x \in dying}
  BY <1>1, <1>2, <1>3
<1>9. P[s].used /\ s \notin Z
  BY <1>1
<1>10. Family(P2, Z \cup dying, n, D, {})
  BY <1>4, <1>7, <1>8, <1>9, CutFamily
<1>11. s \notin dying /\ c \notin dying
  BY <1>1, <1>5, <1>4, <1>8, <1>9, NoCycles
<1>12. Idle \notin dying /\ dying \subseteq Slots
  <2>1. \A x \in P[s].kids : x \in Slots /\ P[x].used /\ P[x].parent_pid = P[s].pid
    BY <1>4, <1>5, <1>9, NoCycles DEF Tree
  <2>2. P[Idle].used /\ P[Idle].pid = 1 /\ Idle \in Slots
    BY <1>4, SlotFacts DEF OnCpu
  <2>3. P[Idle].parent_pid < 1 /\ P[s].pid \in 1 .. n - 1
    BY <1>5, <1>9, <2>2 DEF Numbered
  <2>4. P[Idle].parent_pid # P[s].pid
    <3>1. n \in Nat /\ P[Idle].parent_pid \in Int
      <4>1. P[Idle] \in Pcb
        BY <1>4, <2>2
      <4>2. QED
        BY <1>1, <4>1, KernelFacts DEF Pcb, Sound
    <3>2. QED
      BY <2>3, <3>1
  <2>5. QED
    BY <1>8, <2>1, <2>4
<1>13. \A t \in Slots : t \notin dying => P2[t].state = P[t].state /\ P2[t].at = P[t].at
  BY <1>7 DEF Cut
<1>14. \A t \in Slots : P2[t].used = P[t].used /\ P2[t].pid = P[t].pid
  BY <1>7 DEF Cut
<1>15. \A t \in dying : P2[t].state = "EXITED"
  BY <1>7, <1>12 DEF Cut
<1>16. OnCpu(P2, c)
  BY <1>4, <1>12, <1>13, <1>14, <1>15, SlotFacts DEF OnCpu
<1>17. P2[s].kids = {} /\ P2[s].used
  BY <1>7, <1>9 DEF Cut
<1>18. Sound(j, D, {})
  BY <1>1, <1>6, <1>10, <1>16, CoreIs DEF Sound, Detached
<1>19. s \notin j.zombies /\ c \notin j.zombies
  BY <1>1, <1>6, <1>9, <1>11 DEF Detached
<1>20. QED
  BY <1>1, <1>4, <1>6, <1>11, <1>13, <1>17, <1>18, <1>19 DEF Detached

-----------------------------------------------------------------------------
(* notify_parent_exit *)

\* proc_by_pid finds one of the processes that have the pid.
LEMMA ByPid ==
    ASSUME NEW k, NEW pid, Having(k, pid) # {}
    PROVE  proc_by_pid(k, pid) \in Having(k, pid)
<1>1. Having(k, pid) \in SUBSET Nat
  BY SlotFacts DEF Having
<1>2. \E s \in Having(k, pid) : \A t \in Having(k, pid) : s =< t
  BY <1>1, SmallestOf
<1>3. QED
  BY <1>2 DEF proc_by_pid

\* The parent without the child, the child without the parent, and the two ways in which
\* the parent is left the exit result.
Unlinked(pcb, s, w) == [pcb EXCEPT !.kids = @ \ {s}, !.waiting_for = w]
Reapable(pcb) == [pcb EXCEPT !.zombie_reapable = TRUE]
Noted(pcb, x) == [pcb EXCEPT !.pending = x]
Queued(pcb, x) == [pcb EXCEPT !.results = Append(@, x)]

\* The parent's record without the child.
LEMMA UnlinkedMade ==
    ASSUME NEW pcb \in Pcb, NEW s, NEW w \in Int, NEW new, new = Unlinked(pcb, s, w)
    PROVE  /\ new \in Pcb /\ new.used = pcb.used /\ new.pid = pcb.pid /\ new.at = pcb.at
           /\ new.kids = pcb.kids \ {s} /\ new.parent_pid = pcb.parent_pid
           /\ new.results = pcb.results /\ new.pending = pcb.pending /\ new.state = pcb.state
BY DEF Pcb, Unlinked

\* The record of a zombie that nobody will wait for.
LEMMA ReapableMade ==
    ASSUME NEW pcb \in Pcb, NEW new, new = Reapable(pcb)
    PROVE  new \in Pcb /\ SameLife(pcb, new) /\ new.state = pcb.state
BY DEF Pcb, Reapable, SameLife

\* The parent's record when push_wait_result finds no memory.
LEMMA NotedMade ==
    ASSUME NEW pcb \in Pcb, NEW x \in Nat, NEW new, new = Noted(pcb, x)
    PROVE  /\ new \in Pcb /\ new.used = pcb.used /\ new.pid = pcb.pid /\ new.at = pcb.at
           /\ new.kids = pcb.kids /\ new.parent_pid = pcb.parent_pid
           /\ new.results = pcb.results /\ new.pending = x /\ new.state = pcb.state
BY DEF Pcb, Noted

\* The parent's record with the result on its queue.
LEMMA QueuedMade ==
    ASSUME NEW pcb \in Pcb, NEW x \in Nat, NEW new, new = Queued(pcb, x)
    PROVE  /\ new \in Pcb /\ new.used = pcb.used /\ new.pid = pcb.pid /\ new.at = pcb.at
           /\ new.kids = pcb.kids /\ new.parent_pid = pcb.parent_pid
           /\ new.results = Append(pcb.results, x) /\ new.pending = pcb.pending /\ new.state = pcb.state
<1>1. PICK r : r = Append(pcb.results, x)
  OBVIOUS
<1>2. pcb.results \in Seq(Nat)
  BY DEF Pcb
<1>3. r \in Seq(Nat)
  BY <1>1, <1>2
<1>4. new = [pcb EXCEPT !.results = r]
  BY <1>1 DEF Queued
<1>5. /\ new \in Pcb /\ new.used = pcb.used /\ new.pid = pcb.pid /\ new.at = pcb.at
      /\ new.kids = pcb.kids /\ new.parent_pid = pcb.parent_pid
      /\ new.results = r /\ new.pending = pcb.pending /\ new.state = pcb.state
  BY <1>3, <1>4 DEF Pcb
<1>6. QED
  BY <1>1, <1>5

\* The parent p knows that s has ended, and s has no parent any more.
Told(P, P2, p, s) ==
    /\ \A t \in Slots :
          /\ P2[t].used = P[t].used /\ P2[t].pid = P[t].pid /\ P2[t].at = P[t].at
          /\ P2[t].state = P[t].state
          /\ P2[t].kids = IF t = p THEN P[t].kids \ {s} ELSE P[t].kids
          /\ P2[t].parent_pid = IF t = s THEN -1 ELSE P[t].parent_pid
          /\ t # p => P2[t].results = P[t].results /\ P2[t].pending = P[t].pending
          /\ ~P[t].used => P2[t] = P[t]
    /\ \/ P2[p].results = Append(P[p].results, P[s].pid) /\ P2[p].pending = P[p].pending
       \/ P2[p].results = P[p].results /\ P2[p].pending = P[s].pid

\* With the result at the parent and the child off its list, the family is in order.
LEMMA ToldFamily ==
    ASSUME NEW P \in [Slots -> Pcb], NEW P2, NEW Z, NEW n, NEW D, Family(P, Z, n, D, {}),
           NEW s \in D, NEW p \in Slots \ Z, P[p].used, P[s].parent_pid = P[p].pid, p # s,
           Told(P, P2, p, s)
    PROVE  Family(P2, Z, n, D, {s})
<1>1. Vacant(P) /\ Numbered(P, n) /\ Reported(P, Z, n, {}) /\ Tree(P, Z) /\ Dead(P, Z, D)
  BY DEF Family
<1>2. s \in Slots /\ s \notin Z /\ P[s].used
  BY <1>1 DEF Dead
<1>3. \A t \in Slots : P2[t].used = P[t].used /\ P2[t].pid = P[t].pid
  BY DEF Told
<1>4. \A t \in Slots : /\ P2[t].kids = IF t = p THEN P[t].kids \ {s} ELSE P[t].kids
                       /\ P2[t].parent_pid = IF t = s THEN -1 ELSE P[t].parent_pid
  BY DEF Told
<1>5. \A t \in Slots : t # p => P2[t].results = P[t].results /\ P2[t].pending = P[t].pending
  BY DEF Told
<1>6. Vacant(P2)
  BY <1>1, <1>3 DEF Vacant, Told
<1>7. \A t \in Slots : P[t].used => P[t].pid \in 1 .. n - 1 /\ P[t].parent_pid < P[t].pid
  BY <1>1 DEF Numbered
<1>8. \A t, u \in Slots : P[t].used /\ P[u].used /\ P[t].pid = P[u].pid => t = u
  BY <1>1 DEF Numbered
<1>9. Numbered(P2, n)
  <2>1. \A t \in Slots : P[t].used => P2[t].parent_pid < P[t].pid
    <3> SUFFICES ASSUME NEW t \in Slots, P[t].used
                 PROVE  P2[t].parent_pid < P[t].pid
      OBVIOUS
    <3>1. P[t].pid \in 1 .. n - 1 /\ P[t].parent_pid < P[t].pid
      BY <1>7
    <3>2. P2[t].parent_pid = -1 \/ P2[t].parent_pid = P[t].parent_pid
      BY <1>4
    <3>3. QED
      BY <3>1, <3>2
  <2>2. QED
    BY <1>3, <1>7, <1>8, <2>1 DEF Numbered
<1>10. P[s].pid \notin Named(P[p])
  BY <1>1, <1>2 DEF Reported
<1>11. Named(P2[p]) \subseteq Named(P[p]) \cup {P[s].pid}
  <2>1. P[p].results \in Seq(Nat)
    BY DEF Pcb
  <2>2. CASE P2[p].results = Append(P[p].results, P[s].pid) /\ P2[p].pending = P[p].pending
    <3>1. \A i \in DOMAIN P2[p].results :
             P2[p].results[i] = P[s].pid \/ \E j \in DOMAIN P[p].results : P2[p].results[i] = P[p].results[j]
      BY <2>1, <2>2
    <3>2. QED
      BY <2>2, <3>1 DEF Named
  <2>3. CASE P2[p].results = P[p].results /\ P2[p].pending = P[s].pid
    BY <2>3 DEF Named
  <2>4. QED
    BY <2>2, <2>3 DEF Told
<1>12. \A t \in Slots : t # p => Named(P2[t]) = Named(P[t])
  BY <1>5 DEF Named
<1>13. Reported(P2, Z, n, {s})
  <2>1. ASSUME NEW t \in Slots, NEW x \in Named(P2[t])
        PROVE  x \in 1 .. n - 1 /\ \A u \in Slots : P2[u].used /\ P2[u].pid = x => u \in Z \cup {s}
    <3>1. x \in Named(P[t]) \/ x = P[s].pid
      BY <1>11, <1>12, <2>1
    <3>2. CASE x \in Named(P[t])
      <4>1. x \in 1 .. n - 1 /\ \A u \in Slots : P[u].used /\ P[u].pid = x => u \in Z
        BY <1>1, <3>2 DEF Reported
      <4>2. QED
        BY <1>3, <4>1
    <3>3. CASE x = P[s].pid
      BY <1>2, <1>3, <1>7, <1>8, <3>3
    <3>4. QED
      BY <3>1, <3>2, <3>3
  <2>2. ASSUME NEW t \in Slots, NEW i \in DOMAIN P2[t].results, NEW j \in DOMAIN P2[t].results,
               P2[t].results[i] = P2[t].results[j]
        PROVE  i = j
    <3>1. CASE P2[t].results = P[t].results
      BY <1>1, <2>2, <3>1 DEF Reported
    <3>2. CASE t = p /\ P2[p].results = Append(P[p].results, P[s].pid)
      <4>1. PICK r, x : r = P[p].results /\ x = P[s].pid
        OBVIOUS
      <4>2. r \in Seq(Nat) /\ P2[t].results = Append(r, x)
        BY <3>2, <4>1 DEF Pcb
      <4>3. \A a \in DOMAIN r : r[a] # x
        BY <1>10, <4>1 DEF Named
      <4>4. \A a, b \in DOMAIN r : r[a] = r[b] => a = b
        BY <1>1, <4>1 DEF Reported
      <4>5. Append(r, x)[i] = Append(r, x)[j] /\ i \in DOMAIN Append(r, x) /\ j \in DOMAIN Append(r, x)
        BY <2>2, <4>2
      <4>6. QED
        BY <4>2, <4>3, <4>4, <4>5
    <3>3. QED
      BY <1>5, <3>1, <3>2 DEF Told
  <2>3. QED
    BY <2>1, <2>2 DEF Reported
<1>14. Tree(P2, Z)
  <2>1. ASSUME NEW t \in Slots, NEW u \in Slots, P[u].used
        PROVE  t \in P2[u].kids <=> P[t].used /\ P2[t].parent_pid = P[u].pid
    <3>1. t \in P[u].kids <=> P[t].used /\ P[t].parent_pid = P[u].pid
      BY <1>1, <2>1 DEF Tree
    <3>2. P[u].pid # -1
      BY <1>7, <2>1
    <3>3. s \in P[u].kids => u = p
      BY <1>1, <1>2, <1>8, <2>1 DEF Tree
    <3>4. CASE t = s
      BY <1>4, <2>1, <3>2, <3>3, <3>4
    <3>5. CASE t # s
      BY <1>4, <3>1, <3>5
    <3>6. QED
      BY <3>4, <3>5
  <2>2. ASSUME NEW t \in Slots, P[t].used, P2[t].parent_pid # -1
        PROVE  \E q \in Slots \ Z : P[q].used /\ P[q].pid = P2[t].parent_pid
    <3>1. P2[t].parent_pid = P[t].parent_pid
      BY <1>4, <2>2
    <3>2. QED
      BY <1>1, <2>2, <3>1 DEF Tree
  <2>3. \A z \in Z : z \in Slots /\ z # p /\ z # s /\ P[z].kids = {} /\ P[z].parent_pid = -1
    BY <1>1, <1>2 DEF Tree, Dead
  <2>4. \A z \in Z : P2[z].kids = {} /\ P2[z].parent_pid = -1
    BY <1>4, <2>3
  <2>5. QED
    BY <1>3, <2>1, <2>2, <2>4 DEF Tree
<1>15. Dead(P2, Z, D)
  <2>1. \A t \in Slots : P2[t].state = P[t].state /\ P2[t].at = P[t].at
    BY DEF Told
  <2>2. {t \in Slots : P2[t].used /\ P2[t].state = "EXITED"}
           = {t \in Slots : P[t].used /\ P[t].state = "EXITED"}
    BY <1>3, <2>1
  <2>3. \A z \in Z : z \in Slots /\ z # p
    BY <1>1 DEF Dead
  <2>4. \A z \in Z : P2[z].results = <<>> /\ P2[z].pending = 0
    BY <1>1, <1>5, <2>3 DEF Dead
  <2>5. QED
    BY <1>1, <1>3, <2>1, <2>2, <2>4 DEF Dead
<1>16. QED
  BY <1>6, <1>9, <1>13, <1>14, <1>15 DEF Family

\* The state in which the parent in slot p has been told of the end of s.
TellState(k, s, p, w, nomem) ==
    LET y == Put(Put(k, p, Unlinked(k.pcb[p], s, w)), s, Orphaned(Reapable(k.pcb[s])))
    IN  IF nomem THEN Put(y, p, Noted(y.pcb[p], k.pcb[s].pid))
        ELSE Put(y, p, Queued(y.pcb[p], k.pcb[s].pid))

\* notify_parent_exit, with the two records it writes in one operator.
LEMMA NotifyForm ==
    ASSUME NEW k, NEW s, NEW nomem
    PROVE  LET p == proc_by_pid(k, k.pcb[s].parent_pid)
               wakes == Awaits(k, p, k.pcb[s].pid)
               told == TellState(k, s, p, IF wakes THEN 0 ELSE k.pcb[p].waiting_for, nomem)
           IN  notify_parent_exit(k, s, nomem) =
                  IF Having(k, k.pcb[s].parent_pid) = {} THEN Put(k, s, Reapable(k.pcb[s]))
                  ELSE IF wakes THEN unblock(told, {p}) ELSE told
BY DEF notify_parent_exit, TellState, push_wait_result, Unlinked, Orphaned, Reapable, Noted, Queued

\* What a change of the table alone leaves as it is.
Beside(k, j) ==
    /\ j \in Kernel /\ j.zombies = k.zombies /\ j.current = k.current
    /\ j.next_pid = k.next_pid /\ j.may = k.may

\* A write to one record, for a reader that does not ask for the terminal.
LEMMA PutBeside ==
    ASSUME NEW k \in Kernel, NEW s \in Slots, NEW pcb \in Pcb, NEW j, j = Put(k, s, pcb)
    PROVE  Beside(k, j) /\ j.pcb[s] = pcb /\ \A t \in Slots : t # s => j.pcb[t] = k.pcb[t]
BY PutFacts DEF Beside

\* What notify_parent_exit writes to the parent and to the child.
LEMMA TellFacts ==
    ASSUME NEW k \in Kernel, NEW s \in Slots, NEW p \in Slots, p # s, k.pcb[s].used, k.pcb[p].used,
           NEW w \in Int, NEW nomem, NEW j, j = TellState(k, s, p, w, nomem)
    PROVE  Beside(k, j) /\ Told(k.pcb, j.pcb, p, s)
<1>1. PICK P, a, b : P = k.pcb /\ a = Unlinked(P[p], s, w) /\ b = Reapable(P[s])
  OBVIOUS
<1>2. PICK c, x : c = Orphaned(b) /\ x = P[s].pid
  OBVIOUS
<1>3. P \in [Slots -> Pcb] /\ P[p] \in Pcb /\ P[s] \in Pcb
  BY <1>1, KernelFacts
<1>4. /\ a \in Pcb /\ a.used = P[p].used /\ a.pid = P[p].pid /\ a.at = P[p].at
      /\ a.kids = P[p].kids \ {s} /\ a.parent_pid = P[p].parent_pid
      /\ a.results = P[p].results /\ a.pending = P[p].pending /\ a.state = P[p].state
  <2>1. a = Unlinked(P[p], s, w) /\ P[p] \in Pcb
    BY <1>1, <1>3
  <2>2. QED
    BY <2>1, UnlinkedMade
<1>5. b \in Pcb /\ SameLife(P[s], b) /\ b.state = P[s].state
  BY <1>1, <1>3, ReapableMade
<1>6. /\ c \in Pcb /\ c.used = b.used /\ c.pid = b.pid /\ c.at = b.at
      /\ c.kids = b.kids /\ c.parent_pid = -1 /\ c.results = b.results
      /\ c.pending = b.pending /\ c.state = b.state
  BY <1>2, <1>5, OrphanMade
<1>7. /\ c.used = P[s].used /\ c.pid = P[s].pid /\ c.at = P[s].at /\ c.kids = P[s].kids
      /\ c.results = P[s].results /\ c.pending = P[s].pending /\ c.state = P[s].state
  BY <1>5, <1>6 DEF SameLife
<1>8. x \in Nat
  BY <1>2, <1>3 DEF Pcb
<1>9. PICK y1, y : y1 = Put(k, p, a) /\ y = Put(y1, s, c)
  OBVIOUS
<1>10. Beside(k, y1) /\ y1.pcb[p] = a /\ \A t \in Slots : t # p => y1.pcb[t] = P[t]
  <2>1. y1 = Put(k, p, a) /\ a \in Pcb
    BY <1>4, <1>9
  <2>2. Beside(k, y1) /\ y1.pcb[p] = a /\ \A t \in Slots : t # p => y1.pcb[t] = k.pcb[t]
    BY <2>1, PutBeside
  <2>3. QED
    BY <1>1, <2>2
<1>11. Beside(y1, y) /\ y.pcb[s] = c /\ \A t \in Slots : t # s => y.pcb[t] = y1.pcb[t]
  <2>1. y = Put(y1, s, c) /\ c \in Pcb /\ y1 \in Kernel
    BY <1>6, <1>9, <1>10 DEF Beside
  <2>2. QED
    BY <2>1, PutBeside
<1>12. y.pcb[p] = a
  BY <1>10, <1>11
<1>13. y \in Kernel
  BY <1>11 DEF Beside
<1>14. j = IF nomem THEN Put(y, p, Noted(a, x)) ELSE Put(y, p, Queued(a, x))
  <2>1. j = LET z == Put(Put(k, p, Unlinked(k.pcb[p], s, w)), s, Orphaned(Reapable(k.pcb[s])))
            IN  IF nomem THEN Put(z, p, Noted(z.pcb[p], k.pcb[s].pid))
                ELSE Put(z, p, Queued(z.pcb[p], k.pcb[s].pid))
    BY DEF TellState
  <2>2. y = Put(Put(k, p, Unlinked(k.pcb[p], s, w)), s, Orphaned(Reapable(k.pcb[s])))
    BY <1>1, <1>2, <1>9
  <2>3. x = k.pcb[s].pid
    BY <1>1, <1>2
  <2>4. j = IF nomem THEN Put(y, p, Noted(y.pcb[p], x)) ELSE Put(y, p, Queued(y.pcb[p], x))
    BY <2>1, <2>2, <2>3
  <2>5. QED
    BY <1>12, <2>4
<1>15. PICK d : d = IF nomem THEN Noted(a, x) ELSE Queued(a, x)
  OBVIOUS
<1>16. /\ d \in Pcb /\ d.used = a.used /\ d.pid = a.pid /\ d.at = a.at
       /\ d.kids = a.kids /\ d.parent_pid = a.parent_pid /\ d.state = a.state
       /\ \/ d.results = Append(a.results, x) /\ d.pending = a.pending
          \/ d.results = a.results /\ d.pending = x
  <2>1. CASE nomem
    <3>1. d = Noted(a, x)
      BY <1>15, <2>1
    <3>2. QED
      BY <1>4, <1>8, <3>1, NotedMade
  <2>2. CASE ~nomem
    <3>1. d = Queued(a, x)
      BY <1>15, <2>2
    <3>2. QED
      BY <1>4, <1>8, <3>1, QueuedMade
  <2>3. QED
    BY <2>1, <2>2
<1>17. Beside(y, j) /\ j.pcb[p] = d /\ \A t \in Slots : t # p => j.pcb[t] = y.pcb[t]
  <2>1. j = Put(y, p, d) /\ d \in Pcb
    BY <1>14, <1>15, <1>16
  <2>2. QED
    BY <1>13, <2>1, PutBeside
<1>18. Beside(k, j)
  BY <1>10, <1>11, <1>17 DEF Beside
<1>19. PICK P2 : P2 = j.pcb
  OBVIOUS
<1>20. P2[p] = d /\ P2[s] = c /\ \A t \in Slots : t # p /\ t # s => P2[t] = P[t]
  BY <1>10, <1>11, <1>17, <1>19
<1>21. P[s].used /\ P[p].used
  BY <1>1
<1>22. Told(P, P2, p, s)
  <2>1. ASSUME NEW t \in Slots
        PROVE  /\ P2[t].used = P[t].used /\ P2[t].pid = P[t].pid /\ P2[t].at = P[t].at
               /\ P2[t].state = P[t].state
               /\ P2[t].kids = IF t = p THEN P[t].kids \ {s} ELSE P[t].kids
               /\ P2[t].parent_pid = IF t = s THEN -1 ELSE P[t].parent_pid
               /\ t # p => P2[t].results = P[t].results /\ P2[t].pending = P[t].pending
               /\ ~P[t].used => P2[t] = P[t]
    <3>1. CASE t = p
      BY <1>4, <1>16, <1>20, <1>21, <3>1
    <3>2. CASE t = s
      BY <1>6, <1>7, <1>20, <1>21, <3>2
    <3>3. CASE t # p /\ t # s
      BY <1>20, <3>3
    <3>4. QED
      BY <3>1, <3>2, <3>3
  <2>2. \/ P2[p].results = Append(P[p].results, x) /\ P2[p].pending = P[p].pending
        \/ P2[p].results = P[p].results /\ P2[p].pending = x
    BY <1>4, <1>16, <1>20
  <2>3. QED
    BY <1>2, <2>1, <2>2 DEF Told
<1>23. QED
  BY <1>1, <1>18, <1>19, <1>22

\* The process on the CPU is the one before, and as it was.
CpuSame(k, j) ==
    /\ j.current = k.current /\ j.may = k.may
    /\ j.pcb[k.current].at = k.pcb[k.current].at
    /\ j.pcb[k.current].state = "RUNNING" <=> k.pcb[k.current].state = "RUNNING"

\* CpuSame twice.
LEMMA CpuSameTrans ==
    ASSUME NEW k, NEW i, NEW j, CpuSame(k, i), CpuSame(i, j)
    PROVE  CpuSame(k, j)
BY DEF CpuSame

\* A passive change leaves the CPU alone.
LEMMA PassiveCpu ==
    ASSUME NEW k \in Kernel, NEW j, Passive(k, j), k.current \notin k.zombies
    PROVE  CpuSame(k, j) /\ j.current \notin j.zombies
<1>1. k.current \in Slots \ k.zombies
  BY KernelFacts
<1>2. SameLife(k.pcb[k.current], j.pcb[k.current])
  BY <1>1 DEF Passive
<1>3. QED
  BY <1>1, <1>2 DEF Passive, CpuSame, SameLife

\* More dead may have been reported than have been.
LEMMA NotedWider ==
    ASSUME NEW k, NEW D, Sound(k, D, {}), NEW N
    PROVE  Sound(k, D, N)
<1>1. PICK P, Z, n : P = k.pcb /\ Z = k.zombies /\ n = k.next_pid
  OBVIOUS
<1>2. Reported(P, Z, n, {})
  BY <1>1 DEF Sound, Core
<1>3. Reported(P, Z, n, N)
  BY <1>2 DEF Reported
<1>4. QED
  BY <1>1, <1>3 DEF Sound, Core

\* Parents are not dead: a process without a parent in the table has none at all.
LEMMA ParentFacts ==
    ASSUME NEW k, NEW D, NEW N, Sound(k, D, N), NEW s \in Slots, k.pcb[s].used,
           NEW p, p = proc_by_pid(k, k.pcb[s].parent_pid)
    PROVE  /\ Having(k, k.pcb[s].parent_pid) = {} => k.pcb[s].parent_pid = -1
           /\ Having(k, k.pcb[s].parent_pid) # {} =>
                 p \in Slots \ k.zombies /\ k.pcb[p].used /\ k.pcb[s].parent_pid = k.pcb[p].pid /\ p # s
<1>1. PICK P, Z, n : P = k.pcb /\ Z = k.zombies /\ n = k.next_pid
  OBVIOUS
<1>2. Numbered(P, n) /\ Tree(P, Z) /\ P \in [Slots -> Pcb] /\ P[s].used
  BY <1>1, KernelFacts DEF Sound, Core
<1>3. PICK x : x = P[s].parent_pid
  OBVIOUS
<1>4. x = -1 \/ \E q \in Slots \ Z : P[q].used /\ P[q].pid = x
  BY <1>2, <1>3 DEF Tree
<1>5. Having(k, x) = {q \in Slots : P[q].used /\ P[q].pid = x}
  BY <1>1 DEF Having
<1>6. Having(k, x) = {} => x = -1
  BY <1>4, <1>5
<1>7. ASSUME Having(k, x) # {}
      PROVE  p \in Slots \ Z /\ P[p].used /\ x = P[p].pid /\ p # s
  <2>1. p \in Having(k, x)
    BY <1>1, <1>3, <1>7, ByPid
  <2>2. p \in Slots /\ P[p].used /\ P[p].pid = x
    BY <1>5, <2>1
  <2>3. P[p].pid \in 1 .. n - 1 /\ P[s].parent_pid < P[s].pid
    BY <1>2, <2>2 DEF Numbered
  <2>4. x # -1
    BY <2>2, <2>3
  <2>5. PICK q \in Slots \ Z : P[q].used /\ P[q].pid = x
    BY <1>4, <2>4
  <2>6. p = q
    BY <1>2, <2>2, <2>5 DEF Numbered
  <2>7. p # s
    <3>1. P[s].parent_pid \in Int
      BY <1>2 DEF Pcb
    <3>2. P[s].parent_pid # P[s].pid
      BY <2>3, <3>1
    <3>3. QED
      BY <1>3, <2>2, <3>2
  <2>8. QED
    BY <2>2, <2>5, <2>6, <2>7
<1>8. QED
  BY <1>1, <1>3, <1>6, <1>7

\* notify_parent_exit keeps the table in order; the result is in before the zombie.
LEMMA NotifySound ==
    ASSUME NEW k, NEW D, Sound(k, D, {}), NEW s \in D, k.current \notin k.zombies, k.pcb[s].kids = {},
           NEW nomem, NEW j, j = notify_parent_exit(k, s, nomem)
    PROVE  /\ Sound(j, D, {s}) /\ CpuSame(k, j) /\ j.current \notin j.zombies
           /\ j.pcb[s].kids = {} /\ j.pcb[s].parent_pid = -1
<1>1. PICK P, Z, n : P = k.pcb /\ Z = k.zombies /\ n = k.next_pid
  OBVIOUS
<1>2. Family(P, Z, n, D, {}) /\ OnCpu(P, k.current) /\ k \in Kernel /\ P \in [Slots -> Pcb]
  BY <1>1, CoreIs, KernelFacts DEF Sound
<1>3. s \in Slots /\ P[s].used /\ s \notin Z /\ P[s].kids = {}
  BY <1>1, <1>2 DEF Family, Dead
<1>4. PICK p, x : p = proc_by_pid(k, x) /\ x = P[s].parent_pid
  OBVIOUS
<1>5. /\ Having(k, x) = {} => x = -1
      /\ Having(k, x) # {} => p \in Slots \ Z /\ P[p].used /\ x = P[p].pid /\ p # s
  <2>1. s \in Slots /\ k.pcb[s].used /\ p = proc_by_pid(k, k.pcb[s].parent_pid)
    BY <1>1, <1>3, <1>4
  <2>2. /\ Having(k, k.pcb[s].parent_pid) = {} => k.pcb[s].parent_pid = -1
        /\ Having(k, k.pcb[s].parent_pid) # {} =>
              p \in Slots \ k.zombies /\ k.pcb[p].used /\ k.pcb[s].parent_pid = k.pcb[p].pid /\ p # s
    BY <2>1, ParentFacts
  <2>3. QED
    BY <1>1, <1>4, <2>2
<1>6. CASE Having(k, x) = {}
  <2>1. PICK b : b = Reapable(P[s])
    OBVIOUS
  <2>2. b \in Pcb /\ SameLife(P[s], b) /\ b.state = P[s].state
    <3>1. P[s] \in Pcb
      BY <1>2, <1>3
    <3>2. QED
      BY <2>1, <3>1, ReapableMade
  <2>3. j = Put(k, s, b)
    BY <1>1, <1>4, <1>6, <2>1, NotifyForm
  <2>4. Beside(k, j) /\ j.pcb[s] = b /\ \A t \in Slots : t # s => j.pcb[t] = k.pcb[t]
    BY <1>2, <1>3, <2>2, <2>3, PutBeside
  <2>5. Kin(k, j)
    <3>1. ASSUME NEW t \in Slots
          PROVE  SameLife(k.pcb[t], j.pcb[t]) /\ (~k.pcb[t].used => j.pcb[t] = k.pcb[t])
      <4>1. CASE t = s
        BY <1>1, <1>3, <2>2, <2>4, <4>1
      <4>2. CASE t # s
        BY <2>4, <4>2 DEF SameLife
      <4>3. QED
        BY <4>1, <4>2
    <3>2. QED
      BY <2>4, <3>1 DEF Kin, Beside
  <2>6. Sound(j, D, {s})
    BY <2>5, KinSound, NotedWider
  <2>7. CpuSame(k, j) /\ j.current \notin j.zombies
    BY <1>2, <2>5, KinPassive, PassiveCpu
  <2>8. j.pcb[s].kids = {} /\ j.pcb[s].parent_pid = -1
    BY <1>3, <1>4, <1>5, <1>6, <2>2, <2>4 DEF SameLife
  <2>9. QED
    BY <2>6, <2>7, <2>8
<1>7. CASE Having(k, x) # {}
  <2>1. PICK w : w = IF Awaits(k, p, P[s].pid) THEN 0 ELSE P[p].waiting_for
    OBVIOUS
  <2>2. PICK told : told = TellState(k, s, p, w, nomem)
    OBVIOUS
  <2>3. p \in Slots /\ p # s /\ P[p].used /\ P[s].used
    BY <1>3, <1>5, <1>7
  <2>4. w \in Int
    <3>1. P[p] \in Pcb
      BY <1>2, <2>3
    <3>2. P[p].waiting_for \in Int
      BY <3>1 DEF Pcb
    <3>3. QED
      BY <2>1, <3>2
  <2>5. Beside(k, told) /\ Told(P, told.pcb, p, s)
    <3>1. k.pcb[s].used /\ k.pcb[p].used
      BY <1>1, <2>3
    <3>2. Beside(k, told) /\ Told(k.pcb, told.pcb, p, s)
      BY <1>2, <1>3, <2>2, <2>3, <2>4, <3>1, TellFacts
    <3>3. QED
      BY <1>1, <3>2
  <2>6. Family(told.pcb, Z, n, D, {s})
    BY <1>2, <1>4, <1>5, <1>7, <2>5, ToldFamily
  <2>7. \A t \in Slots : /\ told.pcb[t].used = P[t].used /\ told.pcb[t].pid = P[t].pid
                         /\ told.pcb[t].at = P[t].at /\ told.pcb[t].state = P[t].state
    BY <2>5 DEF Told
  <2>8. told.pcb[s].kids = {} /\ told.pcb[s].parent_pid = -1
    BY <1>3, <2>3, <2>5 DEF Told
  <2>9. k.current \in Slots
    BY <1>2, KernelFacts
  <2>10. OnCpu(told.pcb, k.current)
    BY <1>2, <2>7, <2>9, SlotFacts DEF OnCpu
  <2>11. Sound(told, D, {s})
    BY <1>1, <2>5, <2>6, <2>10, CoreIs DEF Sound, Beside
  <2>12. CpuSame(k, told) /\ told.current \notin told.zombies /\ s \notin told.zombies
    BY <1>1, <1>3, <2>5, <2>7, <2>9 DEF CpuSame, Beside
  <2>13. j = IF Awaits(k, p, P[s].pid) THEN unblock(told, {p}) ELSE told
    <3>1. notify_parent_exit(k, s, nomem) =
             LET t == TellState(k, s, p, w, nomem)
             IN  IF Awaits(k, p, P[s].pid) THEN unblock(t, {p}) ELSE t
      BY <1>1, <1>4, <1>7, <2>1, NotifyForm
    <3>2. QED
      BY <2>2, <3>1
  <2>14. CASE ~Awaits(k, p, P[s].pid)
    BY <2>8, <2>11, <2>12, <2>13, <2>14
  <2>15. CASE Awaits(k, p, P[s].pid)
    <3>1. PICK S : S = {p}
      OBVIOUS
    <3>2. j = unblock(told, S)
      BY <2>13, <2>15, <3>1
    <3>3. Sound(j, D, {s}) /\ Passive(told, j)
      BY <2>11, <2>12, <3>2, UnblockSound
    <3>4. CpuSame(told, j) /\ j.current \notin j.zombies
      BY <2>11, <2>12, <3>3, PassiveCpu DEF Sound
    <3>5. SameLife(told.pcb[s], j.pcb[s])
      BY <1>3, <2>12, <3>3 DEF Passive
    <3>6. QED
      BY <2>8, <2>12, <3>3, <3>4, <3>5, CpuSameTrans DEF SameLife
  <2>16. QED
    BY <2>14, <2>15
<1>8. QED
  BY <1>6, <1>7

-----------------------------------------------------------------------------
(* bury *)

\* The record of a zombie.
Emptied(pcb) == [pcb EXCEPT !.results = <<>>, !.pending = 0]

\* The record of a zombie: its exit results have been freed.
LEMMA EmptiedMade ==
    ASSUME NEW pcb \in Pcb, NEW new, new = Emptied(pcb)
    PROVE  /\ new \in Pcb /\ new.used = pcb.used /\ new.pid = pcb.pid /\ new.at = pcb.at
           /\ new.kids = pcb.kids /\ new.parent_pid = pcb.parent_pid
           /\ new.results = <<>> /\ new.pending = 0 /\ new.state = pcb.state
<1>1. PICK r : r = <<>>
  OBVIOUS
<1>2. PICK x : x = 0
  OBVIOUS
<1>3. r \in Seq(Nat) /\ x \in Nat
  BY <1>1, <1>2
<1>4. new = [pcb EXCEPT !.results = r, !.pending = x]
  BY <1>1, <1>2 DEF Emptied
<1>5. /\ new \in Pcb /\ new.used = pcb.used /\ new.pid = pcb.pid /\ new.at = pcb.at
      /\ new.kids = pcb.kids /\ new.parent_pid = pcb.parent_pid
      /\ new.results = r /\ new.pending = x /\ new.state = pcb.state
  BY <1>3, <1>4 DEF Pcb
<1>6. QED
  BY <1>1, <1>2, <1>5

\* P2 is P after the results of s have been thrown away.
Bare(P, P2, s) ==
    /\ \A t \in Slots :
          /\ P2[t].used = P[t].used /\ P2[t].pid = P[t].pid /\ P2[t].at = P[t].at
          /\ P2[t].state = P[t].state /\ P2[t].kids = P[t].kids
          /\ P2[t].parent_pid = P[t].parent_pid
    /\ P2[s].results = <<>> /\ P2[s].pending = 0
    /\ \A t \in Slots : t # s => P2[t] = P[t]

\* With s on the zombie list and its results gone, the family is in order.
LEMMA BuriedFamily ==
    ASSUME NEW P, NEW P2, NEW Z, NEW n, NEW D, NEW s \in D, Family(P, Z, n, D, {s}),
           P[s].kids = {}, P[s].parent_pid = -1, Bare(P, P2, s)
    PROVE  Family(P2, Z \cup {s}, n, D \ {s}, {})
<1>1. Vacant(P) /\ Numbered(P, n) /\ Reported(P, Z, n, {s}) /\ Tree(P, Z) /\ Dead(P, Z, D)
  BY DEF Family
<1>2. s \in Slots /\ s \notin Z /\ P[s].used /\ D \subseteq Slots
  BY <1>1 DEF Dead
<1>3. \A t \in Slots : P2[t].used = P[t].used /\ P2[t].pid = P[t].pid /\ P2[t].parent_pid = P[t].parent_pid
  BY DEF Bare
<1>4. \A t \in Slots : P2[t].kids = P[t].kids
  BY DEF Bare
<1>5. \A t \in Slots : t # s => P2[t] = P[t]
  BY DEF Bare
<1>6. Vacant(P2)
  BY <1>1, <1>2, <1>3, <1>5 DEF Vacant
<1>7. Numbered(P2, n)
  BY <1>1, <1>3 DEF Numbered
<1>8. Reported(P2, Z \cup {s}, n, {})
  <2>1. Named(P2[s]) = {}
    BY DEF Named, Bare
  <2>2. \A t \in Slots : Named(P2[t]) \subseteq Named(P[t])
    BY <1>5, <2>1
  <2>3. \A t \in Slots : \A x \in Named(P2[t]) :
           x \in 1 .. n - 1 /\ \A u \in Slots : P2[u].used /\ P2[u].pid = x => u \in (Z \cup {s}) \cup {}
    BY <1>1, <1>3, <2>2 DEF Reported
  <2>4. ASSUME NEW t \in Slots, NEW i \in DOMAIN P2[t].results, NEW j \in DOMAIN P2[t].results,
               P2[t].results[i] = P2[t].results[j]
        PROVE  i = j
    <3>1. CASE t = s
      <4>1. P2[t].results = <<>>
        BY <3>1 DEF Bare
      <4>2. QED
        BY <2>4, <4>1
    <3>2. CASE t # s
      BY <1>1, <1>5, <2>4, <3>2 DEF Reported
    <3>3. QED
      BY <3>1, <3>2
  <2>5. QED
    BY <2>3, <2>4 DEF Reported
<1>9. Tree(P2, Z \cup {s})
  <2>1. \A t \in Slots : ~(P[t].used /\ P[t].parent_pid = P[s].pid)
    BY <1>1, <1>2 DEF Tree
  <2>2. ASSUME NEW t \in Slots, P[t].used, P[t].parent_pid # -1
        PROVE  \E q \in Slots \ (Z \cup {s}) : P[q].used /\ P[q].pid = P[t].parent_pid
    <3>1. PICK q \in Slots \ Z : P[q].used /\ P[q].pid = P[t].parent_pid
      BY <1>1, <2>2 DEF Tree
    <3>2. q # s
      BY <2>1, <2>2, <3>1
    <3>3. QED
      BY <3>1, <3>2
  <2>3. \A t, u \in Slots : P[t].used => (u \in P[t].kids <=> P[u].used /\ P[u].parent_pid = P[t].pid)
    BY <1>1 DEF Tree
  <2>4. \A z \in Z \cup {s} : z \in Slots /\ P[z].kids = {} /\ P[z].parent_pid = -1
    BY <1>1, <1>2 DEF Tree, Dead
  <2>5. \A t, u \in Slots : P2[t].used => (u \in P2[t].kids <=> P2[u].used /\ P2[u].parent_pid = P2[t].pid)
    BY <1>3, <1>4, <2>3
  <2>6. \A t \in Slots : P2[t].used =>
          \/ P2[t].parent_pid = -1
          \/ \E p \in Slots \ (Z \cup {s}) : P2[p].used /\ P2[p].pid = P2[t].parent_pid
    BY <1>3, <2>2
  <2>7. \A z \in Z \cup {s} : P2[z].kids = {} /\ P2[z].parent_pid = -1
    BY <1>3, <1>4, <2>4
  <2>8. QED
    BY <2>5, <2>6, <2>7 DEF Tree
<1>10. Dead(P2, Z \cup {s}, D \ {s})
  <2>1. \A t \in Slots : P2[t].used = P[t].used /\ P2[t].state = P[t].state /\ P2[t].at = P[t].at
    BY DEF Bare
  <2>2. {t \in Slots : P2[t].used /\ P2[t].state = "EXITED"}
           = {t \in Slots : P[t].used /\ P[t].state = "EXITED"}
    BY <2>1
  <2>3. P[s].state = "EXITED" /\ Z = {t \in Slots : P[t].used /\ P[t].state = "EXITED"} \ D
    BY <1>1 DEF Dead
  <2>4. Z \cup {s} = {t \in Slots : P[t].used /\ P[t].state = "EXITED"} \ (D \ {s})
    BY <1>2, <2>3
  <2>5. \A z \in Z \cup {s} : P2[z].results = <<>> /\ P2[z].pending = 0
    <3>1. \A z \in Z : z \in Slots /\ z # s
      BY <1>2, <2>3
    <3>2. QED
      BY <1>1, <1>5, <3>1 DEF Dead, Bare
  <2>6. QED
    BY <1>1, <1>2, <2>1, <2>2, <2>4, <2>5 DEF Dead
<1>11. QED
  BY <1>6, <1>7, <1>8, <1>9, <1>10 DEF Family

\* What proc_exit and proc_kill do after retire, in one expression.
LEMMA BuryForm ==
    ASSUME NEW k, NEW s, NEW nomem, NEW woken
    PROVE  LET t == unblock(notify_parent_exit(detach_children(k, s), s, nomem), woken)
           IN  bury(k, s, nomem, woken) = Put([t EXCEPT !.zombies = @ \cup {s}], s, Emptied(t.pcb[s]))
BY DEF bury, Emptied

\* A process that is EXITED becomes a zombie, and its children with it.
LEMMA BurySound ==
    ASSUME NEW k, NEW D, Sound(k, D, {}), NEW s \in D, k.current \notin k.zombies,
           k.current \notin k.pcb[s].kids, NEW nomem, NEW woken,
           NEW j, j = bury(k, s, nomem, woken)
    PROVE  /\ Sound(j, D \ {s}, {}) /\ CpuSame(k, j)
           /\ s # k.current => j.current \notin j.zombies
<1>1. s \in Slots /\ k.pcb[s].used /\ s \notin k.zombies
  BY DEF Sound, Core, Dead
<1>2. PICK d, e, t : /\ d = detach_children(k, s) /\ e = notify_parent_exit(d, s, nomem)
                     /\ t = unblock(e, woken)
  OBVIOUS
<1>3. /\ Sound(d, D, {}) /\ d.current = k.current /\ d.may = k.may /\ d.next_pid = k.next_pid
      /\ s \notin d.zombies /\ d.current \notin d.zombies
      /\ d.pcb[s].kids = {} /\ d.pcb[s].used
      /\ \A x \in {s, k.current} : d.pcb[x].at = k.pcb[x].at /\ d.pcb[x].state = k.pcb[x].state
  BY <1>1, <1>2, DetachSound
<1>4. CpuSame(k, d)
  BY <1>3 DEF CpuSame
<1>5. /\ Sound(e, D, {s}) /\ CpuSame(d, e) /\ e.current \notin e.zombies
      /\ e.pcb[s].kids = {} /\ e.pcb[s].parent_pid = -1
  BY <1>2, <1>3, NotifySound
<1>6. Sound(t, D, {s}) /\ Passive(e, t)
  BY <1>2, <1>5, UnblockSound
<1>7. CpuSame(e, t) /\ t.current \notin t.zombies
  BY <1>5, <1>6, PassiveCpu DEF Sound
<1>8. s \notin e.zombies /\ s \notin t.zombies
  BY <1>5, <1>6 DEF Sound, Core, Dead
<1>9. t.pcb[s].kids = {} /\ t.pcb[s].parent_pid = -1
  <2>1. SameLife(e.pcb[s], t.pcb[s])
    BY <1>1, <1>6, <1>8 DEF Passive
  <2>2. QED
    BY <1>5, <2>1 DEF SameLife
<1>10. PICK T, new, y : T = t.pcb /\ new = Emptied(T[s]) /\ y = [t EXCEPT !.zombies = @ \cup {s}]
  OBVIOUS
<1>11. T \in [Slots -> Pcb] /\ T[s] \in Pcb /\ t \in Kernel
  BY <1>1, <1>6, <1>10, KernelFacts DEF Sound
<1>12. /\ new \in Pcb /\ new.used = T[s].used /\ new.pid = T[s].pid /\ new.at = T[s].at
       /\ new.kids = T[s].kids /\ new.parent_pid = T[s].parent_pid
       /\ new.results = <<>> /\ new.pending = 0 /\ new.state = T[s].state
  BY <1>10, <1>11, EmptiedMade
<1>13. /\ y \in Kernel /\ y.pcb = T /\ y.zombies = t.zombies \cup {s} /\ y.current = t.current
       /\ y.next_pid = t.next_pid /\ y.may = t.may
  BY <1>1, <1>10, <1>11 DEF Kernel
<1>14. j = Put(y, s, new)
  BY <1>2, <1>10, BuryForm
<1>15. Beside(y, j) /\ j.pcb[s] = new /\ \A x \in Slots : x # s => j.pcb[x] = y.pcb[x]
  BY <1>1, <1>12, <1>13, <1>14, PutBeside
<1>16. Bare(T, j.pcb, s)
  BY <1>12, <1>13, <1>15 DEF Bare
<1>17. Family(T, t.zombies, t.next_pid, D, {s}) /\ OnCpu(T, t.current)
  BY <1>6, <1>10, CoreIs DEF Sound
<1>18. T[s].kids = {} /\ T[s].parent_pid = -1
  BY <1>9, <1>10
<1>19. Family(j.pcb, t.zombies \cup {s}, t.next_pid, D \ {s}, {})
  BY <1>16, <1>17, <1>18, BuriedFamily
<1>20. t.current \in Slots
  BY <1>11, KernelFacts
<1>21. OnCpu(j.pcb, t.current)
  <2>1. \A x \in Slots : /\ j.pcb[x].used = T[x].used /\ j.pcb[x].state = T[x].state
                         /\ j.pcb[x].pid = T[x].pid /\ j.pcb[x].at = T[x].at
    BY <1>16 DEF Bare
  <2>2. QED
    BY <1>17, <1>20, <2>1, SlotFacts DEF OnCpu
<1>22. Sound(j, D \ {s}, {})
  BY <1>13, <1>15, <1>19, <1>21, CoreIs DEF Sound, Beside
<1>23. CpuSame(t, j)
  <2>1. j.pcb[t.current].at = t.pcb[t.current].at /\ j.pcb[t.current].state = t.pcb[t.current].state
    BY <1>10, <1>16, <1>20 DEF Bare
  <2>2. QED
    BY <1>13, <1>15, <2>1 DEF CpuSame, Beside
<1>24. CpuSame(k, j)
  BY <1>4, <1>5, <1>7, <1>23, CpuSameTrans
<1>25. s # k.current => j.current \notin j.zombies
  BY <1>7, <1>13, <1>15, <1>24 DEF CpuSame, Beside
<1>26. QED
  BY <1>22, <1>24, <1>25

-----------------------------------------------------------------------------
(* The invariant between the steps of a handler *)

\* What a handler knows when it starts.
LEMMA GoodFacts ==
    ASSUME NEW k, Good(k)
    PROVE  /\ k \in Kernel /\ Sound(k, Exiting(k), {}) /\ k.current \in Slots \ k.zombies
           /\ k.pcb[k.current].used /\ Idle \notin k.zombies
<1>1. PICK P, Z, c, D : P = k.pcb /\ Z = k.zombies /\ c = k.current /\ D = Exiting(k)
  OBVIOUS
<1>2. k \in Kernel /\ Sound(k, D, {}) /\ Dead(P, Z, D) /\ OnCpu(P, c) /\ c \in Slots
  BY <1>1, KernelFacts DEF Good, Sound, Core
<1>3. c = Idle \/ P[c].state = "RUNNING" \/ c \in D
  BY <1>1 DEF Good
<1>4. P[Idle].state = "RUNNING" /\ P[c].used
  BY <1>2 DEF OnCpu
<1>5. \A z \in Z : P[z].state = "EXITED" /\ z \notin D
  BY <1>2 DEF Dead
<1>6. c \notin Z /\ Idle \notin Z
  BY <1>3, <1>4, <1>5
<1>7. QED
  BY <1>1, <1>2, <1>4, <1>6

\* A change that leaves the CPU alone ends in a good state if the table is in order.
LEMMA KeepsGood ==
    ASSUME NEW k, Good(k), NEW j, Sound(j, Exiting(k), {}), CpuSame(k, j)
    PROVE  Good(j)
<1>1. Exiting(j) = Exiting(k)
  BY DEF Exiting, CpuSame
<1>2. QED
  BY <1>1 DEF Good, CpuSame

\* The first thing nearly every call does.
LEMMA CollectGood ==
    ASSUME NEW k, Good(k), NEW j, j = collect_zombies(k)
    PROVE  Good(j) /\ CpuSame(k, j) /\ j.zombies = {} /\ Passive(k, j) /\ Collected(k, j)
<1>1. k \in Kernel /\ Sound(k, Exiting(k), {}) /\ k.current \notin k.zombies
  BY GoodFacts
<1>2. Sound(j, Exiting(k), {}) /\ Passive(k, j) /\ j.zombies = {} /\ Collected(k, j)
  BY <1>1, Collecting
<1>3. CpuSame(k, j)
  BY <1>1, <1>2, PassiveCpu
<1>4. QED
  BY <1>2, <1>3, KeepsGood

\* A process that makes a system call runs, and is not on its way out.
LEMMA UserFacts ==
    ASSUME NEW k, Good(k), k.current # Idle, k.pcb[k.current].at # "exit"
    PROVE  Sound(k, {}, {}) /\ k.pcb[k.current].state = "RUNNING" /\ Exiting(k) = {}
<1>1. Exiting(k) = {}
  BY DEF Exiting
<1>2. QED
  BY <1>1 DEF Good

\* An invariant that holds of every state before a call holds after a change within Kin.
LEMMA KinGood ==
    ASSUME NEW k, Good(k), NEW j, Kin(k, j)
    PROVE  Good(j) /\ CpuSame(k, j)
<1>1. k \in Kernel /\ Sound(k, Exiting(k), {}) /\ k.current \notin k.zombies
  BY GoodFacts
<1>2. CpuSame(k, j)
  BY <1>1, KinPassive, PassiveCpu
<1>3. QED
  BY <1>1, <1>2, KinSound, KeepsGood

-----------------------------------------------------------------------------
(* Death *)

\* What is left by the death of s, which is not idle and whose child is not on the CPU.
LEMMA DeathSound ==
    ASSUME NEW k, NEW D, Sound(k, D, {}), k.current \notin k.zombies, NEW s \in Slots \ k.zombies,
           s # Idle, k.pcb[s].used, k.current \notin k.pcb[s].kids, NEW f, Kin(k, f),
           NEW nomem, NEW woken, NEW j, j = bury(retire(f, s), s, nomem, woken)
    PROVE  /\ Sound(j, D \ {s}, {}) /\ j.may = k.may /\ j.current = k.current
           /\ s # k.current => CpuSame(k, j) /\ j.current \notin j.zombies
<1>1. Sound(f, D, {}) /\ f \in Kernel /\ f.current = k.current /\ f.may = k.may /\ f.zombies = k.zombies
  BY KinSound DEF Kin
<1>2. SameLife(k.pcb[s], f.pcb[s])
  BY DEF Kin
<1>3. f.pcb[s].used /\ f.current \notin f.pcb[s].kids
  BY <1>1, <1>2 DEF SameLife
<1>4. CpuSame(k, f)
  BY KinPassive, PassiveCpu DEF Sound
<1>5. PICK r : r = retire(f, s)
  OBVIOUS
<1>6. Retired(f, r, s) /\ r.pcb[s].at = f.pcb[s].at
  BY <1>1, <1>5, RetireFacts
<1>7. s \in Slots /\ s \notin f.zombies
  BY <1>1
<1>8. Sound(r, D \cup {s}, {})
  BY <1>1, <1>3, <1>6, <1>7, RetireSound
<1>9. r.current = f.current /\ r.may = f.may /\ r.current \notin r.zombies /\ r.current \notin r.pcb[s].kids
  BY <1>1, <1>3, <1>6 DEF Retired, Restated
<1>10. s \in D \cup {s}
  OBVIOUS
<1>11. PICK D2 : D2 = D \cup {s}
  OBVIOUS
<1>12. Sound(r, D2, {}) /\ s \in D2 /\ j = bury(r, s, nomem, woken)
  BY <1>5, <1>8, <1>11
<1>13. /\ Sound(j, D2 \ {s}, {}) /\ CpuSame(r, j)
       /\ s # r.current => j.current \notin j.zombies
  BY <1>9, <1>12, BurySound
<1>14. D2 \ {s} = D \ {s}
  BY <1>11
<1>15. s # k.current => CpuSame(f, r)
  <2>1. k.current \in Slots
    BY KernelFacts DEF Sound
  <2>2. QED
    BY <1>1, <1>6, <2>1 DEF CpuSame, Retired
<1>16. s # k.current => CpuSame(k, j)
  BY <1>4, <1>13, <1>15, CpuSameTrans
<1>17. j.may = k.may /\ j.current = k.current
  BY <1>1, <1>9, <1>13 DEF CpuSame
<1>18. QED
  BY <1>1, <1>9, <1>13, <1>14, <1>16, <1>17

\* The current process ends, and another gets the CPU.
LEMMA ExitGood ==
    ASSUME NEW k, Good(k), k.current # Idle,
           NEW f, Kin(k, f), NEW nomem, NEW woken,
           SwitchFrom(bury(retire(f, k.current), k.current, nomem, woken))
    PROVE  Good(kernel') /\ kernel'.may = k.may
<1>1. PICK s, D : s = k.current /\ D = Exiting(k)
  OBVIOUS
<1>2. /\ k \in Kernel /\ Sound(k, D, {}) /\ s \in Slots \ k.zombies /\ k.current \notin k.zombies
      /\ k.pcb[s].used /\ s # Idle
  BY <1>1, GoodFacts
<1>3. k.current \notin k.pcb[s].kids
  BY <1>1, <1>2, NoCycles, KernelFacts DEF Sound, Core
<1>4. PICK j : j = bury(retire(f, s), s, nomem, woken)
  OBVIOUS
<1>5. Sound(j, D \ {s}, {}) /\ j.may = k.may
  BY <1>2, <1>3, <1>4, DeathSound
<1>6. D \ {s} = {}
  BY <1>1 DEF Exiting
<1>7. Sound(j, {}, {}) /\ SwitchFrom(j)
  BY <1>1, <1>4, <1>5, <1>6
<1>8. QED
  BY <1>5, <1>7, SwitchGood

\* Another process ends.
LEMMA OtherDies ==
    ASSUME NEW k, Good(k), NEW s \in Slots \ k.zombies, s # Idle, k.pcb[s].used, s # k.current,
           k.current \notin k.pcb[s].kids, NEW f, Kin(k, f), NEW nomem, NEW woken,
           NEW j, j = collect_zombies(bury(retire(f, s), s, nomem, woken))
    PROVE  Good(j) /\ j.may = k.may
<1>1. k \in Kernel /\ Sound(k, Exiting(k), {}) /\ k.current \notin k.zombies
  BY GoodFacts
<1>2. PICK b, D : b = bury(retire(f, s), s, nomem, woken) /\ D = Exiting(k)
  OBVIOUS
<1>3. Sound(b, D \ {s}, {}) /\ b.may = k.may /\ CpuSame(k, b)
  BY <1>1, <1>2, DeathSound
<1>4. D \ {s} = D
  BY <1>2 DEF Exiting
<1>5. Good(b)
  BY <1>2, <1>3, <1>4, KeepsGood
<1>6. j = collect_zombies(b)
  BY <1>2
<1>7. QED
  BY <1>3, <1>5, <1>6, CollectGood DEF CpuSame

\* The common part of proc_kill and Ctrl+C keeps the invariant.
LEMMA KillGood ==
    ASSUME NEW k, Good(k), k.zombies = {}, NEW s \in Slots, s # Idle, k.pcb[s].used,
           k.current \notin k.pcb[s].kids, NEW nomem, NEW woken, Kill(k, s, nomem, woken)
    PROVE  Good(kernel') /\ kernel'.may = k.may
<1>1. k \in Kernel
  BY GoodFacts
<1>2. PICK t, f : t = kill_foreground(k, s) /\ f = exit_foreground(t, s)
  OBVIOUS
<1>3. Kin(k, t)
  BY <1>1, <1>2, KillForegroundKin
<1>4. Kin(t, f)
  BY <1>2, <1>3, ExitForegroundKin DEF Kin
<1>5. CASE s = k.current
  <2>1. Good(t) /\ CpuSame(k, t)
    BY <1>3, KinGood
  <2>2. s = t.current
    BY <1>5, <2>1 DEF CpuSame
  <2>3. SwitchFrom(bury(retire(f, t.current), t.current, nomem, woken))
    BY <1>2, <1>5, <2>2 DEF Kill, exit
  <2>4. Good(kernel') /\ kernel'.may = t.may
    BY <1>4, <2>1, <2>2, <2>3, ExitGood
  <2>5. QED
    BY <2>1, <2>4 DEF CpuSame
<1>6. CASE s # k.current
  <2>1. PICK j : j = kernel'
    OBVIOUS
  <2>2. j = collect_zombies(bury(retire(t, s), s, nomem, woken))
    BY <1>2, <1>6, <2>1 DEF Kill
  <2>3. s \in Slots \ k.zombies
    OBVIOUS
  <2>4. Good(j) /\ j.may = k.may
    BY <1>3, <1>6, <2>2, <2>3, OtherDies
  <2>5. QED
    BY <2>1, <2>4
<1>7. QED
  BY <1>5, <1>6

-----------------------------------------------------------------------------
(* Birth *)

\* A child with pid n in slot, on the list of c.
Born(P, P2, c, slot, n) ==
    /\ P2[slot].used /\ P2[slot].pid = n /\ P2[slot].parent_pid = P[c].pid
    /\ P2[slot].kids = {} /\ P2[slot].results = <<>> /\ P2[slot].pending = 0
    /\ P2[slot].at = "user" /\ P2[slot].state = "READY"
    /\ P2[c].used = P[c].used /\ P2[c].pid = P[c].pid /\ P2[c].at = P[c].at
    /\ P2[c].state = P[c].state /\ P2[c].parent_pid = P[c].parent_pid
    /\ P2[c].results = P[c].results /\ P2[c].pending = P[c].pending
    /\ P2[c].kids = P[c].kids \cup {slot}
    /\ \A t \in Slots : t # c /\ t # slot => P2[t] = P[t]

\* With the child in its slot and on its parent's list, the family is in order.
LEMMA BornFamily ==
    ASSUME NEW P \in [Slots -> Pcb], NEW P2, NEW Z, NEW n \in Nat, NEW D, Family(P, Z, n, D, {}),
           NEW c \in Slots \ Z, P[c].used, NEW slot \in Slots, ~P[slot].used, Born(P, P2, c, slot, n)
    PROVE  Family(P2, Z, n + 1, D, {})
<1>1. Vacant(P) /\ Numbered(P, n) /\ Reported(P, Z, n, {}) /\ Tree(P, Z) /\ Dead(P, Z, D)
  BY DEF Family
<1>2. /\ P2[slot].used /\ P2[slot].pid = n /\ P2[slot].parent_pid = P[c].pid
      /\ P2[slot].kids = {} /\ P2[slot].results = <<>> /\ P2[slot].pending = 0
      /\ P2[slot].at = "user" /\ P2[slot].state = "READY"
  BY DEF Born
<1>3. /\ P2[c].used = P[c].used /\ P2[c].pid = P[c].pid /\ P2[c].at = P[c].at
      /\ P2[c].state = P[c].state /\ P2[c].parent_pid = P[c].parent_pid
      /\ P2[c].results = P[c].results /\ P2[c].pending = P[c].pending
      /\ P2[c].kids = P[c].kids \cup {slot}
  BY DEF Born
<1>4. \A t \in Slots : t # c /\ t # slot => P2[t] = P[t]
  BY DEF Born
<1>5. slot # c /\ c \in Slots /\ c \notin Z
  OBVIOUS
<1>6. \A t \in Slots : t # slot =>
         /\ P2[t].used = P[t].used /\ P2[t].pid = P[t].pid /\ P2[t].parent_pid = P[t].parent_pid
         /\ P2[t].results = P[t].results /\ P2[t].pending = P[t].pending
         /\ P2[t].at = P[t].at /\ P2[t].state = P[t].state
  BY <1>3, <1>4
<1>7. \A t \in Slots : P[t].used => P[t].pid \in 1 .. n - 1 /\ P[t].parent_pid < P[t].pid
  BY <1>1 DEF Numbered
<1>8. \A t \in Slots : P[t].used => P[t].pid # n /\ P[t].parent_pid # n
  <2> SUFFICES ASSUME NEW t \in Slots, P[t].used
               PROVE  P[t].pid # n /\ P[t].parent_pid # n
    OBVIOUS
  <2>1. P[t].pid \in Int /\ P[t].parent_pid \in Int
    BY DEF Pcb
  <2>2. P[t].pid \in 1 .. n - 1 /\ P[t].parent_pid < P[t].pid
    BY <1>7
  <2>3. QED
    BY <2>1, <2>2
<1>9. 1 .. n - 1 \subseteq 1 .. (n + 1) - 1 /\ P[c].pid \in 1 .. n - 1 /\ n \in 1 .. (n + 1) - 1
      /\ P[c].pid < n
  <2>1. P[c].pid \in 1 .. n - 1
    BY <1>7
  <2>2. QED
    BY <2>1
<1>10. Vacant(P2)
  BY <1>1, <1>2, <1>3, <1>4 DEF Vacant
<1>11. Numbered(P2, n + 1)
  <2>1. ASSUME NEW t \in Slots, P2[t].used
        PROVE  P2[t].pid \in 1 .. (n + 1) - 1 /\ P2[t].parent_pid < P2[t].pid
    BY <1>2, <1>6, <1>7, <1>9, <2>1
  <2>2. ASSUME NEW t \in Slots, NEW u \in Slots, P2[t].used, P2[u].used, P2[t].pid = P2[u].pid
        PROVE  t = u
    BY <1>1, <1>2, <1>6, <1>8, <2>2 DEF Numbered
  <2>3. QED
    BY <2>1, <2>2 DEF Numbered
<1>12. Reported(P2, Z, n + 1, {})
  <2>1. Named(P2[slot]) = {}
    BY <1>2 DEF Named
  <2>2. \A t \in Slots : t # slot => Named(P2[t]) = Named(P[t])
    BY <1>6 DEF Named
  <2>3. ASSUME NEW t \in Slots, NEW x \in Named(P2[t])
        PROVE  x \in 1 .. (n + 1) - 1 /\ \A u \in Slots : P2[u].used /\ P2[u].pid = x => u \in Z \cup {}
    <3>1. x \in Named(P[t])
      BY <2>1, <2>2, <2>3
    <3>2. x \in 1 .. n - 1 /\ \A u \in Slots : P[u].used /\ P[u].pid = x => u \in Z \cup {}
      BY <1>1, <3>1 DEF Reported
    <3>3. x # n
      BY <3>2
    <3>4. QED
      BY <1>2, <1>6, <1>9, <3>2, <3>3
  <2>4. ASSUME NEW t \in Slots, NEW i \in DOMAIN P2[t].results, NEW j \in DOMAIN P2[t].results,
               P2[t].results[i] = P2[t].results[j]
        PROVE  i = j
    <3>1. CASE t = slot
      BY <1>2, <2>4, <3>1
    <3>2. CASE t # slot
      BY <1>1, <1>6, <2>4, <3>2 DEF Reported
    <3>3. QED
      BY <3>1, <3>2
  <2>5. QED
    BY <2>3, <2>4 DEF Reported
<1>13. slot \notin Z
  BY <1>1 DEF Dead
<1>14. Tree(P2, Z)
  <2>1. ASSUME NEW t \in Slots, NEW u \in Slots, P2[u].used
        PROVE  t \in P2[u].kids <=> P2[t].used /\ P2[t].parent_pid = P2[u].pid
    <3>1. CASE u = slot
      <4>1. ~(P2[t].used /\ P2[t].parent_pid = n)
        BY <1>2, <1>6, <1>8, <1>9
      <4>2. QED
        BY <1>2, <3>1, <4>1
    <3>2. CASE u # slot /\ t = slot
      <4>1. P[u].used /\ P2[u].pid = P[u].pid
        BY <1>6, <2>1, <3>2
      <4>2. slot \in P2[u].kids <=> u = c
        <5>1. slot \notin P[u].kids
          BY <1>1, <4>1 DEF Tree
        <5>2. QED
          BY <1>3, <1>4, <3>2, <5>1
      <4>3. P[c].pid = P[u].pid <=> u = c
        BY <1>1, <1>5, <4>1 DEF Numbered
      <4>4. QED
        BY <1>2, <3>2, <4>1, <4>2, <4>3
    <3>3. CASE u # slot /\ t # slot
      <4>1. P[u].used /\ P2[u].pid = P[u].pid
        BY <1>6, <2>1, <3>3
      <4>2. t \in P2[u].kids <=> t \in P[u].kids
        BY <1>3, <1>4, <3>3
      <4>3. P2[t].used = P[t].used /\ P2[t].parent_pid = P[t].parent_pid
        BY <1>6, <3>3
      <4>4. t \in P[u].kids <=> P[t].used /\ P[t].parent_pid = P[u].pid
        BY <1>1, <4>1 DEF Tree
      <4>5. QED
        BY <4>1, <4>2, <4>3, <4>4
    <3>4. QED
      BY <3>1, <3>2, <3>3
  <2>2. ASSUME NEW t \in Slots, P2[t].used, P2[t].parent_pid # -1
        PROVE  \E p \in Slots \ Z : P2[p].used /\ P2[p].pid = P2[t].parent_pid
    <3>1. CASE t = slot
      BY <1>2, <1>3, <3>1
    <3>2. CASE t # slot
      <4>1. P[t].used /\ P[t].parent_pid = P2[t].parent_pid
        BY <1>6, <2>2, <3>2
      <4>2. PICK p \in Slots \ Z : P[p].used /\ P[p].pid = P[t].parent_pid
        BY <1>1, <2>2, <4>1 DEF Tree
      <4>3. p # slot
        BY <4>2
      <4>4. QED
        BY <1>6, <4>1, <4>2, <4>3
    <3>3. QED
      BY <3>1, <3>2
  <2>3. \A z \in Z : z \in Slots /\ z # slot /\ z # c
    BY <1>1, <1>13 DEF Dead
  <2>4. \A z \in Z : P2[z].kids = {} /\ P2[z].parent_pid = -1
    BY <1>1, <1>4, <2>3 DEF Tree
  <2>5. QED
    BY <2>1, <2>2, <2>4 DEF Tree
<1>15. Dead(P2, Z, D)
  <2>1. /\ D \subseteq Slots /\ Z = {s \in Slots : P[s].used /\ P[s].state = "EXITED"} \ D
        /\ \A z \in Z : P[z].results = <<>> /\ P[z].pending = 0
        /\ \A s \in Slots : P[s].used /\ P[s].at = "exit" => P[s].state = "EXITED"
        /\ \A s \in D : P[s].used /\ P[s].state = "EXITED"
    BY <1>1 DEF Dead
  <2>2. \A t \in Slots : P2[t].used /\ P2[t].state = "EXITED" <=> P[t].used /\ P[t].state = "EXITED"
    BY <1>2, <1>6
  <2>3. {s \in Slots : P2[s].used /\ P2[s].state = "EXITED"}
           = {s \in Slots : P[s].used /\ P[s].state = "EXITED"}
    BY <2>2
  <2>4. \A z \in Z : P2[z].results = <<>> /\ P2[z].pending = 0
    BY <1>6, <1>13, <2>1
  <2>5. \A t \in Slots : P2[t].used /\ P2[t].at = "exit" => P2[t].state = "EXITED"
    BY <1>2, <1>6, <2>1
  <2>6. \A t \in D : P2[t].used /\ P2[t].state = "EXITED"
    BY <2>1, <2>2
  <2>7. QED
    BY <2>1, <2>3, <2>4, <2>5, <2>6 DEF Dead
<1>16. QED
  BY <1>10, <1>11, <1>12, <1>14, <1>15 DEF Family

\* A record with another child list.
LEMMA KidsChanged ==
    ASSUME NEW pcb \in Pcb, NEW K \in SUBSET Slots, NEW new, new = [pcb EXCEPT !.kids = K]
    PROVE  /\ new \in Pcb /\ new.used = pcb.used /\ new.pid = pcb.pid /\ new.at = pcb.at
           /\ new.kids = K /\ new.parent_pid = pcb.parent_pid /\ new.results = pcb.results
           /\ new.pending = pcb.pending /\ new.state = pcb.state
BY DEF Pcb

\* The record proc_create makes.
Child(pid, fg, parent) ==
    [Unused EXCEPT !.used = TRUE, !.pid = pid, !.state = "READY", !.fg = fg, !.parent_pid = parent]

\* The record that proc_create fills in.
LEMMA ChildMade ==
    ASSUME NEW pid \in Nat, NEW fg \in BOOLEAN, NEW parent \in Int, NEW new, new = Child(pid, fg, parent)
    PROVE  /\ new \in Pcb /\ new.used /\ new.pid = pid /\ new.parent_pid = parent
           /\ new.kids = {} /\ new.results = <<>> /\ new.pending = 0
           /\ new.at = "user" /\ new.state = "READY"
<1>1. /\ new.used = TRUE /\ new.pid = pid /\ new.parent_pid = parent
      /\ new.kids = {} /\ new.results = <<>> /\ new.pending = 0
      /\ new.at = "user" /\ new.state = "READY"
  BY DEF Child, Unused
<1>2. new \in [used : {TRUE}, pid : {pid}, state : {"READY"}, parent_pid : {parent}, kids : {{}},
               waiting_for : {0}, results : {<<>>}, pending : {0}, zombie_reapable : {FALSE},
               fg : {fg}, at : {"user"}, target : {0}]
  BY DEF Child, Unused
<1>3. /\ {TRUE} \subseteq BOOLEAN /\ {pid} \subseteq Nat /\ {parent} \subseteq Int
      /\ {{}} \subseteq SUBSET Slots /\ {0} \subseteq Int /\ {0} \subseteq Nat
      /\ {<<>>} \subseteq Seq(Nat) /\ {FALSE} \subseteq BOOLEAN /\ {fg} \subseteq BOOLEAN
  OBVIOUS
<1>4. new \in Pcb
  BY <1>2, <1>3 DEF Pcb
<1>5. QED
  BY <1>1, <1>4

\* A pid that is used up without a process does no harm.
LEMMA CountedSound ==
    ASSUME NEW k, Sound(k, {}, {}), NEW j, j = FreshPid(k)
    PROVE  Sound(j, {}, {}) /\ CpuSame(k, j) /\ j.pcb = k.pcb /\ j.zombies = k.zombies
           /\ j.next_pid = k.next_pid + 1
<1>1. k \in Kernel /\ k.next_pid \in Nat
  BY KernelFacts DEF Sound
<1>2. /\ j \in Kernel /\ j.pcb = k.pcb /\ j.zombies = k.zombies /\ j.current = k.current
      /\ j.next_pid = k.next_pid + 1 /\ j.may = k.may
  BY <1>1 DEF FreshPid, Kernel
<1>3. PICK P, Z, n : P = k.pcb /\ Z = k.zombies /\ n = k.next_pid
  OBVIOUS
<1>4. n \in Nat /\ Family(P, Z, n, {}, {}) /\ OnCpu(P, k.current)
  BY <1>1, <1>3, CoreIs DEF Sound
<1>5. 1 .. n - 1 \subseteq 1 .. (n + 1) - 1
  BY <1>4
<1>6. Numbered(P, n + 1)
  BY <1>4, <1>5 DEF Family, Numbered
<1>7. Reported(P, Z, n + 1, {})
  BY <1>4, <1>5 DEF Family, Reported
<1>8. Family(P, Z, n + 1, {}, {})
  BY <1>4, <1>6, <1>7 DEF Family
<1>9. Core(P, Z, k.current, n + 1, {}, {})
  BY <1>4, <1>8, CoreIs
<1>10. Sound(j, {}, {})
  BY <1>2, <1>3, <1>9 DEF Sound
<1>11. QED
  BY <1>2, <1>10 DEF CpuSame

\* The state with the new process in it.
Linked(k, slot, c, child) ==
    Put(Put(FreshPid(k), slot, child), c, [k.pcb[c] EXCEPT !.kids = @ \cup {slot}])

\* proc_create puts the child into the table and into the list of its parent.
LEMMA LinkedSound ==
    ASSUME NEW k, Sound(k, {}, {}), k.current \notin k.zombies,
           NEW slot \in Slots, ~k.pcb[slot].used, NEW fg \in BOOLEAN, NEW child,
           child = Child(k.next_pid, fg, k.pcb[k.current].pid),
           NEW j, j = Linked(k, slot, k.current, child)
    PROVE  Sound(j, {}, {}) /\ j.current = k.current /\ j.may = k.may
           /\ j.pcb[k.current].at = k.pcb[k.current].at
           /\ j.pcb[k.current].state = k.pcb[k.current].state
<1>1. PICK P, Z, c, n, i : P = k.pcb /\ Z = k.zombies /\ c = k.current /\ n = k.next_pid /\ i = FreshPid(k)
  OBVIOUS
<1>2. k \in Kernel /\ P \in [Slots -> Pcb] /\ n \in Nat /\ c \in Slots /\ c \notin Z
  BY <1>1, KernelFacts DEF Sound
<1>3. Family(P, Z, n, {}, {}) /\ OnCpu(P, c)
  BY <1>1, CoreIs DEF Sound
<1>4. i \in Kernel /\ CpuSame(k, i) /\ i.pcb = P /\ i.zombies = Z /\ i.next_pid = n + 1 /\ i.may = k.may
      /\ i.current = c
  BY <1>1, CountedSound DEF Sound, CpuSame
<1>5. P[c] \in Pcb /\ P[c].used /\ ~P[slot].used /\ slot # c
  BY <1>1, <1>2, <1>3 DEF OnCpu
<1>6. PICK x : x = P[c].pid
  OBVIOUS
<1>7. x \in Int
  BY <1>5, <1>6 DEF Pcb
<1>8. child = Child(n, fg, x)
  BY <1>1, <1>6
<1>9. /\ child \in Pcb /\ child.used /\ child.pid = n /\ child.parent_pid = x
      /\ child.kids = {} /\ child.results = <<>> /\ child.pending = 0
      /\ child.at = "user" /\ child.state = "READY"
  BY <1>2, <1>7, <1>8, ChildMade
<1>10. PICK K, new : K = P[c].kids \cup {slot} /\ new = [P[c] EXCEPT !.kids = K]
  OBVIOUS
<1>11. K \in SUBSET Slots
  BY <1>5, <1>10 DEF Pcb
<1>12. PICK pcb : pcb = P[c]
  OBVIOUS
<1>13. /\ new \in Pcb /\ new.used = P[c].used /\ new.pid = P[c].pid /\ new.at = P[c].at
       /\ new.kids = K /\ new.parent_pid = P[c].parent_pid /\ new.results = P[c].results
       /\ new.pending = P[c].pending /\ new.state = P[c].state
  <2>1. pcb \in Pcb /\ K \in SUBSET Slots
    BY <1>5, <1>11, <1>12
  <2>2. PICK z : z = [pcb EXCEPT !.kids = K]
    OBVIOUS
  <2>3. /\ z \in Pcb /\ z.used = pcb.used /\ z.pid = pcb.pid /\ z.at = pcb.at
        /\ z.kids = K /\ z.parent_pid = pcb.parent_pid /\ z.results = pcb.results
        /\ z.pending = pcb.pending /\ z.state = pcb.state
    BY <2>1, <2>2, KidsChanged
  <2>4. z = new
    BY <1>10, <1>12, <2>2
  <2>5. QED
    BY <1>12, <2>3, <2>4
<1>14. PICK y : y = Put(i, slot, child)
  OBVIOUS
<1>15. Beside(i, y) /\ y.pcb[slot] = child /\ \A t \in Slots : t # slot => y.pcb[t] = i.pcb[t]
  BY <1>4, <1>9, <1>14, PutBeside
<1>16. j = Put(y, c, new)
  BY <1>1, <1>10, <1>14 DEF Linked
<1>17. Beside(y, j) /\ j.pcb[c] = new /\ \A t \in Slots : t # c => j.pcb[t] = y.pcb[t]
  <2>1. y \in Kernel
    BY <1>15 DEF Beside
  <2>2. QED
    BY <1>2, <1>13, <1>16, <2>1, PutBeside
<1>18. PICK P2 : P2 = j.pcb
  OBVIOUS
<1>19. P2[slot] = child /\ P2[c] = new /\ \A t \in Slots : t # c /\ t # slot => P2[t] = P[t]
  BY <1>4, <1>5, <1>15, <1>17, <1>18
<1>20. Born(P, P2, c, slot, n)
  BY <1>6, <1>9, <1>10, <1>13, <1>19 DEF Born
<1>21. Family(P2, Z, n + 1, {}, {})
  BY <1>2, <1>3, <1>5, <1>20, BornFamily
<1>22. OnCpu(P2, c)
  <2>1. slot # Idle
    BY <1>3, <1>5 DEF OnCpu
  <2>2. P2[Idle].used /\ P2[Idle].pid = P[Idle].pid /\ P2[Idle].state = P[Idle].state /\ P2[Idle].at = P[Idle].at
    <3>1. CASE Idle = c
      BY <1>3, <1>13, <1>19, <3>1 DEF OnCpu
    <3>2. CASE Idle # c
      BY <1>3, <1>19, <2>1, <3>2, SlotFacts DEF OnCpu
    <3>3. QED
      BY <3>1, <3>2
  <2>3. ASSUME NEW t \in Slots \ {Idle}, P2[t].used, P2[t].state = "RUNNING"
        PROVE  t = c
    <3>1. t # slot
      BY <1>9, <1>19, <2>3
    <3>2. QED
      BY <1>3, <1>19, <2>3, <3>1 DEF OnCpu
  <2>4. QED
    BY <1>3, <1>13, <1>19, <2>2, <2>3 DEF OnCpu
<1>23. /\ j \in Kernel /\ j.zombies = Z /\ j.current = c /\ j.next_pid = n + 1 /\ j.may = k.may
  BY <1>4, <1>15, <1>17 DEF Beside
<1>24. Sound(j, {}, {})
  BY <1>18, <1>21, <1>22, <1>23, CoreIs DEF Sound
<1>25. QED
  BY <1>1, <1>13, <1>17, <1>23, <1>24

\* One may switch a state that only differs in next_pid.
LEMMA StillGood ==
    ASSUME NEW k, Good(k), Exiting(k) = {}, NEW j, Sound(j, {}, {}), j.current = k.current,
           j.pcb[k.current].at = k.pcb[k.current].at, j.pcb[k.current].state = k.pcb[k.current].state
    PROVE  Good(j)
<1>1. Exiting(j) = {}
  BY DEF Exiting
<1>2. QED
  BY <1>1 DEF Good

\* proc_create keeps the invariant, whether or not it finds a slot and a stack.
LEMMA CreateGood ==
    ASSUME Good(kernel), NEW fg \in BOOLEAN, NEW nomem, proc_create(fg, nomem)
    PROVE  Good(kernel') /\ kernel'.may = kernel.may
<1>1. PICK k, c : k = collect_zombies(kernel) /\ c = kernel.current
  OBVIOUS
<1>2. Good(k) /\ CpuSame(kernel, k) /\ k.zombies = {}
  BY <1>1, CollectGood
<1>3. c = k.current /\ k.may = kernel.may /\ c # Idle /\ k.pcb[c].at = "user"
  BY <1>1, <1>2 DEF CpuSame, proc_create, InUserland, Caller
<1>4. Sound(k, {}, {}) /\ Exiting(k) = {} /\ k.current \notin k.zombies
  BY <1>2, <1>3, UserFacts
<1>5. PICK free, slot : free = {s \in Slots : ~k.pcb[s].used}
                        /\ slot = CHOOSE s \in free : \A t \in free : s =< t
  OBVIOUS
<1>6. free # {} => slot \in free
  <2>1. free \in SUBSET Nat
    BY <1>5, SlotFacts
  <2>2. free # {} => \E s \in free : \A t \in free : s =< t
    BY <2>1, SmallestOf
  <2>3. QED
    BY <1>5, <2>2
<1>7. PICK counted, child, linked :
         /\ counted = FreshPid(k) /\ child = Child(k.next_pid, fg, k.pcb[c].pid)
         /\ linked = Linked(k, slot, c, child)
  OBVIOUS
<1>8. kernel' = IF free = {} THEN k
                ELSE IF nomem THEN counted
                ELSE IF fg THEN [linked EXCEPT !.fg_pid = k.next_pid] ELSE linked
  BY <1>1, <1>5, <1>7 DEF proc_create, Caller, Child, Linked
<1>9. CASE free = {}
  BY <1>2, <1>3, <1>8, <1>9
<1>10. CASE free # {} /\ nomem
  <2>1. Sound(counted, {}, {}) /\ CpuSame(k, counted)
    BY <1>4, <1>7, CountedSound
  <2>2. Good(counted)
    BY <1>2, <1>4, <2>1, KeepsGood
  <2>3. QED
    BY <1>3, <1>8, <1>10, <2>1, <2>2 DEF CpuSame
<1>11. CASE free # {} /\ ~nomem
  <2>1. slot \in Slots /\ ~k.pcb[slot].used
    BY <1>5, <1>6, <1>11
  <2>2. child = Child(k.next_pid, fg, k.pcb[k.current].pid) /\ linked = Linked(k, slot, k.current, child)
    BY <1>3, <1>7
  <2>3. /\ Sound(linked, {}, {}) /\ linked.current = k.current /\ linked.may = k.may
        /\ linked.pcb[k.current].at = k.pcb[k.current].at
        /\ linked.pcb[k.current].state = k.pcb[k.current].state
    BY <1>4, <2>1, <2>2, LinkedSound
  <2>4. Good(linked)
    BY <1>2, <1>4, <2>3, StillGood
  <2>5. PICK j : j = [linked EXCEPT !.fg_pid = k.next_pid]
    OBVIOUS
  <2>6. Kin(linked, j)
    <3>1. linked \in Kernel /\ k.next_pid \in Int
      BY <1>4, <2>3, KernelFacts DEF Sound
    <3>2. /\ j \in Kernel /\ j.pcb = linked.pcb /\ j.zombies = linked.zombies /\ j.current = linked.current
          /\ j.next_pid = linked.next_pid /\ j.may = linked.may
      BY <2>5, <3>1 DEF Kernel
    <3>3. QED
      BY <3>2 DEF Kin, SameLife
  <2>7. Good(j) /\ j.may = linked.may
    BY <2>4, <2>6, KinGood DEF CpuSame
  <2>8. kernel' = IF fg THEN j ELSE linked
    BY <1>8, <1>11, <2>5
  <2>9. QED
    BY <1>3, <2>3, <2>4, <2>7, <2>8
<1>12. QED
  BY <1>9, <1>10, <1>11

-----------------------------------------------------------------------------
(* Results taken *)

\* b is a with fewer exit results.
Fewer(a, b) ==
    /\ b \in Pcb /\ b.used = a.used /\ b.pid = a.pid /\ b.kids = a.kids
    /\ b.parent_pid = a.parent_pid /\ b.at = a.at /\ b.state = a.state
    /\ Named(b) \subseteq Named(a)
    /\ \A i, j \in DOMAIN b.results : b.results[i] = b.results[j] => i = j

\* Where the element after a removed one ends up.
LEMMA PositionAfter ==
    ASSUME NEW i \in Int, NEW n \in Int, NEW m \in Int, m =< n - 1, i =< m
    PROVE  /\ m - (i - 1) \in Int /\ 1 =< m - (i - 1) /\ m - (i - 1) =< n - i
           /\ (i + 1) + (m - (i - 1)) - 1 = m + 1
OBVIOUS

\* A sequence without its i-th element.
Removed(r, i) == SubSeq(r, 1, i - 1) \o SubSeq(r, i + 1, Len(r))

\* What is left of a sequence without its i-th element.
LEMMA Without ==
    ASSUME NEW r \in Seq(Nat), NEW i \in DOMAIN r, NEW q, q = Removed(r, i)
    PROVE  /\ q \in Seq(Nat)
           /\ \A m \in DOMAIN q : q[m] = IF m < i THEN r[m] ELSE r[m + 1]
           /\ \A m \in DOMAIN q : m \in Nat /\ m \in DOMAIN r /\ m + 1 \in DOMAIN r
<1>1. PICK n : n = Len(r)
  OBVIOUS
<1>2. n \in Nat /\ i \in 1 .. n /\ DOMAIN r = 1 .. n
  BY <1>1
<1>3. PICK lo, hi : lo = i - 1 /\ hi = i + 1
  OBVIOUS
<1>4. lo \in Int /\ hi \in Int /\ lo - 1 + 1 = lo /\ n - hi + 1 = n - i
  BY <1>2, <1>3
<1>5. PICK a, b : a = SubSeq(r, 1, lo) /\ b = SubSeq(r, hi, n)
  OBVIOUS
<1>6. \A m \in 1 .. n : r[m] \in Nat
  BY <1>2
<1>7. a \in Seq(Nat) /\ Len(a) = lo /\ \A m \in 1 .. lo : a[m] = r[m]
  <2>1. \A m \in 1 .. lo : r[m] \in Nat
    BY <1>2, <1>3, <1>6
  <2>2. /\ a \in Seq(Nat) /\ Len(a) = (IF 1 =< lo THEN lo - 1 + 1 ELSE 0)
        /\ \A m \in 1 .. lo - 1 + 1 : a[m] = r[1 + m - 1]
    <3>1. 1 \in Int /\ lo \in Int
      BY <1>4
    <3>2. QED
      BY <1>5, <2>1, <3>1, SubSeqProperties
  <2>3. \A m \in 1 .. lo : 1 + m - 1 = m
    BY <1>4
  <2>4. Len(a) = lo
    BY <1>2, <1>3, <2>2
  <2>5. ASSUME NEW m \in 1 .. lo
        PROVE  a[m] = r[m]
    <3>1. a[m] = r[1 + m - 1]
      BY <1>4, <2>2
    <3>2. QED
      BY <2>3, <3>1
  <2>6. QED
    BY <2>2, <2>4, <2>5
<1>8. b \in Seq(Nat) /\ Len(b) = n - i /\ \A m \in 1 .. n - i : b[m] = r[hi + m - 1]
  <2>1. \A m \in hi .. n : r[m] \in Nat
    BY <1>2, <1>3, <1>6
  <2>2. /\ b \in Seq(Nat) /\ Len(b) = (IF hi =< n THEN n - hi + 1 ELSE 0)
        /\ \A m \in 1 .. n - hi + 1 : b[m] = r[hi + m - 1]
    <3>1. hi \in Int /\ n \in Int
      BY <1>2, <1>4
    <3>2. QED
      BY <1>5, <2>1, <3>1, SubSeqProperties
  <2>3. (IF hi =< n THEN n - hi + 1 ELSE 0) = n - i
    BY <1>2, <1>3
  <2>4. Len(b) = n - i
    BY <2>2, <2>3
  <2>5. \A m \in 1 .. n - i : b[m] = r[hi + m - 1]
    BY <1>4, <2>2
  <2>6. QED
    BY <2>2, <2>4, <2>5
<1>9. q = a \o b
  BY <1>1, <1>3, <1>5 DEF Removed
<1>10. /\ q \in Seq(Nat) /\ Len(q) = lo + (n - i)
       /\ \A m \in 1 .. lo + (n - i) : q[m] = IF m <= lo THEN a[m] ELSE b[m - lo]
  <2>1. /\ q \in Seq(Nat) /\ Len(q) = Len(a) + Len(b)
        /\ \A m \in 1 .. Len(a) + Len(b) : q[m] = IF m <= Len(a) THEN a[m] ELSE b[m - Len(a)]
    <3>1. a \in Seq(Nat) /\ b \in Seq(Nat)
      BY <1>7, <1>8
    <3>2. PICK z : z = a \o b
      OBVIOUS
    <3>3. /\ z \in Seq(Nat) /\ Len(z) = Len(a) + Len(b)
          /\ \A m \in 1 .. Len(a) + Len(b) : z[m] = IF m <= Len(a) THEN a[m] ELSE b[m - Len(a)]
      BY <3>1, <3>2, ConcatProperties
    <3>4. q = z
      BY <1>9, <3>2
    <3>5. QED
      BY <3>3, <3>4
  <2>2. QED
    BY <1>7, <1>8, <2>1
<1>11. DOMAIN q = 1 .. n - 1 /\ lo + (n - i) = n - 1
  <2>1. lo + (n - i) = n - 1
    BY <1>2, <1>3
  <2>2. DOMAIN q = 1 .. Len(q)
    BY <1>10
  <2>3. QED
    BY <1>10, <2>1, <2>2
<1>12. ASSUME NEW m \in 1 .. n - 1
      PROVE  q[m] = IF m < i THEN r[m] ELSE r[m + 1]
  <2>1. q[m] = IF m <= lo THEN a[m] ELSE b[m - lo]
    BY <1>10, <1>11
  <2>2. m <= lo <=> m < i
    BY <1>2, <1>3
  <2>3. CASE m < i
    <3>1. m \in 1 .. lo
      BY <2>2, <2>3
    <3>2. QED
      BY <1>7, <2>1, <2>2, <2>3, <3>1
  <2>4. CASE ~(m < i)
    <3>1. m - lo \in 1 .. n - i /\ hi + (m - lo) - 1 = m + 1
      <4>1. i \in Int /\ n \in Int /\ m \in Int /\ m =< n - 1 /\ i =< m
        BY <1>2, <2>4
      <4>2. /\ m - (i - 1) \in Int /\ 1 =< m - (i - 1) /\ m - (i - 1) =< n - i
            /\ (i + 1) + (m - (i - 1)) - 1 = m + 1
        BY <4>1, PositionAfter
      <4>3. m - lo \in Int /\ 1 =< m - lo /\ m - lo =< n - i /\ hi + (m - lo) - 1 = m + 1
        BY <1>3, <4>2
      <4>4. QED
        BY <4>1, <4>3
    <3>2. b[m - lo] = r[hi + (m - lo) - 1]
      BY <1>8, <3>1
    <3>3. QED
      BY <2>1, <2>2, <2>4, <3>1, <3>2
  <2>5. QED
    BY <2>3, <2>4
<1>13. \A m \in 1 .. n - 1 : m \in Nat /\ m \in 1 .. n /\ m + 1 \in 1 .. n
  BY <1>2
<1>14. QED
  BY <1>2, <1>10, <1>11, <1>12, <1>13

Served(pcb, i) == [pcb EXCEPT !.results = Removed(pcb.results, i)]

\* consume_wait_result takes one result off the queue and adds none.
LEMMA ServedMade ==
    ASSUME NEW pcb \in Pcb, NEW i \in DOMAIN pcb.results, NEW new, new = Served(pcb, i),
           \A a, b \in DOMAIN pcb.results : pcb.results[a] = pcb.results[b] => a = b
    PROVE  Fewer(pcb, new)
<1>1. PICK r, q : r = pcb.results /\ q = Removed(r, i)
  OBVIOUS
<1>2. r \in Seq(Nat) /\ i \in DOMAIN r
  BY <1>1 DEF Pcb
<1>3. /\ q \in Seq(Nat)
      /\ \A m \in DOMAIN q : q[m] = IF m < i THEN r[m] ELSE r[m + 1]
      /\ \A m \in DOMAIN q : m \in Nat /\ m \in DOMAIN r /\ m + 1 \in DOMAIN r
  BY <1>1, <1>2, Without
<1>4. new = [pcb EXCEPT !.results = q]
  BY <1>1 DEF Served
<1>5. /\ new \in Pcb /\ new.used = pcb.used /\ new.pid = pcb.pid /\ new.kids = pcb.kids
      /\ new.parent_pid = pcb.parent_pid /\ new.at = pcb.at /\ new.state = pcb.state
      /\ new.pending = pcb.pending /\ new.results = q
  BY <1>3, <1>4 DEF Pcb
<1>6. Named(new) \subseteq Named(pcb)
  <2>1. ASSUME NEW m \in DOMAIN q
        PROVE  \E x \in DOMAIN r : q[m] = r[x]
    <3>1. q[m] = r[m] \/ q[m] = r[m + 1]
      BY <1>3
    <3>2. QED
      BY <1>3, <3>1
  <2>2. {q[x] : x \in DOMAIN q} \subseteq {r[x] : x \in DOMAIN r}
    BY <2>1
  <2>3. new.results = q /\ pcb.results = r /\ new.pending = pcb.pending
    BY <1>1, <1>5
  <2>4. QED
    BY <2>2, <2>3 DEF Named
<1>7. \A a, b \in DOMAIN r : r[a] = r[b] => a = b
  BY <1>1
<1>8. ASSUME NEW a \in DOMAIN q, NEW b \in DOMAIN q, q[a] = q[b]
      PROVE  a = b
  <2>1. /\ a \in Nat /\ a \in DOMAIN r /\ a + 1 \in DOMAIN r
        /\ b \in Nat /\ b \in DOMAIN r /\ b + 1 \in DOMAIN r
    BY <1>3
  <2>2. i \in Nat
    BY <1>2
  <2>3. q[a] = (IF a < i THEN r[a] ELSE r[a + 1]) /\ q[b] = (IF b < i THEN r[b] ELSE r[b + 1])
    BY <1>3
  <2>4. CASE a < i /\ b < i
    BY <1>7, <1>8, <2>1, <2>3, <2>4
  <2>5. CASE ~(a < i) /\ ~(b < i)
    <3>1. r[a + 1] = r[b + 1]
      BY <1>8, <2>3, <2>5
    <3>2. a + 1 = b + 1
      BY <1>7, <2>1, <3>1
    <3>3. QED
      BY <2>1, <3>2
  <2>6. CASE a < i /\ ~(b < i)
    <3>1. r[a] = r[b + 1]
      BY <1>8, <2>3, <2>6
    <3>2. a = b + 1
      BY <1>7, <2>1, <3>1
    <3>3. QED
      BY <2>1, <2>2, <2>6, <3>2
  <2>7. CASE ~(a < i) /\ b < i
    <3>1. r[a + 1] = r[b]
      BY <1>8, <2>3, <2>7
    <3>2. a + 1 = b
      BY <1>7, <2>1, <3>1
    <3>3. QED
      BY <2>1, <2>2, <2>7, <3>2
  <2>8. QED
    BY <2>4, <2>5, <2>6, <2>7
<1>9. QED
  BY <1>5, <1>6, <1>8 DEF Fewer

\* With a result less, the family is in order.
LEMMA FewerFamily ==
    ASSUME NEW P, NEW P2, NEW Z, NEW n, NEW D, NEW N, Family(P, Z, n, D, N),
           NEW p \in Slots \ Z, P[p].used, Fewer(P[p], P2[p]), \A t \in Slots : t # p => P2[t] = P[t]
    PROVE  Family(P2, Z, n, D, N)
<1>1. Vacant(P) /\ Numbered(P, n) /\ Reported(P, Z, n, N) /\ Tree(P, Z) /\ Dead(P, Z, D)
  BY DEF Family
<1>2. \A t \in Slots : /\ P2[t].used = P[t].used /\ P2[t].pid = P[t].pid
                       /\ P2[t].kids = P[t].kids /\ P2[t].parent_pid = P[t].parent_pid
  BY DEF Fewer
<1>3. \A t \in Slots : P2[t].at = P[t].at /\ P2[t].state = P[t].state
  BY DEF Fewer
<1>4. Vacant(P2)
  BY <1>1, <1>2 DEF Vacant
<1>5. Numbered(P2, n)
  BY <1>1, <1>2 DEF Numbered
<1>6. Reported(P2, Z, n, N)
  <2>1. \A t \in Slots : Named(P2[t]) \subseteq Named(P[t])
    BY DEF Fewer
  <2>2. \A t \in Slots : \A i, j \in DOMAIN P2[t].results :
           P2[t].results[i] = P2[t].results[j] => i = j
    BY <1>1 DEF Fewer, Reported
  <2>3. \A t \in Slots : \A x \in Named(P2[t]) :
           x \in 1 .. n - 1 /\ \A u \in Slots : P2[u].used /\ P2[u].pid = x => u \in Z \cup N
    BY <1>1, <1>2, <2>1 DEF Reported
  <2>4. QED
    BY <2>2, <2>3 DEF Reported
<1>7. Tree(P2, Z)
  <2>1. \A z \in Z : z \in Slots
    BY <1>1 DEF Dead
  <2>2. QED
    BY <1>1, <1>2, <2>1 DEF Tree
<1>8. Dead(P2, Z, D)
  <2>1. {t \in Slots : P2[t].used /\ P2[t].state = "EXITED"}
           = {t \in Slots : P[t].used /\ P[t].state = "EXITED"}
    BY <1>2, <1>3
  <2>2. \A z \in Z : z \in Slots /\ z # p
    BY <1>1 DEF Dead
  <2>3. QED
    BY <1>1, <1>2, <1>3, <2>1, <2>2 DEF Dead
<1>9. QED
  BY <1>4, <1>5, <1>6, <1>7, <1>8 DEF Family

\* With a result less, the table is in order.
LEMMA FewerSound ==
    ASSUME NEW k, NEW D, NEW N, Sound(k, D, N), NEW p \in Slots \ k.zombies, k.pcb[p].used,
           NEW new, Fewer(k.pcb[p], new), NEW j, j = Put(k, p, new)
    PROVE  Sound(j, D, N) /\ CpuSame(k, j) /\ Beside(k, j)
<1>1. k \in Kernel /\ p \in Slots /\ new \in Pcb /\ k.current \in Slots
  BY KernelFacts DEF Sound, Fewer
<1>2. Beside(k, j) /\ j.pcb[p] = new /\ \A t \in Slots : t # p => j.pcb[t] = k.pcb[t]
  BY <1>1, PutBeside
<1>3. PICK P, P2, Z, n, c : P = k.pcb /\ P2 = j.pcb /\ Z = k.zombies /\ n = k.next_pid /\ c = k.current
  OBVIOUS
<1>4. Family(P, Z, n, D, N) /\ OnCpu(P, c)
  BY <1>3, CoreIs DEF Sound
<1>5. /\ p \in Slots \ Z /\ P[p].used /\ Fewer(P[p], P2[p])
      /\ \A t \in Slots : t # p => P2[t] = P[t]
  BY <1>2, <1>3
<1>6. Family(P2, Z, n, D, N)
  BY <1>4, <1>5, FewerFamily
<1>7. \A t \in Slots : /\ P2[t].used = P[t].used /\ P2[t].pid = P[t].pid
                       /\ P2[t].at = P[t].at /\ P2[t].state = P[t].state
  BY <1>5 DEF Fewer
<1>8. OnCpu(P2, c)
  BY <1>1, <1>3, <1>4, <1>7, SlotFacts DEF OnCpu
<1>9. Sound(j, D, N)
  BY <1>2, <1>3, <1>6, <1>8, CoreIs DEF Sound, Beside
<1>10. CpuSame(k, j)
  BY <1>1, <1>2, <1>3, <1>7 DEF CpuSame, Beside
<1>11. QED
  BY <1>2, <1>9, <1>10

\* consume_wait_result keeps the table in order.
LEMMA ConsumeSound ==
    ASSUME NEW k, NEW D, NEW N, Sound(k, D, N), NEW p \in Slots \ k.zombies, k.pcb[p].used,
           NEW pid, NEW j, j = consume_wait_result(k, p, pid)
    PROVE  Sound(j, D, N) /\ CpuSame(k, j) /\ Beside(k, j)
<1>1. PICK pcb : pcb = k.pcb[p]
  OBVIOUS
<1>2. pcb \in Pcb /\ k \in Kernel
  BY <1>1, KernelFacts DEF Sound
<1>3. \A a, b \in DOMAIN pcb.results : pcb.results[a] = pcb.results[b] => a = b
  BY <1>1 DEF Sound, Core, Reported
<1>4. CASE Matching(k, p, pid) # {}
  <2>1. PICK i : i = CHOOSE y \in Matching(k, p, pid) : \A x \in Matching(k, p, pid) : y =< x
    OBVIOUS
  <2>2. Matching(k, p, pid) \subseteq DOMAIN pcb.results
    BY <1>1 DEF Matching
  <2>3. pcb.results \in Seq(Nat)
    BY <1>2 DEF Pcb
  <2>4. Matching(k, p, pid) \in SUBSET Nat
    BY <2>2, <2>3
  <2>5. i \in Matching(k, p, pid)
    BY <1>4, <2>1, <2>4, SmallestOf
  <2>6. PICK new : new = Served(pcb, i)
    OBVIOUS
  <2>7. Fewer(pcb, new)
    BY <1>2, <1>3, <2>2, <2>5, <2>6, ServedMade
  <2>8. j = Put(k, p, new)
    BY <1>1, <1>4, <2>1, <2>6 DEF consume_wait_result, Served, Removed
  <2>9. QED
    BY <1>1, <2>7, <2>8, FewerSound
<1>5. CASE Matching(k, p, pid) = {} /\ PendingMatches(k, p, pid)
  <2>1. PICK x, new : x = 0 /\ new = Noted(pcb, x)
    OBVIOUS
  <2>2. x \in Nat
    BY <2>1
  <2>3. /\ new \in Pcb /\ new.used = pcb.used /\ new.pid = pcb.pid /\ new.at = pcb.at
        /\ new.kids = pcb.kids /\ new.parent_pid = pcb.parent_pid
        /\ new.results = pcb.results /\ new.pending = x /\ new.state = pcb.state
    BY <1>2, <2>1, <2>2, NotedMade
  <2>4. Named(new) \subseteq Named(pcb)
    BY <2>1, <2>3 DEF Named
  <2>5. Fewer(pcb, new)
    BY <1>3, <2>3, <2>4 DEF Fewer
  <2>6. j = Put(k, p, new)
    BY <1>1, <1>5, <2>1 DEF consume_wait_result, Noted
  <2>7. QED
    BY <1>1, <2>5, <2>6, FewerSound
<1>6. CASE Matching(k, p, pid) = {} /\ ~PendingMatches(k, p, pid)
  <2>1. j = k
    BY <1>6 DEF consume_wait_result
  <2>2. QED
    BY <1>2, <2>1 DEF CpuSame, Beside
<1>7. QED
  BY <1>4, <1>5, <1>6

-----------------------------------------------------------------------------
(* The other steps of a process *)

\* A process that lives goes on in another state or another place of the kernel.
LEMMA Resting ==
    ASSUME NEW k, NEW D, NEW N, Sound(k, D, N), NEW s \in Slots, s # Idle, k.pcb[s].used,
           k.pcb[s].state # "EXITED", NEW new, Restated(k.pcb[s], new), new.state # "EXITED",
           new.at # "exit", new.state = "RUNNING" => s = k.current, NEW j, j = Put(k, s, new)
    PROVE  Sound(j, D, N) /\ Beside(k, j) /\ j.pcb[s] = new
<1>1. k \in Kernel /\ new \in Pcb /\ k.current \in Slots
  BY KernelFacts DEF Sound, Restated
<1>2. Beside(k, j) /\ j.pcb[s] = new /\ \A t \in Slots : t # s => j.pcb[t] = k.pcb[t]
  BY <1>1, PutBeside
<1>3. PICK P, P2, Z, n, c : P = k.pcb /\ P2 = j.pcb /\ Z = k.zombies /\ n = k.next_pid /\ c = k.current
  OBVIOUS
<1>4. Family(P, Z, n, D, N) /\ OnCpu(P, c) /\ Z \subseteq Slots /\ D \subseteq Slots
  BY <1>1, <1>3, CoreIs, KernelFacts DEF Sound, Family, Dead
<1>5. P \in [Slots -> Pcb] /\ P2 \in [Slots -> Pcb]
  BY <1>1, <1>2, <1>3, KernelFacts DEF Beside
<1>6. Restated(P[s], P2[s]) /\ P[s].used /\ \A t \in Slots : t # s => P2[t] = P[t]
  BY <1>2, <1>3
<1>7. \A t \in Slots : P[t].used /\ P[t].at = "exit" => P[t].state = "EXITED"
  BY <1>4 DEF Family, Dead
<1>8. P2[s].state = "EXITED" <=> P[s].state = "EXITED"
  BY <1>2, <1>3
<1>9. P2[s].at = "exit" => P2[s].state = "EXITED"
  BY <1>2, <1>3
<1>10. Vacant(P)
  BY <1>4 DEF Family
<1>11. Alike(P, P2)
  BY <1>5, <1>6, <1>7, <1>8, <1>9, <1>10, RestatedAlike
<1>12. Family(P2, Z, n, D, N)
  BY <1>4, <1>11, AlikeKeeps
<1>13. OnCpu(P2, c)
  <2>1. \A t \in Slots : P2[t].used = P[t].used
    BY <1>6 DEF Restated
  <2>2. P2[Idle] = P[Idle]
    BY <1>6, SlotFacts
  <2>3. P2[s].state = "RUNNING" => s = c
    BY <1>2, <1>3
  <2>4. QED
    BY <1>1, <1>3, <1>4, <1>6, <2>1, <2>2, <2>3 DEF OnCpu
<1>14. QED
  BY <1>2, <1>3, <1>12, <1>13, CoreIs DEF Sound, Beside

\* The caller of proc_wait falls asleep, and returns.
Asleep(pcb, pid) ==
    [pcb EXCEPT !.waiting_for = pid, !.state = "BLOCKED", !.at = "wait", !.target = pid]
Returned(pcb, x) == [pcb EXCEPT !.waiting_for = x, !.at = "user", !.target = x]
Leaving(pcb) == [pcb EXCEPT !.at = "exit"]

\* The record of the caller that goes to sleep in proc_wait.
LEMMA AsleepMade ==
    ASSUME NEW pcb \in Pcb, NEW pid \in Int, NEW new, new = Asleep(pcb, pid)
    PROVE  Restated(pcb, new) /\ new.state = "BLOCKED" /\ new.at = "wait"
BY DEF Asleep, Restated, Pcb

\* The record of the caller when proc_wait returns.
LEMMA ReturnedMade ==
    ASSUME NEW pcb \in Pcb, NEW x \in Int, NEW new, new = Returned(pcb, x)
    PROVE  Restated(pcb, new) /\ new.state = pcb.state /\ new.at = "user"
BY DEF Returned, Restated, Pcb

\* The record of a process in the proc_exit of trampoline.
LEMMA LeavingMade ==
    ASSUME NEW pcb \in Pcb, NEW new, new = Leaving(pcb)
    PROVE  Restated(pcb, new) /\ new.state = pcb.state /\ new.at = "exit"
BY DEF Leaving, Restated, Pcb

\* proc_wait keeps the invariant.
LEMMA WaitGood ==
    ASSUME Good(kernel), NEW pid \in Int, proc_wait(pid)
    PROVE  Good(kernel') /\ kernel'.may = kernel.may
<1>1. PICK k, c : k = collect_zombies(kernel) /\ c = kernel.current
  OBVIOUS
<1>2. Good(k) /\ CpuSame(kernel, k) /\ k.zombies = {}
  BY <1>1, CollectGood
<1>3. c = k.current /\ k.may = kernel.may /\ c # Idle /\ k.pcb[c].at = "user"
  BY <1>1, <1>2 DEF CpuSame, proc_wait, InUserland, Caller
<1>4. Sound(k, {}, {}) /\ Exiting(k) = {} /\ k.pcb[c].state = "RUNNING"
  BY <1>2, <1>3, UserFacts
<1>5. k \in Kernel /\ c \in Slots \ k.zombies /\ k.pcb[c].used
  BY <1>2, <1>3, GoodFacts
<1>6. k.pcb[c] \in Pcb
  BY <1>5, KernelFacts
<1>7. CASE kernel' = consume_wait_result(k, c, pid)
  <2>1. PICK j : j = kernel'
    OBVIOUS
  <2>2. Sound(j, {}, {}) /\ CpuSame(k, j)
    BY <1>4, <1>5, <1>7, <2>1, ConsumeSound
  <2>3. Good(j)
    BY <1>2, <1>4, <2>2, KeepsGood
  <2>4. QED
    BY <1>3, <2>1, <2>2, <2>3 DEF CpuSame
<1>8. CASE kernel' = k
  BY <1>2, <1>3, <1>8
<1>9. CASE SwitchFrom(Put(k, c, Asleep(k.pcb[c], pid)))
  <2>1. PICK new, j : new = Asleep(k.pcb[c], pid) /\ j = Put(k, c, new)
    OBVIOUS
  <2>2. Restated(k.pcb[c], new) /\ new.state = "BLOCKED" /\ new.at = "wait"
    BY <1>6, <2>1, AsleepMade
  <2>3. k.pcb[c].state # "EXITED" /\ new.state # "EXITED" /\ new.at # "exit" /\ new.state # "RUNNING"
    BY <1>4, <2>2
  <2>4. Sound(j, {}, {}) /\ Beside(k, j)
    BY <1>3, <1>4, <1>5, <2>1, <2>2, <2>3, Resting
  <2>5. SwitchFrom(j)
    BY <1>9, <2>1
  <2>6. Good(kernel') /\ kernel'.may = j.may
    BY <2>4, <2>5, SwitchGood
  <2>7. QED
    BY <1>3, <2>4, <2>6 DEF Beside
<1>10. QED
  BY <1>1, <1>7, <1>8, <1>9 DEF proc_wait, Caller, Asleep

\* The end of proc_wait keeps the invariant.
LEMMA WaitReturnsGood ==
    ASSUME Good(kernel), WaitReturns
    PROVE  Good(kernel') /\ kernel'.may = kernel.may
<1>1. PICK k, c, t : /\ k = collect_zombies(kernel) /\ c = kernel.current
                     /\ t = consume_wait_result(k, c, k.pcb[c].target)
  OBVIOUS
<1>2. Good(k) /\ CpuSame(kernel, k) /\ k.zombies = {}
  BY <1>1, CollectGood
<1>3. c = k.current /\ k.may = kernel.may /\ k.pcb[c].at = "wait"
  BY <1>1, <1>2 DEF CpuSame, WaitReturns, Caller
<1>4. c # Idle
  <2>1. k.pcb[Idle].at = "user"
    BY <1>2 DEF Good, Sound, Core, OnCpu
  <2>2. QED
    BY <1>3, <2>1
<1>5. Sound(k, {}, {}) /\ Exiting(k) = {} /\ k.pcb[c].state = "RUNNING"
  BY <1>2, <1>3, <1>4, UserFacts
<1>6. k \in Kernel /\ c \in Slots \ k.zombies /\ k.pcb[c].used
  BY <1>2, <1>3, GoodFacts
<1>7. Sound(t, {}, {}) /\ CpuSame(k, t) /\ Beside(k, t)
  BY <1>1, <1>5, <1>6, ConsumeSound
<1>8. /\ t.current = c /\ t.pcb[c].state = "RUNNING" /\ t.may = kernel.may /\ t \in Kernel
      /\ t.pcb[c].used /\ t.pcb[c] \in Pcb /\ c \in Slots
  <2>1. t.current = c /\ t.pcb[c].state = "RUNNING" /\ t.may = kernel.may /\ t \in Kernel
    BY <1>3, <1>5, <1>7 DEF CpuSame, Sound
  <2>2. t.pcb[c].used
    BY <1>7, <2>1 DEF Sound, Core, OnCpu
  <2>3. QED
    BY <1>6, <2>1, <2>2, KernelFacts
<1>9. PICK x \in Int : x = 0
  OBVIOUS
<1>10. PICK new, j : new = Returned(t.pcb[c], x) /\ j = Put(t, c, new)
  OBVIOUS
<1>11. kernel' = j
  BY <1>1, <1>9, <1>10 DEF WaitReturns, Caller, Returned
<1>12. Restated(t.pcb[c], new) /\ new.state = t.pcb[c].state /\ new.at = "user"
  BY <1>8, <1>9, <1>10, ReturnedMade
<1>13. t.pcb[c].state # "EXITED" /\ new.state # "EXITED" /\ new.at # "exit"
  BY <1>8, <1>12
<1>14. Sound(j, {}, {}) /\ Beside(t, j) /\ j.pcb[c] = new
  BY <1>4, <1>7, <1>8, <1>10, <1>12, <1>13, Resting
<1>15. j.current = c /\ j.may = kernel.may /\ j.pcb[c].state = "RUNNING" /\ j.pcb[c].at = "user"
  BY <1>8, <1>12, <1>14 DEF Beside
<1>16. Exiting(j) = {}
  BY <1>15 DEF Exiting
<1>17. QED
  BY <1>11, <1>14, <1>15, <1>16 DEF Good

\* The system call exit keeps the invariant.
LEMMA SysExitGood ==
    ASSUME Good(kernel), NEW nomem, NEW woken, proc_exit(nomem, woken)
    PROVE  Good(kernel') /\ kernel'.may = kernel.may
<1>1. PICK k, f : k = collect_zombies(kernel) /\ f = exit_foreground(k, k.current)
  OBVIOUS
<1>2. Good(k) /\ CpuSame(kernel, k)
  BY <1>1, CollectGood
<1>3. kernel.current = k.current /\ k.may = kernel.may /\ k.current # Idle
  BY <1>2 DEF CpuSame, proc_exit, InUserland, Caller
<1>4. k \in Kernel /\ k.current \in Slots
  BY <1>2, GoodFacts
<1>5. Kin(k, f)
  BY <1>1, <1>4, ExitForegroundKin
<1>6. SwitchFrom(bury(retire(f, k.current), k.current, nomem, woken))
  BY <1>1, <1>3 DEF proc_exit, exit, Caller
<1>7. QED
  BY <1>2, <1>3, <1>5, <1>6, ExitGood

\* trampoline's proc_exit, up to the moment the process is EXITED.
LEMMA EntryReturnsGood ==
    ASSUME Good(kernel), EntryReturns
    PROVE  Good(kernel') /\ kernel'.may = kernel.may
<1>1. PICK k, c, f, r : /\ k = collect_zombies(kernel) /\ c = kernel.current
                        /\ f = exit_foreground(k, c) /\ r = retire(f, c)
  OBVIOUS
<1>2. Good(k) /\ CpuSame(kernel, k)
  BY <1>1, CollectGood
<1>3. c = k.current /\ k.may = kernel.may /\ c # Idle /\ k.pcb[c].at = "user"
  BY <1>1, <1>2 DEF CpuSame, EntryReturns, InUserland, Caller
<1>4. Sound(k, {}, {})
  BY <1>2, <1>3, UserFacts
<1>5. k \in Kernel /\ c \in Slots \ k.zombies /\ k.pcb[c].used
  BY <1>2, <1>3, GoodFacts
<1>6. Kin(k, f)
  BY <1>1, <1>5, ExitForegroundKin
<1>7. Sound(f, {}, {}) /\ f \in Kernel /\ f.current = c /\ f.may = kernel.may /\ c \notin f.zombies
  BY <1>3, <1>4, <1>5, <1>6, KinSound DEF Kin
<1>8. f.pcb[c].used
  BY <1>5, <1>6 DEF Kin, SameLife
<1>9. Retired(f, r, c)
  BY <1>1, <1>5, <1>7, RetireFacts
<1>10. r \in Kernel /\ r.pcb[c] \in Pcb /\ c \in Slots
  BY <1>5, <1>9, KernelFacts DEF Retired
<1>11. PICK new, j : new = Leaving(r.pcb[c]) /\ j = Put(r, c, new)
  OBVIOUS
<1>12. Restated(r.pcb[c], new) /\ new.state = r.pcb[c].state /\ new.at = "exit"
  BY <1>10, <1>11, LeavingMade
<1>13. new \in Pcb
  BY <1>12 DEF Restated
<1>14. /\ j \in Kernel /\ j.zombies = r.zombies /\ j.current = r.current
       /\ j.next_pid = r.next_pid /\ j.may = r.may
       /\ j.pcb[c] = new /\ \A t \in Slots : t # c => j.pcb[t] = r.pcb[t]
  BY <1>10, <1>11, <1>13, PutFacts
<1>15. Restated(f.pcb[c], new) /\ new.state = "EXITED"
  BY <1>9, <1>12 DEF Retired, Restated
<1>16. Retired(f, j, c)
  BY <1>9, <1>14, <1>15 DEF Retired
<1>17. Sound(j, {} \cup {c}, {})
  BY <1>3, <1>7, <1>8, <1>10, <1>16, RetireSound
<1>18. j.current = c /\ j.may = kernel.may
  BY <1>7, <1>16 DEF Retired
<1>19. Exiting(j) = {} \cup {c} /\ c \in Exiting(j)
  BY <1>12, <1>14, <1>18 DEF Exiting
<1>20. kernel' = j
  BY <1>1, <1>11 DEF EntryReturns, Caller, Leaving
<1>21. QED
  BY <1>17, <1>18, <1>19, <1>20 DEF Good

\* The rest of it.
LEMMA TrampolineExitGood ==
    ASSUME Good(kernel), NEW nomem, NEW woken, TrampolineExit(nomem, woken)
    PROVE  Good(kernel') /\ kernel'.may = kernel.may
<1>1. PICK k, c, D : k = kernel /\ c = kernel.current /\ D = Exiting(kernel)
  OBVIOUS
<1>2. D = {c} /\ c \in D
  BY <1>1 DEF TrampolineExit, Caller, Exiting
<1>3. k \in Kernel /\ Sound(k, D, {}) /\ c \in Slots \ k.zombies /\ k.pcb[c].used
  BY <1>1, GoodFacts
<1>4. c \notin k.pcb[c].kids
  BY <1>3, NoCycles, KernelFacts DEF Sound, Core
<1>5. PICK j : j = bury(k, c, nomem, woken)
  OBVIOUS
<1>6. k.current \notin k.zombies /\ k.current \notin k.pcb[c].kids
  BY <1>1, <1>3, <1>4
<1>7. Sound(j, D \ {c}, {}) /\ CpuSame(k, j)
  BY <1>2, <1>3, <1>5, <1>6, BurySound
<1>8. D \ {c} = {}
  BY <1>2
<1>9. Sound(j, {}, {}) /\ SwitchFrom(j)
  BY <1>1, <1>5, <1>7, <1>8 DEF TrampolineExit, Caller
<1>10. Good(kernel') /\ kernel'.may = j.may
  BY <1>9, SwitchGood
<1>11. QED
  BY <1>1, <1>7, <1>10 DEF CpuSame

-----------------------------------------------------------------------------
(* Calls that address a process by its pid *)

\* A pid that somebody but idle has belongs to that process.
LEMMA Addressed ==
    ASSUME NEW k, NEW D, NEW N, Sound(k, D, N), NEW pid, Having(k, pid) \ {Idle} # {},
           NEW s, s = proc_by_pid(k, pid)
    PROVE  s \in Slots /\ s # Idle /\ k.pcb[s].used /\ \A t \in Having(k, pid) : t = s
<1>1. s \in Having(k, pid)
  BY ByPid
<1>2. Numbered(k.pcb, k.next_pid)
  BY DEF Sound, Core
<1>3. \A t \in Having(k, pid) : t = s
  BY <1>1, <1>2 DEF Having, Numbered
<1>4. QED
  BY <1>1, <1>3 DEF Having

\* The system call kill keeps the invariant, unless a process kills its parent.
LEMMA SysKillGood ==
    ASSUME Good(kernel), Orderly, NEW pid, NEW nomem, NEW woken, proc_kill(pid, nomem, woken)
    PROVE  Good(kernel') /\ kernel'.may = kernel.may
<1>1. PICK k, s : k = collect_zombies(kernel) /\ s = proc_by_pid(k, pid)
  OBVIOUS
<1>2. Good(k) /\ CpuSame(kernel, k) /\ k.zombies = {}
  BY <1>1, CollectGood
<1>3. Having(k, pid) \ {Idle} # {} /\ Kill(k, s, nomem, woken)
  BY <1>1 DEF proc_kill
<1>4. s \in Slots /\ s # Idle /\ k.pcb[s].used
  BY <1>1, <1>2, <1>3, Addressed, GoodFacts
<1>5. k.current \notin k.pcb[s].kids
  BY <1>1 DEF proc_kill, TakesCurrent, Orderly
<1>6. Good(kernel') /\ kernel'.may = k.may
  BY <1>2, <1>3, <1>4, <1>5, KillGood
<1>7. QED
  BY <1>2, <1>6 DEF CpuSame

\* Ctrl+C keeps the invariant, unless it kills the parent of the current process.
LEMMA CtrlCGood ==
    ASSUME Good(kernel), Orderly, NEW nomem, NEW woken, CtrlC(nomem, woken)
    PROVE  Good(kernel') /\ kernel'.may = kernel.may
<1>1. PICK pid : pid = ForegroundPid(kernel)
  OBVIOUS
<1>2. PICK k, s : k = collect_zombies(kernel) /\ s = proc_by_pid(k, pid)
  OBVIOUS
<1>3. Good(k) /\ CpuSame(kernel, k) /\ k.zombies = {}
  BY <1>2, CollectGood
<1>4. Having(k, pid) \ {Idle} # {} /\ Kill(k, s, nomem, woken)
  BY <1>1, <1>2 DEF CtrlC
<1>5. s \in Slots /\ s # Idle /\ k.pcb[s].used
  BY <1>2, <1>3, <1>4, Addressed, GoodFacts
<1>6. k.current \notin k.pcb[s].kids
  BY <1>1, <1>2 DEF CtrlC, TakesCurrent, Orderly
<1>7. Good(kernel') /\ kernel'.may = k.may
  BY <1>3, <1>4, <1>5, <1>6, KillGood
<1>8. QED
  BY <1>3, <1>7 DEF CpuSame

\* proc_block keeps the invariant.
LEMMA BlockGood ==
    ASSUME Good(kernel), NEW pid, proc_block(pid)
    PROVE  Good(kernel') /\ kernel'.may = kernel.may
<1>1. PICK k, c, s : k = collect_zombies(kernel) /\ c = kernel.current /\ s = proc_by_pid(k, pid)
  OBVIOUS
<1>2. Good(k) /\ CpuSame(kernel, k) /\ k.zombies = {}
  BY <1>1, CollectGood
<1>3. c = k.current /\ k.may = kernel.may /\ c # Idle /\ k.pcb[c].at = "user"
  BY <1>1, <1>2 DEF CpuSame, proc_block, InUserland, Caller
<1>4. Sound(k, {}, {}) /\ Exiting(k) = {} /\ k.pcb[c].state = "RUNNING"
  BY <1>2, <1>3, UserFacts
<1>5. PICK t \in Having(k, pid) : t \in InState(k, "READY") \/ t = c
  BY <1>1 DEF proc_block, Caller
<1>6. t # Idle
  BY <1>3, <1>5 DEF InState
<1>7. s = t /\ s \in Slots /\ s # Idle /\ k.pcb[s].used
  BY <1>1, <1>4, <1>5, <1>6, Addressed
<1>8. k.pcb[s].state # "EXITED"
  BY <1>4, <1>5, <1>7 DEF InState
<1>9. k.pcb[s].at # "exit"
  BY <1>4, <1>7, <1>8 DEF Sound, Core, Dead
<1>10. k.pcb[s] \in Pcb
  BY <1>4, <1>7, KernelFacts DEF Sound
<1>11. PICK new, j : new = [k.pcb[s] EXCEPT !.state = "BLOCKED"] /\ j = Put(k, s, new)
  OBVIOUS
<1>12. Restated(k.pcb[s], new) /\ new.state = "BLOCKED" /\ new.at = k.pcb[s].at
  BY <1>10, <1>11, StateChanged
<1>13. new.state # "EXITED" /\ new.at # "exit" /\ new.state # "RUNNING"
  BY <1>9, <1>12
<1>14. Sound(j, {}, {}) /\ Beside(k, j) /\ j.pcb[s] = new
  <2>1. s \in Slots /\ s # Idle /\ k.pcb[s].used /\ k.pcb[s].state # "EXITED"
    BY <1>7, <1>8
  <2>2. Restated(k.pcb[s], new) /\ j = Put(k, s, new)
    BY <1>11, <1>12
  <2>3. new.state # "EXITED" /\ new.at # "exit" /\ (new.state = "RUNNING" => s = k.current)
    BY <1>13
  <2>4. Sound(k, {}, {})
    BY <1>4
  <2>5. QED
    BY <2>1, <2>2, <2>3, <2>4, Resting
<1>15. IF s = c THEN SwitchFrom(j) ELSE kernel' = j
  BY <1>1, <1>11 DEF proc_block, Caller
<1>16. CASE s = c
  <2>1. SwitchFrom(j)
    BY <1>15, <1>16
  <2>2. Good(kernel') /\ kernel'.may = j.may
    BY <1>14, <2>1, SwitchGood
  <2>3. QED
    BY <1>3, <1>14, <2>2 DEF Beside
<1>17. CASE s # c
  <2>1. j.pcb[c] = k.pcb[c]
    <3>1. c \in Slots /\ s \in Slots /\ k \in Kernel /\ new \in Pcb
      BY <1>2, <1>3, <1>7, <1>12, GoodFacts DEF Restated
    <3>2. QED
      BY <1>11, <1>17, <3>1, PutFacts
  <2>2. j.current = k.current
    BY <1>14 DEF Beside
  <2>3. Good(j)
    BY <1>2, <1>3, <1>4, <1>14, <2>1, <2>2, StillGood
  <2>4. QED
    BY <1>3, <1>14, <1>15, <1>17, <2>3 DEF Beside
<1>18. QED
  BY <1>16, <1>17

\* proc_unblock keeps the invariant.
LEMMA UnblockGood ==
    ASSUME Good(kernel), NEW s, proc_unblock(s)
    PROVE  Good(kernel') /\ kernel'.may = kernel.may
<1>1. PICK k, j, S : k = kernel /\ j = kernel' /\ S = {s}
  OBVIOUS
<1>2. k \in Kernel /\ Sound(k, Exiting(k), {}) /\ k.current \notin k.zombies /\ Good(k)
  BY <1>1, GoodFacts
<1>3. j = unblock(k, S)
  BY <1>1 DEF proc_unblock
<1>4. Sound(j, Exiting(k), {}) /\ Passive(k, j)
  BY <1>2, <1>3, UnblockSound
<1>5. CpuSame(k, j)
  BY <1>2, <1>4, PassiveCpu
<1>6. Good(j)
  BY <1>2, <1>4, <1>5, KeepsGood
<1>7. QED
  BY <1>1, <1>5, <1>6 DEF CpuSame

\* The timer tick keeps the invariant, unless it interrupts an exit.
LEMMA TickGood ==
    ASSUME Good(kernel), Orderly, Tick
    PROVE  Good(kernel') /\ kernel'.may = kernel.may
<1>1. kernel.pcb[kernel.current].at # "exit"
  BY DEF Tick, Orderly, Caller
<1>2. Exiting(kernel) = {}
  BY <1>1 DEF Exiting
<1>3. Sound(kernel, {}, {}) /\ SwitchFrom(kernel)
  BY <1>2 DEF Good, Tick
<1>4. PICK k : k = kernel
  OBVIOUS
<1>5. Sound(k, {}, {}) /\ SwitchFrom(k)
  BY <1>3, <1>4
<1>6. QED
  BY <1>4, <1>5, SwitchGood

-----------------------------------------------------------------------------
(* The invariant holds *)

\* Every step keeps the invariant.
LEMMA StepGood ==
    ASSUME Good(kernel), Orderly, Next
    PROVE  Good(kernel') /\ kernel'.may = kernel.may
<1>1. \A s \in Slots : kernel.pcb[s].pid \in Int
  <2>1. kernel.pcb \in [Slots -> Pcb]
    BY GoodFacts, KernelFacts
  <2>2. QED
    BY <2>1 DEF Pcb
<1>2. CASE Tick
  BY <1>2, TickGood
<1>3. CASE WaitReturns
  BY <1>3, WaitReturnsGood
<1>4. CASE EntryReturns
  BY <1>4, EntryReturnsGood
<1>5. CASE proc_snapshot
  <2>1. PICK j : j = kernel'
    OBVIOUS
  <2>2. j = collect_zombies(kernel)
    BY <1>5, <2>1 DEF proc_snapshot
  <2>3. Good(j) /\ CpuSame(kernel, j)
    BY <2>2, CollectGood
  <2>4. QED
    BY <2>1, <2>3 DEF CpuSame
<1>6. CASE \E fg \in BOOLEAN, nomem \in NoMem : proc_create(fg, nomem)
  BY <1>6, CreateGood
<1>7. CASE \E pid \in Pids \cup {-1} : proc_wait(pid)
  <2>1. PICK pid \in Pids \cup {-1} : proc_wait(pid)
    BY <1>7
  <2>2. pid \in Int
    BY <1>1 DEF Pids
  <2>3. QED
    BY <2>1, <2>2, WaitGood
<1>8. CASE \E nomem \in NoMem, woken \in SUBSET Sleepers(kernel) :
              \/ proc_exit(nomem, woken)
              \/ TrampolineExit(nomem, woken)
              \/ CtrlC(nomem, woken)
              \/ \E pid \in Pids : proc_kill(pid, nomem, woken)
  BY <1>8, SysExitGood, TrampolineExitGood, CtrlCGood, SysKillGood
<1>9. CASE \E pid \in Pids : proc_block(pid)
  BY <1>9, BlockGood
<1>10. CASE \E s \in Slots : proc_unblock(s)
  BY <1>10, UnblockGood
<1>11. QED
  BY <1>2, <1>3, <1>4, <1>5, <1>6, <1>7, <1>8, <1>9, <1>10 DEF Next

\* The records of idle and of the shell that main leaves.
IdleRecord == [Unused EXCEPT !.used = TRUE, !.state = "RUNNING", !.pid = IdlePid, !.kids = {1}]
ShellRecord == [Unused EXCEPT !.used = TRUE, !.state = "READY", !.pid = Shell,
                              !.parent_pid = IdlePid, !.fg = TRUE]

\* The record of idle is one of the process table.
LEMMA IdleMade ==
    ASSUME NEW new, new = IdleRecord
    PROVE  /\ new \in Pcb /\ new.used /\ new.pid = IdlePid /\ new.parent_pid = -1
           /\ new.kids = {1} /\ new.results = <<>> /\ new.pending = 0
           /\ new.at = "user" /\ new.state = "RUNNING"
<1>1. /\ new.used = TRUE /\ new.pid = IdlePid /\ new.parent_pid = -1
      /\ new.kids = {1} /\ new.results = <<>> /\ new.pending = 0
      /\ new.at = "user" /\ new.state = "RUNNING"
  BY DEF IdleRecord, Unused
<1>2. new \in [used : {TRUE}, pid : {IdlePid}, state : {"RUNNING"}, parent_pid : {-1}, kids : {{1}},
               waiting_for : {0}, results : {<<>>}, pending : {0}, zombie_reapable : {FALSE},
               fg : {FALSE}, at : {"user"}, target : {0}]
  BY DEF IdleRecord, Unused
<1>3. 1 \in Slots
  BY ProcAssumption DEF Slots
<1>4. /\ {TRUE} \subseteq BOOLEAN /\ {IdlePid} \subseteq Nat /\ {-1} \subseteq Int
      /\ {{1}} \subseteq SUBSET Slots /\ {0} \subseteq Int /\ {0} \subseteq Nat
      /\ {<<>>} \subseteq Seq(Nat) /\ {FALSE} \subseteq BOOLEAN
  BY <1>3, SlotFacts
<1>5. new \in Pcb
  BY <1>2, <1>4 DEF Pcb
<1>6. QED
  BY <1>1, <1>5

\* The record of the shell is one of the process table.
LEMMA ShellMade ==
    ASSUME NEW new, new = ShellRecord
    PROVE  /\ new \in Pcb /\ new.used /\ new.pid = Shell /\ new.parent_pid = IdlePid
           /\ new.kids = {} /\ new.results = <<>> /\ new.pending = 0
           /\ new.at = "user" /\ new.state = "READY"
<1>1. /\ new.used = TRUE /\ new.pid = Shell /\ new.parent_pid = IdlePid
      /\ new.kids = {} /\ new.results = <<>> /\ new.pending = 0
      /\ new.at = "user" /\ new.state = "READY"
  BY DEF ShellRecord, Unused
<1>2. new \in [used : {TRUE}, pid : {Shell}, state : {"READY"}, parent_pid : {IdlePid}, kids : {{}},
               waiting_for : {0}, results : {<<>>}, pending : {0}, zombie_reapable : {FALSE},
               fg : {TRUE}, at : {"user"}, target : {0}]
  BY DEF ShellRecord, Unused
<1>3. /\ {TRUE} \subseteq BOOLEAN /\ {Shell} \subseteq Nat /\ {IdlePid} \subseteq Int
      /\ {{}} \subseteq SUBSET Slots /\ {0} \subseteq Int /\ {0} \subseteq Nat
      /\ {<<>>} \subseteq Seq(Nat) /\ {FALSE} \subseteq BOOLEAN
  BY SlotFacts
<1>4. new \in Pcb
  BY <1>2, <1>3 DEF Pcb
<1>5. QED
  BY <1>1, <1>4

\* idle and the shell as main leaves them, and the other slots free.
LEMMA InitGood ==
    ASSUME Init
    PROVE  Good(kernel) /\ kernel \in Kernel
<1>1. PICK may, P, Z, c, n :
         /\ may \in Situations /\ Z = {} /\ c = Idle /\ n = 3
         /\ P = [s \in Slots |-> CASE s = Idle -> IdleRecord [] s = 1 -> ShellRecord [] OTHER -> Unused]
         /\ kernel = [pcb |-> P, zombies |-> Z, current |-> c, fg_pid |-> Shell,
                      next_pid |-> n, may |-> may]
  BY DEF Init, IdleRecord, ShellRecord
<1>2. Idle \in Slots /\ 1 \in Slots /\ 1 # Idle
  BY ProcAssumption DEF Slots, Idle
<1>3. PICK idle, shell : idle = IdleRecord /\ shell = ShellRecord
  OBVIOUS
<1>4. P[Idle] = idle /\ P[1] = shell /\ \A s \in Slots : s # Idle /\ s # 1 => P[s] = Unused
  BY <1>1, <1>2, <1>3
<1>5. /\ idle \in Pcb /\ idle.used /\ idle.pid = 1 /\ idle.kids = {1} /\ idle.state = "RUNNING"
      /\ idle.parent_pid = -1 /\ idle.results = <<>> /\ idle.pending = 0 /\ idle.at = "user"
  BY <1>3, IdleMade, SlotFacts
<1>6. /\ shell \in Pcb /\ shell.used /\ shell.pid = 2 /\ shell.kids = {}
      /\ shell.state = "READY" /\ shell.parent_pid = 1 /\ shell.results = <<>>
      /\ shell.pending = 0 /\ shell.at = "user"
  BY <1>3, ShellMade, SlotFacts
<1>7. P \in [Slots -> Pcb]
  <2>1. \A s \in Slots : P[s] \in Pcb
    BY <1>4, <1>5, <1>6, UnusedFacts
  <2>2. QED
    BY <1>1, <2>1
<1>8. kernel \in Kernel
  BY <1>1, <1>2, <1>7, ProcAssumption DEF Kernel, Shell
<1>9. \A s \in Slots : /\ P[s].results = <<>> /\ P[s].pending = 0 /\ P[s].at = "user"
                       /\ P[s].used <=> s = Idle \/ s = 1
  BY <1>4, <1>5, <1>6, UnusedFacts
<1>10. Vacant(P)
  BY <1>4, <1>9 DEF Vacant
<1>11. Numbered(P, n)
  BY <1>1, <1>4, <1>5, <1>6, <1>9 DEF Numbered
<1>12. Reported(P, Z, n, {})
  <2>1. \A s \in Slots : Named(P[s]) = {}
    BY <1>9 DEF Named
  <2>2. QED
    BY <1>9, <2>1 DEF Reported
<1>13. Tree(P, Z)
  <2>1. P[Idle].kids = {1} /\ P[1].kids = {}
    BY <1>4, <1>5, <1>6
  <2>2. P[Idle].pid = 1 /\ P[1].pid = 2 /\ P[Idle].parent_pid = -1 /\ P[1].parent_pid = 1
    BY <1>4, <1>5, <1>6
  <2>3. \A s, t \in Slots : P[s].used => (t \in P[s].kids <=> P[t].used /\ P[t].parent_pid = P[s].pid)
    BY <1>2, <1>9, <2>1, <2>2
  <2>4. \A t \in Slots : P[t].used => P[t].parent_pid = -1 \/ (Idle \in Slots \ Z /\ P[Idle].used /\ P[Idle].pid = P[t].parent_pid)
    BY <1>1, <1>9, <2>2, SlotFacts
  <2>5. QED
    BY <1>1, <2>3, <2>4 DEF Tree
<1>14. Dead(P, Z, {})
  <2>1. \A s \in Slots : ~(P[s].used /\ P[s].state = "EXITED")
    BY <1>4, <1>5, <1>6, <1>9
  <2>2. QED
    BY <1>1, <1>9, <2>1 DEF Dead
<1>15. OnCpu(P, c)
  BY <1>1, <1>4, <1>5, <1>6, <1>9, SlotFacts DEF OnCpu
<1>16. Sound(kernel, {}, {})
  BY <1>1, <1>8, <1>10, <1>11, <1>12, <1>13, <1>14, <1>15 DEF Sound, Core
<1>17. Exiting(kernel) = {}
  BY <1>1, <1>9, SlotFacts DEF Exiting
<1>18. QED
  BY <1>1, <1>8, <1>16, <1>17 DEF Good

\* The invariant: without a process that dies while its child is on the CPU, and without
\* an exit that is interrupted, every state is Good.
THEOREM Invariance == Spec /\ Orderly => []Inv
<1>1. Init /\ Orderly => Inv
  BY InitGood DEF Inv
<1>2. Inv /\ [Next]_kernel => Inv'
  <2>1. Inv /\ Next => Good(kernel') /\ kernel'.may = kernel.may
    BY StepGood DEF Inv
  <2>2. Inv /\ Next => Good(kernel)' /\ Orderly'
    <3>1. Good(kernel') => Good(kernel)'
      BY DEF Good, Exiting, Sound, Core, Kernel
    <3>2. QED
      BY <2>1, <3>1 DEF Inv, Orderly
  <2>3. Inv /\ kernel' = kernel => Inv'
    BY DEF Inv, Orderly, Good, Exiting, Sound, Core, Kernel
  <2>4. QED
    BY <2>2, <2>3 DEF Inv
<1>3. QED
  BY <1>1, <1>2, PTL DEF Spec

-----------------------------------------------------------------------------
(* The properties *)

\* Parts of the invariant.
LEMMA InvParts ==
    ASSUME Inv
    PROVE  /\ kernel \in Kernel /\ kernel.pcb \in [Slots -> Pcb]
           /\ Tree(kernel.pcb, kernel.zombies) /\ Numbered(kernel.pcb, kernel.next_pid)
           /\ Reported(kernel.pcb, kernel.zombies, kernel.next_pid, {})
           /\ Dead(kernel.pcb, kernel.zombies, Exiting(kernel))
           /\ OnCpu(kernel.pcb, kernel.current)
BY KernelFacts DEF Inv, Good, Sound, Core

\* The child lists are exact and no parent_pid dangles: notify_parent_exit finds the
\* parent, detach_children every child.
THEOREM ChildrenAreExact == Spec /\ Orderly => []ChildrenExact
<1>1. Inv => ChildrenExact
  <2> SUFFICES ASSUME Inv, NEW s \in Slots, kernel.pcb[s].used
               PROVE  /\ kernel.pcb[s].kids =
                            {t \in Slots : kernel.pcb[t].used /\ kernel.pcb[t].parent_pid = kernel.pcb[s].pid}
                      /\ kernel.pcb[s].parent_pid > 0 =>
                            \E p \in Having(kernel, kernel.pcb[s].parent_pid) : p \notin kernel.zombies
    BY DEF ChildrenExact
  <2>1. Tree(kernel.pcb, kernel.zombies) /\ kernel.pcb[s] \in Pcb
    BY InvParts
  <2>2. kernel.pcb[s].kids \subseteq Slots
    BY <2>1 DEF Pcb
  <2>3. kernel.pcb[s].kids =
           {t \in Slots : kernel.pcb[t].used /\ kernel.pcb[t].parent_pid = kernel.pcb[s].pid}
    BY <2>1, <2>2 DEF Tree
  <2>4. kernel.pcb[s].parent_pid > 0 =>
           \E p \in Having(kernel, kernel.pcb[s].parent_pid) : p \notin kernel.zombies
    <3>1. kernel.pcb[s].parent_pid > 0 => kernel.pcb[s].parent_pid # -1
      OBVIOUS
    <3>2. QED
      BY <2>1, <3>1 DEF Tree, Having
  <2>5. QED
    BY <2>3, <2>4
<1>2. QED
  BY <1>1, Invariance, PTL

\* Distinct results are as many as their positions.
LEMMA DistinctCount ==
    ASSUME NEW r \in Seq(Nat), \A i, j \in DOMAIN r : r[i] = r[j] => i = j
    PROVE  Cardinality(DOMAIN r) = Cardinality({r[i] : i \in DOMAIN r})
<1>1. PICK S, T, f : /\ S = DOMAIN r /\ T = {r[i] : i \in DOMAIN r}
                     /\ f = [i \in S |-> r[i]]
  OBVIOUS
<1>2. IsFiniteSet(S)
  <2>1. S = 1 .. Len(r) /\ Len(r) \in Int
    BY <1>1
  <2>2. QED
    BY <2>1, FS_Interval
<1>3. f \in [S -> T] /\ \A i \in S : f[i] = r[i]
  BY <1>1
<1>4. \A i, j \in S : f[i] = f[j] => i = j
  BY <1>1, <1>3
<1>5. \A y \in T : \E i \in S : f[i] = y
  BY <1>1, <1>3
<1>6. f \in Bijection(S, T)
  BY <1>3, <1>4, <1>5 DEF Bijection, Injection, Surjection, IsInjective
<1>7. ExistsBijection(S, T)
  BY <1>6 DEF ExistsBijection
<1>8. QED
  BY <1>1, <1>2, <1>7, FS_Bijection

\* proc_by_pid finds the process that was meant, and an exit result is taken for a
\* process that has ended, once.
THEOREM PidsAreUnique == Spec /\ Orderly => []PidsIdentify
<1>1. Inv => PidsIdentify
  <2> SUFFICES ASSUME Inv, NEW s \in Slots, kernel.pcb[s].used, NEW t \in Slots, kernel.pcb[t].used
               PROVE  /\ kernel.pcb[s].pid = kernel.pcb[t].pid => s = t
                      /\ HasResult(kernel, s, kernel.pcb[t].pid) => t \in kernel.zombies
                      /\ Cardinality(Matching(kernel, s, -1)) =
                            Cardinality({kernel.pcb[s].results[i] : i \in DOMAIN kernel.pcb[s].results})
    BY DEF PidsIdentify
  <2>1. PICK P, Z, n : P = kernel.pcb /\ Z = kernel.zombies /\ n = kernel.next_pid
    OBVIOUS
  <2>2. Numbered(P, n) /\ Reported(P, Z, n, {}) /\ P[s] \in Pcb /\ P[t] \in Pcb
    BY <2>1, InvParts
  <2>3. P[s].pid = P[t].pid => s = t
    BY <2>1, <2>2 DEF Numbered
  <2>4. ASSUME HasResult(kernel, s, P[t].pid)
        PROVE  t \in Z
    <3>1. P[t].pid \in 1 .. n - 1 /\ P[t].pid \in Nat /\ P[t].used
      BY <2>1, <2>2 DEF Numbered, Pcb
    <3>2. ~(P[t].pid =< 0)
      BY <3>1
    <3>3. P[t].pid \in Named(P[s])
      BY <2>1, <2>4, <3>2 DEF HasResult, Matching, PendingMatches, Named
    <3>4. QED
      BY <2>2, <3>1, <3>3 DEF Reported
  <2>5. Matching(kernel, s, -1) = DOMAIN P[s].results
    BY <2>1 DEF Matching
  <2>6. PICK r : r = P[s].results
    OBVIOUS
  <2>7. r \in Seq(Nat) /\ \A i, j \in DOMAIN r : r[i] = r[j] => i = j
    BY <2>2, <2>6 DEF Reported, Pcb
  <2>8. Cardinality(DOMAIN r) = Cardinality({r[i] : i \in DOMAIN r})
    BY <2>7, DistinctCount
  <2>9. QED
    BY <2>1, <2>3, <2>4, <2>5, <2>6, <2>8
<1>2. QED
  BY <1>1, Invariance, PTL

\* Every slot of a dead process is on the zombie list, unless the process has not left
\* proc_exit yet, and the next collect_zombies frees them all.
THEOREM SlotsComeBack == Spec /\ Orderly => []ZombiesReturn
<1>1. Inv => ZombiesReturn
  <2> SUFFICES ASSUME Inv
               PROVE  ZombiesReturn
    OBVIOUS
  <2>1. kernel \in Kernel /\ Tree(kernel.pcb, kernel.zombies) /\ Dead(kernel.pcb, kernel.zombies, Exiting(kernel))
    BY InvParts
  <2>2. kernel.zombies = {s \in Slots : kernel.pcb[s].used /\ kernel.pcb[s].state = "EXITED"}
                            \ {s \in {Caller} : kernel.pcb[s].at = "exit"}
    BY <2>1 DEF Dead, Exiting, Caller
  <2>3. PICK j : j = collect_zombies(kernel)
    OBVIOUS
  <2>4. Collected(kernel, j)
    BY <2>1, <2>3, CollectFacts
  <2>5. QED
    BY <2>2, <2>3, <2>4 DEF ZombiesReturn, Collected
<1>2. QED
  BY <1>1, Invariance, PTL

\* collect_zombies never frees the slot of the process on the CPU, whose kernel stack the
\* handler runs on.
THEOREM CurrentHasSlot == Spec /\ Orderly => []CurrentIsUsed
<1>1. Inv => CurrentIsUsed
  BY InvParts DEF CurrentIsUsed, Caller, OnCpu
<1>2. QED
  BY <1>1, Invariance, PTL

-----------------------------------------------------------------------------
(* What the steps of a handler leave of the living *)

\* From k to j the processes in dead end; those that live on may have been woken.
Flow(k, j, dead) ==
    /\ j.current = k.current /\ Alive(j) = Alive(k) \ dead
    /\ \A t \in Alive(j) :
          /\ j.pcb[t].pid = k.pcb[t].pid /\ j.pcb[t].at = k.pcb[t].at
          /\ \/ j.pcb[t].state = k.pcb[t].state
             \/ k.pcb[t].state = "BLOCKED" /\ j.pcb[t].state = "READY"

\* The terminal stays where it is, and nobody loses a parent but by its death.
Kept(k, j, dead) ==
    /\ j.fg_pid = k.fg_pid /\ Alive(j) \subseteq Alive(k)
    /\ \A t \in Alive(j) :
          /\ j.pcb[t].pid = k.pcb[t].pid /\ j.pcb[t].fg = k.pcb[t].fg
          /\ \/ j.pcb[t].parent_pid = k.pcb[t].parent_pid
             \/ \E q \in dead \cap Alive(k) : k.pcb[q].pid = k.pcb[t].parent_pid

\* What a record says about waiting stays as it is.
SameWait(a, b) ==
    /\ b.waiting_for = a.waiting_for /\ b.target = a.target /\ b.results = a.results
    /\ b.pending = a.pending /\ b.kids = a.kids /\ b.at = a.at
    /\ a.waiting_for # 0 => b.state = a.state

\* Nobody who lives on notices anything about waiting.
Calm(k, j) ==
    /\ j.may = k.may /\ Alive(j) \subseteq Alive(k)
    /\ \A t \in Alive(j) : /\ SameWait(k.pcb[t], j.pcb[t])
                           /\ \A c \in k.pcb[t].kids : j.pcb[c].pid = k.pcb[c].pid

\* Flow twice.
LEMMA FlowTrans ==
    ASSUME NEW k, NEW i, NEW j, NEW d, NEW e, Flow(k, i, d), Flow(i, j, e)
    PROVE  Flow(k, j, d \cup e)
<1>1. Alive(j) = Alive(k) \ (d \cup e) /\ Alive(j) \subseteq Alive(i) /\ j.current = k.current
  BY DEF Flow
<1>2. \A t \in Alive(j) :
          /\ j.pcb[t].pid = k.pcb[t].pid /\ j.pcb[t].at = k.pcb[t].at
          /\ \/ j.pcb[t].state = k.pcb[t].state
             \/ k.pcb[t].state = "BLOCKED" /\ j.pcb[t].state = "READY"
  BY <1>1 DEF Flow
<1>3. QED
  BY <1>1, <1>2 DEF Flow

\* Kept twice.
LEMMA KeptTrans ==
    ASSUME NEW k, NEW i, NEW j, NEW d, NEW e, Kept(k, i, d), Kept(i, j, e)
    PROVE  Kept(k, j, d \cup e)
<1>1. j.fg_pid = k.fg_pid /\ Alive(j) \subseteq Alive(i) /\ Alive(i) \subseteq Alive(k)
  BY DEF Kept
<1>2. ASSUME NEW t \in Alive(j)
      PROVE  /\ j.pcb[t].pid = k.pcb[t].pid /\ j.pcb[t].fg = k.pcb[t].fg
             /\ \/ j.pcb[t].parent_pid = k.pcb[t].parent_pid
                \/ \E q \in (d \cup e) \cap Alive(k) : k.pcb[q].pid = k.pcb[t].parent_pid
  <2>1. /\ i.pcb[t].pid = k.pcb[t].pid /\ i.pcb[t].fg = k.pcb[t].fg
        /\ j.pcb[t].pid = i.pcb[t].pid /\ j.pcb[t].fg = i.pcb[t].fg
    BY <1>1, <1>2 DEF Kept
  <2>2. CASE \E q \in d \cap Alive(k) : k.pcb[q].pid = k.pcb[t].parent_pid
    BY <2>1, <2>2
  <2>3. CASE ~\E q \in d \cap Alive(k) : k.pcb[q].pid = k.pcb[t].parent_pid
    <3>1. i.pcb[t].parent_pid = k.pcb[t].parent_pid
      BY <1>1, <1>2, <2>3 DEF Kept
    <3>2. CASE j.pcb[t].parent_pid = i.pcb[t].parent_pid
      BY <2>1, <3>1, <3>2
    <3>3. CASE j.pcb[t].parent_pid # i.pcb[t].parent_pid
      <4>1. PICK q \in e \cap Alive(i) : i.pcb[q].pid = i.pcb[t].parent_pid
        BY <1>2, <3>3 DEF Kept
      <4>2. q \in Alive(k) /\ i.pcb[q].pid = k.pcb[q].pid
        BY <1>1, <4>1 DEF Kept
      <4>3. QED
        BY <2>1, <3>1, <4>1, <4>2
    <3>4. QED
      BY <3>2, <3>3
  <2>4. QED
    BY <2>2, <2>3
<1>3. QED
  BY <1>1, <1>2 DEF Kept

\* Calm twice.
LEMMA CalmTrans ==
    ASSUME NEW k, NEW i, NEW j, Calm(k, i), Calm(i, j)
    PROVE  Calm(k, j)
<1>1. Alive(j) \subseteq Alive(i) /\ Alive(i) \subseteq Alive(k) /\ j.may = k.may
  BY DEF Calm
<1>2. ASSUME NEW t \in Alive(j)
      PROVE  SameWait(k.pcb[t], j.pcb[t]) /\ \A c \in k.pcb[t].kids : j.pcb[c].pid = k.pcb[c].pid
  <2>1. SameWait(k.pcb[t], i.pcb[t]) /\ SameWait(i.pcb[t], j.pcb[t])
    BY <1>1, <1>2 DEF Calm
  <2>2. SameWait(k.pcb[t], j.pcb[t]) /\ i.pcb[t].kids = k.pcb[t].kids
    BY <2>1 DEF SameWait
  <2>3. \A c \in k.pcb[t].kids : i.pcb[c].pid = k.pcb[c].pid
    BY <1>1, <1>2 DEF Calm
  <2>4. \A c \in i.pcb[t].kids : j.pcb[c].pid = i.pcb[c].pid
    BY <1>2 DEF Calm
  <2>5. QED
    BY <2>2, <2>3, <2>4
<1>3. QED
  BY <1>1, <1>2 DEF Calm

\* Who lives in both states, and looks the same.
LEMMA SameLiving ==
    ASSUME NEW k, NEW j, NEW dead, j.current = k.current, j.may = k.may, j.fg_pid = k.fg_pid,
           Alive(j) = Alive(k) \ dead, \A t \in Alive(j) : j.pcb[t] = k.pcb[t],
           \A t \in Alive(j) : \A c \in k.pcb[t].kids : j.pcb[c].pid = k.pcb[c].pid
    PROVE  Flow(k, j, dead) /\ Kept(k, j, dead) /\ Calm(k, j)
BY DEF Flow, Kept, Calm, SameWait

\* collect_zombies takes the dead only.
LEMMA CollectOn ==
    ASSUME NEW k, NEW D, NEW N, Sound(k, D, N), NEW j, Collected(k, j)
    PROVE  Flow(k, j, {}) /\ Kept(k, j, {}) /\ Calm(k, j)
<1>1. PICK P, P2, Z : P = k.pcb /\ P2 = j.pcb /\ Z = k.zombies
  OBVIOUS
<1>2. Tree(P, Z) /\ Dead(P, Z, D) /\ Numbered(P, k.next_pid) /\ P \in [Slots -> Pcb]
  BY <1>1, KernelFacts DEF Sound, Core
<1>3. \A t \in Slots : P2[t] = IF t \in Z THEN Unused ELSE P[t]
  BY <1>1 DEF Collected
<1>4. \A z \in Z : z \in Slots /\ P[z].used /\ P[z].state = "EXITED" /\ P[z].parent_pid = -1
  BY <1>2 DEF Dead, Tree
<1>5. \A t \in Slots : t \in Z => ~P2[t].used
  BY <1>3, UnusedFacts
<1>6. \A t \in Slots : (P2[t].used /\ P2[t].state # "EXITED") <=> (P[t].used /\ P[t].state # "EXITED")
  BY <1>3, <1>4, <1>5
<1>7. Alive(j) = Alive(k) \ {}
  BY <1>1, <1>6 DEF Alive
<1>8. \A t \in Alive(j) : t \in Slots \ Z /\ P[t].used
  BY <1>1, <1>4, <1>5, <1>7 DEF Alive
<1>9. \A t \in Alive(j) : P2[t] = P[t]
  BY <1>3, <1>8
<1>10. ASSUME NEW t \in Alive(j), NEW c \in P[t].kids
       PROVE  P2[c].pid = P[c].pid
  <2>1. t \in Slots /\ P[t].used /\ P[t] \in Pcb
    BY <1>2, <1>8
  <2>2. c \in Slots /\ P[c].parent_pid = P[t].pid
    BY <1>2, <2>1 DEF Tree, Pcb
  <2>3. P[t].pid # -1
    BY <2>1 DEF Pcb
  <2>4. c \notin Z
    BY <1>4, <2>2, <2>3
  <2>5. QED
    BY <1>3, <2>2, <2>4
<1>11. QED
  BY <1>1, <1>7, <1>9, <1>10, SameLiving DEF Collected

\* The wake-up in proc_unblock, of processes that do not wait for a child.
LEMMA WakeOn ==
    ASSUME NEW c \in Kernel, NEW S, NEW j,
           j = [c EXCEPT !.pcb = [s \in Slots |->
                   IF s \in S /\ s \in InState(c, "BLOCKED")
                   THEN [c.pcb[s] EXCEPT !.state = "READY"] ELSE c.pcb[s]]]
    PROVE  /\ Flow(c, j, {}) /\ Kept(c, j, {})
           /\ (\A t \in S \cap InState(c, "BLOCKED") : c.pcb[t].waiting_for = 0) => Calm(c, j)
<1>1. PICK W, P : W = {s \in S : s \in InState(c, "BLOCKED")} /\ P = c.pcb
  OBVIOUS
<1>2. PICK P2 : P2 = [s \in Slots |-> IF s \in W THEN [P[s] EXCEPT !.state = "READY"] ELSE P[s]]
  OBVIOUS
<1>3. j = [c EXCEPT !.pcb = P2]
  BY <1>1, <1>2
<1>4. \A s \in W : s \in Slots /\ P[s].state = "BLOCKED" /\ P[s].used
  BY <1>1 DEF InState
<1>5. P \in [Slots -> Pcb]
  BY <1>1, KernelFacts
<1>6. \A s \in W : /\ P2[s].used = P[s].used /\ P2[s].pid = P[s].pid /\ P2[s].at = P[s].at
                   /\ P2[s].kids = P[s].kids /\ P2[s].parent_pid = P[s].parent_pid
                   /\ P2[s].waiting_for = P[s].waiting_for /\ P2[s].target = P[s].target
                   /\ P2[s].results = P[s].results /\ P2[s].pending = P[s].pending
                   /\ P2[s].fg = P[s].fg /\ P2[s].state = "READY"
  <2> SUFFICES ASSUME NEW s \in W, NEW a \in Pcb, a = P[s], NEW b, b = P2[s]
               PROVE  /\ b.used = a.used /\ b.pid = a.pid /\ b.at = a.at
                      /\ b.kids = a.kids /\ b.parent_pid = a.parent_pid
                      /\ b.waiting_for = a.waiting_for /\ b.target = a.target
                      /\ b.results = a.results /\ b.pending = a.pending
                      /\ b.fg = a.fg /\ b.state = "READY"
    BY <1>4, <1>5
  <2>1. b = [a EXCEPT !.state = "READY"]
    BY <1>2, <1>4
  <2>2. QED
    BY <2>1 DEF Pcb
<1>7. \A s \in Slots : s \notin W => P2[s] = P[s]
  BY <1>2
<1>8. j.pcb = P2 /\ j.current = c.current /\ j.may = c.may /\ j.fg_pid = c.fg_pid
  BY <1>3 DEF Kernel
<1>9. \A t \in Slots : (P2[t].used /\ P2[t].state # "EXITED") <=> (P[t].used /\ P[t].state # "EXITED")
  BY <1>4, <1>6, <1>7
<1>10. Alive(j) = Alive(c) /\ Alive(j) \subseteq Slots
  BY <1>1, <1>8, <1>9 DEF Alive
<1>11. Flow(c, j, {})
  BY <1>1, <1>4, <1>6, <1>7, <1>8, <1>10 DEF Flow
<1>12. Kept(c, j, {})
  BY <1>1, <1>6, <1>7, <1>8, <1>10 DEF Kept
<1>13. ASSUME \A t \in S \cap InState(c, "BLOCKED") : c.pcb[t].waiting_for = 0
       PROVE  Calm(c, j)
  <2>1. \A t \in W : P[t].waiting_for = 0
    BY <1>1, <1>13
  <2>2. \A t \in Slots : SameWait(P[t], P2[t]) /\ P2[t].pid = P[t].pid
    BY <1>6, <1>7, <2>1 DEF SameWait
  <2>3. \A t \in Slots : P[t].kids \subseteq Slots
    BY <1>5 DEF Pcb
  <2>4. QED
    BY <1>1, <1>8, <1>10, <2>2, <2>3 DEF Calm
<1>14. QED
  BY <1>11, <1>12, <1>13

\* proc_unblock wakes, and nobody who waits if it is called for nobody who waits.
LEMMA UnblockOn ==
    ASSUME NEW k, NEW D, NEW N, Sound(k, D, N), k.current \notin k.zombies,
           NEW S, NEW j, j = unblock(k, S)
    PROVE  /\ Flow(k, j, {}) /\ Kept(k, j, {})
           /\ (\A t \in S \cap InState(k, "BLOCKED") : k.pcb[t].waiting_for = 0) => Calm(k, j)
<1>1. k \in Kernel
  BY DEF Sound
<1>2. CASE S = {}
  <2>1. j = k
    BY <1>2 DEF unblock
  <2>2. k.pcb \in [Slots -> Pcb] /\ Alive(k) \subseteq Slots
    BY <1>1, KernelFacts DEF Alive
  <2>3. QED
    BY <2>1, <2>2 DEF Flow, Kept, Calm, SameWait
<1>3. CASE S # {}
  <2>1. PICK c : c = collect_zombies(k)
    OBVIOUS
  <2>2. Sound(c, D, N) /\ Collected(k, c)
    BY <2>1, Collecting
  <2>3. j = [c EXCEPT !.pcb = [s \in Slots |->
                IF s \in S /\ s \in InState(c, "BLOCKED")
                THEN [c.pcb[s] EXCEPT !.state = "READY"] ELSE c.pcb[s]]]
    BY <1>3, <2>1 DEF unblock
  <2>4. c \in Kernel
    BY <2>2 DEF Sound
  <2>5. /\ Flow(c, j, {}) /\ Kept(c, j, {})
        /\ (\A t \in S \cap InState(c, "BLOCKED") : c.pcb[t].waiting_for = 0) => Calm(c, j)
    BY <2>3, <2>4, WakeOn
  <2>6. Flow(k, c, {}) /\ Kept(k, c, {}) /\ Calm(k, c)
    BY <2>2, CollectOn
  <2>7. Flow(k, j, {} \cup {}) /\ Kept(k, j, {} \cup {})
    BY <2>5, <2>6, FlowTrans, KeptTrans
  <2>8. {} \cup {} = {}
    OBVIOUS
  <2>9. ASSUME \A t \in S \cap InState(k, "BLOCKED") : k.pcb[t].waiting_for = 0
        PROVE  Calm(k, j)
    <3>1. ASSUME NEW t \in S \cap InState(c, "BLOCKED")
          PROVE  c.pcb[t].waiting_for = 0
      <4>1. t \in Alive(c) /\ t \in Slots \ {Idle}
        BY <3>1 DEF InState, Alive
      <4>2. t \in Alive(k) /\ SameWait(k.pcb[t], c.pcb[t]) /\ c.pcb[t].state = "BLOCKED"
        BY <2>6, <3>1, <4>1 DEF Calm, InState
      <4>3. c.pcb[t].state = k.pcb[t].state
        BY <2>6, <4>1, <4>2 DEF Flow
      <4>4. t \in S \cap InState(k, "BLOCKED")
        BY <3>1, <4>1, <4>2, <4>3 DEF InState, Alive
      <4>5. QED
        BY <2>9, <4>2, <4>4 DEF SameWait
    <3>2. QED
      BY <2>5, <2>6, <3>1, CalmTrans
  <2>10. QED
    BY <2>7, <2>8, <2>9
<1>4. QED
  BY <1>2, <1>3

\* A change of one record, of a process that is dead after it.
LEMMA DeadOn ==
    ASSUME NEW k \in Kernel, NEW s \in Slots, NEW j, j.pcb[s].state = "EXITED",
           j.pcb[s].pid = k.pcb[s].pid, \A t \in Slots : t # s => j.pcb[t] = k.pcb[t],
           j.current = k.current, j.may = k.may, j.fg_pid = k.fg_pid
    PROVE  Flow(k, j, {s}) /\ Kept(k, j, {s}) /\ Calm(k, j)
<1>1. s \notin Alive(j) /\ Alive(j) = Alive(k) \ {s}
  BY DEF Alive
<1>2. \A t \in Alive(j) : t \in Slots /\ t # s
  BY <1>1 DEF Alive
<1>3. \A t \in Alive(j) : j.pcb[t] = k.pcb[t]
  BY <1>2
<1>4. \A t \in Slots : k.pcb[t].kids \subseteq Slots
  BY KernelFacts DEF Pcb
<1>5. \A c \in Slots : j.pcb[c].pid = k.pcb[c].pid
  OBVIOUS
<1>6. \A t \in Alive(j) : \A c \in k.pcb[t].kids : j.pcb[c].pid = k.pcb[c].pid
  BY <1>2, <1>4, <1>5
<1>7. QED
  BY <1>1, <1>3, <1>6, SameLiving

\* What an orphan keeps.
LEMMA OrphanSame ==
    ASSUME NEW pcb \in Pcb, NEW new, new = Orphaned(pcb)
    PROVE  SameWait(pcb, new) /\ new.fg = pcb.fg /\ new.state = pcb.state
BY DEF Pcb, Orphaned, SameWait

\* The children that live die with s, which is dead itself.
LEMMA DetachOn ==
    ASSUME NEW k \in Kernel, Numbered(k.pcb, k.next_pid), Tree(k.pcb, k.zombies),
           NEW s \in Slots, k.pcb[s].used, s \notin Alive(k), NEW j, j = detach_children(k, s),
           NEW dead, dead = k.pcb[s].kids \cap Alive(k)
    PROVE  Flow(k, j, dead) /\ Kept(k, j, dead) /\ Calm(k, j)
<1>1. PICK P, kids : P = k.pcb /\ kids = P[s].kids
  OBVIOUS
<1>2. P \in [Slots -> Pcb] /\ Numbered(P, k.next_pid) /\ Tree(P, k.zombies) /\ P[s].used
  BY <1>1, KernelFacts
<1>3. /\ s \notin kids
      /\ \A c \in kids : c \in Slots /\ P[c].used /\ s \notin P[c].kids /\ P[c].kids \cap kids = {}
  BY <1>1, <1>2, NoCycles
<1>4. PICK lost : lost = (kids \ dead) \cup UNION {P[c].kids : c \in dead}
  OBVIOUS
<1>5. s \notin dead /\ s \notin lost /\ dead \cap lost = {} /\ dead \subseteq kids
      /\ dead \subseteq Slots /\ dead \subseteq Alive(k)
  BY <1>1, <1>3, <1>4
<1>6. PICK P2 : P2 = CutTable(P, s, dead, lost)
  OBVIOUS
<1>7. j = [k EXCEPT !.pcb = P2, !.zombies = k.zombies \cup dead]
  <2>1. j = [k EXCEPT
               !.pcb = CutTable(k.pcb, s, k.pcb[s].kids \cap Alive(k),
                          (k.pcb[s].kids \ (k.pcb[s].kids \cap Alive(k)))
                             \cup UNION {k.pcb[c].kids : c \in k.pcb[s].kids \cap Alive(k)}),
               !.zombies = k.zombies \cup (k.pcb[s].kids \cap Alive(k))]
    BY DetachForm
  <2>2. QED
    BY <1>1, <1>4, <1>6, <2>1
<1>8. j.pcb = P2 /\ j.current = k.current /\ j.may = k.may /\ j.fg_pid = k.fg_pid
  BY <1>7 DEF Kernel
<1>9. ASSUME NEW t \in Slots
      PROVE  /\ t = s => P2[t] = Childless(P[t])
             /\ t \in dead => P2[t] = Killed(P[t])
             /\ t \in lost => P2[t] = Orphaned(P[t])
             /\ t # s /\ t \notin dead /\ t \notin lost => P2[t] = P[t]
  BY <1>5, <1>6, CutTableIs
<1>10. \A t \in Slots : P2[t].pid = P[t].pid /\ P2[t].used = P[t].used
  <2> SUFFICES ASSUME NEW t \in Slots
               PROVE  P2[t].pid = P[t].pid /\ P2[t].used = P[t].used
    OBVIOUS
  <2>1. P[t] \in Pcb
    BY <1>2
  <2>2. QED
    BY <1>9, <2>1, ChildlessMade, KilledMade, OrphanMade
<1>11. P2[s].state = P[s].state
  <2>1. P[s] \in Pcb
    BY <1>2
  <2>2. QED
    BY <1>9, <2>1, ChildlessMade
<1>12. \A t \in dead : P2[t].state = "EXITED"
  <2> SUFFICES ASSUME NEW t \in dead
               PROVE  P2[t].state = "EXITED"
    OBVIOUS
  <2>1. t \in Slots /\ P[t] \in Pcb
    BY <1>2, <1>5
  <2>2. QED
    BY <1>9, <2>1, KilledMade
<1>13. ASSUME NEW t \in Slots, t # s, t \notin dead
       PROVE  /\ SameWait(P[t], P2[t]) /\ P2[t].fg = P[t].fg /\ P2[t].state = P[t].state
              /\ t \notin lost => P2[t].parent_pid = P[t].parent_pid
  <2>1. P[t] \in Pcb
    BY <1>2
  <2>2. CASE t \in lost
    BY <1>9, <2>1, <2>2, OrphanSame
  <2>3. CASE t \notin lost
    <3>1. P2[t] = P[t]
      BY <1>9, <1>13, <2>3
    <3>2. QED
      BY <3>1 DEF SameWait
  <2>4. QED
    BY <2>2, <2>3
<1>14. Alive(j) = Alive(k) \ dead /\ \A t \in Alive(j) : t \in Slots /\ t # s /\ t \notin dead
  <2>1. Alive(k) = {t \in Slots : P[t].used /\ P[t].state # "EXITED"}
        /\ Alive(j) = {t \in Slots : P2[t].used /\ P2[t].state # "EXITED"}
    BY <1>1, <1>8 DEF Alive
  <2>2. P[s].state = "EXITED"
    BY <1>2, <2>1
  <2>3. ASSUME NEW t \in Slots
        PROVE  t \in Alive(j) <=> t \in Alive(k) /\ t \notin dead
    <3>1. CASE t = s
      BY <1>5, <1>11, <2>1, <2>2, <3>1
    <3>2. CASE t \in dead
      BY <1>12, <2>1, <3>2
    <3>3. CASE t # s /\ t \notin dead
      BY <1>10, <1>13, <2>1, <3>3
    <3>4. QED
      BY <3>1, <3>2, <3>3
  <2>4. QED
    BY <1>11, <2>1, <2>2, <2>3
<1>15. \A t \in Slots : P[t].kids \subseteq Slots
  BY <1>2 DEF Pcb
<1>16. Flow(k, j, dead)
  BY <1>1, <1>8, <1>10, <1>13, <1>14 DEF Flow, SameWait
<1>17. Calm(k, j)
  BY <1>1, <1>8, <1>10, <1>13, <1>14, <1>15 DEF Calm
<1>18. ASSUME NEW t \in Alive(j), j.pcb[t].parent_pid # k.pcb[t].parent_pid
       PROVE  \E q \in dead \cap Alive(k) : k.pcb[q].pid = k.pcb[t].parent_pid
  <2>1. t \in lost /\ t \in Alive(k)
    BY <1>1, <1>8, <1>13, <1>14, <1>18
  <2>2. t \notin kids \ dead
    BY <1>1, <1>14, <2>1
  <2>3. PICK q \in dead : t \in P[q].kids
    BY <1>4, <2>1, <2>2
  <2>4. q \in Slots /\ P[q].used /\ t \in Slots
    BY <1>3, <1>5, <1>14
  <2>5. P[t].parent_pid = P[q].pid
    BY <1>2, <2>3, <2>4 DEF Tree
  <2>6. QED
    BY <1>1, <1>5, <2>5
<1>19. Kept(k, j, dead)
  BY <1>1, <1>8, <1>10, <1>13, <1>14, <1>18 DEF Kept
<1>20. QED
  BY <1>16, <1>17, <1>19

-----------------------------------------------------------------------------
(* Who waits for a child *)

\* An exit result that a wait for x (any child: -1) can take.
Has(a, x) ==
    \/ \E i \in DOMAIN a.results : x =< 0 \/ a.results[i] = x
    \/ a.pending # 0 /\ (x =< 0 \/ a.pending = x)

\* A process that waits sleeps in proc_wait, has no result to take and has a child whose
\* end will wake it; one that has been woken finds its result.
Waiter(k, s) ==
    /\ k.pcb[s].waiting_for # 0 =>
          /\ k.pcb[s].state = "BLOCKED" /\ k.pcb[s].at = "wait"
          /\ k.pcb[s].target = k.pcb[s].waiting_for /\ ~Has(k.pcb[s], k.pcb[s].target)
          /\ \E c \in k.pcb[s].kids : k.pcb[s].target = -1 \/ k.pcb[c].pid = k.pcb[s].target
    /\ k.pcb[s].at = "wait" =>
          /\ k.pcb[s].target = -1 \/ k.pcb[s].target > 0
          /\ \/ k.pcb[s].waiting_for = k.pcb[s].target
             \/ Has(k.pcb[s], k.pcb[s].target)
             \/ "malloc_fails" \in k.may

Waits(k) == \A s \in Alive(k) : Waiter(k, s)

\* Waits knows no more of a state than Calm keeps.
LEMMA CalmWaits ==
    ASSUME NEW k, NEW j, Calm(k, j), Waits(k)
    PROVE  Waits(j)
<1> SUFFICES ASSUME NEW t \in Alive(j)
             PROVE  Waiter(j, t)
  BY DEF Waits
<1>1. t \in Alive(k) /\ SameWait(k.pcb[t], j.pcb[t]) /\ j.may = k.may
      /\ \A c \in k.pcb[t].kids : j.pcb[c].pid = k.pcb[c].pid
  BY DEF Calm
<1>2. Waiter(k, t)
  BY <1>1 DEF Waits
<1>3. PICK a, b : a = k.pcb[t] /\ b = j.pcb[t]
  OBVIOUS
<1>4. \A x : Has(a, x) <=> Has(b, x)
  BY <1>1, <1>3 DEF Has, SameWait
<1>5. a.waiting_for # 0 => b.state = "BLOCKED"
  BY <1>1, <1>2, <1>3 DEF Waiter, SameWait
<1>6. (\E c \in a.kids : a.target = -1 \/ k.pcb[c].pid = a.target) =>
         \E c \in b.kids : b.target = -1 \/ j.pcb[c].pid = b.target
  BY <1>1, <1>3 DEF SameWait
<1>7. b.at = a.at /\ b.waiting_for = a.waiting_for /\ b.target = a.target
  BY <1>1, <1>3 DEF SameWait
<1>8. QED
  BY <1>1, <1>2, <1>3, <1>4, <1>5, <1>6, <1>7 DEF Waiter

\* What push_wait_result and the unlinking make of the parent's record a.
Heard(a, b, s, w, x, nomem) ==
    /\ b.used = a.used /\ b.pid = a.pid /\ b.at = a.at /\ b.state = a.state /\ b.fg = a.fg
    /\ b.parent_pid = a.parent_pid /\ b.target = a.target
    /\ b.kids = a.kids \ {s} /\ b.waiting_for = w
    /\ IF nomem THEN b.results = a.results /\ b.pending = x
       ELSE b.results = Append(a.results, x) /\ b.pending = a.pending

\* What a parent hears of its child, with memory for the result and without.
LEMMA HeardMade ==
    ASSUME NEW a \in Pcb, NEW s, NEW w \in Int, NEW x \in Nat, NEW nomem, NEW u, u = Unlinked(a, s, w),
           NEW b, b = IF nomem THEN Noted(u, x) ELSE Queued(u, x)
    PROVE  Heard(a, b, s, w, x, nomem) /\ b \in Pcb
<1>1. /\ u \in Pcb /\ u.used = a.used /\ u.pid = a.pid /\ u.at = a.at
      /\ u.kids = a.kids \ {s} /\ u.parent_pid = a.parent_pid
      /\ u.results = a.results /\ u.pending = a.pending /\ u.state = a.state
  BY UnlinkedMade
<1>2. u.fg = a.fg /\ u.target = a.target /\ u.waiting_for = w
  BY DEF Unlinked, Pcb
<1>3. CASE nomem
  <2>1. b = Noted(u, x)
    BY <1>3
  <2>2. /\ b \in Pcb /\ b.used = u.used /\ b.pid = u.pid /\ b.at = u.at
        /\ b.kids = u.kids /\ b.parent_pid = u.parent_pid
        /\ b.results = u.results /\ b.pending = x /\ b.state = u.state
    BY <1>1, <2>1, NotedMade
  <2>3. b.fg = u.fg /\ b.target = u.target /\ b.waiting_for = u.waiting_for
    BY <1>1, <2>1 DEF Noted, Pcb
  <2>4. QED
    BY <1>1, <1>2, <1>3, <2>2, <2>3 DEF Heard
<1>4. CASE ~nomem
  <2>1. b = Queued(u, x)
    BY <1>4
  <2>2. /\ b \in Pcb /\ b.used = u.used /\ b.pid = u.pid /\ b.at = u.at
        /\ b.kids = u.kids /\ b.parent_pid = u.parent_pid
        /\ b.results = Append(u.results, x) /\ b.pending = u.pending /\ b.state = u.state
    BY <1>1, <2>1, QueuedMade
  <2>3. b.fg = u.fg /\ b.target = u.target /\ b.waiting_for = u.waiting_for
    BY <1>1, <2>1 DEF Queued, Pcb
  <2>4. QED
    BY <1>1, <1>2, <1>4, <2>2, <2>3 DEF Heard
<1>5. QED
  BY <1>3, <1>4

\* What the new result means to a wait for y.
LEMMA HeardHas ==
    ASSUME NEW a \in Pcb, NEW s, NEW w, NEW x \in Nat \ {0}, NEW nomem, NEW b,
           Heard(a, b, s, w, x, nomem), NEW y \in Int
    PROVE  /\ y > 0 /\ y # x /\ ~Has(a, y) => ~Has(b, y)
           /\ y \in {x, -1} => Has(b, y)
           /\ Has(a, y) => Has(b, y) \/ nomem
<1>1. a.results \in Seq(Nat) /\ a.pending \in Nat
  BY DEF Pcb
<1>2. CASE nomem
  <2>1. b.results = a.results /\ b.pending = x
    BY <1>2 DEF Heard
  <2>2. QED
    BY <1>1, <1>2, <2>1 DEF Has
<1>3. CASE ~nomem
  <2>1. PICK r, n : r = a.results /\ n = Len(r)
    OBVIOUS
  <2>2. b.results = Append(r, x) /\ b.pending = a.pending /\ r \in Seq(Nat) /\ n \in Nat
    BY <1>1, <1>3, <2>1 DEF Heard
  <2>3. /\ DOMAIN r = 1 .. n /\ DOMAIN b.results = 1 .. n + 1
        /\ b.results[n + 1] = x /\ \A i \in 1 .. n : b.results[i] = r[i]
    BY <2>1, <2>2
  <2>4. n + 1 \in DOMAIN b.results /\ DOMAIN r \subseteq DOMAIN b.results
        /\ \A i \in DOMAIN b.results : i = n + 1 \/ i \in DOMAIN r
    BY <2>2, <2>3
  <2>5. y > 0 /\ y # x /\ ~Has(a, y) => ~Has(b, y)
    BY <2>1, <2>2, <2>3, <2>4 DEF Has
  <2>6. y \in {x, -1} => Has(b, y)
    BY <2>3, <2>4 DEF Has
  <2>7. Has(a, y) => Has(b, y)
    BY <2>1, <2>2, <2>3, <2>4 DEF Has
  <2>8. QED
    BY <2>5, <2>6, <2>7
<1>4. QED
  BY <1>2, <1>3

\* What notify_parent_exit writes, seen by those who wait.
LEMMA TellOn ==
    ASSUME NEW k \in Kernel, NEW s \in Slots, NEW p \in Slots, p # s, NEW w \in Int, NEW nomem,
           NEW j, j = TellState(k, s, p, w, nomem)
    PROVE  /\ j.fg_pid = k.fg_pid /\ Heard(k.pcb[p], j.pcb[p], s, w, k.pcb[s].pid, nomem)
           /\ \A t \in Slots : t # p /\ t # s => j.pcb[t] = k.pcb[t]
<1>1. PICK P, a, c : P = k.pcb /\ a = Unlinked(P[p], s, w) /\ c = Orphaned(Reapable(P[s]))
  OBVIOUS
<1>2. PICK x : x = P[s].pid
  OBVIOUS
<1>3. P \in [Slots -> Pcb] /\ P[p] \in Pcb /\ P[s] \in Pcb
  BY <1>1, KernelFacts
<1>4. a \in Pcb
  BY <1>1, <1>3, UnlinkedMade
<1>5. c \in Pcb
  <2>1. PICK b : b = Reapable(P[s])
    OBVIOUS
  <2>2. b \in Pcb
    BY <1>3, <2>1, ReapableMade
  <2>3. c = Orphaned(b)
    BY <1>1, <2>1
  <2>4. QED
    BY <2>2, <2>3, OrphanMade
<1>6. x \in Nat
  BY <1>2, <1>3 DEF Pcb
<1>7. PICK y1, y : y1 = Put(k, p, a) /\ y = Put(y1, s, c)
  OBVIOUS
<1>8. y1 \in Kernel /\ y1.fg_pid = k.fg_pid /\ y1.pcb[p] = a /\ \A t \in Slots : t # p => y1.pcb[t] = P[t]
  <2>1. y1 = Put(k, p, a)
    BY <1>7
  <2>2. y1 \in Kernel /\ y1.fg_pid = k.fg_pid /\ y1.pcb[p] = a /\ \A t \in Slots : t # p => y1.pcb[t] = k.pcb[t]
    BY <1>4, <2>1, PutFacts
  <2>3. QED
    BY <1>1, <2>2
<1>9. y \in Kernel /\ y.fg_pid = y1.fg_pid /\ \A t \in Slots : t # s => y.pcb[t] = y1.pcb[t]
  <2>1. y = Put(y1, s, c)
    BY <1>7
  <2>2. QED
    BY <1>5, <1>8, <2>1, PutFacts
<1>10. y.pcb[p] = a
  BY <1>8, <1>9
<1>11. j = IF nomem THEN Put(y, p, Noted(a, x)) ELSE Put(y, p, Queued(a, x))
  <2>1. j = LET z == Put(Put(k, p, Unlinked(k.pcb[p], s, w)), s, Orphaned(Reapable(k.pcb[s])))
            IN  IF nomem THEN Put(z, p, Noted(z.pcb[p], k.pcb[s].pid))
                ELSE Put(z, p, Queued(z.pcb[p], k.pcb[s].pid))
    BY DEF TellState
  <2>2. y = Put(Put(k, p, Unlinked(k.pcb[p], s, w)), s, Orphaned(Reapable(k.pcb[s])))
    BY <1>1, <1>7
  <2>3. x = k.pcb[s].pid
    BY <1>1, <1>2
  <2>4. j = IF nomem THEN Put(y, p, Noted(y.pcb[p], x)) ELSE Put(y, p, Queued(y.pcb[p], x))
    BY <2>1, <2>2, <2>3
  <2>5. QED
    BY <1>10, <2>4
<1>12. PICK d : d = IF nomem THEN Noted(a, x) ELSE Queued(a, x)
  OBVIOUS
<1>13. Heard(P[p], d, s, w, x, nomem) /\ d \in Pcb
  <2>1. PICK e : e = P[p]
    OBVIOUS
  <2>2. e \in Pcb /\ a = Unlinked(e, s, w)
    BY <1>1, <1>3, <2>1
  <2>3. Heard(e, d, s, w, x, nomem) /\ d \in Pcb
    BY <1>6, <1>12, <2>2, HeardMade
  <2>4. QED
    BY <2>1, <2>3
<1>14. j = Put(y, p, d)
  BY <1>11, <1>12
<1>15. j.fg_pid = y.fg_pid /\ j.pcb[p] = d /\ \A t \in Slots : t # p => j.pcb[t] = y.pcb[t]
  BY <1>9, <1>13, <1>14, PutFacts
<1>16. \A t \in Slots : t # p /\ t # s => j.pcb[t] = k.pcb[t]
  BY <1>1, <1>8, <1>9, <1>15
<1>17. QED
  BY <1>1, <1>2, <1>8, <1>9, <1>13, <1>15, <1>16

\* The parent stays a waiter as it must be, whether the news ends its wait or not.
LEMMA ToldWaiter ==
    ASSUME NEW k, NEW j, NEW p, NEW s, k.pcb[p] \in Pcb, NEW x \in Nat \ {0}, k.pcb[s].pid = x,
           NEW nomem, nomem => "malloc_fails" \in k.may, j.may = k.may,
           NEW w, w = IF Awaits(k, p, x) THEN 0 ELSE k.pcb[p].waiting_for,
           Heard(k.pcb[p], j.pcb[p], s, w, x, nomem),
           \A c \in k.pcb[p].kids : j.pcb[c].pid = k.pcb[c].pid, Waiter(k, p)
    PROVE  Waiter(j, p)
<1>1. PICK a, b : a = k.pcb[p] /\ b = j.pcb[p]
  OBVIOUS
<1>2. a \in Pcb /\ Heard(a, b, s, w, x, nomem)
  BY <1>1
<1>3. /\ b.at = a.at /\ b.state = a.state /\ b.target = a.target /\ b.kids = a.kids \ {s}
      /\ b.waiting_for = w
  BY <1>2 DEF Heard
<1>4. a.target \in Int /\ a.waiting_for \in Int
  BY <1>2 DEF Pcb
<1>5. /\ a.target > 0 /\ a.target # x /\ ~Has(a, a.target) => ~Has(b, a.target)
      /\ a.target \in {x, -1} => Has(b, a.target)
      /\ Has(a, a.target) => Has(b, a.target) \/ nomem
  BY <1>2, <1>4, HeardHas
<1>6. /\ a.waiting_for # 0 =>
            /\ a.state = "BLOCKED" /\ a.at = "wait" /\ a.target = a.waiting_for /\ ~Has(a, a.target)
            /\ \E c \in a.kids : a.target = -1 \/ k.pcb[c].pid = a.target
      /\ a.at = "wait" =>
            /\ a.target = -1 \/ a.target > 0
            /\ a.waiting_for = a.target \/ Has(a, a.target) \/ "malloc_fails" \in k.may
  BY <1>1 DEF Waiter
<1>7. Awaits(k, p, x) <=> a.state = "BLOCKED" /\ a.waiting_for \in {x, -1}
  BY <1>1 DEF Awaits
<1>8. CASE Awaits(k, p, x)
  <2>1. w = 0 /\ a.target \in {x, -1}
    BY <1>6, <1>7, <1>8
  <2>2. Has(b, a.target)
    BY <1>5, <2>1
  <2>3. QED
    BY <1>1, <1>3, <1>6, <2>1, <2>2 DEF Waiter
<1>9. CASE ~Awaits(k, p, x)
  <2>1. w = a.waiting_for
    BY <1>1, <1>9
  <2>2. ASSUME a.waiting_for # 0
        PROVE  /\ a.state = "BLOCKED" /\ a.at = "wait" /\ a.target = w /\ ~Has(b, a.target)
               /\ \E c \in a.kids \ {s} : j.pcb[c].pid = a.target
    <3>1. a.target # x /\ a.target # -1
      BY <1>6, <1>7, <1>9, <2>2
    <3>2. a.target > 0
      BY <1>6, <2>2, <3>1
    <3>3. ~Has(b, a.target)
      BY <1>5, <1>6, <2>2, <3>1, <3>2
    <3>4. PICK c \in a.kids : k.pcb[c].pid = a.target
      BY <1>6, <2>2, <3>1
    <3>5. c # s /\ j.pcb[c].pid = a.target
      BY <1>1, <3>1, <3>4
    <3>6. QED
      BY <1>6, <2>1, <2>2, <3>3, <3>4, <3>5
  <2>3. a.at = "wait" => w = a.target \/ Has(b, a.target) \/ "malloc_fails" \in j.may
    BY <1>5, <1>6, <2>1
  <2>4. QED
    BY <1>1, <1>3, <1>6, <2>1, <2>2, <2>3 DEF Waiter
<1>10. QED
  BY <1>8, <1>9

\* notify_parent_exit, of s which is dead.
LEMMA NotifyOn ==
    ASSUME NEW k, NEW D, Sound(k, D, {}), NEW s \in D, k.current \notin k.zombies,
           NEW nomem, NEW j, j = notify_parent_exit(k, s, nomem)
    PROVE  /\ Flow(k, j, {s}) /\ Kept(k, j, {s}) /\ j.may = k.may
           /\ (nomem => "malloc_fails" \in k.may) /\ Waits(k) => Waits(j)
<1>1. PICK P, Z, n : P = k.pcb /\ Z = k.zombies /\ n = k.next_pid
  OBVIOUS
<1>2. Family(P, Z, n, D, {}) /\ OnCpu(P, k.current) /\ k \in Kernel /\ P \in [Slots -> Pcb]
  BY <1>1, CoreIs, KernelFacts DEF Sound
<1>3. s \in Slots /\ P[s].used /\ s \notin Z /\ P[s].state = "EXITED"
  BY <1>1, <1>2 DEF Family, Dead
<1>4. PICK p, x : p = proc_by_pid(k, x) /\ x = P[s].parent_pid
  OBVIOUS
<1>5. /\ Having(k, x) = {} => x = -1
      /\ Having(k, x) # {} => p \in Slots \ Z /\ P[p].used /\ x = P[p].pid /\ p # s
  <2>1. s \in Slots /\ k.pcb[s].used /\ p = proc_by_pid(k, k.pcb[s].parent_pid)
    BY <1>1, <1>3, <1>4
  <2>2. /\ Having(k, k.pcb[s].parent_pid) = {} => k.pcb[s].parent_pid = -1
        /\ Having(k, k.pcb[s].parent_pid) # {} =>
              p \in Slots \ k.zombies /\ k.pcb[p].used /\ k.pcb[s].parent_pid = k.pcb[p].pid /\ p # s
    BY <2>1, ParentFacts
  <2>3. QED
    BY <1>1, <1>4, <2>2
<1>6. CASE Having(k, x) = {}
  <2>1. PICK b : b = Reapable(P[s])
    OBVIOUS
  <2>2. b \in Pcb /\ SameLife(P[s], b) /\ b.state = P[s].state
    <3>1. P[s] \in Pcb
      BY <1>2, <1>3
    <3>2. QED
      BY <2>1, <3>1, ReapableMade
  <2>3. j = Put(k, s, b)
    BY <1>1, <1>4, <1>6, <2>1, NotifyForm
  <2>4. /\ j.current = k.current /\ j.may = k.may /\ j.fg_pid = k.fg_pid
        /\ j.pcb[s] = b /\ \A t \in Slots : t # s => j.pcb[t] = k.pcb[t]
    BY <1>2, <1>3, <2>2, <2>3, PutFacts
  <2>5. j.pcb[s].state = "EXITED" /\ j.pcb[s].pid = k.pcb[s].pid
    BY <1>1, <1>3, <2>2, <2>4 DEF SameLife
  <2>6. Flow(k, j, {s}) /\ Kept(k, j, {s}) /\ Calm(k, j)
    BY <1>2, <1>3, <2>4, <2>5, DeadOn
  <2>7. QED
    BY <2>4, <2>6, CalmWaits
<1>7. CASE Having(k, x) # {}
  <2>1. PICK w : w = IF Awaits(k, p, P[s].pid) THEN 0 ELSE P[p].waiting_for
    OBVIOUS
  <2>2. PICK told : told = TellState(k, s, p, w, nomem)
    OBVIOUS
  <2>3. p \in Slots /\ p # s /\ P[p].used /\ P[s].used
    BY <1>3, <1>5, <1>7
  <2>4. w \in Int
    <3>1. P[p] \in Pcb
      BY <1>2, <2>3
    <3>2. P[p].waiting_for \in Int
      BY <3>1 DEF Pcb
    <3>3. QED
      BY <2>1, <3>2
  <2>5. Beside(k, told) /\ Told(P, told.pcb, p, s)
    <3>1. k.pcb[s].used /\ k.pcb[p].used
      BY <1>1, <2>3
    <3>2. Beside(k, told) /\ Told(k.pcb, told.pcb, p, s)
      BY <1>2, <1>3, <2>2, <2>3, <2>4, <3>1, TellFacts
    <3>3. QED
      BY <1>1, <3>2
  <2>6. Family(told.pcb, Z, n, D, {s})
    BY <1>2, <1>4, <1>5, <1>7, <2>5, ToldFamily
  <2>7. \A t \in Slots : /\ told.pcb[t].used = P[t].used /\ told.pcb[t].pid = P[t].pid
                         /\ told.pcb[t].at = P[t].at /\ told.pcb[t].state = P[t].state
    BY <2>5 DEF Told
  <2>8. k.current \in Slots
    BY <1>2, KernelFacts
  <2>9. OnCpu(told.pcb, k.current)
    BY <1>2, <2>7, <2>8, SlotFacts DEF OnCpu
  <2>10. Sound(told, D, {s}) /\ told.current \notin told.zombies
    BY <1>1, <2>5, <2>6, <2>9, CoreIs DEF Sound, Beside
  <2>11. j = IF Awaits(k, p, P[s].pid) THEN unblock(told, {p}) ELSE told
    <3>1. notify_parent_exit(k, s, nomem) =
             LET t == TellState(k, s, p, w, nomem)
             IN  IF Awaits(k, p, P[s].pid) THEN unblock(t, {p}) ELSE t
      BY <1>1, <1>4, <1>7, <2>1, NotifyForm
    <3>2. QED
      BY <2>2, <3>1
  <2>12. /\ told.fg_pid = k.fg_pid /\ Heard(P[p], told.pcb[p], s, w, P[s].pid, nomem)
         /\ \A t \in Slots : t # p /\ t # s => told.pcb[t] = P[t]
    <3>1. /\ told.fg_pid = k.fg_pid /\ Heard(k.pcb[p], told.pcb[p], s, w, k.pcb[s].pid, nomem)
          /\ \A t \in Slots : t # p /\ t # s => told.pcb[t] = k.pcb[t]
      BY <1>2, <1>3, <2>2, <2>3, <2>4, TellOn
    <3>2. QED
      BY <1>1, <3>1
  <2>13. told.may = k.may /\ told.current = k.current
    BY <2>5 DEF Beside
  <2>14. Alive(told) = Alive(k) \ {s} /\ \A t \in Alive(told) : t \in Slots /\ t # s
    BY <1>1, <1>3, <2>7 DEF Alive
  <2>15. Flow(k, told, {s})
    BY <1>1, <2>7, <2>13, <2>14 DEF Flow
  <2>16. \A t \in Slots : t # s => told.pcb[t].fg = P[t].fg /\ told.pcb[t].parent_pid = P[t].parent_pid
    BY <2>12 DEF Heard
  <2>17. Kept(k, told, {s})
    BY <1>1, <2>7, <2>12, <2>14, <2>16 DEF Kept
  <2>18. ASSUME nomem => "malloc_fails" \in k.may, Waits(k)
         PROVE  Waits(told)
    <3>1. \A t \in Slots : P[t].kids \subseteq Slots
      BY <1>2 DEF Pcb
    <3>2. ASSUME NEW t \in Alive(told), t # p
          PROVE  Waiter(told, t)
      <4>1. t \in Slots /\ t # s /\ told.pcb[t] = k.pcb[t] /\ Waiter(k, t)
        BY <1>1, <2>12, <2>14, <2>18, <3>2 DEF Waits
      <4>2. \A c \in k.pcb[t].kids : told.pcb[c].pid = k.pcb[c].pid
        BY <1>1, <2>7, <3>1, <4>1
      <4>3. QED
        BY <2>13, <4>1, <4>2 DEF Waiter
    <3>3. ASSUME p \in Alive(told)
          PROVE  Waiter(told, p)
      <4>1. Waiter(k, p)
        BY <2>14, <2>18, <3>3 DEF Waits
      <4>2. k.pcb[p] \in Pcb /\ \A c \in k.pcb[p].kids : told.pcb[c].pid = k.pcb[c].pid
        BY <1>1, <1>2, <2>3, <2>7, <3>1
      <4>3. PICK y : y = P[s].pid
        OBVIOUS
      <4>4. y \in Nat \ {0} /\ k.pcb[s].pid = y
        <5>1. n \in Nat /\ y \in 1 .. n - 1
          BY <1>1, <1>2, <1>3, <4>3, KernelFacts DEF Family, Numbered
        <5>2. QED
          BY <1>1, <4>3, <5>1
      <4>5. w = IF Awaits(k, p, y) THEN 0 ELSE k.pcb[p].waiting_for
        BY <1>1, <2>1, <4>3
      <4>6. Heard(k.pcb[p], told.pcb[p], s, w, y, nomem)
        BY <1>1, <2>12, <4>3
      <4>7. QED
        BY <2>13, <2>18, <4>1, <4>2, <4>4, <4>5, <4>6, ToldWaiter
    <3>4. QED
      BY <3>2, <3>3 DEF Waits
  <2>19. CASE ~Awaits(k, p, P[s].pid)
    <3>1. j = told
      BY <2>11, <2>19
    <3>2. QED
      BY <2>13, <2>15, <2>17, <2>18, <3>1
  <2>20. CASE Awaits(k, p, P[s].pid)
    <3>1. PICK S : S = {p}
      OBVIOUS
    <3>2. j = unblock(told, S)
      BY <2>11, <2>20, <3>1
    <3>3. /\ Flow(told, j, {}) /\ Kept(told, j, {})
          /\ (\A t \in S \cap InState(told, "BLOCKED") : told.pcb[t].waiting_for = 0) => Calm(told, j)
      BY <2>10, <3>2, UnblockOn
    <3>4. told.pcb[p].waiting_for = 0
      BY <2>1, <2>12, <2>20 DEF Heard
    <3>5. Calm(told, j)
      BY <3>1, <3>3, <3>4
    <3>6. {s} \cup {} = {s}
      OBVIOUS
    <3>7. Flow(k, j, {s} \cup {}) /\ Kept(k, j, {s} \cup {})
      BY <2>15, <2>17, <3>3, FlowTrans, KeptTrans
    <3>8. j.may = k.may
      BY <2>13, <3>5 DEF Calm
    <3>9. QED
      BY <2>18, <3>5, <3>6, <3>7, <3>8, CalmWaits
  <2>21. QED
    BY <2>19, <2>20
<1>8. QED
  BY <1>6, <1>7

\* Waits goes on from k to j, if only processes outside proc_wait are in woken.
GoOn(k, j, nomem, woken) ==
    /\ nomem => "malloc_fails" \in k.may
    /\ \A t \in woken : t \in Slots /\ k.pcb[t].at = "user"
    /\ Waits(k)
    => Waits(j)

\* bury, of s which is dead: the children that live die with it.
LEMMA BuryOn ==
    ASSUME NEW k, NEW D, Sound(k, D, {}), NEW s \in D, k.current \notin k.zombies,
           k.current \notin k.pcb[s].kids, NEW nomem, NEW woken,
           NEW j, j = bury(k, s, nomem, woken), NEW dead, dead = k.pcb[s].kids \cap Alive(k)
    PROVE  /\ Flow(k, j, dead \cup {s}) /\ Kept(k, j, dead \cup {s}) /\ j.may = k.may
           /\ GoOn(k, j, nomem, woken)
<1>1. /\ s \in Slots /\ k.pcb[s].used /\ s \notin k.zombies /\ k.pcb[s].state = "EXITED"
      /\ k \in Kernel /\ Numbered(k.pcb, k.next_pid) /\ Tree(k.pcb, k.zombies)
  BY DEF Sound, Core, Dead
<1>2. PICK d, e, t : /\ d = detach_children(k, s) /\ e = notify_parent_exit(d, s, nomem)
                     /\ t = unblock(e, woken)
  OBVIOUS
<1>3. /\ Sound(d, D, {}) /\ d.current = k.current /\ d.may = k.may /\ d.next_pid = k.next_pid
      /\ s \notin d.zombies /\ d.current \notin d.zombies
      /\ d.pcb[s].kids = {} /\ d.pcb[s].used
  BY <1>1, <1>2, DetachSound
<1>4. s \notin Alive(k)
  BY <1>1 DEF Alive
<1>5. Flow(k, d, dead) /\ Kept(k, d, dead) /\ Calm(k, d)
  BY <1>1, <1>2, <1>4, DetachOn
<1>6. Sound(e, D, {s}) /\ CpuSame(d, e) /\ e.current \notin e.zombies
  BY <1>2, <1>3, NotifySound
<1>7. /\ Flow(d, e, {s}) /\ Kept(d, e, {s}) /\ e.may = d.may
      /\ (nomem => "malloc_fails" \in d.may) /\ Waits(d) => Waits(e)
  BY <1>2, <1>3, NotifyOn
<1>8. /\ Flow(e, t, {}) /\ Kept(e, t, {})
      /\ (\A x \in woken \cap InState(e, "BLOCKED") : e.pcb[x].waiting_for = 0) => Calm(e, t)
  BY <1>2, <1>6, UnblockOn
<1>9. Sound(t, D, {s}) /\ Passive(e, t)
  BY <1>2, <1>6, UnblockSound
<1>10. t.may = e.may
  BY <1>9 DEF Passive
<1>11. PICK T, new, y : T = t.pcb /\ new = Emptied(T[s]) /\ y = [t EXCEPT !.zombies = @ \cup {s}]
  OBVIOUS
<1>12. T[s] \in Pcb /\ t \in Kernel /\ T[s].state = "EXITED"
  BY <1>1, <1>9, <1>11, KernelFacts DEF Sound, Core, Dead
<1>13. new \in Pcb /\ new.pid = T[s].pid /\ new.state = "EXITED"
  BY <1>11, <1>12, EmptiedMade
<1>14. /\ y \in Kernel /\ y.pcb = T /\ y.current = t.current
       /\ y.may = t.may /\ y.fg_pid = t.fg_pid
  BY <1>1, <1>11, <1>12 DEF Kernel
<1>15. j = Put(y, s, new)
  BY <1>2, <1>11, BuryForm
<1>16. /\ j.current = t.current /\ j.may = t.may /\ j.fg_pid = t.fg_pid /\ j.pcb[s] = new
       /\ \A x \in Slots : x # s => j.pcb[x] = T[x]
  BY <1>1, <1>13, <1>14, <1>15, PutFacts
<1>17. Flow(t, j, {s}) /\ Kept(t, j, {s}) /\ Calm(t, j)
  BY <1>1, <1>11, <1>12, <1>13, <1>16, DeadOn
<1>18. Flow(k, j, ((dead \cup {s}) \cup {}) \cup {s}) /\ Kept(k, j, ((dead \cup {s}) \cup {}) \cup {s})
  <2>1. Flow(k, e, dead \cup {s}) /\ Kept(k, e, dead \cup {s})
    BY <1>5, <1>7, FlowTrans, KeptTrans
  <2>2. Flow(k, t, (dead \cup {s}) \cup {}) /\ Kept(k, t, (dead \cup {s}) \cup {})
    BY <1>8, <2>1, FlowTrans, KeptTrans
  <2>3. QED
    BY <1>17, <2>2, FlowTrans, KeptTrans
<1>19. ((dead \cup {s}) \cup {}) \cup {s} = dead \cup {s}
  OBVIOUS
<1>20. ASSUME nomem => "malloc_fails" \in k.may, Waits(k),
              \A x \in woken : x \in Slots /\ k.pcb[x].at = "user"
       PROVE  Waits(j)
  <2>1. Waits(d) /\ Waits(e)
    BY <1>3, <1>5, <1>7, <1>20, CalmWaits
  <2>2. ASSUME NEW x \in woken \cap InState(e, "BLOCKED")
        PROVE  e.pcb[x].waiting_for = 0
    <3>1. x \in Alive(e)
      BY <2>2 DEF InState, Alive
    <3>2. x \in Alive(d) /\ e.pcb[x].at = d.pcb[x].at
      BY <1>7, <3>1 DEF Flow
    <3>3. d.pcb[x].at = k.pcb[x].at
      BY <1>5, <3>2 DEF Flow
    <3>4. e.pcb[x].at = "user"
      BY <1>20, <2>2, <3>2, <3>3
    <3>5. Waiter(e, x)
      BY <2>1, <3>1 DEF Waits
    <3>6. QED
      BY <3>4, <3>5 DEF Waiter
  <2>3. Calm(e, t)
    BY <1>8, <2>2
  <2>4. QED
    BY <1>17, <2>1, <2>3, CalmWaits
<1>21. GoOn(k, j, nomem, woken)
  BY <1>20 DEF GoOn
<1>22. QED
  BY <1>3, <1>7, <1>10, <1>16, <1>18, <1>19, <1>21

-----------------------------------------------------------------------------
(* What a death leaves of the living *)

\* Records that differ in the terminal's mark only, and states that differ in the terminal
\* and its marks only.
SameButFg(a, b) ==
    /\ b.used = a.used /\ b.pid = a.pid /\ b.state = a.state /\ b.parent_pid = a.parent_pid
    /\ b.kids = a.kids /\ b.waiting_for = a.waiting_for /\ b.results = a.results
    /\ b.pending = a.pending /\ b.at = a.at /\ b.target = a.target

Relit(k, j) ==
    /\ j.current = k.current /\ j.may = k.may
    /\ \A t \in Slots : SameButFg(k.pcb[t], j.pcb[t])

\* Who has the terminal is nothing that the waiting depends on.
LEMMA RelitOn ==
    ASSUME NEW k \in Kernel, NEW j, Relit(k, j)
    PROVE  Flow(k, j, {}) /\ Calm(k, j) /\ Alive(j) = Alive(k)
<1>1. \A t \in Slots : SameButFg(k.pcb[t], j.pcb[t])
  BY DEF Relit
<1>2. Alive(j) = Alive(k) /\ Alive(k) \subseteq Slots
  BY <1>1 DEF Alive, SameButFg
<1>3. \A t \in Slots : k.pcb[t].kids \subseteq Slots
  BY KernelFacts DEF Pcb
<1>4. Flow(k, j, {})
  BY <1>1, <1>2 DEF Flow, SameButFg, Relit
<1>5. Calm(k, j)
  BY <1>1, <1>2, <1>3 DEF Calm, SameButFg, SameWait, Relit
<1>6. QED
  BY <1>2, <1>4, <1>5

\* No change is Relit.
LEMMA RelitRefl ==
    ASSUME NEW k
    PROVE  Relit(k, k)
BY DEF Relit, SameButFg

\* Relit twice.
LEMMA RelitTrans ==
    ASSUME NEW k, NEW i, NEW j, Relit(k, i), Relit(i, j)
    PROVE  Relit(k, j)
BY DEF Relit, SameButFg

\* proc_set_foreground: the mark is on the process with the pid.
LEMMA SetForegroundOn ==
    ASSUME NEW k \in Kernel, NEW pid \in Int, NEW j, j = proc_set_foreground(k, pid)
    PROVE  /\ Relit(k, j) /\ j.fg_pid = pid
           /\ \A t \in Slots : k.pcb[t].used => j.pcb[t].fg = (k.pcb[t].pid = pid)
<1>1. PICK P : P = k.pcb
  OBVIOUS
<1>2. PICK P2 : P2 = [s \in Slots |-> IF P[s].used THEN [P[s] EXCEPT !.fg = (P[s].pid = pid)]
                                      ELSE P[s]]
  OBVIOUS
<1>3. P \in [Slots -> Pcb]
  BY <1>1, KernelFacts
<1>4. \A a \in Pcb, b \in BOOLEAN : SameButFg(a, [a EXCEPT !.fg = b]) /\ [a EXCEPT !.fg = b].fg = b
  BY DEF Pcb, SameButFg
<1>5. ASSUME NEW s \in Slots
      PROVE  SameButFg(P[s], P2[s]) /\ (P[s].used => P2[s].fg = (P[s].pid = pid))
  <2>1. P[s] \in Pcb
    BY <1>3
  <2>2. PICK b \in BOOLEAN : b = (P[s].pid = pid)
    OBVIOUS
  <2>3. P[s].used => P2[s] = [P[s] EXCEPT !.fg = b]
    BY <1>2, <2>2
  <2>4. ~P[s].used => P2[s] = P[s]
    BY <1>2
  <2>5. CASE P[s].used
    BY <1>4, <2>1, <2>2, <2>3, <2>5
  <2>6. CASE ~P[s].used
    BY <2>4, <2>6 DEF SameButFg
  <2>7. QED
    BY <2>5, <2>6
<1>6. j = [k EXCEPT !.fg_pid = pid, !.pcb = P2]
  BY <1>1, <1>2 DEF proc_set_foreground
<1>7. j.pcb = P2 /\ j.current = k.current /\ j.may = k.may /\ j.fg_pid = pid
  BY <1>6 DEF Kernel
<1>8. QED
  BY <1>1, <1>5, <1>7 DEF Relit

\* The hand-over of proc_exit moves the terminal, and no more.
LEMMA ExitForegroundOn ==
    ASSUME NEW k \in Kernel, NEW s \in Slots, NEW j, j = exit_foreground(k, s)
    PROVE  Relit(k, j)
<1>1. CASE ~k.pcb[s].fg
  BY <1>1, RelitRefl DEF exit_foreground
<1>2. CASE k.pcb[s].fg /\ HasLiveParent(k, s)
  <2>1. k.pcb[s] \in Pcb
    BY KernelFacts
  <2>2. k.pcb[s].parent_pid \in Int
    BY <2>1 DEF Pcb
  <2>3. j = proc_set_foreground(k, k.pcb[s].parent_pid)
    BY <1>2 DEF exit_foreground
  <2>4. QED
    BY <2>2, <2>3, SetForegroundOn
<1>3. CASE k.pcb[s].fg /\ ~HasLiveParent(k, s)
  <2>1. j = [k EXCEPT !.fg_pid = -1]
    BY <1>3 DEF exit_foreground
  <2>2. j.pcb = k.pcb /\ j.current = k.current /\ j.may = k.may
    BY <2>1 DEF Kernel
  <2>3. QED
    BY <2>2 DEF Relit, SameButFg
<1>4. QED
  BY <1>1, <1>2, <1>3

\* The hand-over of proc_kill moves the terminal, and no more.
LEMMA KillForegroundOn ==
    ASSUME NEW k \in Kernel, NEW s \in Slots, NEW j, j = kill_foreground(k, s)
    PROVE  Relit(k, j)
<1>1. CASE k.pcb[s].fg /\ ~HasLiveParent(k, s) /\ Having(k, Shell) \cap Alive(k) # {}
  <2>1. j = proc_set_foreground(k, Shell) /\ Shell \in Int
    BY <1>1 DEF kill_foreground, Shell
  <2>2. QED
    BY <2>1, SetForegroundOn
<1>2. CASE ~(k.pcb[s].fg /\ ~HasLiveParent(k, s) /\ Having(k, Shell) \cap Alive(k) # {})
  BY <1>2, ExitForegroundOn DEF kill_foreground
<1>3. QED
  BY <1>1, <1>2

\* A process that becomes EXITED is the only one that ends.
LEMMA RetireOn ==
    ASSUME NEW k \in Kernel, NEW s \in Slots, NEW j, j = retire(k, s)
    PROVE  Flow(k, j, {s}) /\ Kept(k, j, {s}) /\ Calm(k, j)
<1>1. Retired(k, j, s)
  BY RetireFacts
<1>2. j.fg_pid = k.fg_pid
  <2>1. PICK pcb, new : pcb = k.pcb[s] /\ new = [pcb EXCEPT !.state = "EXITED", !.waiting_for = 0]
    OBVIOUS
  <2>2. pcb \in Pcb
    BY <2>1, KernelFacts
  <2>3. new \in Pcb /\ j = Put(k, s, new)
    BY <2>1, <2>2, RetiredMade DEF retire
  <2>4. QED
    BY <2>3, PutFacts
<1>3. j.pcb[s].state = "EXITED" /\ j.pcb[s].pid = k.pcb[s].pid
  BY <1>1 DEF Retired, Restated
<1>4. j.current = k.current /\ j.may = k.may /\ \A t \in Slots : t # s => j.pcb[t] = k.pcb[t]
  BY <1>1 DEF Retired
<1>5. QED
  BY <1>2, <1>3, <1>4, DeadOn

\* Sets of dead that agree on the living.
LEMMA FlowSame ==
    ASSUME NEW k, NEW j, NEW d, NEW e, Flow(k, j, d), Alive(k) \ d = Alive(k) \ e
    PROVE  Flow(k, j, e)
BY DEF Flow

\* Kept with more of the dead.
LEMMA KeptWider ==
    ASSUME NEW k, NEW j, NEW d, NEW e, Kept(k, j, d), d \cap Alive(k) \subseteq e
    PROVE  Kept(k, j, e)
BY DEF Kept

\* The death of s, once the terminal has been handed over.
LEMMA DeathOn ==
    ASSUME NEW k, NEW D, Sound(k, D, {}), k.current \notin k.zombies, NEW s \in Slots \ k.zombies,
           s # Idle, k.pcb[s].used, k.current \notin k.pcb[s].kids, NEW f, Kin(k, f), Relit(k, f),
           NEW nomem, NEW woken, NEW j, j = bury(retire(f, s), s, nomem, woken)
    PROVE  /\ Flow(k, j, k.pcb[s].kids \cup {s}) /\ Kept(f, j, k.pcb[s].kids \cup {s})
           /\ j.may = k.may /\ GoOn(k, j, nomem, woken)
<1>1. /\ Sound(f, D, {}) /\ f \in Kernel /\ f.current = k.current /\ f.may = k.may
      /\ f.zombies = k.zombies /\ k \in Kernel
  BY KinSound DEF Kin, Sound
<1>2. SameLife(k.pcb[s], f.pcb[s])
  BY DEF Kin
<1>3. f.pcb[s].used /\ f.current \notin f.pcb[s].kids /\ f.pcb[s].kids = k.pcb[s].kids
  BY <1>1, <1>2 DEF SameLife
<1>4. Flow(k, f, {}) /\ Calm(k, f) /\ Alive(f) = Alive(k)
  BY <1>1, RelitOn
<1>5. PICK r : r = retire(f, s)
  OBVIOUS
<1>6. Retired(f, r, s) /\ r.pcb[s].at = f.pcb[s].at
  BY <1>1, <1>5, RetireFacts
<1>7. s \in Slots /\ s \notin f.zombies
  BY <1>1
<1>8. Sound(r, D \cup {s}, {})
  BY <1>1, <1>3, <1>6, <1>7, RetireSound
<1>9. Flow(f, r, {s}) /\ Kept(f, r, {s}) /\ Calm(f, r)
  BY <1>1, <1>5, RetireOn
<1>10. /\ r.current = f.current /\ r.may = f.may /\ r.current \notin r.zombies
       /\ r.current \notin r.pcb[s].kids /\ r.pcb[s].kids = k.pcb[s].kids
  BY <1>1, <1>3, <1>6 DEF Retired, Restated
<1>11. PICK D2, dead : D2 = D \cup {s} /\ dead = r.pcb[s].kids \cap Alive(r)
  OBVIOUS
<1>12. Sound(r, D2, {}) /\ s \in D2 /\ j = bury(r, s, nomem, woken)
  BY <1>5, <1>8, <1>11
<1>13. /\ Flow(r, j, dead \cup {s}) /\ Kept(r, j, dead \cup {s}) /\ j.may = r.may
       /\ GoOn(r, j, nomem, woken)
  <2>1. r.current \notin r.zombies /\ r.current \notin r.pcb[s].kids
    BY <1>10
  <2>2. dead = r.pcb[s].kids \cap Alive(r)
    BY <1>11
  <2>3. Sound(r, D2, {}) /\ s \in D2
    BY <1>12
  <2>4. j = bury(r, s, nomem, woken)
    BY <1>12
  <2>5. QED
    BY <2>1, <2>2, <2>3, <2>4, BuryOn
<1>14. PICK lost : lost = k.pcb[s].kids \cup {s}
  OBVIOUS
<1>15. Alive(r) = Alive(k) \ {s}
  BY <1>4, <1>9 DEF Flow
<1>16. Flow(k, j, lost)
  <2>1. Flow(k, j, ({} \cup {s}) \cup (dead \cup {s}))
    BY <1>4, <1>9, <1>13, FlowTrans
  <2>2. Alive(k) \ (({} \cup {s}) \cup (dead \cup {s})) = Alive(k) \ lost
    BY <1>10, <1>11, <1>14, <1>15
  <2>3. QED
    BY <2>1, <2>2, FlowSame
<1>17. Kept(f, j, lost)
  <2>1. Kept(f, j, {s} \cup (dead \cup {s}))
    BY <1>9, <1>13, KeptTrans
  <2>2. ({s} \cup (dead \cup {s})) \cap Alive(f) \subseteq lost
    BY <1>10, <1>11, <1>14
  <2>3. QED
    BY <2>1, <2>2, KeptWider
<1>18. \A t \in woken : t \in Slots /\ k.pcb[t].at = "user" => r.pcb[t].at = "user"
  <2>1. \A t \in Slots : f.pcb[t].at = k.pcb[t].at
    BY DEF Relit, SameButFg
  <2>2. \A t \in Slots : r.pcb[t].at = f.pcb[t].at
    BY <1>6 DEF Retired
  <2>3. QED
    BY <2>1, <2>2
<1>19. GoOn(k, j, nomem, woken)
  <2>1. Waits(k) => Waits(r)
    BY <1>4, <1>9, CalmWaits
  <2>2. r.may = k.may
    BY <1>1, <1>10
  <2>3. QED
    BY <1>13, <1>18, <2>1, <2>2 DEF GoOn
<1>20. QED
  BY <1>1, <1>10, <1>13, <1>14, <1>16, <1>17, <1>19

-----------------------------------------------------------------------------
(* What a switch does to the processes *)

SameButState(a, b) ==
    /\ b.used = a.used /\ b.pid = a.pid /\ b.parent_pid = a.parent_pid /\ b.kids = a.kids
    /\ b.waiting_for = a.waiting_for /\ b.results = a.results /\ b.pending = a.pending
    /\ b.fg = a.fg /\ b.at = a.at /\ b.target = a.target

\* A record in another state is the same but for it.
LEMMA StatePut ==
    ASSUME NEW a \in Pcb, NEW st \in {"READY", "RUNNING", "BLOCKED", "EXITED"}, NEW b,
           b = [a EXCEPT !.state = st]
    PROVE  SameButState(a, b) /\ b.state = st /\ b \in Pcb
BY DEF SameButState, Pcb

\* The state of a process before the next one is chosen, and the ones there are to choose.
Rested(k, t) == IF k.pcb[t].state = "RUNNING" THEN "READY" ELSE k.pcb[t].state
Ready(k) == {t \in Slots \ {Idle} : k.pcb[t].used /\ Rested(k, t) = "READY"}

\* The CPU goes from k to j: to a ready process, or to idle.
Passed(k, j) ==
    /\ j.may = k.may /\ j.fg_pid = k.fg_pid
    /\ \A t \in Slots : SameButState(k.pcb[t], j.pcb[t])
    /\ j.pcb[Idle] = k.pcb[Idle]
    /\ \/ /\ Ready(k) = {} /\ j.current = Idle
          /\ \A t \in Slots \ {Idle} : j.pcb[t].state = Rested(k, t)
       \/ \E s \in Ready(k) :
            /\ j.current = s /\ j.pcb[s].state = "RUNNING"
            /\ \A t \in Slots \ {Idle, s} : j.pcb[t].state = Rested(k, t)

\* schedule passes the CPU to a process that was ready, or to idle if there was none.
LEMMA SwitchOn ==
    ASSUME NEW k, NEW D, NEW N, Sound(k, D, N), SwitchFrom(k)
    PROVE  Passed(k, kernel')
<1>1. PICK r : r = IF k.current # Idle /\ k.pcb[k.current].state = "RUNNING"
                   THEN Put(k, k.current, [k.pcb[k.current] EXCEPT !.state = "READY"]) ELSE k
  OBVIOUS
<1>2. PICK P, c, j : P = k.pcb /\ c = k.current /\ j = kernel'
  OBVIOUS
<1>3. /\ k \in Kernel /\ P \in [Slots -> Pcb] /\ c \in Slots /\ OnCpu(P, c) /\ Vacant(P)
  BY <1>2, KernelFacts DEF Sound, Core
<1>4. \A t \in Slots \ {Idle} : P[t].state = "RUNNING" => t = c
  BY <1>3, UnusedFacts DEF OnCpu, Vacant
<1>5. /\ r \in Kernel /\ r.may = k.may /\ r.fg_pid = k.fg_pid /\ r.pcb \in [Slots -> Pcb]
      /\ \A t \in Slots : SameButState(P[t], r.pcb[t])
      /\ \A t \in Slots \ {Idle} : r.pcb[t].state = Rested(k, t)
      /\ r.pcb[Idle] = P[Idle]
  <2>1. CASE c # Idle /\ P[c].state = "RUNNING"
    <3>1. PICK new : new = [P[c] EXCEPT !.state = "READY"]
      OBVIOUS
    <3>2. P[c] \in Pcb
      BY <1>3
    <3>3. SameButState(P[c], new) /\ new.state = "READY" /\ new \in Pcb
      BY <3>1, <3>2, StatePut
    <3>4. r = Put(k, c, new)
      BY <1>1, <1>2, <2>1, <3>1
    <3>5. /\ r \in Kernel /\ r.may = k.may /\ r.fg_pid = k.fg_pid /\ r.pcb \in [Slots -> Pcb]
          /\ r.pcb[c] = new /\ \A t \in Slots : t # c => r.pcb[t] = k.pcb[t]
      <4>1. PICK y : y = Put(k, c, new)
        OBVIOUS
      <4>2. /\ y \in Kernel /\ y.may = k.may /\ y.fg_pid = k.fg_pid /\ y.pcb \in [Slots -> Pcb]
            /\ y.pcb[c] = new /\ \A t \in Slots : t # c => y.pcb[t] = k.pcb[t]
        <5>1. k \in Kernel /\ c \in Slots /\ new \in Pcb
          BY <1>3, <3>3
        <5>2. QED
          BY <4>1, <5>1, PutFacts
      <4>3. y = r
        BY <3>4, <4>1
      <4>4. QED
        BY <4>2, <4>3
    <3>6. \A t \in Slots : t # c => r.pcb[t] = P[t]
      BY <1>2, <3>5
    <3>7. \A t \in Slots : SameButState(P[t], r.pcb[t])
      BY <3>3, <3>5, <3>6 DEF SameButState
    <3>8. \A t \in Slots \ {Idle} : r.pcb[t].state = Rested(k, t)
      BY <1>2, <1>4, <2>1, <3>3, <3>5, <3>6 DEF Rested
    <3>9. r.pcb[Idle] = P[Idle]
      BY <2>1, <3>6, SlotFacts
    <3>10. QED
      BY <3>5, <3>7, <3>8, <3>9
  <2>2. CASE ~(c # Idle /\ P[c].state = "RUNNING")
    <3>1. r = k
      BY <1>1, <1>2, <2>2
    <3>2. \A t \in Slots \ {Idle} : P[t].state # "RUNNING"
      BY <1>4, <2>2
    <3>3. \A t \in Slots \ {Idle} : r.pcb[t].state = Rested(k, t)
      BY <1>2, <3>1, <3>2 DEF Rested
    <3>4. \A t \in Slots : SameButState(P[t], r.pcb[t])
      BY <1>2, <3>1 DEF SameButState
    <3>5. QED
      BY <1>2, <1>3, <3>1, <3>3, <3>4
  <2>3. QED
    BY <2>1, <2>2
<1>6. InState(r, "READY") = Ready(k)
  <2>1. \A t \in Slots : r.pcb[t].used = k.pcb[t].used
    BY <1>2, <1>5 DEF SameButState
  <2>2. QED
    BY <1>5, <2>1 DEF InState, Ready
<1>7. \/ Ready(k) = {} /\ j = [r EXCEPT !.current = Idle]
      \/ \E s \in Ready(k) :
            j = Put([r EXCEPT !.current = s], s, [r.pcb[s] EXCEPT !.state = "RUNNING"])
  BY <1>1, <1>2, <1>6 DEF SwitchFrom
<1>8. ASSUME NEW s \in Slots, NEW x, x = [r EXCEPT !.current = s]
      PROVE  /\ x \in Kernel /\ x.current = s /\ x.pcb = r.pcb /\ x.may = r.may
             /\ x.fg_pid = r.fg_pid
  BY <1>5, <1>8 DEF Kernel
<1>9. CASE Ready(k) = {} /\ j = [r EXCEPT !.current = Idle]
  <2>1. j.current = Idle /\ j.pcb = r.pcb /\ j.may = r.may /\ j.fg_pid = r.fg_pid
    BY <1>8, <1>9, SlotFacts
  <2>2. QED
    BY <1>2, <1>5, <1>9, <2>1 DEF Passed
<1>10. ASSUME NEW s \in Ready(k),
              j = Put([r EXCEPT !.current = s], s, [r.pcb[s] EXCEPT !.state = "RUNNING"])
       PROVE  Passed(k, j)
  <2>1. PICK x, a, new : x = [r EXCEPT !.current = s] /\ a = r.pcb[s] /\ new = [a EXCEPT !.state = "RUNNING"]
    OBVIOUS
  <2>2. s \in Slots /\ s # Idle /\ a \in Pcb
    BY <1>5, <2>1 DEF Ready
  <2>3. SameButState(a, new) /\ new.state = "RUNNING" /\ new \in Pcb
    BY <2>1, <2>2, StatePut
  <2>4. /\ x \in Kernel /\ x.current = s /\ x.pcb = r.pcb /\ x.may = r.may /\ x.fg_pid = r.fg_pid
    BY <1>8, <2>1, <2>2
  <2>5. j = Put(x, s, new)
    BY <1>10, <2>1
  <2>6. /\ j.may = x.may /\ j.fg_pid = x.fg_pid /\ j.current = x.current
        /\ j.pcb[s] = new /\ \A t \in Slots : t # s => j.pcb[t] = x.pcb[t]
    BY <2>2, <2>3, <2>4, <2>5, PutFacts
  <2>7. \A t \in Slots : t # s => j.pcb[t] = r.pcb[t]
    BY <2>4, <2>6
  <2>8. \A t \in Slots : SameButState(k.pcb[t], j.pcb[t])
    <3>1. ASSUME NEW t \in Slots
          PROVE  SameButState(k.pcb[t], j.pcb[t])
      <4>1. SameButState(k.pcb[t], r.pcb[t])
        BY <1>2, <1>5
      <4>2. CASE t = s
        BY <2>1, <2>3, <2>6, <4>1, <4>2 DEF SameButState
      <4>3. CASE t # s
        BY <2>7, <4>1, <4>3
      <4>4. QED
        BY <4>2, <4>3
    <3>2. QED
      BY <3>1
  <2>9. \A t \in Slots \ {Idle, s} : j.pcb[t].state = Rested(k, t)
    BY <1>5, <2>7
  <2>10. j.pcb[Idle] = k.pcb[Idle]
    BY <1>2, <1>5, <2>2, <2>7, SlotFacts
  <2>11. j.may = k.may /\ j.fg_pid = k.fg_pid /\ j.current = s /\ j.pcb[s].state = "RUNNING"
    BY <1>5, <2>3, <2>4, <2>6
  <2>12. QED
    BY <2>8, <2>9, <2>10, <2>11 DEF Passed
<1>11. QED
  BY <1>2, <1>7, <1>9, <1>10

\* A switch neither kills nor wakes.
LEMMA PassedLiving ==
    ASSUME NEW k, NEW j, Passed(k, j)
    PROVE  /\ Alive(j) = Alive(k)
           /\ \A t \in Slots : k.pcb[t].state = "BLOCKED" => j.pcb[t].state = "BLOCKED"
<1>1. ASSUME NEW t \in Slots
      PROVE  \/ j.pcb[t].state = k.pcb[t].state
             \/ k.pcb[t].state \in {"READY", "RUNNING"} /\ j.pcb[t].state \in {"READY", "RUNNING"}
  <2>1. CASE t = Idle
    BY <2>1 DEF Passed
  <2>2. CASE t # Idle /\ j.pcb[t].state = Rested(k, t)
    BY <2>2 DEF Rested
  <2>3. CASE \E s \in Ready(k) : t = s /\ j.pcb[s].state = "RUNNING"
    BY <2>3 DEF Ready, Rested
  <2>4. QED
    BY <2>1, <2>2, <2>3 DEF Passed
<1>2. \A t \in Slots : SameButState(k.pcb[t], j.pcb[t])
  BY DEF Passed
<1>3. QED
  BY <1>1, <1>2 DEF Alive, SameButState

\* Nobody who waits for a child is concerned.
LEMMA PassedWaits ==
    ASSUME NEW k \in Kernel, NEW j, Passed(k, j), Waits(k)
    PROVE  Waits(j)
<1>1. Alive(j) = Alive(k) /\ \A t \in Slots : k.pcb[t].state = "BLOCKED" => j.pcb[t].state = "BLOCKED"
  BY PassedLiving
<1>2. \A t \in Slots : SameButState(k.pcb[t], j.pcb[t])
  BY DEF Passed
<1>3. Alive(j) = Alive(k)
  BY <1>1
<1>4. j.may = k.may
  BY DEF Passed
<1>5. ASSUME NEW t \in Alive(j)
      PROVE  Waiter(j, t)
  <2>1. t \in Slots /\ Waiter(k, t)
    BY <1>3 DEF Waits, Alive
  <2>2. PICK a, b : a = k.pcb[t] /\ b = j.pcb[t]
    OBVIOUS
  <2>3. SameButState(a, b)
    BY <1>2, <2>1, <2>2
  <2>4. a.state = "BLOCKED" => b.state = "BLOCKED"
    BY <1>1, <2>1, <2>2
  <2>5. \A x : Has(a, x) <=> Has(b, x)
    BY <2>3 DEF Has, SameButState
  <2>6. b.kids = a.kids /\ b.at = a.at /\ b.waiting_for = a.waiting_for /\ b.target = a.target
    BY <2>3 DEF SameButState
  <2>7. \A c \in a.kids : j.pcb[c].pid = k.pcb[c].pid
    <3>1. a \in Pcb
      BY <2>1, <2>2, KernelFacts
    <3>2. a.kids \subseteq Slots
      BY <3>1 DEF Pcb
    <3>3. QED
      BY <1>2, <3>2 DEF SameButState
  <2>8. QED
    BY <1>4, <2>1, <2>2, <2>4, <2>5, <2>6, <2>7 DEF Waiter
<1>6. QED
  BY <1>3, <1>5 DEF Waits

-----------------------------------------------------------------------------
(* Who owns the terminal *)

\* A process that may own the terminal: idle, the shell, and a child of the shell that is
\* in A, the processes that count as alive.
Ruler(k, A, s) ==
    \/ s = Idle
    \/ k.pcb[s].pid = Shell
    \/ k.pcb[s].parent_pid = Shell /\ \E t \in A : k.pcb[t].pid = Shell

\* The terminal's process is in A and has the mark; whoever has it may; the shell has it.
Ruled(k, A) ==
    /\ \E s \in A : k.pcb[s].pid = k.fg_pid /\ k.pcb[s].fg
    /\ \A s \in A : k.pcb[s].fg => Ruler(k, A, s)
    /\ \A s \in A : k.pcb[s].pid = Shell => k.pcb[s].fg /\ k.pcb[s].parent_pid = IdlePid

\* Deaths without the mark change nothing.
LEMMA KeptRuled ==
    ASSUME NEW f, NEW j, NEW d, NEW A, NEW n, Kept(f, j, d), Ruled(f, A), A \subseteq Alive(f),
           Alive(j) = A \ d, \A q \in d \cap Alive(f) : ~f.pcb[q].fg, Numbered(f.pcb, n),
           Idle \in Alive(f), f.pcb[Idle].pid = IdlePid, Idle \notin d
    PROVE  Ruled(j, Alive(j))
<1>1. PICK B : B = Alive(j)
  OBVIOUS
<1>2. B \subseteq A /\ \A x \in A : x \notin d => x \in B
  BY <1>1
<1>3. \A x, y \in Alive(f) : f.pcb[x].pid = f.pcb[y].pid => x = y
  BY DEF Alive, Numbered
<1>4. j.fg_pid = f.fg_pid
      /\ \A t \in B :
            /\ j.pcb[t].pid = f.pcb[t].pid /\ j.pcb[t].fg = f.pcb[t].fg
            /\ \/ j.pcb[t].parent_pid = f.pcb[t].parent_pid
               \/ \E q \in d \cap Alive(f) : f.pcb[q].pid = f.pcb[t].parent_pid
  BY <1>1 DEF Kept
<1>5. \A x \in A : f.pcb[x].fg => x \in B
  BY <1>2
<1>6. \A x \in A : f.pcb[x].pid = Shell => x \in B /\ f.pcb[x].fg /\ f.pcb[x].parent_pid = IdlePid
  BY <1>5 DEF Ruled
<1>7. \E s \in B : j.pcb[s].pid = j.fg_pid /\ j.pcb[s].fg
  <2>1. PICK s \in A : f.pcb[s].pid = f.fg_pid /\ f.pcb[s].fg
    BY DEF Ruled
  <2>2. QED
    BY <1>4, <1>5, <2>1
<1>8. ASSUME NEW t \in B, j.pcb[t].fg
      PROVE  Ruler(j, B, t)
  <2>1. t \in A /\ f.pcb[t].fg
    BY <1>2, <1>4, <1>8
  <2>2. Ruler(f, A, t)
    BY <2>1 DEF Ruled
  <2>3. CASE t = Idle
    BY <2>3 DEF Ruler
  <2>4. CASE f.pcb[t].pid = Shell
    BY <1>4, <2>4 DEF Ruler
  <2>5. CASE f.pcb[t].parent_pid = Shell /\ \E x \in A : f.pcb[x].pid = Shell
    <3>1. PICK x \in A : f.pcb[x].pid = Shell
      BY <2>5
    <3>2. x \in B /\ j.pcb[x].pid = Shell
      BY <1>4, <1>6, <3>1
    <3>3. ~\E q \in d \cap Alive(f) : f.pcb[q].pid = Shell
      BY <1>2, <1>3, <1>6, <3>1
    <3>4. j.pcb[t].parent_pid = Shell
      BY <1>4, <2>5, <3>3
    <3>5. QED
      BY <3>2, <3>4 DEF Ruler
  <2>6. QED
    BY <2>2, <2>3, <2>4, <2>5 DEF Ruler
<1>9. ASSUME NEW t \in B, j.pcb[t].pid = Shell
      PROVE  j.pcb[t].fg /\ j.pcb[t].parent_pid = IdlePid
  <2>1. t \in A /\ f.pcb[t].pid = Shell
    BY <1>2, <1>4, <1>9
  <2>2. f.pcb[t].fg /\ f.pcb[t].parent_pid = IdlePid
    BY <1>6, <2>1
  <2>3. ~\E q \in d \cap Alive(f) : f.pcb[q].pid = IdlePid
    BY <1>3
  <2>4. QED
    BY <1>4, <2>2, <2>3
<1>10. QED
  BY <1>1, <1>7, <1>8, <1>9 DEF Ruled

\* What the proofs below use of the invariant.
LEMMA LifeFacts ==
    ASSUME NEW k, NEW D, NEW N, Sound(k, D, N)
    PROVE  /\ k \in Kernel /\ Idle \in Alive(k) /\ k.pcb[Idle].pid = IdlePid /\ Alive(k) \subseteq Slots
           /\ Numbered(k.pcb, k.next_pid)
           /\ \A s, t \in Slots : k.pcb[s].used /\ t \in k.pcb[s].kids =>
                 k.pcb[t].used /\ k.pcb[t].parent_pid = k.pcb[s].pid
           /\ \A s \in Alive(k) : /\ k.pcb[s].pid \in Nat \ {0} /\ k.pcb[s].parent_pid \in Int
                                  /\ k.pcb[s].parent_pid < k.pcb[s].pid
           /\ \A s, t \in Alive(k) : k.pcb[s].pid = k.pcb[t].pid => s = t
<1>1. PICK P, n : P = k.pcb /\ n = k.next_pid
  OBVIOUS
<1>2. /\ k \in Kernel /\ P \in [Slots -> Pcb] /\ Numbered(P, n) /\ Tree(P, k.zombies)
      /\ OnCpu(P, k.current) /\ n \in Nat
  BY <1>1, KernelFacts DEF Sound, Core
<1>3. Idle \in Alive(k) /\ P[Idle].pid = IdlePid /\ Alive(k) \subseteq Slots
  BY <1>1, <1>2, SlotFacts DEF OnCpu, Alive
<1>4. \A s \in Alive(k) : s \in Slots /\ P[s].used
  BY <1>1 DEF Alive
<1>5. ASSUME NEW s \in Alive(k)
      PROVE  P[s].pid \in Nat \ {0} /\ P[s].parent_pid \in Int /\ P[s].parent_pid < P[s].pid
  <2>1. P[s] \in Pcb /\ P[s].pid \in 1 .. n - 1 /\ P[s].parent_pid < P[s].pid
    BY <1>2, <1>4 DEF Numbered
  <2>2. QED
    BY <1>2, <2>1 DEF Pcb
<1>6. \A s, t \in Alive(k) : P[s].pid = P[t].pid => s = t
  BY <1>2, <1>4 DEF Numbered
<1>7. \A s, t \in Slots : P[s].used /\ t \in P[s].kids => P[t].used /\ P[t].parent_pid = P[s].pid
  BY <1>2 DEF Tree
<1>8. QED
  BY <1>1, <1>2, <1>3, <1>5, <1>6, <1>7

\* Before s dies the terminal is handed to its parent, if s has it.
LEMMA HandOver ==
    ASSUME NEW k, NEW D, NEW N, Sound(k, D, N), Ruled(k, Alive(k)), NEW s \in Alive(k), s # Idle
    PROVE  /\ kill_foreground(k, s) = exit_foreground(k, s)
           /\ k.pcb[s].fg =>
                \E q \in Alive(k) : /\ k.pcb[s].parent_pid = k.pcb[q].pid
                                    /\ \/ q = Idle
                                       \/ k.pcb[s].pid # Shell /\ k.pcb[q].pid = Shell
                                    /\ exit_foreground(k, s) = proc_set_foreground(k, k.pcb[q].pid)
<1>1. CASE ~k.pcb[s].fg
  BY <1>1 DEF kill_foreground
<1>2. CASE k.pcb[s].fg
  <2>1. PICK q \in Alive(k) : /\ k.pcb[s].parent_pid = k.pcb[q].pid
                              /\ \/ q = Idle
                                 \/ k.pcb[s].pid # Shell /\ k.pcb[q].pid = Shell
    <3>1. Ruler(k, Alive(k), s)
      BY <1>2 DEF Ruled
    <3>2. CASE k.pcb[s].pid = Shell
      <4>1. k.pcb[s].parent_pid = IdlePid
        BY <3>2 DEF Ruled
      <4>2. Idle \in Alive(k) /\ k.pcb[Idle].pid = IdlePid
        BY LifeFacts
      <4>3. QED
        BY <4>1, <4>2
    <3>3. CASE k.pcb[s].pid # Shell
      BY <3>1, <3>3 DEF Ruler
    <3>4. QED
      BY <3>2, <3>3
  <2>2. q \in Having(k, k.pcb[s].parent_pid)
    BY <2>1 DEF Having, Alive
  <2>3. HasLiveParent(k, s)
    BY <2>1, <2>2 DEF HasLiveParent
  <2>4. exit_foreground(k, s) = proc_set_foreground(k, k.pcb[q].pid)
    BY <1>2, <2>1, <2>3 DEF exit_foreground
  <2>5. kill_foreground(k, s) = exit_foreground(k, s)
    BY <2>3 DEF kill_foreground
  <2>6. QED
    BY <2>1, <2>4, <2>5
<1>3. QED
  BY <1>1, <1>2

\* The children of a process that does not own the terminal do not own it either.
LEMMA KidsUnmarked ==
    ASSUME NEW k, NEW D, NEW N, Sound(k, D, N), Ruled(k, Alive(k)), NEW s \in Slots, s # Idle,
           k.pcb[s].used, s \in Alive(k) => ~k.pcb[s].fg, NEW c \in k.pcb[s].kids \cap Alive(k)
    PROVE  ~k.pcb[c].fg
<1> SUFFICES ASSUME k.pcb[c].fg
             PROVE  FALSE
  OBVIOUS
<1>1. c \in Slots /\ k.pcb[c].parent_pid = k.pcb[s].pid
  BY LifeFacts
<1>2. \A x \in Alive(k) : k.pcb[x].pid = k.pcb[s].pid => x = s
  <2>1. Numbered(k.pcb, k.next_pid)
    BY LifeFacts
  <2>2. QED
    BY <2>1 DEF Numbered, Alive
<1>3. k.pcb[s].pid >= 1
  <2>1. Numbered(k.pcb, k.next_pid) /\ k \in Kernel
    BY LifeFacts
  <2>2. k.next_pid \in Nat /\ k.pcb[s].pid \in 1 .. k.next_pid - 1
    BY <2>1, KernelFacts DEF Numbered
  <2>3. QED
    BY <2>2
<1>4. Idle \in Alive(k) /\ k.pcb[Idle].pid = 1
  BY LifeFacts, SlotFacts
<1>5. Ruler(k, Alive(k), c)
  BY DEF Ruled
<1>6. CASE c = Idle
  <2>1. k.pcb[Idle].parent_pid < 1 /\ k.pcb[Idle].parent_pid \in Int
    BY <1>4, LifeFacts
  <2>2. QED
    BY <1>1, <1>3, <1>6, <2>1
<1>7. CASE k.pcb[c].pid = Shell
  <2>1. k.pcb[c].parent_pid = 1
    BY <1>7, SlotFacts DEF Ruled
  <2>2. QED
    BY <1>1, <1>2, <1>4, <2>1
<1>8. CASE k.pcb[c].parent_pid = Shell /\ \E x \in Alive(k) : k.pcb[x].pid = Shell
  <2>1. s \in Alive(k) /\ k.pcb[s].pid = Shell
    BY <1>1, <1>2, <1>8
  <2>2. QED
    BY <2>1 DEF Ruled
<1>9. QED
  BY <1>5, <1>6, <1>7, <1>8 DEF Ruler

\* After the hand-over neither s nor its children own the terminal.
LEMMA HandedOver ==
    ASSUME NEW k, NEW D, NEW N, Sound(k, D, N), Ruled(k, Alive(k)), NEW s \in Alive(k), s # Idle,
           NEW f, f = exit_foreground(k, s)
    PROVE  /\ Ruled(f, Alive(k) \ {s}) /\ ~f.pcb[s].fg
           /\ \A c \in k.pcb[s].kids \cap Alive(k) : ~f.pcb[c].fg
<1>1. PICK A, B : A = Alive(k) /\ B = Alive(k) \ {s}
  OBVIOUS
<1>2. s \in Slots /\ k.pcb[s].used
  BY DEF Alive
<1>3. CASE ~k.pcb[s].fg
  <2>1. f = k
    BY <1>3 DEF exit_foreground
  <2>2. \A x \in A : k.pcb[x].fg => x \in B
    BY <1>1, <1>3
  <2>3. \A x \in A : k.pcb[x].pid = Shell => k.pcb[x].fg
    BY <1>1 DEF Ruled
  <2>4. \A x \in B : Ruler(k, A, x) => Ruler(k, B, x)
    BY <2>2, <2>3 DEF Ruler
  <2>5. Ruled(k, B)
    BY <1>1, <2>2, <2>4 DEF Ruled
  <2>6. \A c \in k.pcb[s].kids \cap A : ~k.pcb[c].fg
    BY <1>1, <1>2, <1>3, KidsUnmarked
  <2>7. QED
    BY <1>1, <1>3, <2>1, <2>5, <2>6
<1>4. CASE k.pcb[s].fg
  <2>1. PICK q \in A : /\ k.pcb[s].parent_pid = k.pcb[q].pid
                       /\ \/ q = Idle
                          \/ k.pcb[s].pid # Shell /\ k.pcb[q].pid = Shell
                       /\ f = proc_set_foreground(k, k.pcb[q].pid)
    BY <1>1, <1>4, HandOver
  <2>2. PICK x : x = k.pcb[q].pid
    OBVIOUS
  <2>3. /\ \A y \in A : /\ k.pcb[y].pid \in Nat \ {0} /\ k.pcb[y].parent_pid \in Int
                        /\ k.pcb[y].parent_pid < k.pcb[y].pid
        /\ \A y, z \in A : k.pcb[y].pid = k.pcb[z].pid => y = z
        /\ \A y \in A : y \in Slots /\ k.pcb[y].used
        /\ Idle \in A /\ k.pcb[Idle].pid = IdlePid
    BY <1>1, LifeFacts DEF Alive
  <2>4. /\ Relit(k, f) /\ f.fg_pid = x
        /\ \A t \in Slots : k.pcb[t].used => f.pcb[t].fg = (k.pcb[t].pid = x)
    <3>1. x \in Int /\ k \in Kernel
      BY <2>2, <2>3, LifeFacts
    <3>2. f = proc_set_foreground(k, x)
      BY <2>1, <2>2
    <3>3. QED
      BY <3>1, <3>2, SetForegroundOn
  <2>5. \A t \in A : /\ f.pcb[t].pid = k.pcb[t].pid /\ f.pcb[t].parent_pid = k.pcb[t].parent_pid
                     /\ (f.pcb[t].fg <=> t = q)
    <3> SUFFICES ASSUME NEW t \in A
                 PROVE  /\ f.pcb[t].pid = k.pcb[t].pid /\ f.pcb[t].parent_pid = k.pcb[t].parent_pid
                        /\ (f.pcb[t].fg <=> t = q)
      OBVIOUS
    <3>1. t \in Slots /\ k.pcb[t].used
      BY <2>3
    <3>2. f.pcb[t].pid = k.pcb[t].pid /\ f.pcb[t].parent_pid = k.pcb[t].parent_pid
      BY <2>4, <3>1 DEF Relit, SameButFg
    <3>3. f.pcb[t].fg = (k.pcb[t].pid = x)
      BY <2>4, <3>1
    <3>4. (k.pcb[t].pid = x) <=> (t = q)
      BY <2>1, <2>2, <2>3
    <3>5. f.pcb[t].fg <=> t = q
      BY <3>3, <3>4, Zenon
    <3>6. QED
      BY <3>2, <3>5
  <2>6. s \in A /\ q # s
    BY <1>1, <2>1, <2>3
  <2>7. ~f.pcb[s].fg
    BY <2>5, <2>6
  <2>8. q \in B /\ f.pcb[q].pid = f.fg_pid /\ f.pcb[q].fg
    BY <1>1, <2>2, <2>4, <2>5, <2>6
  <2>9. ASSUME NEW t \in B, f.pcb[t].fg
        PROVE  Ruler(f, B, t)
    <3>1. t = q
      BY <1>1, <2>5, <2>9
    <3>2. QED
      BY <2>1, <2>5, <3>1 DEF Ruler
  <2>10. ASSUME NEW t \in B, f.pcb[t].pid = Shell
         PROVE  f.pcb[t].fg /\ f.pcb[t].parent_pid = IdlePid
    <3>1. t \in A /\ k.pcb[t].pid = Shell /\ t # s
      BY <1>1, <2>5, <2>10
    <3>2. k.pcb[t].parent_pid = IdlePid
      BY <1>1, <3>1 DEF Ruled
    <3>3. k.pcb[s].pid # Shell
      BY <2>3, <2>6, <3>1
    <3>4. Ruler(k, A, s)
      BY <1>1, <1>4, <2>6 DEF Ruled
    <3>5. k.pcb[s].parent_pid = Shell
      BY <3>3, <3>4 DEF Ruler
    <3>6. t = q
      BY <2>1, <2>3, <3>1, <3>5
    <3>7. QED
      BY <2>5, <3>1, <3>2, <3>6
  <2>11. Ruled(f, B)
    BY <2>8, <2>9, <2>10 DEF Ruled
  <2>12. ASSUME NEW c \in k.pcb[s].kids \cap A, f.pcb[c].fg
         PROVE  FALSE
    <3>1. c = q
      BY <2>5, <2>12
    <3>2. k.pcb[q].parent_pid = k.pcb[s].pid
      <4>1. c \in Slots
        BY <2>3
      <4>2. k.pcb[c].parent_pid = k.pcb[s].pid
        BY <1>2, <2>12, <4>1, LifeFacts
      <4>3. QED
        BY <3>1, <4>2
    <3>3. k.pcb[q].parent_pid < k.pcb[q].pid /\ k.pcb[s].parent_pid < k.pcb[s].pid
      BY <2>3, <2>6
    <3>4. k.pcb[q].pid \in Int /\ k.pcb[s].pid \in Int
      BY <2>3, <2>6
    <3>5. QED
      BY <2>1, <3>2, <3>3, <3>4
  <2>13. QED
    BY <1>1, <2>7, <2>11, <2>12
<1>5. QED
  BY <1>3, <1>4

\* The death of s, after the hand-over.
LEMMA DeathRuled ==
    ASSUME NEW k, NEW D, NEW N, Sound(k, D, N), Ruled(k, Alive(k)), NEW s \in Alive(k), s # Idle,
           NEW f, f = exit_foreground(k, s), NEW j, NEW d, d \subseteq k.pcb[s].kids \cup {s}, s \in d,
           Kept(f, j, d), Alive(j) = Alive(k) \ d, Numbered(f.pcb, k.next_pid)
    PROVE  Ruled(j, Alive(j))
<1>1. PICK A, B : A = Alive(k) /\ B = A \ {s}
  OBVIOUS
<1>2. /\ Ruled(f, B) /\ ~f.pcb[s].fg
      /\ \A c \in k.pcb[s].kids \cap A : ~f.pcb[c].fg
  BY <1>1, HandedOver
<1>3. k \in Kernel /\ s \in Slots /\ k.pcb[s].used
  BY LifeFacts DEF Alive
<1>4. Relit(k, f) /\ Alive(f) = A
  <2>1. Relit(k, f)
    BY <1>3, ExitForegroundOn
  <2>2. QED
    BY <1>1, <1>3, <2>1, RelitOn
<1>5. Idle \in A /\ f.pcb[Idle].pid = IdlePid
  BY <1>1, <1>4, LifeFacts, SlotFacts DEF Relit, SameButFg
<1>6. Idle \notin d
  <2>1. Idle \in Slots
    BY SlotFacts
  <2>2. Idle \in k.pcb[s].kids => k.pcb[Idle].parent_pid = k.pcb[s].pid
    BY <1>3, <2>1, LifeFacts
  <2>3. /\ k.pcb[Idle].parent_pid < k.pcb[Idle].pid /\ k.pcb[Idle].parent_pid \in Int
        /\ k.pcb[s].pid \in Nat \ {0} /\ k.pcb[Idle].pid = 1
    BY <1>1, <1>5, LifeFacts, SlotFacts
  <2>4. QED
    BY <2>2, <2>3
<1>7. \A q \in d \cap Alive(f) : ~f.pcb[q].fg
  BY <1>1, <1>2, <1>4
<1>8. Alive(j) = B \ d /\ B \subseteq Alive(f) /\ Idle \in Alive(f)
  BY <1>1, <1>4, <1>5
<1>9. QED
  BY <1>2, <1>5, <1>6, <1>7, <1>8, KeptRuled

-----------------------------------------------------------------------------
(* What every step keeps of the waiting and of the terminal *)

\* From k to j who waits, and who owns the terminal, stays in order.
Onward(k, j) ==
    /\ "unblock_waiter" \notin k.may /\ Waits(k) => Waits(j)
    /\ "nested_fg" \notin k.may /\ Ruled(k, Alive(k)) => Ruled(j, Alive(j))

\* Onward twice.
LEMMA OnwardTrans ==
    ASSUME NEW k, NEW i, NEW j, Onward(k, i), i.may = k.may, Onward(i, j)
    PROVE  Onward(k, j)
BY DEF Onward

\* Where nobody notices anything, the waiting and the terminal stay in order.
LEMMA CalmOnward ==
    ASSUME NEW k, NEW D, NEW N, Sound(k, D, N), NEW j, Calm(k, j), Kept(k, j, {}), Alive(j) = Alive(k)
    PROVE  Onward(k, j)
<1>1. Waits(k) => Waits(j)
  BY CalmWaits
<1>2. ASSUME Ruled(k, Alive(k))
      PROVE  Ruled(j, Alive(j))
  <2>1. PICK d, A, n : d = {} /\ A = Alive(k) /\ n = k.next_pid
    OBVIOUS
  <2>2. Numbered(k.pcb, n) /\ Idle \in A /\ k.pcb[Idle].pid = IdlePid
    BY <2>1, LifeFacts
  <2>3. /\ Kept(k, j, d) /\ Ruled(k, A) /\ A \subseteq Alive(k) /\ Alive(j) = A \ d
        /\ \A q \in d \cap Alive(k) : ~k.pcb[q].fg
        /\ Idle \in Alive(k) /\ Idle \notin d
    BY <1>2, <2>1, <2>2
  <2>4. QED
    BY <2>2, <2>3, KeptRuled
<1>3. QED
  BY <1>1, <1>2 DEF Onward

\* collect_zombies changes nothing for the living.
LEMMA CollectOnward ==
    ASSUME NEW k, Good(k), NEW j, j = collect_zombies(k)
    PROVE  /\ Onward(k, j) /\ Flow(k, j, {}) /\ Alive(j) = Alive(k)
           /\ \A t \in Alive(k) : j.pcb[t] = k.pcb[t]
<1>1. Sound(k, Exiting(k), {}) /\ Collected(k, j)
  BY GoodFacts, CollectGood
<1>2. Flow(k, j, {}) /\ Kept(k, j, {}) /\ Calm(k, j)
  BY <1>1, CollectOn
<1>3. Alive(j) = Alive(k)
  BY <1>2 DEF Flow
<1>4. ASSUME NEW t \in Alive(k)
      PROVE  j.pcb[t] = k.pcb[t]
  <2>1. t \in Slots /\ j.pcb[t].used
    BY <1>3 DEF Alive
  <2>2. k.zombies \cap Alive(k) = {}
    BY <1>1 DEF Sound, Core, Dead, Alive
  <2>3. QED
    BY <1>1, <2>1, <2>2 DEF Collected
<1>5. QED
  BY <1>1, <1>2, <1>3, <1>4, CalmOnward

\* A switch keeps the waiting and the terminal in order.
LEMMA PassedOnward ==
    ASSUME NEW k, NEW D, NEW N, Sound(k, D, N), NEW j, Passed(k, j)
    PROVE  Onward(k, j)
<1>1. k \in Kernel /\ Alive(j) = Alive(k) /\ Alive(k) \subseteq Slots
  BY PassedLiving, LifeFacts
<1>2. Waits(k) => Waits(j)
  BY <1>1, PassedWaits
<1>3. /\ j.fg_pid = k.fg_pid
      /\ \A t \in Alive(k) : /\ j.pcb[t].pid = k.pcb[t].pid /\ j.pcb[t].fg = k.pcb[t].fg
                             /\ j.pcb[t].parent_pid = k.pcb[t].parent_pid
  BY <1>1 DEF Passed, SameButState
<1>4. ASSUME Ruled(k, Alive(k))
      PROVE  Ruled(j, Alive(j))
  <2>1. PICK A : A = Alive(k)
    OBVIOUS
  <2>2. \A s \in A : Ruler(k, A, s) => Ruler(j, A, s)
    BY <1>3, <2>1 DEF Ruler
  <2>3. Ruled(k, A)
    BY <1>4, <2>1
  <2>4. \E s \in A : j.pcb[s].pid = j.fg_pid /\ j.pcb[s].fg
    BY <1>3, <2>1, <2>3 DEF Ruled
  <2>5. \A s \in A : j.pcb[s].fg => Ruler(j, A, s)
    BY <1>3, <2>1, <2>2, <2>3 DEF Ruled
  <2>6. \A s \in A : j.pcb[s].pid = Shell => j.pcb[s].fg /\ j.pcb[s].parent_pid = IdlePid
    BY <1>3, <2>1, <2>3 DEF Ruled
  <2>7. QED
    BY <1>1, <2>1, <2>4, <2>5, <2>6 DEF Ruled
<1>5. QED
  BY <1>2, <1>4 DEF Onward

\* What a death may be given: a NULL from mm_malloc if that happens, and processes to wake up
\* that do not sleep in proc_wait.
Given(k, nomem, woken) ==
    /\ nomem => "malloc_fails" \in k.may
    /\ "unblock_waiter" \notin k.may => \A t \in woken : t \in Slots /\ k.pcb[t].at = "user"

\* The death of s.
LEMMA DeathOnward ==
    ASSUME NEW k, NEW D, Sound(k, D, {}), k.current \notin k.zombies, NEW s \in Slots \ k.zombies,
           s # Idle, k.pcb[s].used, k.current \notin k.pcb[s].kids, NEW f, Kin(k, f), Relit(k, f),
           "nested_fg" \notin k.may /\ Ruled(k, Alive(k)) => s \in Alive(k) /\ f = exit_foreground(k, s),
           NEW nomem, NEW woken, Given(k, nomem, woken), NEW j, j = bury(retire(f, s), s, nomem, woken)
    PROVE  Onward(k, j) /\ Flow(k, j, k.pcb[s].kids \cup {s}) /\ j.may = k.may
<1>1. PICK d : d = k.pcb[s].kids \cup {s}
  OBVIOUS
<1>2. Flow(k, j, d) /\ Kept(f, j, d) /\ j.may = k.may /\ GoOn(k, j, nomem, woken)
  BY <1>1, DeathOn
<1>3. "unblock_waiter" \notin k.may /\ Waits(k) => Waits(j)
  BY <1>2 DEF GoOn, Given
<1>4. ASSUME "nested_fg" \notin k.may, Ruled(k, Alive(k))
      PROVE  Ruled(j, Alive(j))
  <2>1. s \in Alive(k) /\ f = exit_foreground(k, s)
    BY <1>4
  <2>2. Sound(f, D, {}) /\ f.next_pid = k.next_pid
    BY KinSound DEF Kin
  <2>3. Numbered(f.pcb, k.next_pid)
    BY <2>2, LifeFacts
  <2>4. Alive(j) = Alive(k) \ d /\ d \subseteq k.pcb[s].kids \cup {s} /\ s \in d
    BY <1>1, <1>2 DEF Flow
  <2>5. QED
    BY <1>2, <1>4, <2>1, <2>3, <2>4, DeathRuled
<1>5. QED
  BY <1>1, <1>2, <1>3, <1>4 DEF Onward

-----------------------------------------------------------------------------
(* What the scheduler sees of a step *)

Others == Slots \ {Idle}

\* The state and the running process of ProcStates, of a state k.
Shown(k) == [s \in Others |-> IF s = k.current THEN "RUNNING"
                              ELSE IF s \in Alive(k) THEN k.pcb[s].state ELSE "FREE"]

\* The variables of ProcStates, before a step and after it.
LEMMA ShownIs ==
    ASSUME NEW k, k = kernel, NEW j, j = kernel'
    PROVE  /\ Abstract!vars = <<Shown(k), k.current>>
           /\ Abstract!vars' = <<Shown(j), j.current>>
BY DEF Abstract!vars, Shown, Caller, Alive, Others

\* The steps of ProcStates, in terms of Shown.
LEMMA ShownKill ==
    ASSUME NEW k, k = kernel, NEW j, j = kernel', NEW dead \in SUBSET Others, NEW woken \in SUBSET Others,
           k.current \notin dead, j.current = k.current,
           \A s \in woken : s \notin dead /\ Shown(k)[s] = "BLOCKED",
           \A s \in Others : Shown(j)[s] = IF s \in woken THEN "READY"
                                           ELSE IF s \in dead THEN "FREE" ELSE Shown(k)[s]
    PROVE  Abstract!Next
<1>1. Abstract!vars = <<Shown(k), k.current>> /\ Abstract!vars' = <<Shown(j), j.current>>
  BY ShownIs
<1>2. PICK st, st2 : st = Shown(k) /\ st2 = Shown(j)
  OBVIOUS
<1>3. st2 = [s \in Others |-> st2[s]]
  BY <1>2 DEF Shown
<1>4. st2 = Abstract!With(Abstract!With(st, dead, "FREE"), woken, "READY")
  BY <1>2, <1>3 DEF Abstract!With, Others
<1>5. woken \subseteq Abstract!Are(st, "BLOCKED") \ dead
  BY <1>2 DEF Abstract!Are, Others
<1>6. Abstract!Kill(dead, woken)
  BY <1>1, <1>2, <1>4, <1>5 DEF Abstract!Kill, Abstract!vars
<1>7. QED
  BY <1>6 DEF Abstract!Next, Others

\* The processes as they are when the next one is chosen.
Base(k) == [s \in Others |-> IF s \in Alive(k) THEN Rested(k, s) ELSE "FREE"]

\* Seen from ProcStates, a switch is SwitchFrom.
LEMMA ShownPassed ==
    ASSUME NEW i, NEW D, NEW N, Sound(i, D, N), NEW j, j = kernel', Passed(i, j), NEW st, st = Base(i)
    PROVE  Abstract!SwitchFrom(st)
<1>1. PICK k, st2 : k = kernel /\ st2 = Shown(j)
  OBVIOUS
<1>2. Abstract!vars' = <<st2, j.current>>
  BY <1>1, ShownIs
<1>3. Alive(j) = Alive(i) /\ Alive(i) \subseteq Slots
  BY PassedLiving, LifeFacts
<1>4. \A s \in Others : st[s] = IF s \in Alive(i) THEN Rested(i, s) ELSE "FREE"
  BY DEF Base
<1>5. Ready(i) = Abstract!Are(st, "READY")
  <2>1. \A s \in Others : s \in Ready(i) <=> s \in Alive(i) /\ Rested(i, s) = "READY"
    BY DEF Ready, Alive, Rested, Others
  <2>2. \A s \in Others : st[s] = "READY" <=> s \in Ready(i)
    BY <1>4, <2>1
  <2>3. Ready(i) \subseteq Others
    BY DEF Ready, Others
  <2>4. QED
    BY <2>2, <2>3 DEF Abstract!Are, Others
<1>6. \A s \in Others : st2[s] = IF s = j.current THEN "RUNNING"
                                 ELSE IF s \in Alive(i) THEN j.pcb[s].state ELSE "FREE"
  BY <1>1, <1>3 DEF Shown
<1>7. st2 = [s \in Others |-> st2[s]] /\ st = [s \in Others |-> st[s]]
  BY <1>1 DEF Shown, Base
<1>8. CASE /\ Ready(i) = {} /\ j.current = Idle
           /\ \A t \in Slots \ {Idle} : j.pcb[t].state = Rested(i, t)
  <2>1. \A s \in Others : st2[s] = st[s]
    BY <1>4, <1>6, <1>8 DEF Others
  <2>2. st2 = st
    BY <1>7, <2>1
  <2>3. Abstract!Are(st, "READY") = {} /\ j.current = Idle
    BY <1>5, <1>8
  <2>4. QED
    BY <1>2, <2>2, <2>3 DEF Abstract!SwitchFrom, Abstract!vars
<1>9. ASSUME NEW q \in Ready(i), j.current = q,
             \A t \in Slots \ {Idle, q} : j.pcb[t].state = Rested(i, t)
      PROVE  Abstract!SwitchFrom(st)
  <2>1. \A s \in Others : st2[s] = IF s \in {q} THEN "RUNNING" ELSE st[s]
    BY <1>4, <1>6, <1>9 DEF Others
  <2>2. st2 = Abstract!With(st, {q}, "RUNNING")
    BY <1>7, <2>1 DEF Abstract!With, Others
  <2>3. q \in Abstract!Are(st, "READY") /\ j.current = q
    BY <1>5, <1>9
  <2>4. QED
    BY <1>2, <2>2, <2>3 DEF Abstract!SwitchFrom, Abstract!vars
<1>10. QED
  BY <1>8, <1>9 DEF Passed

\* A step that ends in a switch is a yield, a block or an exit of ProcStates.
LEMMA ShownSwitch ==
    ASSUME NEW k, k = kernel, NEW i, NEW D, NEW N, Sound(i, D, N), NEW j, j = kernel', Passed(i, j)
    PROVE  /\ Base(i) = Abstract!With(Shown(k), {k.current}, "READY") => Abstract!Next
           /\ k.current # Idle /\ Base(i) = Abstract!With(Shown(k), {k.current}, "BLOCKED")
              => Abstract!Next
           /\ \A dead, woken \in SUBSET Others :
                 /\ k.current \in dead /\ woken \subseteq Abstract!Are(Shown(k), "BLOCKED") \ dead
                 /\ Base(i) = Abstract!With(Abstract!With(Shown(k), dead, "FREE"), woken, "READY")
                 => Abstract!Next
<1>1. PICK st, now : st = Base(i) /\ now = Shown(k)
  OBVIOUS
<1>2. Abstract!SwitchFrom(st)
  BY <1>1, ShownPassed
<1>3. /\ now = [s \in Slots \ {Idle} |->
                  IF s = Caller THEN "RUNNING"
                  ELSE IF s \in Alive(kernel) THEN kernel.pcb[s].state ELSE "FREE"]
      /\ k.current = Caller
  BY <1>1 DEF Shown, Caller, Alive, Others
<1>4. ASSUME st = Abstract!With(now, {k.current}, "READY")
      PROVE  Abstract!Next
  <2>1. st = Abstract!With([s \in Slots \ {Idle} |->
                              IF s = Caller THEN "RUNNING"
                              ELSE IF s \in Alive(kernel) THEN kernel.pcb[s].state ELSE "FREE"],
                           {Caller}, "READY")
    BY <1>3, <1>4
  <2>2. Abstract!Yield
    BY <1>2, <2>1 DEF Abstract!Yield, Abstract!SwitchFrom
  <2>3. QED
    BY <2>2 DEF Abstract!Next
<1>5. ASSUME k.current # Idle, st = Abstract!With(now, {k.current}, "BLOCKED")
      PROVE  Abstract!Next
  <2>1. st = Abstract!With([s \in Slots \ {Idle} |->
                              IF s = Caller THEN "RUNNING"
                              ELSE IF s \in Alive(kernel) THEN kernel.pcb[s].state ELSE "FREE"],
                           {Caller}, "BLOCKED")
    BY <1>3, <1>5
  <2>2. Abstract!BlockSelf
    BY <1>2, <1>3, <1>5, <2>1 DEF Abstract!BlockSelf, Abstract!SwitchFrom
  <2>3. QED
    BY <2>2 DEF Abstract!Next
<1>6. ASSUME NEW dead \in SUBSET Others, NEW woken \in SUBSET Others, k.current \in dead,
             woken \subseteq Abstract!Are(now, "BLOCKED") \ dead,
             st = Abstract!With(Abstract!With(now, dead, "FREE"), woken, "READY")
      PROVE  Abstract!Next
  <2>1. st = Abstract!With(Abstract!With(
                [s \in Slots \ {Idle} |->
                   IF s = Caller THEN "RUNNING"
                   ELSE IF s \in Alive(kernel) THEN kernel.pcb[s].state ELSE "FREE"],
                dead, "FREE"), woken, "READY")
    BY <1>3, <1>6
  <2>2. woken \subseteq Abstract!Are(
                [s \in Slots \ {Idle} |->
                   IF s = Caller THEN "RUNNING"
                   ELSE IF s \in Alive(kernel) THEN kernel.pcb[s].state ELSE "FREE"],
                "BLOCKED") \ dead
    BY <1>3, <1>6
  <2>3. Abstract!Exit(dead, woken)
    BY <1>2, <1>3, <1>6, <2>1, <2>2 DEF Abstract!Exit, Abstract!SwitchFrom
  <2>4. QED
    BY <2>3 DEF Abstract!Next, Others
<1>7. QED
  BY <1>1, <1>4, <1>5, <1>6

\* A step that blocks a ready process is one of ProcStates.
LEMMA ShownBlock ==
    ASSUME NEW k, k = kernel, NEW j, j = kernel', NEW p \in Others, Shown(k)[p] = "READY",
           j.current = k.current, Shown(j) = Abstract!With(Shown(k), {p}, "BLOCKED")
    PROVE  Abstract!Next
<1>1. PICK st, st2 : st = Shown(k) /\ st2 = Shown(j)
  OBVIOUS
<1>2. Abstract!vars = <<st, k.current>> /\ Abstract!vars' = <<st2, j.current>>
  BY <1>1, ShownIs
<1>3. st[p] = "READY" /\ st2 = Abstract!With(st, {p}, "BLOCKED")
  BY <1>1
<1>4. Abstract!BlockOther(p)
  BY <1>2, <1>3 DEF Abstract!BlockOther, Abstract!vars
<1>5. QED
  BY <1>4 DEF Abstract!Next, Others

\* A step that makes a ready process of a free slot is one of ProcStates.
LEMMA ShownCreate ==
    ASSUME NEW k, k = kernel, NEW j, j = kernel', NEW p \in Others, Shown(k)[p] = "FREE",
           j.current = k.current, Shown(j) = Abstract!With(Shown(k), {p}, "READY")
    PROVE  Abstract!Next
<1>1. PICK st, st2 : st = Shown(k) /\ st2 = Shown(j)
  OBVIOUS
<1>2. Abstract!vars = <<st, k.current>> /\ Abstract!vars' = <<st2, j.current>>
  BY <1>1, ShownIs
<1>3. st[p] = "FREE" /\ st2 = Abstract!With(st, {p}, "READY")
  BY <1>1
<1>4. Abstract!Create(p)
  BY <1>2, <1>3 DEF Abstract!Create, Abstract!vars
<1>5. QED
  BY <1>4 DEF Abstract!Next, Others

\* Deaths that leave the current process where it is, and wake-ups.
LEMMA FlowShown ==
    ASSUME NEW k, k = kernel, NEW j, j = kernel', NEW d, Flow(k, j, d), k.current \notin d
    PROVE  Abstract!Next
<1>1. PICK dead, woken : /\ dead = (Alive(k) \cap d) \ {Idle}
                         /\ woken = {s \in Alive(j) \ {Idle, k.current} :
                                       k.pcb[s].state = "BLOCKED" /\ j.pcb[s].state = "READY"}
  OBVIOUS
<1>2. /\ Alive(j) = Alive(k) \ d /\ j.current = k.current
      /\ \A s \in Alive(j) : \/ j.pcb[s].state = k.pcb[s].state
                             \/ k.pcb[s].state = "BLOCKED" /\ j.pcb[s].state = "READY"
  BY DEF Flow
<1>3. dead \in SUBSET Others /\ woken \in SUBSET Others
  BY <1>1 DEF Others, Alive
<1>4. /\ \A s \in Others : Shown(k)[s] = IF s = k.current THEN "RUNNING"
                                         ELSE IF s \in Alive(k) THEN k.pcb[s].state ELSE "FREE"
      /\ \A s \in Others : Shown(j)[s] = IF s = j.current THEN "RUNNING"
                                         ELSE IF s \in Alive(j) THEN j.pcb[s].state ELSE "FREE"
  BY DEF Shown
<1>5. ASSUME NEW s \in woken
      PROVE  s \notin dead /\ Shown(k)[s] = "BLOCKED"
  BY <1>1, <1>2, <1>3, <1>4
<1>6. ASSUME NEW s \in Others
      PROVE  Shown(j)[s] = IF s \in woken THEN "READY" ELSE IF s \in dead THEN "FREE" ELSE Shown(k)[s]
  BY <1>1, <1>2, <1>4 DEF Others
<1>7. k.current \notin dead
  BY <1>1
<1>8. j.current = k.current
  BY <1>2
<1>9. /\ \A s \in woken : s \notin dead /\ Shown(k)[s] = "BLOCKED"
      /\ \A s \in Others : Shown(j)[s] = IF s \in woken THEN "READY"
                                         ELSE IF s \in dead THEN "FREE" ELSE Shown(k)[s]
  BY <1>5, <1>6
<1>10. QED
  BY <1>3, <1>7, <1>8, <1>9, ShownKill

\* A step that changes the state of no process, but maybe of the current one.
LEMMA StillShown ==
    ASSUME NEW k, k = kernel, NEW j, j = kernel', j.current = k.current,
           \A s \in Slots : s # k.current =>
              /\ s \in Alive(j) <=> s \in Alive(k)
              /\ s \in Alive(k) => j.pcb[s].state = k.pcb[s].state
    PROVE  Abstract!Next
<1>1. \A s \in Others : Shown(j)[s] = Shown(k)[s]
  BY DEF Shown, Others
<1>2. PICK none : none = {}
  OBVIOUS
<1>3. /\ none \in SUBSET Others /\ k.current \notin none
      /\ \A s \in none : s \notin none /\ Shown(k)[s] = "BLOCKED"
      /\ \A s \in Others : Shown(j)[s] = IF s \in none THEN "READY"
                                         ELSE IF s \in none THEN "FREE" ELSE Shown(k)[s]
  BY <1>1, <1>2
<1>4. QED
  BY <1>3, ShownKill

\* The death of the current process.
LEMMA ExitShown ==
    ASSUME NEW k, k = kernel, NEW i, NEW d, Flow(k, i, d), k.current \in d, k.current \in Others,
           NEW N, Sound(i, {}, N), NEW j, j = kernel', Passed(i, j)
    PROVE  Abstract!Next
<1>1. PICK dead, woken : /\ dead = ((Alive(k) \cap d) \cup {k.current}) \ {Idle}
                         /\ woken = {s \in Alive(i) \ {Idle} :
                                       k.pcb[s].state = "BLOCKED" /\ i.pcb[s].state = "READY"}
  OBVIOUS
<1>2. /\ Alive(i) = Alive(k) \ d /\ i.current = k.current
      /\ \A s \in Alive(i) : \/ i.pcb[s].state = k.pcb[s].state
                             \/ k.pcb[s].state = "BLOCKED" /\ i.pcb[s].state = "READY"
  BY DEF Flow
<1>3. dead \in SUBSET Others /\ woken \in SUBSET Others
  BY <1>1 DEF Others, Alive
<1>4. PICK now : now = Shown(k)
  OBVIOUS
<1>5. \A s \in Others : now[s] = IF s = k.current THEN "RUNNING"
                                 ELSE IF s \in Alive(k) THEN k.pcb[s].state ELSE "FREE"
  BY <1>4 DEF Shown
<1>6. \A s \in Alive(i) : s # Idle => Rested(i, s) = i.pcb[s].state
  <2>1. OnCpu(i.pcb, i.current)
    BY DEF Sound, Core
  <2>2. \A s \in Alive(i) : s # Idle => i.pcb[s].state # "RUNNING"
    BY <1>2, <2>1 DEF OnCpu, Alive
  <2>3. QED
    BY <2>2 DEF Rested
<1>7. woken \subseteq Abstract!Are(now, "BLOCKED") \ dead
  BY <1>1, <1>2, <1>3, <1>5 DEF Abstract!Are, Others
<1>8. ASSUME NEW s \in Others
      PROVE  Base(i)[s] = IF s \in woken THEN "READY" ELSE IF s \in dead THEN "FREE" ELSE now[s]
  <2>1. Base(i)[s] = IF s \in Alive(i) THEN i.pcb[s].state ELSE "FREE"
    BY <1>6 DEF Base, Others
  <2>2. s # Idle
    BY DEF Others
  <2>3. CASE s \in Alive(i)
    <3>1. s \in Alive(k) /\ s \notin dead /\ s # k.current
      BY <1>1, <1>2, <2>3
    <3>2. now[s] = k.pcb[s].state
      BY <1>5, <3>1
    <3>3. QED
      BY <1>1, <1>2, <2>1, <2>2, <2>3, <3>1, <3>2
  <2>4. CASE s \notin Alive(i)
    <3>1. s \notin woken
      BY <1>1, <2>4
    <3>2. s \in dead \/ now[s] = "FREE"
      BY <1>1, <1>2, <1>5, <2>2, <2>4
    <3>3. QED
      BY <2>1, <2>4, <3>1, <3>2
  <2>5. QED
    BY <2>3, <2>4
<1>9. Base(i) = Abstract!With(Abstract!With(now, dead, "FREE"), woken, "READY")
  <2>1. Base(i) = [s \in Others |-> Base(i)[s]]
    BY DEF Base
  <2>2. QED
    BY <1>8, <2>1 DEF Abstract!With, Others
<1>10. k.current \in dead
  BY <1>1 DEF Others
<1>11. QED
  BY <1>3, <1>4, <1>7, <1>9, <1>10, ShownSwitch

-----------------------------------------------------------------------------
(* Each step keeps the waiting and the terminal in order, and is one of ProcStates *)

\* What the handlers may choose: if malloc fails, and who is woken.
LEMMA GivenFacts ==
    ASSUME Good(kernel), NEW nomem \in NoMem, NEW woken \in SUBSET Sleepers(kernel),
           NEW k, k = collect_zombies(kernel)
    PROVE  Given(kernel, nomem, woken) /\ Given(k, nomem, woken)
<1>1. nomem => "malloc_fails" \in kernel.may
  BY DEF NoMem
<1>2. \A t \in woken : /\ t \in Slots /\ t \in Alive(kernel)
                       /\ kernel.pcb[t].at = "user" \/ "unblock_waiter" \in kernel.may
  BY DEF Sleepers, InState, Alive
<1>3. /\ \A t \in Alive(kernel) : k.pcb[t] = kernel.pcb[t]
      /\ k.may = kernel.may
  BY CollectOnward, CollectGood DEF CpuSame
<1>4. QED
  BY <1>1, <1>2, <1>3 DEF Given

\* The current process ends, after collect_zombies.
LEMMA ExitOnward ==
    ASSUME NEW g, g = kernel, Good(g), NEW k, k = collect_zombies(g), k.current # Idle,
           NEW f, Kin(k, f), Relit(k, f),
           "nested_fg" \notin k.may /\ Ruled(k, Alive(k)) =>
              k.current \in Alive(k) /\ f = exit_foreground(k, k.current),
           NEW nomem, NEW woken, Given(k, nomem, woken),
           SwitchFrom(bury(retire(f, k.current), k.current, nomem, woken))
    PROVE  Onward(g, kernel') /\ Abstract!Next
<1>1. PICK s, D, d, i, j : /\ s = k.current /\ D = Exiting(k) /\ d = k.pcb[k.current].kids \cup {k.current}
                           /\ i = bury(retire(f, s), s, nomem, woken) /\ j = kernel'
  OBVIOUS
<1>2. Good(k) /\ CpuSame(g, k)
  BY CollectGood
<1>3. /\ k \in Kernel /\ Sound(k, D, {}) /\ s \in Slots \ k.zombies /\ k.current \notin k.zombies
      /\ k.pcb[s].used /\ s # Idle
  BY <1>1, <1>2, GoodFacts
<1>4. k.current \notin k.pcb[s].kids
  BY <1>1, <1>3, NoCycles, KernelFacts DEF Sound, Core
<1>5. Sound(i, D \ {s}, {}) /\ i.may = k.may
  BY <1>1, <1>3, <1>4, DeathSound
<1>6. Sound(i, {}, {})
  <2>1. D \ {s} = {}
    BY <1>1 DEF Exiting
  <2>2. QED
    BY <1>5, <2>1
<1>7. Passed(i, j)
  <2>1. SwitchFrom(i)
    BY <1>1
  <2>2. QED
    BY <1>1, <1>6, <2>1, SwitchOn
<1>8. Onward(k, i) /\ Flow(k, i, k.pcb[s].kids \cup {s})
  <2>1. "nested_fg" \notin k.may /\ Ruled(k, Alive(k)) => s \in Alive(k) /\ f = exit_foreground(k, s)
    BY <1>1
  <2>2. QED
    BY <1>1, <1>3, <1>4, <2>1, DeathOnward
<1>9. Onward(g, k) /\ Flow(g, k, {}) /\ k.may = g.may /\ k.current = g.current
  BY <1>2, CollectOnward DEF CpuSame
<1>10. Onward(i, j)
  BY <1>6, <1>7, PassedOnward
<1>11. Onward(g, j)
  <2>1. Onward(g, i) /\ i.may = g.may
    BY <1>5, <1>8, <1>9, OnwardTrans
  <2>2. QED
    BY <1>10, <2>1, OnwardTrans
<1>12. Flow(g, i, {} \cup d)
  BY <1>1, <1>8, <1>9, FlowTrans
<1>13. g.current \in {} \cup d /\ g.current \in Others
  BY <1>1, <1>3, <1>9 DEF Others
<1>14. Abstract!Next
  BY <1>1, <1>6, <1>7, <1>12, <1>13, ExitShown
<1>15. QED
  BY <1>1, <1>11, <1>14

\* Another process ends, between two calls of collect_zombies.
LEMMA OtherOnward ==
    ASSUME NEW g, g = kernel, Good(g), NEW k, k = collect_zombies(g), NEW s \in Slots \ k.zombies,
           s # Idle, k.pcb[s].used, s # k.current, k.current \notin k.pcb[s].kids,
           NEW f, Kin(k, f), Relit(k, f),
           "nested_fg" \notin k.may /\ Ruled(k, Alive(k)) => s \in Alive(k) /\ f = exit_foreground(k, s),
           NEW nomem, NEW woken, Given(k, nomem, woken),
           kernel' = collect_zombies(bury(retire(f, s), s, nomem, woken))
    PROVE  Onward(g, kernel') /\ Abstract!Next
<1>1. PICK D, i, j : /\ D = Exiting(k)
                     /\ i = bury(retire(f, s), s, nomem, woken) /\ j = kernel'
  OBVIOUS
<1>2. Good(k) /\ CpuSame(g, k)
  BY CollectGood
<1>3. Sound(k, D, {}) /\ k.current \notin k.zombies
  BY <1>1, <1>2, GoodFacts
<1>4. Sound(i, D \ {s}, {}) /\ i.may = k.may /\ CpuSame(k, i)
  BY <1>1, <1>3, DeathSound
<1>5. Good(i)
  <2>1. D \ {s} = D
    BY <1>1 DEF Exiting
  <2>2. QED
    BY <1>1, <1>2, <1>4, <2>1, KeepsGood
<1>6. Onward(k, i) /\ Flow(k, i, k.pcb[s].kids \cup {s})
  BY <1>1, <1>3, DeathOnward
<1>7. Onward(g, k) /\ Flow(g, k, {}) /\ k.may = g.may /\ k.current = g.current
  BY <1>2, CollectOnward DEF CpuSame
<1>8. Onward(i, j) /\ Flow(i, j, {})
  BY <1>1, <1>5, CollectOnward
<1>9. Onward(g, j)
  <2>1. Onward(g, i) /\ i.may = g.may
    BY <1>4, <1>6, <1>7, OnwardTrans
  <2>2. QED
    BY <1>8, <2>1, OnwardTrans
<1>10. PICK d, none : d = k.pcb[s].kids \cup {s} /\ none = {}
  OBVIOUS
<1>11. Flow(g, j, (none \cup d) \cup none)
  <2>1. Flow(g, k, none) /\ Flow(k, i, d) /\ Flow(i, j, none)
    BY <1>6, <1>7, <1>8, <1>10
  <2>2. Flow(g, i, none \cup d)
    BY <2>1, FlowTrans
  <2>3. QED
    BY <2>1, <2>2, FlowTrans
<1>12. g.current \notin (none \cup d) \cup none
  BY <1>7, <1>10
<1>13. Abstract!Next
  BY <1>1, <1>11, <1>12, FlowShown
<1>14. QED
  BY <1>1, <1>9, <1>13

\* The common part of proc_kill and Ctrl+C is a step of ProcStates.
LEMMA KillOnward ==
    ASSUME NEW g, g = kernel, Good(g), NEW k, k = collect_zombies(g), NEW s \in Slots, s # Idle,
           k.pcb[s].used, k.current \notin k.pcb[s].kids,
           "nested_fg" \notin k.may /\ Ruled(k, Alive(k)) => s \in Alive(k),
           NEW nomem, NEW woken, Given(k, nomem, woken), Kill(k, s, nomem, woken)
    PROVE  Onward(g, kernel') /\ Abstract!Next
<1>1. PICK t, f, D : t = kill_foreground(k, s) /\ f = exit_foreground(t, s) /\ D = Exiting(k)
  OBVIOUS
<1>2. Good(k) /\ k.zombies = {}
  BY CollectGood
<1>3. k \in Kernel /\ Sound(k, D, {})
  BY <1>1, <1>2, GoodFacts
<1>4. Kin(k, t) /\ Relit(k, t)
  BY <1>1, <1>3, KillForegroundKin, KillForegroundOn
<1>5. Good(t) /\ t \in Kernel
  BY <1>2, <1>4, KinGood, GoodFacts
<1>6. Kin(t, f) /\ Relit(t, f)
  BY <1>1, <1>5, ExitForegroundKin, ExitForegroundOn
<1>7. ASSUME "nested_fg" \notin k.may, Ruled(k, Alive(k))
      PROVE  s \in Alive(k) /\ t = exit_foreground(k, s) /\ f = exit_foreground(k, s)
  <2>1. s \in Alive(k)
    BY <1>7
  <2>2. t = exit_foreground(k, s)
    BY <1>1, <1>3, <1>7, <2>1, HandOver
  <2>3. ~t.pcb[s].fg
    BY <1>3, <1>7, <2>1, <2>2, HandedOver
  <2>4. f = t
    BY <1>1, <2>3 DEF exit_foreground
  <2>5. QED
    BY <2>1, <2>2, <2>4
<1>8. CASE s = k.current
  <2>1. Kin(k, f) /\ Relit(k, f)
    <3>1. Relit(k, f)
      BY <1>4, <1>6, RelitTrans
    <3>2. Kin(k, f)
      <4>1. \A x \in Slots : SameLife(k.pcb[x], t.pcb[x]) /\ SameLife(t.pcb[x], f.pcb[x])
        BY <1>4, <1>6 DEF Kin
      <4>2. \A x \in Slots : SameLife(k.pcb[x], f.pcb[x])
        BY <4>1, SameLifeTrans
      <4>3. \A x \in Slots : ~k.pcb[x].used => t.pcb[x] = k.pcb[x] /\ f.pcb[x] = t.pcb[x]
        BY <1>4, <1>6, <4>1 DEF Kin
      <4>4. QED
        BY <1>4, <1>6, <4>2, <4>3 DEF Kin
    <3>3. QED
      BY <3>1, <3>2
  <2>2. SwitchFrom(bury(retire(f, k.current), k.current, nomem, woken))
    BY <1>1, <1>8 DEF Kill, exit
  <2>3. k.current # Idle
    BY <1>8
  <2>4. "nested_fg" \notin k.may /\ Ruled(k, Alive(k)) =>
           k.current \in Alive(k) /\ f = exit_foreground(k, k.current)
    BY <1>7, <1>8
  <2>5. QED
    BY <2>1, <2>2, <2>3, <2>4, ExitOnward
<1>9. CASE s # k.current
  <2>1. kernel' = collect_zombies(bury(retire(t, s), s, nomem, woken))
    BY <1>1, <1>9 DEF Kill
  <2>2. s \in Slots \ k.zombies
    BY <1>2
  <2>3. "nested_fg" \notin k.may /\ Ruled(k, Alive(k)) => s \in Alive(k) /\ t = exit_foreground(k, s)
    BY <1>7
  <2>4. QED
    BY <1>4, <1>9, <2>1, <2>2, <2>3, OtherOnward
<1>10. QED
  BY <1>8, <1>9

\* The system call exit is an exit of ProcStates.
LEMMA SysExitOnward ==
    ASSUME Good(kernel), NEW nomem \in NoMem, NEW woken \in SUBSET Sleepers(kernel),
           proc_exit(nomem, woken)
    PROVE  Onward(kernel, kernel') /\ Abstract!Next
<1>1. PICK g, k, f : g = kernel /\ k = collect_zombies(g) /\ f = exit_foreground(k, k.current)
  OBVIOUS
<1>2. Good(g) /\ Good(k) /\ CpuSame(g, k) /\ Given(k, nomem, woken)
  BY <1>1, CollectGood, GivenFacts
<1>3. g.current = k.current /\ k.current # Idle /\ k.pcb[k.current].at # "exit"
  BY <1>1, <1>2 DEF CpuSame, proc_exit, InUserland, Caller
<1>4. k \in Kernel /\ k.current \in Slots /\ k.pcb[k.current].used
  BY <1>2, GoodFacts
<1>5. Kin(k, f) /\ Relit(k, f)
  BY <1>1, <1>4, ExitForegroundKin, ExitForegroundOn
<1>6. k.current \in Alive(k)
  <2>1. k.pcb[k.current].state = "RUNNING"
    BY <1>2, <1>3, UserFacts
  <2>2. QED
    BY <1>4, <2>1 DEF Alive
<1>7. SwitchFrom(bury(retire(f, k.current), k.current, nomem, woken))
  BY <1>1, <1>3 DEF proc_exit, exit, Caller
<1>8. QED
  BY <1>1, <1>2, <1>3, <1>5, <1>6, <1>7, ExitOnward

\* The system call kill is a step of ProcStates.
LEMMA SysKillOnward ==
    ASSUME Good(kernel), Orderly, NEW pid, NEW nomem \in NoMem, NEW woken \in SUBSET Sleepers(kernel),
           proc_kill(pid, nomem, woken)
    PROVE  Onward(kernel, kernel') /\ Abstract!Next
<1>1. PICK g, k, s : g = kernel /\ k = collect_zombies(g) /\ s = proc_by_pid(k, pid)
  OBVIOUS
<1>2. Good(g) /\ Good(k) /\ CpuSame(g, k) /\ k.zombies = {} /\ Given(k, nomem, woken)
  BY <1>1, CollectGood, GivenFacts
<1>3. Having(k, pid) \ {Idle} # {} /\ Kill(k, s, nomem, woken)
  BY <1>1 DEF proc_kill
<1>4. s \in Slots /\ s # Idle /\ k.pcb[s].used
  BY <1>1, <1>2, <1>3, Addressed, GoodFacts
<1>5. k.current \notin k.pcb[s].kids
  BY <1>1 DEF proc_kill, TakesCurrent, Orderly
<1>6. s \in Alive(k)
  <2>1. k.current # Idle /\ k.pcb[k.current].at # "exit"
    BY <1>1, <1>2 DEF CpuSame, proc_kill, InUserland, Caller
  <2>2. Dead(k.pcb, k.zombies, {})
    BY <1>2, <2>1, UserFacts DEF Sound, Core
  <2>3. QED
    BY <1>2, <1>4, <2>2 DEF Dead, Alive
<1>7. QED
  BY <1>1, <1>2, <1>3, <1>4, <1>5, <1>6, KillOnward

\* Ctrl+C is a step of ProcStates.
LEMMA CtrlCOnward ==
    ASSUME Good(kernel), Orderly, NEW nomem \in NoMem, NEW woken \in SUBSET Sleepers(kernel),
           CtrlC(nomem, woken)
    PROVE  Onward(kernel, kernel') /\ Abstract!Next
<1>1. PICK pid : pid = ForegroundPid(kernel)
  OBVIOUS
<1>2. PICK g, k, s : g = kernel /\ k = collect_zombies(g) /\ s = proc_by_pid(k, pid)
  OBVIOUS
<1>3. Good(g) /\ Good(k) /\ CpuSame(g, k) /\ Given(k, nomem, woken) /\ Collected(g, k)
  BY <1>2, CollectGood, GivenFacts
<1>4. Having(k, pid) \ {Idle} # {} /\ Kill(k, s, nomem, woken)
  BY <1>1, <1>2 DEF CtrlC
<1>5. s \in Slots /\ s # Idle /\ k.pcb[s].used /\ \A t \in Having(k, pid) : t = s
  BY <1>2, <1>3, <1>4, Addressed, GoodFacts
<1>6. k.current \notin k.pcb[s].kids
  BY <1>1, <1>2 DEF CtrlC, TakesCurrent, Orderly
<1>7. ASSUME Ruled(k, Alive(k))
      PROVE  s \in Alive(k)
  <2>1. PICK q \in Alive(k) : k.pcb[q].pid = k.fg_pid
    BY <1>7 DEF Ruled
  <2>2. k.pcb[q].pid \in Nat \ {0} /\ q \in Slots /\ k.pcb[q].used
    BY <1>3, <2>1, GoodFacts, LifeFacts DEF Alive
  <2>3. k.fg_pid = g.fg_pid
    BY <1>3 DEF Collected
  <2>4. pid = k.fg_pid
    BY <1>1, <1>2, <2>1, <2>2, <2>3 DEF ForegroundPid
  <2>5. q \in Having(k, pid)
    BY <2>1, <2>2, <2>4 DEF Having
  <2>6. QED
    BY <1>5, <2>1, <2>5
<1>8. QED
  BY <1>2, <1>3, <1>4, <1>5, <1>6, <1>7, KillOnward

\* The rest of the proc_exit of trampoline is an exit of ProcStates.
LEMMA TrampolineExitOnward ==
    ASSUME Good(kernel), NEW nomem \in NoMem, NEW woken \in SUBSET Sleepers(kernel),
           TrampolineExit(nomem, woken)
    PROVE  Onward(kernel, kernel') /\ Abstract!Next
<1>1. PICK k, c, D, i, j : /\ k = kernel /\ c = kernel.current /\ D = Exiting(kernel)
                           /\ i = bury(k, c, nomem, woken) /\ j = kernel'
  OBVIOUS
<1>2. D = {c} /\ c \in D /\ c = k.current
  BY <1>1 DEF TrampolineExit, Caller, Exiting
<1>3. k \in Kernel /\ Sound(k, D, {}) /\ c \in Slots \ k.zombies /\ k.pcb[c].used
  BY <1>1, GoodFacts
<1>4. c \notin k.pcb[c].kids
  BY <1>3, NoCycles, KernelFacts DEF Sound, Core
<1>5. k.current \notin k.zombies /\ k.current \notin k.pcb[c].kids
  BY <1>2, <1>3, <1>4
<1>6. Sound(i, D \ {c}, {}) /\ D \ {c} = {}
  BY <1>1, <1>2, <1>3, <1>5, BurySound
<1>7. Sound(i, {}, {}) /\ Passed(i, j)
  <2>1. Sound(i, {}, {})
    BY <1>6
  <2>2. SwitchFrom(i)
    BY <1>1 DEF TrampolineExit, Caller
  <2>3. QED
    BY <1>1, <2>1, <2>2, SwitchOn
<1>8. PICK dead, d : dead = k.pcb[c].kids \cap Alive(k) /\ d = dead \cup {c}
  OBVIOUS
<1>9. Flow(k, i, d) /\ Kept(k, i, d) /\ i.may = k.may /\ GoOn(k, i, nomem, woken)
  BY <1>1, <1>2, <1>3, <1>5, <1>8, BuryOn
<1>10. c # Idle /\ c \notin Alive(k)
  <2>1. k.pcb[Idle].at = "user" /\ k.pcb[c].state = "EXITED"
    BY <1>2, <1>3 DEF Sound, Core, OnCpu, Dead
  <2>2. k.pcb[c].at = "exit"
    BY <1>1 DEF TrampolineExit, Caller
  <2>3. QED
    BY <2>1, <2>2 DEF Alive
<1>11. "unblock_waiter" \notin k.may /\ Waits(k) => Waits(i)
  BY <1>1, <1>9, GivenFacts DEF GoOn, Given
<1>12. ASSUME Ruled(k, Alive(k))
       PROVE  Ruled(i, Alive(i))
  <2>1. PICK A, n : A = Alive(k) /\ n = k.next_pid
    OBVIOUS
  <2>2. /\ Idle \in A /\ k.pcb[Idle].pid = IdlePid /\ Numbered(k.pcb, n)
        /\ \A t \in A : t \in Slots
        /\ \A s, t \in Slots : k.pcb[s].used /\ t \in k.pcb[s].kids => k.pcb[t].parent_pid = k.pcb[s].pid
        /\ \A s \in A : k.pcb[s].parent_pid < k.pcb[s].pid /\ k.pcb[s].parent_pid \in Int
    BY <1>3, <2>1, LifeFacts
  <2>3. \A q \in d \cap Alive(k) : ~k.pcb[q].fg
    <3> SUFFICES ASSUME NEW q \in d \cap Alive(k) PROVE ~k.pcb[q].fg
      OBVIOUS
    <3>1. q \in k.pcb[c].kids \cap Alive(k)
      BY <1>8, <1>10
    <3>2. c \in Slots /\ (c \in Alive(k) => ~k.pcb[c].fg)
      BY <1>3, <1>10
    <3>3. QED
      BY <1>3, <1>10, <1>12, <3>1, <3>2, KidsUnmarked
  <2>4. Idle \notin d
    <3>1. Idle \in k.pcb[c].kids => k.pcb[Idle].parent_pid = k.pcb[c].pid
      BY <1>3, <2>1, <2>2, SlotFacts
    <3>2. k.pcb[c].pid \in Nat \ {0}
      <4>1. k.next_pid \in Nat
        BY <1>3, KernelFacts
      <4>2. QED
        BY <1>3, <2>1, <2>2, <4>1 DEF Numbered
    <3>3. QED
      BY <1>8, <1>10, <2>2, <3>1, <3>2, SlotFacts
  <2>5. Alive(i) = A \ d /\ A \subseteq Alive(k) /\ Idle \in Alive(k) /\ Ruled(k, A)
    BY <1>9, <1>12, <2>1, <2>2 DEF Flow
  <2>6. QED
    BY <1>9, <2>2, <2>3, <2>4, <2>5, KeptRuled
<1>13. Onward(k, i) /\ Onward(i, j)
  BY <1>7, <1>11, <1>12, PassedOnward DEF Onward
<1>14. Onward(k, j)
  BY <1>9, <1>13, OnwardTrans
<1>15. k.current \in d /\ k.current \in Others
  BY <1>2, <1>3, <1>8, <1>10 DEF Others
<1>16. Abstract!Next
  BY <1>1, <1>7, <1>9, <1>15, ExitShown
<1>17. QED
  BY <1>1, <1>14, <1>16

\* A process whose entry function returns becomes EXITED: ProcStates still sees it run.
LEMMA EntryReturnsOnward ==
    ASSUME Good(kernel), EntryReturns
    PROVE  Onward(kernel, kernel') /\ Abstract!Next
<1>1. PICK g, k, c, f, r, j : /\ g = kernel /\ k = collect_zombies(g) /\ c = g.current
                              /\ f = exit_foreground(k, c) /\ r = retire(f, c) /\ j = kernel'
  OBVIOUS
<1>2. Good(g) /\ Good(k) /\ CpuSame(g, k)
  BY <1>1, CollectGood
<1>3. c = k.current /\ k.may = g.may /\ c # Idle /\ k.pcb[c].at = "user"
  BY <1>1, <1>2 DEF CpuSame, EntryReturns, InUserland, Caller
<1>4. Sound(k, {}, {}) /\ k.pcb[c].state = "RUNNING"
  BY <1>2, <1>3, UserFacts
<1>5. k \in Kernel /\ c \in Slots /\ k.pcb[c].used
  BY <1>2, <1>3, GoodFacts
<1>6. Kin(k, f) /\ Relit(k, f)
  BY <1>1, <1>5, ExitForegroundKin, ExitForegroundOn
<1>7. Sound(f, {}, {}) /\ f \in Kernel /\ f.next_pid = k.next_pid
  BY <1>4, <1>6, KinSound DEF Kin
<1>8. Retired(f, r, c) /\ Flow(f, r, {c}) /\ Kept(f, r, {c}) /\ Calm(f, r)
  BY <1>1, <1>5, <1>7, RetireFacts, RetireOn
<1>9. r \in Kernel /\ r.pcb[c] \in Pcb
  BY <1>5, <1>8, KernelFacts DEF Retired
<1>10. PICK new : new = Leaving(r.pcb[c])
  OBVIOUS
<1>11. j = Put(r, c, new)
  BY <1>1, <1>10 DEF EntryReturns, Caller, Leaving
<1>12. new \in Pcb /\ new.state = "EXITED" /\ new.pid = r.pcb[c].pid
  BY <1>8, <1>9, <1>10, LeavingMade DEF Retired, Restated
<1>13. /\ j.current = r.current /\ j.may = r.may /\ j.fg_pid = r.fg_pid
       /\ j.pcb[c] = new /\ \A t \in Slots : t # c => j.pcb[t] = r.pcb[t]
  BY <1>5, <1>9, <1>11, <1>12, PutFacts DEF Put
<1>14. Flow(r, j, {c}) /\ Kept(r, j, {c}) /\ Calm(r, j)
  BY <1>5, <1>9, <1>12, <1>13, DeadOn
<1>15. Flow(k, f, {}) /\ Calm(k, f)
  BY <1>5, <1>6, RelitOn
<1>16. PICK d : d = {c}
  OBVIOUS
<1>17. Flow(k, j, d) /\ Kept(f, j, d) /\ Calm(k, j)
  <2>1. Flow(k, j, ({} \cup {c}) \cup {c})
    <3>1. Flow(k, r, {} \cup {c})
      BY <1>8, <1>15, FlowTrans
    <3>2. QED
      BY <1>14, <3>1, FlowTrans
  <2>2. Kept(f, j, {c} \cup {c})
    BY <1>8, <1>14, KeptTrans
  <2>3. Calm(k, j)
    <3>1. Calm(k, r)
      BY <1>8, <1>15, CalmTrans
    <3>2. QED
      BY <1>14, <3>1, CalmTrans
  <2>4. ({} \cup {c}) \cup {c} = d /\ {c} \cup {c} = d
    BY <1>16
  <2>5. QED
    BY <2>1, <2>2, <2>3, <2>4
<1>18. c \in Alive(k)
  BY <1>4, <1>5 DEF Alive
<1>19. ASSUME Ruled(k, Alive(k))
       PROVE  Ruled(j, Alive(j))
  <2>1. Alive(j) = Alive(k) \ d /\ d \subseteq k.pcb[c].kids \cup {c} /\ c \in d
    BY <1>16, <1>17 DEF Flow
  <2>2. Numbered(f.pcb, k.next_pid)
    BY <1>7, LifeFacts
  <2>3. QED
    BY <1>1, <1>3, <1>4, <1>17, <1>18, <1>19, <2>1, <2>2, DeathRuled
<1>20. Onward(k, j)
  BY <1>17, <1>19, CalmWaits DEF Onward
<1>21. Onward(g, k) /\ Alive(k) = Alive(g) /\ \A t \in Alive(g) : k.pcb[t] = g.pcb[t]
  BY <1>1, <1>2, CollectOnward
<1>22. Onward(g, j)
  BY <1>3, <1>20, <1>21, OnwardTrans
<1>23. Abstract!Next
  <2>1. j.current = g.current /\ Alive(j) = Alive(k) \ {c}
    BY <1>1, <1>3, <1>16, <1>17 DEF Flow
  <2>2. \A s \in Alive(k) : s # c => j.pcb[s].state = k.pcb[s].state
    <3>1. \A s \in Slots : s # c => j.pcb[s] = r.pcb[s] /\ r.pcb[s] = f.pcb[s]
      BY <1>8, <1>13 DEF Retired
    <3>2. \A s \in Slots : f.pcb[s].state = k.pcb[s].state
      BY <1>6 DEF Relit, SameButFg
    <3>3. QED
      BY <3>1, <3>2 DEF Alive
  <2>3. \A s \in Slots : s # g.current =>
           /\ s \in Alive(j) <=> s \in Alive(g)
           /\ s \in Alive(g) => j.pcb[s].state = g.pcb[s].state
    BY <1>1, <1>21, <2>1, <2>2
  <2>4. QED
    BY <1>1, <2>1, <2>3, StillShown
<1>24. QED
  BY <1>1, <1>22, <1>23

\* A call that only collects zombies is a step of ProcStates in which nobody ends.
LEMMA SnapshotOnward ==
    ASSUME NEW g, g = kernel, Good(g), kernel' = collect_zombies(g)
    PROVE  Onward(g, kernel') /\ Abstract!Next
<1>1. PICK j, none : j = kernel' /\ none = {}
  OBVIOUS
<1>2. Onward(g, j) /\ Flow(g, j, none)
  BY <1>1, CollectOnward
<1>3. g.current \notin none
  BY <1>1
<1>4. Abstract!Next
  BY <1>1, <1>2, <1>3, FlowShown
<1>5. QED
  BY <1>1, <1>2, <1>4

\* proc_unblock is a wake-up of ProcStates.
LEMMA UnblockOnward ==
    ASSUME Good(kernel), NEW s \in Slots, proc_unblock(s)
    PROVE  Onward(kernel, kernel') /\ Abstract!Next
<1>1. PICK k, j, S, none : k = kernel /\ j = kernel' /\ S = {s} /\ none = {}
  OBVIOUS
<1>2. k \in Kernel /\ Sound(k, Exiting(k), {}) /\ k.current \notin k.zombies /\ Good(k)
  BY <1>1, GoodFacts
<1>3. j = unblock(k, S) /\ s \in Sleepers(k)
  BY <1>1 DEF proc_unblock
<1>4. /\ Flow(k, j, none) /\ Kept(k, j, none)
      /\ (\A t \in S \cap InState(k, "BLOCKED") : k.pcb[t].waiting_for = 0) => Calm(k, j)
  BY <1>1, <1>2, <1>3, UnblockOn
<1>5. Alive(j) = Alive(k)
  BY <1>1, <1>4 DEF Flow
<1>6. ASSUME "unblock_waiter" \notin k.may, Waits(k)
      PROVE  Waits(j)
  <2>1. s \in Alive(k) /\ k.pcb[s].at = "user"
    BY <1>1, <1>3, <1>6 DEF Sleepers, InState, Alive
  <2>2. Waiter(k, s)
    BY <1>6, <2>1 DEF Waits
  <2>3. k.pcb[s].waiting_for = 0
    BY <2>1, <2>2 DEF Waiter
  <2>4. Calm(k, j)
    BY <1>1, <1>4, <2>3
  <2>5. QED
    BY <1>6, <2>4, CalmWaits
<1>7. ASSUME Ruled(k, Alive(k))
      PROVE  Ruled(j, Alive(j))
  <2>1. PICK A, n : A = Alive(k) /\ n = k.next_pid
    OBVIOUS
  <2>2. Numbered(k.pcb, n) /\ Idle \in Alive(k) /\ k.pcb[Idle].pid = IdlePid
    BY <1>2, <2>1, LifeFacts
  <2>3. /\ Ruled(k, A) /\ A \subseteq Alive(k) /\ Alive(j) = A \ none
        /\ \A q \in none \cap Alive(k) : ~k.pcb[q].fg
        /\ Idle \notin none
    BY <1>1, <1>5, <1>7, <2>1
  <2>4. QED
    BY <1>4, <2>2, <2>3, KeptRuled
<1>8. Onward(k, j)
  BY <1>6, <1>7 DEF Onward
<1>9. k.current \notin none
  BY <1>1
<1>10. Abstract!Next
  BY <1>1, <1>4, <1>9, FlowShown
<1>11. QED
  BY <1>1, <1>8, <1>10

\* The timer tick is a yield of ProcStates.
LEMMA TickOnward ==
    ASSUME Good(kernel), Orderly, Tick
    PROVE  Onward(kernel, kernel') /\ Abstract!Next
<1>1. PICK k, j : k = kernel /\ j = kernel'
  OBVIOUS
<1>2. k.pcb[k.current].at # "exit"
  BY <1>1 DEF Tick, Orderly, Caller
<1>3. Exiting(k) = {}
  BY <1>2 DEF Exiting
<1>4. Sound(k, {}, {}) /\ SwitchFrom(k) /\ Good(k)
  BY <1>1, <1>3 DEF Good, Tick
<1>5. Passed(k, j)
  BY <1>1, <1>4, SwitchOn
<1>6. Onward(k, j)
  BY <1>4, <1>5, PassedOnward
<1>7. PICK now : now = Shown(k)
  OBVIOUS
<1>8. ASSUME NEW s \in Others
      PROVE  Base(k)[s] = IF s \in {k.current} THEN "READY" ELSE now[s]
  <2>1. /\ Base(k)[s] = IF s \in Alive(k) THEN Rested(k, s) ELSE "FREE"
        /\ now[s] = IF s = k.current THEN "RUNNING"
                    ELSE IF s \in Alive(k) THEN k.pcb[s].state ELSE "FREE"
    BY <1>7 DEF Base, Shown
  <2>2. s # Idle /\ OnCpu(k.pcb, k.current) /\ s \in Slots
    BY <1>4 DEF Others, Sound, Core
  <2>3. CASE s = k.current
    <3>1. k.pcb[s].state = "RUNNING" /\ s \in Alive(k)
      BY <1>2, <1>4, <2>2, <2>3, UserFacts DEF Alive, OnCpu
    <3>2. QED
      BY <2>1, <2>3, <3>1 DEF Rested
  <2>4. CASE s # k.current
    <3>1. s \in Alive(k) => k.pcb[s].state # "RUNNING"
      BY <2>2, <2>4 DEF OnCpu, Alive
    <3>2. QED
      BY <2>1, <2>4, <3>1 DEF Rested
  <2>5. QED
    BY <2>3, <2>4
<1>9. Base(k) = Abstract!With(now, {k.current}, "READY")
  <2>1. Base(k) = [s \in Others |-> Base(k)[s]]
    BY DEF Base
  <2>2. QED
    BY <1>8, <2>1 DEF Abstract!With, Others
<1>10. Abstract!Next
  BY <1>1, <1>4, <1>5, <1>7, <1>9, ShownSwitch
<1>11. QED
  BY <1>1, <1>6, <1>10

\* HasResult, said of the record alone.
LEMMA HasIs ==
    ASSUME NEW k, NEW p, NEW x
    PROVE  HasResult(k, p, x) <=> Has(k.pcb[p], x)
BY DEF HasResult, Has, Matching, PendingMatches

\* One process takes another place in the kernel.
LEMMA OneOnward ==
    ASSUME NEW k, NEW D, NEW N, Sound(k, D, N), NEW j, NEW c \in Slots, j.may = k.may,
           j.fg_pid = k.fg_pid, \A t \in Slots : t # c => j.pcb[t] = k.pcb[t],
           j.pcb[c].used = k.pcb[c].used, j.pcb[c].pid = k.pcb[c].pid, j.pcb[c].fg = k.pcb[c].fg,
           j.pcb[c].parent_pid = k.pcb[c].parent_pid,
           j.pcb[c].state = "EXITED" <=> k.pcb[c].state = "EXITED",
           "unblock_waiter" \notin k.may /\ c \in Alive(k) /\ Waiter(k, c) => Waiter(j, c)
    PROVE  Onward(k, j) /\ Alive(j) = Alive(k)
<1>1. Alive(j) = Alive(k)
  BY DEF Alive
<1>2. k \in Kernel /\ Alive(k) \subseteq Slots
  BY LifeFacts
<1>3. ASSUME "unblock_waiter" \notin k.may, Waits(k)
      PROVE  Waits(j)
  <2> SUFFICES ASSUME NEW t \in Alive(j)
               PROVE  Waiter(j, t)
    BY DEF Waits
  <2>1. Waiter(k, t) /\ t \in Alive(k) /\ t \in Slots
    BY <1>1, <1>2, <1>3 DEF Waits
  <2>2. CASE t = c
    BY <1>3, <2>1, <2>2
  <2>3. CASE t # c
    <3>1. j.pcb[t] = k.pcb[t]
      BY <2>1, <2>3
    <3>2. k.pcb[t].kids \subseteq Slots
      <4>1. k.pcb[t] \in Pcb
        BY <1>2, <2>1, KernelFacts
      <4>2. QED
        BY <4>1 DEF Pcb
    <3>3. \A x \in k.pcb[t].kids : j.pcb[x].pid = k.pcb[x].pid
      BY <3>2
    <3>4. QED
      BY <2>1, <3>1, <3>3 DEF Waiter
  <2>4. QED
    BY <2>2, <2>3
<1>4. \A t \in Alive(k) : /\ j.pcb[t].pid = k.pcb[t].pid /\ j.pcb[t].fg = k.pcb[t].fg
                          /\ j.pcb[t].parent_pid = k.pcb[t].parent_pid
  BY <1>2
<1>5. ASSUME Ruled(k, Alive(k))
      PROVE  Ruled(j, Alive(j))
  <2>1. PICK A, n, none : A = Alive(k) /\ n = k.next_pid /\ none = {}
    OBVIOUS
  <2>2. Kept(k, j, none)
    BY <1>1, <1>4 DEF Kept
  <2>3. Numbered(k.pcb, n) /\ Idle \in Alive(k) /\ k.pcb[Idle].pid = IdlePid
    BY <2>1, LifeFacts
  <2>4. /\ Ruled(k, A) /\ A \subseteq Alive(k) /\ Alive(j) = A \ none
        /\ \A q \in none \cap Alive(k) : ~k.pcb[q].fg
        /\ Idle \notin none
    BY <1>1, <1>5, <2>1
  <2>5. QED
    BY <2>2, <2>3, <2>4, KeptRuled
<1>6. QED
  BY <1>1, <1>3, <1>5 DEF Onward

\* The current process falls asleep.
LEMMA AsleepShown ==
    ASSUME NEW g, g = kernel, Good(g), NEW i, Sound(i, {}, {}), NEW j, j = kernel', Passed(i, j),
           i.current = g.current, g.current \in Others, Alive(i) = Alive(g), g.current \in Alive(i),
           i.pcb[g.current].state = "BLOCKED",
           \A s \in Alive(g) : s # g.current => i.pcb[s].state = g.pcb[s].state
    PROVE  Abstract!Next
<1>1. PICK now, c : now = Shown(g) /\ c = g.current
  OBVIOUS
<1>2. OnCpu(i.pcb, c)
  BY <1>1 DEF Sound, Core
<1>3. ASSUME NEW s \in Others
      PROVE  Base(i)[s] = IF s \in {c} THEN "BLOCKED" ELSE now[s]
  <2>1. /\ Base(i)[s] = IF s \in Alive(i) THEN Rested(i, s) ELSE "FREE"
        /\ now[s] = IF s = c THEN "RUNNING" ELSE IF s \in Alive(g) THEN g.pcb[s].state ELSE "FREE"
    BY <1>1 DEF Base, Shown
  <2>2. CASE s = c
    BY <1>1, <2>1, <2>2 DEF Rested
  <2>3. CASE s # c
    <3>1. s \in Alive(i) => i.pcb[s].state # "RUNNING"
      BY <1>2, <2>3 DEF OnCpu, Alive, Others
    <3>2. s \in Alive(i) => Rested(i, s) = g.pcb[s].state
      BY <1>1, <2>3, <3>1 DEF Rested
    <3>3. QED
      BY <2>1, <2>3, <3>2
  <2>4. QED
    BY <2>2, <2>3
<1>4. Base(i) = Abstract!With(now, {c}, "BLOCKED")
  <2>1. Base(i) = [s \in Others |-> Base(i)[s]]
    BY DEF Base
  <2>2. QED
    BY <1>3, <2>1 DEF Abstract!With, Others
<1>5. g.current # Idle
  BY DEF Others
<1>6. QED
  BY <1>1, <1>4, <1>5, ShownSwitch

\* What a process keeps when it takes an exit result.
SameButResults(a, b) ==
    /\ b.used = a.used /\ b.pid = a.pid /\ b.state = a.state /\ b.parent_pid = a.parent_pid
    /\ b.kids = a.kids /\ b.waiting_for = a.waiting_for /\ b.fg = a.fg /\ b.at = a.at
    /\ b.target = a.target

\* A record with other results is the same but for them.
LEMMA ResultsTaken ==
    ASSUME NEW a \in Pcb, NEW r, NEW x, NEW b,
           b = [a EXCEPT !.results = r] \/ b = [a EXCEPT !.pending = x]
    PROVE  SameButResults(a, b)
BY DEF SameButResults, Pcb

\* consume_wait_result changes the results of one process, and no more.
LEMMA ConsumeOn ==
    ASSUME NEW k \in Kernel, NEW p \in Slots, NEW pid, NEW j, j = consume_wait_result(k, p, pid)
    PROVE  /\ j.fg_pid = k.fg_pid /\ SameButResults(k.pcb[p], j.pcb[p])
           /\ \A t \in Slots : t # p => j.pcb[t] = k.pcb[t]
<1>1. PICK pcb : pcb = k.pcb[p]
  OBVIOUS
<1>2. pcb \in Pcb
  BY <1>1, KernelFacts
<1>3. ASSUME NEW new, SameButResults(pcb, new), j = Put(k, p, new)
      PROVE  /\ j.fg_pid = k.fg_pid /\ SameButResults(k.pcb[p], j.pcb[p])
             /\ \A t \in Slots : t # p => j.pcb[t] = k.pcb[t]
  <2>1. PICK P2 : P2 = [t \in Slots |-> IF t = p THEN new ELSE k.pcb[t]]
    OBVIOUS
  <2>2. j = [k EXCEPT !.pcb = P2]
    BY <1>3, <2>1 DEF Put
  <2>3. j.pcb = P2 /\ j.fg_pid = k.fg_pid
    BY <2>2 DEF Kernel
  <2>4. QED
    BY <1>1, <1>3, <2>1, <2>3
<1>4. CASE j = k
  BY <1>4 DEF SameButResults
<1>5. CASE \E r : j = Put(k, p, [k.pcb[p] EXCEPT !.results = r])
  <2>1. PICK r : j = Put(k, p, [pcb EXCEPT !.results = r])
    BY <1>1, <1>5
  <2>2. PICK new : new = [pcb EXCEPT !.results = r]
    OBVIOUS
  <2>3. SameButResults(pcb, new)
    BY <1>2, <2>2, ResultsTaken
  <2>4. QED
    BY <1>3, <2>1, <2>2, <2>3
<1>6. CASE \E x : j = Put(k, p, [k.pcb[p] EXCEPT !.pending = x])
  <2>1. PICK x : j = Put(k, p, [pcb EXCEPT !.pending = x])
    BY <1>1, <1>6
  <2>2. PICK new : new = [pcb EXCEPT !.pending = x]
    OBVIOUS
  <2>3. SameButResults(pcb, new)
    BY <1>2, <2>2, ResultsTaken
  <2>4. QED
    BY <1>3, <2>1, <2>2, <2>3
<1>7. QED
  BY <1>4, <1>5, <1>6 DEF consume_wait_result

\* What the record of a sleeper in proc_wait says.
LEMMA AsleepOn ==
    ASSUME NEW pcb \in Pcb, NEW pid \in Int, NEW new, new = Asleep(pcb, pid)
    PROVE  new.fg = pcb.fg /\ new.waiting_for = pid /\ new.target = pid
BY DEF Asleep, Pcb

\* What the record of a caller says when proc_wait returns.
LEMMA ReturnedOn ==
    ASSUME NEW pcb \in Pcb, NEW x \in Int, NEW new, new = Returned(pcb, x)
    PROVE  new.fg = pcb.fg /\ new.waiting_for = x
BY DEF Returned, Pcb

\* proc_wait returns, or sleeps with a child left to wake it.
LEMMA WaitOnward ==
    ASSUME Good(kernel), NEW pid \in Int, pid = -1 \/ pid > 0, proc_wait(pid)
    PROVE  Onward(kernel, kernel') /\ Abstract!Next
<1>1. PICK g, k, c, j : g = kernel /\ k = collect_zombies(g) /\ c = g.current /\ j = kernel'
  OBVIOUS
<1>2. Good(g) /\ Good(k) /\ CpuSame(g, k) /\ k.zombies = {}
  BY <1>1, CollectGood
<1>3. c = k.current /\ k.may = g.may /\ c # Idle /\ k.pcb[c].at = "user"
  BY <1>1, <1>2 DEF CpuSame, proc_wait, InUserland, Caller
<1>4. Sound(k, {}, {}) /\ k.pcb[c].state = "RUNNING"
  BY <1>2, <1>3, UserFacts
<1>5. k \in Kernel /\ c \in Slots \ k.zombies /\ k.pcb[c].used
  BY <1>2, <1>3, GoodFacts
<1>6. k.pcb[c] \in Pcb
  BY <1>5, KernelFacts
<1>7. Onward(g, k) /\ Alive(k) = Alive(g) /\ \A t \in Alive(g) : k.pcb[t] = g.pcb[t]
  BY <1>1, <1>2, CollectOnward
<1>8. CASE j = consume_wait_result(k, c, pid)
  <2>1. /\ j.fg_pid = k.fg_pid /\ SameButResults(k.pcb[c], j.pcb[c])
        /\ \A t \in Slots : t # c => j.pcb[t] = k.pcb[t]
    BY <1>5, <1>8, ConsumeOn
  <2>2. CpuSame(k, j) /\ Beside(k, j)
    BY <1>4, <1>5, <1>8, ConsumeSound
  <2>3. j.may = k.may /\ j.current = c
    BY <1>3, <2>2 DEF Beside
  <2>4. Waiter(k, c) => Waiter(j, c)
    BY <1>3, <1>4, <2>1 DEF Waiter, SameButResults
  <2>5. Onward(k, j) /\ Alive(j) = Alive(k)
    <3>1. /\ j.pcb[c].used = k.pcb[c].used /\ j.pcb[c].pid = k.pcb[c].pid /\ j.pcb[c].fg = k.pcb[c].fg
          /\ j.pcb[c].parent_pid = k.pcb[c].parent_pid /\ j.pcb[c].state = k.pcb[c].state
      BY <2>1 DEF SameButResults
    <3>2. c \in Slots
      BY <1>5
    <3>3. QED
      BY <1>4, <2>1, <2>3, <2>4, <3>1, <3>2, OneOnward
  <2>6. Onward(g, j)
    BY <1>3, <1>7, <2>5, OnwardTrans
  <2>7. Abstract!Next
    <3>1. j.current = g.current
      BY <1>1, <2>3
    <3>2. \A s \in Slots : s # g.current => /\ s \in Alive(j) <=> s \in Alive(g)
                                            /\ s \in Alive(g) => j.pcb[s].state = g.pcb[s].state
      BY <1>1, <1>7, <2>1, <2>5
    <3>3. QED
      BY <1>1, <3>1, <3>2, StillShown
  <2>8. QED
    BY <1>1, <2>6, <2>7
<1>9. CASE j = k
  BY <1>1, <1>2, <1>9, SnapshotOnward
<1>10. ASSUME ~HasResult(k, c, pid), NEW x \in k.pcb[c].kids, pid =< 0 \/ k.pcb[x].pid = pid,
              SwitchFrom(Put(k, c, Asleep(k.pcb[c], pid)))
       PROVE  Onward(kernel, kernel') /\ Abstract!Next
  <2>1. PICK new, i : new = Asleep(k.pcb[c], pid) /\ i = Put(k, c, new)
    OBVIOUS
  <2>2. Restated(k.pcb[c], new) /\ new.state = "BLOCKED" /\ new.at = "wait"
    BY <1>6, <2>1, AsleepMade
  <2>3. new.fg = k.pcb[c].fg /\ new.waiting_for = pid /\ new.target = pid
    BY <1>6, <2>1, AsleepOn
  <2>4. k.pcb[c].state # "EXITED" /\ new.state # "EXITED" /\ new.at # "exit" /\ new.state # "RUNNING"
    BY <1>4, <2>2
  <2>5. Sound(i, {}, {}) /\ Beside(k, i)
    BY <1>3, <1>4, <1>5, <2>1, <2>2, <2>4, Resting
  <2>6. /\ i.fg_pid = k.fg_pid /\ i.may = k.may /\ i.current = c /\ i.pcb[c] = new
        /\ \A t \in Slots : t # c => i.pcb[t] = k.pcb[t]
    <3>1. k \in Kernel /\ c \in Slots /\ new \in Pcb
      BY <1>5, <2>2 DEF Restated
    <3>2. QED
      BY <1>3, <2>1, <3>1, PutFacts
  <2>7. Waiter(i, c)
    <3>1. ~Has(new, pid)
      <4>1. ~Has(k.pcb[c], pid)
        BY <1>10, HasIs
      <4>2. new.results = k.pcb[c].results /\ new.pending = k.pcb[c].pending
        BY <2>2 DEF Restated
      <4>3. QED
        BY <4>1, <4>2 DEF Has
    <3>2. x \in new.kids /\ (pid = -1 \/ i.pcb[x].pid = pid)
      <4>1. x \in Slots /\ new.kids = k.pcb[c].kids /\ new.pid = k.pcb[c].pid
        BY <1>6, <1>10, <2>2 DEF Pcb, Restated
      <4>2. i.pcb[x].pid = k.pcb[x].pid
        BY <2>6, <4>1
      <4>3. QED
        BY <1>10, <4>1, <4>2
    <3>3. QED
      BY <2>2, <2>3, <2>6, <3>1, <3>2 DEF Waiter
  <2>8. Onward(k, i) /\ Alive(i) = Alive(k)
    <3>1. /\ i.pcb[c].used = k.pcb[c].used /\ i.pcb[c].pid = k.pcb[c].pid /\ i.pcb[c].fg = k.pcb[c].fg
          /\ i.pcb[c].parent_pid = k.pcb[c].parent_pid
          /\ i.pcb[c].state # "EXITED" /\ k.pcb[c].state # "EXITED"
      BY <2>2, <2>3, <2>4, <2>6 DEF Restated
    <3>2. c \in Slots
      BY <1>5
    <3>3. QED
      BY <1>4, <2>6, <2>7, <3>1, <3>2, OneOnward
  <2>9. Passed(i, j)
    <3>1. SwitchFrom(i)
      BY <1>10, <2>1
    <3>2. QED
      BY <1>1, <2>5, <3>1, SwitchOn
  <2>10. Onward(g, j)
    <3>1. Onward(i, j)
      BY <2>5, <2>9, PassedOnward
    <3>2. Onward(g, i) /\ i.may = g.may
      BY <1>3, <1>7, <2>6, <2>8, OnwardTrans
    <3>3. QED
      BY <3>1, <3>2, OnwardTrans
  <2>11. Abstract!Next
    <3>1. /\ i.current = g.current /\ g.current \in Others /\ Alive(i) = Alive(g)
          /\ i.pcb[g.current].state = "BLOCKED"
      BY <1>1, <1>3, <1>5, <1>7, <2>2, <2>6, <2>8 DEF Others
    <3>2. g.current \in Alive(i)
      BY <1>1, <1>4, <1>5, <2>8 DEF Alive
    <3>3. \A s \in Alive(g) : s # g.current => i.pcb[s].state = g.pcb[s].state
      BY <1>1, <1>7, <2>6 DEF Alive
    <3>4. QED
      BY <1>1, <1>2, <2>5, <2>9, <3>1, <3>2, <3>3, AsleepShown
  <2>12. QED
    BY <1>1, <2>10, <2>11
<1>11. QED
  <2>1. \/ kernel' = consume_wait_result(k, c, pid)
        \/ kernel' = k
        \/ /\ ~HasResult(k, c, pid) /\ {x \in k.pcb[c].kids : pid =< 0 \/ k.pcb[x].pid = pid} # {}
           /\ SwitchFrom(Put(k, c, Asleep(k.pcb[c], pid)))
    BY <1>1 DEF proc_wait, Caller, Asleep
  <2>2. QED
    BY <1>1, <1>8, <1>9, <1>10, <2>1

\* The end of proc_wait leaves nothing of the waiting.
LEMMA WaitReturnsOnward ==
    ASSUME Good(kernel), WaitReturns
    PROVE  Onward(kernel, kernel') /\ Abstract!Next
<1>1. PICK g, k, c, t, j : /\ g = kernel /\ k = collect_zombies(g) /\ c = g.current
                           /\ t = consume_wait_result(k, c, k.pcb[c].target) /\ j = kernel'
  OBVIOUS
<1>2. Good(g) /\ Good(k) /\ CpuSame(g, k) /\ k.zombies = {}
  BY <1>1, CollectGood
<1>3. c = k.current /\ k.may = g.may /\ k.pcb[c].at = "wait"
  BY <1>1, <1>2 DEF CpuSame, WaitReturns, Caller
<1>4. c # Idle
  <2>1. k.pcb[Idle].at = "user"
    BY <1>2 DEF Good, Sound, Core, OnCpu
  <2>2. QED
    BY <1>3, <2>1
<1>5. Sound(k, {}, {}) /\ k.pcb[c].state = "RUNNING"
  BY <1>2, <1>3, <1>4, UserFacts
<1>6. k \in Kernel /\ c \in Slots \ k.zombies /\ k.pcb[c].used
  BY <1>2, <1>3, GoodFacts
<1>7. /\ t.fg_pid = k.fg_pid /\ SameButResults(k.pcb[c], t.pcb[c])
      /\ \A x \in Slots : x # c => t.pcb[x] = k.pcb[x]
  BY <1>1, <1>6, ConsumeOn
<1>8. Beside(k, t)
  BY <1>1, <1>5, <1>6, ConsumeSound
<1>9. t \in Kernel /\ t.pcb[c] \in Pcb /\ t.current = c /\ t.may = k.may
  BY <1>3, <1>6, <1>8, KernelFacts DEF Beside
<1>10. PICK x \in Int : x = 0
  OBVIOUS
<1>11. PICK new : new = Returned(t.pcb[c], x)
  OBVIOUS
<1>12. j = Put(t, c, new)
  BY <1>1, <1>10, <1>11 DEF WaitReturns, Caller, Returned
<1>13. /\ Restated(t.pcb[c], new) /\ new.state = t.pcb[c].state /\ new.at = "user"
       /\ new.fg = t.pcb[c].fg /\ new.waiting_for = x
  BY <1>9, <1>10, <1>11, ReturnedMade, ReturnedOn
<1>14. /\ j.fg_pid = k.fg_pid /\ j.may = k.may /\ j.current = c /\ j.pcb[c] = new
       /\ \A s \in Slots : s # c => j.pcb[s] = k.pcb[s]
  <2>1. t \in Kernel /\ c \in Slots /\ new \in Pcb
    BY <1>6, <1>9, <1>13 DEF Restated
  <2>2. /\ j.fg_pid = t.fg_pid /\ j.may = t.may /\ j.current = t.current /\ j.pcb[c] = new
        /\ \A s \in Slots : s # c => j.pcb[s] = t.pcb[s]
    BY <1>12, <2>1, PutFacts
  <2>3. QED
    BY <1>7, <1>9, <2>2
<1>15. Waiter(j, c)
  BY <1>10, <1>13, <1>14 DEF Waiter
<1>16. Onward(k, j) /\ Alive(j) = Alive(k)
  <2>1. /\ j.pcb[c].used = k.pcb[c].used /\ j.pcb[c].pid = k.pcb[c].pid /\ j.pcb[c].fg = k.pcb[c].fg
        /\ j.pcb[c].parent_pid = k.pcb[c].parent_pid /\ j.pcb[c].state = k.pcb[c].state
    BY <1>7, <1>13, <1>14 DEF SameButResults, Restated
  <2>2. c \in Slots
    BY <1>6
  <2>3. QED
    BY <1>5, <1>14, <1>15, <2>1, <2>2, OneOnward
<1>17. Onward(g, k) /\ Alive(k) = Alive(g) /\ \A s \in Alive(g) : k.pcb[s] = g.pcb[s]
  BY <1>1, <1>2, CollectOnward
<1>18. Onward(g, j)
  BY <1>3, <1>16, <1>17, OnwardTrans
<1>19. Abstract!Next
  <2>1. j.current = g.current
    BY <1>1, <1>14
  <2>2. \A s \in Slots : s # g.current => /\ s \in Alive(j) <=> s \in Alive(g)
                                          /\ s \in Alive(g) => j.pcb[s].state = g.pcb[s].state
    BY <1>1, <1>14, <1>16, <1>17
  <2>3. QED
    BY <1>1, <2>1, <2>2, StillShown
<1>20. QED
  BY <1>1, <1>18, <1>19

\* proc_block, of the caller or of another process, is a block of ProcStates.
LEMMA BlockOnward ==
    ASSUME Good(kernel), NEW pid, proc_block(pid)
    PROVE  Onward(kernel, kernel') /\ Abstract!Next
<1>1. PICK g, k, c, s, j : /\ g = kernel /\ k = collect_zombies(g) /\ c = g.current
                           /\ s = proc_by_pid(k, pid) /\ j = kernel'
  OBVIOUS
<1>2. Good(g) /\ Good(k) /\ CpuSame(g, k) /\ k.zombies = {}
  BY <1>1, CollectGood
<1>3. c = k.current /\ k.may = g.may /\ c # Idle /\ k.pcb[c].at = "user"
  BY <1>1, <1>2 DEF CpuSame, proc_block, InUserland, Caller
<1>4. Sound(k, {}, {}) /\ k.pcb[c].state = "RUNNING" /\ k \in Kernel
  BY <1>2, <1>3, UserFacts, GoodFacts
<1>5. PICK t \in Having(k, pid) : t \in InState(k, "READY") \/ t = c
  BY <1>1 DEF proc_block, Caller
<1>6. t # Idle
  BY <1>3, <1>5 DEF InState
<1>7. s = t /\ s \in Slots /\ s # Idle /\ k.pcb[s].used
  BY <1>1, <1>4, <1>5, <1>6, Addressed
<1>8. /\ k.pcb[s].state \in {"READY", "RUNNING"} /\ k.pcb[s] \in Pcb /\ k.pcb[s].at # "exit"
      /\ s # c => k.pcb[s].state = "READY"
  <2>1. k.pcb[s].state \in {"READY", "RUNNING"} /\ (s # c => k.pcb[s].state = "READY")
    BY <1>4, <1>5, <1>7 DEF InState
  <2>2. k.pcb[s].at # "exit"
    BY <1>4, <1>7, <2>1 DEF Sound, Core, Dead
  <2>3. QED
    BY <1>4, <1>7, <2>1, <2>2, KernelFacts
<1>9. PICK new, i : new = [k.pcb[s] EXCEPT !.state = "BLOCKED"] /\ i = Put(k, s, new)
  OBVIOUS
<1>10. /\ Restated(k.pcb[s], new) /\ new.state = "BLOCKED" /\ new \in Pcb
       /\ SameButState(k.pcb[s], new)
  BY <1>8, <1>9, StateChanged, StatePut
<1>11. /\ i.fg_pid = k.fg_pid /\ i.may = k.may /\ i.current = c /\ i.pcb[s] = new
       /\ \A x \in Slots : x # s => i.pcb[x] = k.pcb[x]
  <2>1. k \in Kernel /\ s \in Slots /\ new \in Pcb /\ i = Put(k, s, new)
    BY <1>4, <1>7, <1>9, <1>10
  <2>2. /\ i.fg_pid = k.fg_pid /\ i.may = k.may /\ i.current = k.current /\ i.pcb[s] = new
        /\ \A x \in Slots : x # s => i.pcb[x] = k.pcb[x]
    BY <2>1, PutFacts
  <2>3. QED
    BY <1>3, <2>2
<1>12. Sound(i, {}, {})
  <2>1. s \in Slots /\ s # Idle /\ k.pcb[s].used /\ k.pcb[s].state # "EXITED"
    BY <1>7, <1>8
  <2>2. Restated(k.pcb[s], new) /\ i = Put(k, s, new)
    BY <1>9, <1>10
  <2>3. new.state # "EXITED" /\ new.at # "exit" /\ (new.state = "RUNNING" => s = k.current)
    BY <1>8, <1>10 DEF SameButState
  <2>4. QED
    BY <1>4, <2>1, <2>2, <2>3, Resting
<1>13. Waiter(k, s) => Waiter(i, s)
  <2>1. ASSUME Waiter(k, s)
        PROVE  Waiter(i, s)
    <3>1. k.pcb[s].waiting_for = 0
      BY <1>8, <2>1 DEF Waiter
    <3>2. /\ i.pcb[s].waiting_for = 0 /\ i.pcb[s].at = k.pcb[s].at /\ i.pcb[s].target = k.pcb[s].target
          /\ i.pcb[s].results = k.pcb[s].results /\ i.pcb[s].pending = k.pcb[s].pending
      BY <1>10, <1>11, <3>1 DEF SameButState
    <3>3. QED
      BY <1>11, <2>1, <3>1, <3>2 DEF Waiter, Has
  <2>2. QED
    BY <2>1
<1>14. Onward(k, i) /\ Alive(i) = Alive(k)
  <2>1. /\ i.pcb[s].used = k.pcb[s].used /\ i.pcb[s].pid = k.pcb[s].pid /\ i.pcb[s].fg = k.pcb[s].fg
        /\ i.pcb[s].parent_pid = k.pcb[s].parent_pid
        /\ i.pcb[s].state # "EXITED" /\ k.pcb[s].state # "EXITED"
    BY <1>8, <1>10, <1>11 DEF SameButState
  <2>2. QED
    BY <1>4, <1>7, <1>11, <1>13, <2>1, OneOnward
<1>15. Onward(g, k) /\ Alive(k) = Alive(g) /\ \A x \in Alive(g) : k.pcb[x] = g.pcb[x]
  BY <1>1, <1>2, CollectOnward
<1>16. Onward(g, i) /\ i.may = g.may
  BY <1>3, <1>11, <1>14, <1>15, OnwardTrans
<1>17. s \in Alive(g) /\ Alive(g) \subseteq Slots
  BY <1>7, <1>8, <1>15 DEF Alive
<1>18. IF s = c THEN SwitchFrom(i) ELSE j = i
  BY <1>1, <1>9 DEF proc_block, Caller
<1>19. CASE s = c
  <2>1. Passed(i, j)
    BY <1>1, <1>12, <1>18, <1>19, SwitchOn
  <2>2. Onward(g, j)
    BY <1>12, <1>16, <2>1, PassedOnward, OnwardTrans
  <2>3. /\ i.current = g.current /\ g.current \in Others /\ Alive(i) = Alive(g)
        /\ g.current \in Alive(i) /\ i.pcb[g.current].state = "BLOCKED"
    BY <1>1, <1>7, <1>10, <1>11, <1>14, <1>15, <1>17, <1>19 DEF Others
  <2>4. \A x \in Alive(g) : x # g.current => i.pcb[x].state = g.pcb[x].state
    BY <1>1, <1>11, <1>15, <1>17, <1>19
  <2>5. Abstract!Next
    BY <1>1, <1>2, <1>12, <2>1, <2>3, <2>4, AsleepShown
  <2>6. QED
    BY <1>1, <2>2, <2>5
<1>20. CASE s # c
  <2>1. j = i
    BY <1>18, <1>20
  <2>2. PICK now : now = Shown(g)
    OBVIOUS
  <2>3. s \in Others /\ now[s] = "READY"
    BY <1>1, <1>7, <1>8, <1>15, <1>17, <1>20, <2>2 DEF Shown, Others
  <2>4. \A x \in Others : Shown(j)[x] = IF x \in {s} THEN "BLOCKED" ELSE now[x]
    <3> SUFFICES ASSUME NEW x \in Others
                 PROVE  Shown(j)[x] = IF x \in {s} THEN "BLOCKED" ELSE now[x]
      OBVIOUS
    <3>1. /\ Shown(j)[x] = IF x = c THEN "RUNNING" ELSE IF x \in Alive(g) THEN i.pcb[x].state ELSE "FREE"
          /\ now[x] = IF x = c THEN "RUNNING" ELSE IF x \in Alive(g) THEN g.pcb[x].state ELSE "FREE"
      BY <1>1, <1>11, <1>14, <1>15, <2>1, <2>2 DEF Shown
    <3>2. CASE x = s
      BY <1>10, <1>11, <1>17, <1>20, <3>1, <3>2
    <3>3. CASE x # s
      <4>1. x \in Alive(g) => i.pcb[x].state = g.pcb[x].state
        BY <1>11, <1>15, <1>17, <3>3
      <4>2. QED
        BY <3>1, <3>3, <4>1
    <3>4. QED
      BY <3>2, <3>3
  <2>5. Shown(j) = Abstract!With(now, {s}, "BLOCKED")
    <3>1. Shown(j) = [x \in Others |-> Shown(j)[x]]
      BY DEF Shown
    <3>2. QED
      BY <2>4, <3>1 DEF Abstract!With, Others
  <2>6. Abstract!Next
    BY <1>1, <1>11, <2>1, <2>2, <2>3, <2>5, ShownBlock
  <2>7. QED
    BY <1>1, <1>16, <2>1, <2>6
<1>21. QED
  BY <1>19, <1>20

\* A record with another child list, seen by those who wait.
LEMMA KidsOn ==
    ASSUME NEW pcb \in Pcb, NEW K, NEW new, new = [pcb EXCEPT !.kids = K]
    PROVE  /\ new.waiting_for = pcb.waiting_for /\ new.target = pcb.target /\ new.fg = pcb.fg
           /\ new.used = pcb.used /\ new.pid = pcb.pid /\ new.at = pcb.at
           /\ new.parent_pid = pcb.parent_pid /\ new.state = pcb.state
BY DEF Pcb

\* The new process in slot, its parent in c, and the rest as before.
LEMMA LinkedOn ==
    ASSUME NEW k \in Kernel, NEW slot \in Slots, NEW c \in Slots, slot # c, NEW child \in Pcb,
           NEW j, j = Linked(k, slot, c, child)
    PROVE  /\ j.fg_pid = k.fg_pid /\ j.current = k.current /\ j.may = k.may /\ j.pcb[slot] = child
           /\ j.pcb[c] = [k.pcb[c] EXCEPT !.kids = @ \cup {slot}]
           /\ \A t \in Slots : t # slot /\ t # c => j.pcb[t] = k.pcb[t]
           /\ j \in Kernel
<1>1. PICK i, y, pcb, K, new : /\ i = FreshPid(k) /\ y = Put(i, slot, child) /\ pcb = k.pcb[c]
                               /\ K = pcb.kids \cup {slot} /\ new = [pcb EXCEPT !.kids = K]
  OBVIOUS
<1>2. i \in Kernel /\ i.pcb = k.pcb /\ i.fg_pid = k.fg_pid /\ i.current = k.current /\ i.may = k.may
  BY <1>1, KernelFacts DEF FreshPid, Kernel
<1>3. new \in Pcb
  <2>1. pcb \in Pcb
    BY <1>1, KernelFacts
  <2>2. K \in SUBSET Slots
    BY <1>1, <2>1 DEF Pcb
  <2>3. QED
    BY <1>1, <2>1, <2>2, KidsChanged
<1>4. /\ y \in Kernel /\ y.fg_pid = i.fg_pid /\ y.current = i.current /\ y.may = i.may
      /\ y.pcb[slot] = child /\ \A t \in Slots : t # slot => y.pcb[t] = i.pcb[t]
  <2>1. i \in Kernel /\ slot \in Slots /\ child \in Pcb /\ y = Put(i, slot, child)
    BY <1>1, <1>2
  <2>2. QED
    BY <2>1, PutFacts
<1>5. j = Put(y, c, new)
  BY <1>1 DEF Linked
<1>6. /\ j \in Kernel /\ j.fg_pid = y.fg_pid /\ j.current = y.current /\ j.may = y.may
      /\ j.pcb[c] = new /\ \A t \in Slots : t # c => j.pcb[t] = y.pcb[t]
  <2>1. PICK z : z = Put(y, c, new)
    OBVIOUS
  <2>2. y \in Kernel /\ c \in Slots /\ new \in Pcb
    BY <1>3, <1>4
  <2>3. /\ z \in Kernel /\ z.fg_pid = y.fg_pid /\ z.current = y.current /\ z.may = y.may
        /\ z.pcb[c] = new /\ \A t \in Slots : t # c => z.pcb[t] = y.pcb[t]
    <3>1. Beside(y, z) /\ z.pcb[c] = new /\ \A t \in Slots : t # c => z.pcb[t] = y.pcb[t]
      BY <2>1, <2>2, PutBeside
    <3>2. z.fg_pid = y.fg_pid
      BY <2>1, <2>2, PutFacts
    <3>3. QED
      BY <3>1, <3>2 DEF Beside
  <2>4. j = z
    BY <1>5, <2>1
  <2>5. QED
    BY <2>3, <2>4
<1>7. new = [k.pcb[c] EXCEPT !.kids = @ \cup {slot}]
  BY <1>1
<1>8. QED
  BY <1>2, <1>4, <1>6, <1>7

\* The record that proc_create fills in, seen by those who wait.
LEMMA ChildOn ==
    ASSUME NEW pid \in Nat, NEW fg \in BOOLEAN, NEW parent \in Int, NEW new, new = Child(pid, fg, parent)
    PROVE  new.waiting_for = 0 /\ new.fg = fg
BY DEF Child, Unused

\* What the new process changes.
Joined(k, j, slot, c, fg) ==
    /\ j.current = k.current /\ j.may = k.may
    /\ j.fg_pid = IF fg THEN k.next_pid ELSE k.fg_pid
    /\ j.pcb[slot].used /\ j.pcb[slot].state = "READY" /\ j.pcb[slot].at = "user"
    /\ j.pcb[slot].waiting_for = 0 /\ j.pcb[slot].pid = k.next_pid /\ j.pcb[slot].fg = fg
    /\ j.pcb[slot].parent_pid = k.pcb[c].pid
    /\ j.pcb[c].used = k.pcb[c].used /\ j.pcb[c].pid = k.pcb[c].pid /\ j.pcb[c].at = k.pcb[c].at
    /\ j.pcb[c].waiting_for = k.pcb[c].waiting_for /\ j.pcb[c].fg = k.pcb[c].fg
    /\ j.pcb[c].parent_pid = k.pcb[c].parent_pid /\ j.pcb[c].state = k.pcb[c].state
    /\ \A t \in Slots : t # slot /\ t # c => j.pcb[t] = k.pcb[t]

\* What proc_create leaves for those who wait and for the terminal.
LEMMA JoinedMade ==
    ASSUME NEW k \in Kernel, NEW slot \in Slots, NEW c \in Slots, slot # c, NEW fg \in BOOLEAN,
           NEW child, child = Child(k.next_pid, fg, k.pcb[c].pid), NEW i, i = Linked(k, slot, c, child),
           NEW j, j = IF fg THEN [i EXCEPT !.fg_pid = k.next_pid] ELSE i
    PROVE  Joined(k, j, slot, c, fg)
<1>1. k.next_pid \in Nat /\ k.pcb[c] \in Pcb
  BY KernelFacts
<1>2. PICK x : x = k.pcb[c].pid
  OBVIOUS
<1>3. x \in Int /\ child = Child(k.next_pid, fg, x)
  BY <1>1, <1>2 DEF Pcb
<1>4. /\ child \in Pcb /\ child.used /\ child.pid = k.next_pid /\ child.parent_pid = x
      /\ child.at = "user" /\ child.state = "READY" /\ child.waiting_for = 0 /\ child.fg = fg
  BY <1>1, <1>3, ChildMade, ChildOn
<1>5. /\ i.fg_pid = k.fg_pid /\ i.current = k.current /\ i.may = k.may /\ i.pcb[slot] = child
      /\ i.pcb[c] = [k.pcb[c] EXCEPT !.kids = @ \cup {slot}]
      /\ \A t \in Slots : t # slot /\ t # c => i.pcb[t] = k.pcb[t]
      /\ i \in Kernel
  BY <1>4, LinkedOn
<1>6. PICK pcb, K, new : pcb = k.pcb[c] /\ K = pcb.kids \cup {slot} /\ new = [pcb EXCEPT !.kids = K]
  OBVIOUS
<1>7. /\ new.waiting_for = pcb.waiting_for /\ new.fg = pcb.fg /\ new.used = pcb.used
      /\ new.pid = pcb.pid /\ new.at = pcb.at /\ new.parent_pid = pcb.parent_pid /\ new.state = pcb.state
  BY <1>1, <1>6, KidsOn
<1>8. i.pcb[c] = new
  BY <1>5, <1>6
<1>9. /\ j.current = i.current /\ j.may = i.may /\ j.pcb = i.pcb
      /\ j.fg_pid = IF fg THEN k.next_pid ELSE i.fg_pid
  BY <1>5 DEF Kernel
<1>10. j.pcb[slot] = child /\ j.pcb[c] = new /\ \A t \in Slots : t # slot /\ t # c => j.pcb[t] = k.pcb[t]
  BY <1>5, <1>8, <1>9
<1>11. j.current = k.current /\ j.may = k.may /\ j.fg_pid = IF fg THEN k.next_pid ELSE k.fg_pid
  BY <1>5, <1>9
<1>12. child.parent_pid = k.pcb[c].pid
  BY <1>2, <1>4
<1>13. QED
  BY <1>4, <1>6, <1>7, <1>10, <1>11, <1>12 DEF Joined

\* A child in the table keeps the waiting and the terminal in order.
LEMMA JoinedOnward ==
    ASSUME NEW k, Sound(k, {}, {}), NEW slot \in Slots, ~k.pcb[slot].used, NEW c \in Slots, c # Idle,
           k.pcb[c].used, k.pcb[c].state = "RUNNING", k.pcb[c].at = "user", NEW fg \in BOOLEAN,
           fg => k.pcb[c].pid = Shell \/ "nested_fg" \in k.may, NEW j, Joined(k, j, slot, c, fg)
    PROVE  Onward(k, j) /\ Alive(j) = Alive(k) \cup {slot}
<1>1. slot # c
  OBVIOUS
<1>2. /\ j.fg_pid = IF fg THEN k.next_pid ELSE k.fg_pid
      /\ j.pcb[slot].used /\ j.pcb[slot].state = "READY" /\ j.pcb[slot].at = "user"
      /\ j.pcb[slot].waiting_for = 0 /\ j.pcb[slot].pid = k.next_pid /\ j.pcb[slot].fg = fg
      /\ j.pcb[slot].parent_pid = k.pcb[c].pid /\ j.may = k.may
  BY DEF Joined
<1>3. /\ \A t \in Slots : t # slot =>
            /\ j.pcb[t].used = k.pcb[t].used /\ j.pcb[t].pid = k.pcb[t].pid
            /\ j.pcb[t].fg = k.pcb[t].fg /\ j.pcb[t].parent_pid = k.pcb[t].parent_pid
            /\ j.pcb[t].state = k.pcb[t].state
      /\ \A t \in Slots : t # slot /\ t # c => j.pcb[t] = k.pcb[t]
      /\ j.pcb[c].at = "user" /\ j.pcb[c].waiting_for = k.pcb[c].waiting_for
  BY DEF Joined
<1>4. Alive(j) = Alive(k) \cup {slot} /\ slot \notin Alive(k)
  BY <1>2, <1>3 DEF Alive
<1>5. PICK A : A = Alive(k)
  OBVIOUS
<1>6. /\ k \in Kernel /\ Idle \in A /\ k.pcb[Idle].pid = 1 /\ A \subseteq Slots
      /\ Numbered(k.pcb, k.next_pid) /\ c \in A
      /\ \A s, t \in Slots : k.pcb[s].used /\ t \in k.pcb[s].kids => k.pcb[t].used
  BY <1>5, LifeFacts, SlotFacts DEF Alive
<1>7. ASSUME Waits(k)
      PROVE  Waits(j)
  <2> SUFFICES ASSUME NEW t \in Alive(j)
               PROVE  Waiter(j, t)
    BY DEF Waits
  <2>1. CASE t = slot
    BY <1>2, <2>1 DEF Waiter
  <2>2. CASE t = c
    <3>1. k.pcb[c].waiting_for = 0
      BY <1>5, <1>6, <1>7 DEF Waits, Waiter
    <3>2. QED
      BY <1>3, <2>2, <3>1 DEF Waiter
  <2>3. CASE t # slot /\ t # c
    <3>1. t \in Alive(k) /\ t \in Slots /\ k.pcb[t].used
      BY <1>4, <2>3 DEF Alive
    <3>2. j.pcb[t] = k.pcb[t] /\ Waiter(k, t)
      BY <1>3, <1>7, <2>3, <3>1 DEF Waits
    <3>3. \A x \in k.pcb[t].kids : j.pcb[x].pid = k.pcb[x].pid
      <4>1. k.pcb[t] \in Pcb
        BY <1>6, <3>1, KernelFacts
      <4>2. k.pcb[t].kids \subseteq Slots
        BY <4>1 DEF Pcb
      <4>3. \A x \in k.pcb[t].kids : x # slot
        BY <1>6, <3>1, <4>2
      <4>4. QED
        BY <1>3, <4>2, <4>3
    <3>4. QED
      BY <1>2, <3>2, <3>3 DEF Waiter
  <2>4. QED
    BY <2>1, <2>2, <2>3
<1>8. k.next_pid # Shell
  <2>1. k.next_pid \in Nat /\ k.pcb[c].pid \in 1 .. k.next_pid - 1
    BY <1>6, KernelFacts DEF Numbered
  <2>2. k.pcb[c].pid # 1
    BY <1>5, <1>6 DEF Numbered, Alive
  <2>3. QED
    BY <2>1, <2>2, SlotFacts
<1>9. ASSUME "nested_fg" \notin k.may, Ruled(k, A)
      PROVE  Ruled(j, Alive(j))
  <2>1. PICK B : B = Alive(j)
    OBVIOUS
  <2>2. B = A \cup {slot} /\ \A t \in A : t \in Slots /\ t # slot
    BY <1>4, <1>5, <1>6, <2>1
  <2>3. \A t \in A : /\ j.pcb[t].pid = k.pcb[t].pid /\ j.pcb[t].fg = k.pcb[t].fg
                     /\ j.pcb[t].parent_pid = k.pcb[t].parent_pid
    BY <1>3, <2>2
  <2>4. \E s \in B : j.pcb[s].pid = j.fg_pid /\ j.pcb[s].fg
    <3>1. CASE fg
      BY <1>2, <2>2, <3>1
    <3>2. CASE ~fg
      <4>1. PICK q \in A : k.pcb[q].pid = k.fg_pid /\ k.pcb[q].fg
        BY <1>9 DEF Ruled
      <4>2. QED
        BY <1>2, <2>2, <2>3, <3>2, <4>1
    <3>3. QED
      BY <3>1, <3>2
  <2>5. ASSUME NEW s \in B, j.pcb[s].fg
        PROVE  Ruler(j, B, s)
    <3>1. CASE s = slot
      <4>1. fg
        BY <1>2, <2>5, <3>1
      <4>2. k.pcb[c].pid = Shell
        BY <1>9, <4>1
      <4>3. c \in B /\ j.pcb[c].pid = Shell /\ j.pcb[s].parent_pid = Shell
        BY <1>2, <1>6, <2>2, <2>3, <3>1, <4>2
      <4>4. QED
        BY <4>3 DEF Ruler
    <3>2. CASE s \in A
      <4>1. Ruler(k, A, s)
        BY <1>9, <2>3, <2>5, <3>2 DEF Ruled
      <4>2. QED
        BY <2>2, <2>3, <3>2, <4>1 DEF Ruler
    <3>3. QED
      BY <2>2, <3>1, <3>2
  <2>6. ASSUME NEW s \in B, j.pcb[s].pid = Shell
        PROVE  j.pcb[s].fg /\ j.pcb[s].parent_pid = IdlePid
    <3>1. s \in A
      BY <1>2, <1>8, <2>2, <2>6
    <3>2. k.pcb[s].fg /\ k.pcb[s].parent_pid = IdlePid
      BY <1>9, <2>3, <2>6, <3>1 DEF Ruled
    <3>3. QED
      BY <2>3, <3>1, <3>2
  <2>7. QED
    BY <2>1, <2>4, <2>5, <2>6 DEF Ruled
<1>10. QED
  BY <1>4, <1>5, <1>7, <1>9 DEF Onward

\* proc_create is a creation of ProcStates, or fails and is none.
LEMMA CreateOnward ==
    ASSUME Good(kernel), NEW fg \in BOOLEAN, NEW nomem, proc_create(fg, nomem)
    PROVE  Onward(kernel, kernel') /\ Abstract!Next
<1>1. PICK g, k, c, j : g = kernel /\ k = collect_zombies(g) /\ c = g.current /\ j = kernel'
  OBVIOUS
<1>2. Good(g) /\ Good(k) /\ CpuSame(g, k) /\ k.zombies = {}
  BY <1>1, CollectGood
<1>3. c = k.current /\ k.may = g.may /\ c # Idle /\ k.pcb[c].at = "user"
  BY <1>1, <1>2 DEF CpuSame, proc_create, InUserland, Caller
<1>4. Sound(k, {}, {}) /\ k.pcb[c].state = "RUNNING"
  BY <1>2, <1>3, UserFacts
<1>5. k \in Kernel /\ c \in Slots /\ k.pcb[c].used
  BY <1>2, <1>3, GoodFacts
<1>6. Onward(g, k) /\ Alive(k) = Alive(g) /\ \A x \in Alive(g) : k.pcb[x] = g.pcb[x]
  BY <1>1, <1>2, CollectOnward
<1>7. PICK free, slot : free = {s \in Slots : ~k.pcb[s].used}
                        /\ slot = CHOOSE s \in free : \A t \in free : s =< t
  OBVIOUS
<1>8. free # {} => slot \in free
  <2>1. free \in SUBSET Nat
    BY <1>7, SlotFacts
  <2>2. free # {} => \E s \in free : \A t \in free : s =< t
    BY <2>1, SmallestOf
  <2>3. QED
    BY <1>7, <2>2
<1>9. PICK counted, child, linked :
         /\ counted = FreshPid(k) /\ child = Child(k.next_pid, fg, k.pcb[c].pid)
         /\ linked = Linked(k, slot, c, child)
  OBVIOUS
<1>10. j = IF free = {} THEN k
           ELSE IF nomem THEN counted
           ELSE IF fg THEN [linked EXCEPT !.fg_pid = k.next_pid] ELSE linked
  BY <1>1, <1>7, <1>9 DEF proc_create, Caller, Child, Linked
<1>11. CASE free = {}
  BY <1>1, <1>2, <1>10, <1>11, SnapshotOnward
<1>12. CASE free # {} /\ nomem
  <2>1. j.pcb = k.pcb /\ j.fg_pid = k.fg_pid /\ j.may = k.may /\ j.current = c
    BY <1>3, <1>5, <1>9, <1>10, <1>12 DEF FreshPid, Kernel
  <2>2. Waiter(k, c) => Waiter(j, c)
    BY <2>1 DEF Waiter
  <2>3. Onward(k, j) /\ Alive(j) = Alive(k)
    BY <1>4, <1>5, <2>1, <2>2, OneOnward
  <2>4. Onward(g, j)
    BY <1>3, <1>6, <2>3, OnwardTrans
  <2>5. \A s \in Slots : s # g.current => /\ s \in Alive(j) <=> s \in Alive(g)
                                          /\ s \in Alive(g) => j.pcb[s].state = g.pcb[s].state
    BY <1>6, <2>1, <2>3
  <2>6. Abstract!Next
    BY <1>1, <2>1, <2>5, StillShown
  <2>7. QED
    BY <1>1, <2>4, <2>6
<1>13. CASE free # {} /\ ~nomem
  <2>1. slot \in Slots /\ ~k.pcb[slot].used /\ slot # c
    <3>1. slot \in free
      BY <1>8, <1>13
    <3>2. free = {s \in Slots : ~k.pcb[s].used}
      BY <1>7
    <3>3. slot \in Slots /\ ~k.pcb[slot].used
      BY <3>1, <3>2
    <3>4. slot # c
      BY <1>5, <3>3
    <3>5. QED
      BY <3>3, <3>4
  <2>2. j = IF fg THEN [linked EXCEPT !.fg_pid = k.next_pid] ELSE linked
    BY <1>10, <1>13
  <2>3. Joined(k, j, slot, c, fg)
    BY <1>5, <1>9, <2>1, <2>2, JoinedMade
  <2>4. fg => k.pcb[c].pid = Shell \/ "nested_fg" \in k.may
    <3>1. fg => g.pcb[c].pid = Shell \/ "nested_fg" \in g.may
      BY <1>1 DEF proc_create, Caller
    <3>2. c \in Alive(k)
      BY <1>4, <1>5 DEF Alive
    <3>3. k.pcb[c] = g.pcb[c]
      BY <1>6, <3>2
    <3>4. QED
      BY <1>3, <3>1, <3>3
  <2>5. Onward(k, j) /\ Alive(j) = Alive(k) \cup {slot}
    BY <1>3, <1>4, <1>5, <2>1, <2>3, <2>4, JoinedOnward
  <2>6. Onward(g, j)
    BY <1>3, <1>6, <2>5, OnwardTrans
  <2>7. PICK now : now = Shown(g)
    OBVIOUS
  <2>8. slot # Idle /\ slot \notin Alive(k)
    BY <1>4, <2>1, LifeFacts DEF Alive
  <2>9. slot \in Others /\ now[slot] = "FREE"
    BY <1>1, <1>6, <2>1, <2>7, <2>8 DEF Shown, Others
  <2>10. /\ j.current = g.current /\ j.pcb[slot].state = "READY"
         /\ \A t \in Slots : t # slot => j.pcb[t].state = k.pcb[t].state
    BY <1>1, <1>3, <2>3 DEF Joined
  <2>11. ASSUME NEW s \in Others
         PROVE  Shown(j)[s] = IF s \in {slot} THEN "READY" ELSE now[s]
    <3>1. /\ Shown(j)[s] = IF s = c THEN "RUNNING" ELSE IF s \in Alive(j) THEN j.pcb[s].state ELSE "FREE"
          /\ now[s] = IF s = c THEN "RUNNING" ELSE IF s \in Alive(g) THEN g.pcb[s].state ELSE "FREE"
      BY <1>1, <2>7, <2>10 DEF Shown
    <3>2. CASE s = slot
      BY <2>1, <2>5, <2>10, <3>1, <3>2
    <3>3. CASE s # slot
      <4>1. s \in Slots /\ (s \in Alive(j) <=> s \in Alive(g))
        BY <1>6, <2>5, <3>3 DEF Others
      <4>2. s \in Alive(g) => j.pcb[s].state = g.pcb[s].state
        BY <1>6, <2>10, <3>3, <4>1
      <4>3. QED
        BY <3>1, <3>3, <4>1, <4>2
    <3>4. QED
      BY <3>2, <3>3
  <2>12. Shown(j) = Abstract!With(now, {slot}, "READY")
    <3>1. Shown(j) = [x \in Others |-> Shown(j)[x]]
      BY DEF Shown
    <3>2. QED
      BY <2>11, <3>1 DEF Abstract!With, Others
  <2>13. Abstract!Next
    BY <1>1, <2>7, <2>9, <2>10, <2>12, ShownCreate
  <2>14. QED
    BY <1>1, <2>6, <2>13
<1>14. QED
  BY <1>11, <1>12, <1>13

\* Every step keeps the waiting and the terminal in order, and is one that ProcStates allows.
LEMMA StepOnward ==
    ASSUME Good(kernel), Orderly, Next
    PROVE  Onward(kernel, kernel') /\ Abstract!Next
<1>1. \A pid \in Pids : pid \in Int /\ pid > 0
  <2>1. PICK P, n : P = kernel.pcb /\ n = kernel.next_pid
    OBVIOUS
  <2>2. Numbered(P, n) /\ n \in Int
    BY <2>1, GoodFacts, KernelFacts DEF Sound, Core
  <2>3. \A s \in Slots : P[s].used => P[s].pid \in 1 .. n - 1
    BY <2>2 DEF Numbered
  <2>4. \A x \in 1 .. n - 1 : x \in Int /\ x > 0
    BY <2>2
  <2>5. QED
    BY <2>1, <2>3, <2>4 DEF Pids
<1>2. CASE Tick
  BY <1>2, TickOnward
<1>3. CASE WaitReturns
  BY <1>3, WaitReturnsOnward
<1>4. CASE EntryReturns
  BY <1>4, EntryReturnsOnward
<1>5. CASE proc_snapshot
  <2>1. kernel' = collect_zombies(kernel)
    BY <1>5 DEF proc_snapshot
  <2>2. QED
    BY <2>1, SnapshotOnward
<1>6. CASE \E fg \in BOOLEAN, nomem \in NoMem : proc_create(fg, nomem)
  BY <1>6, CreateOnward
<1>7. CASE \E pid \in Pids \cup {-1} : proc_wait(pid)
  <2>1. PICK pid \in Pids \cup {-1} : proc_wait(pid)
    BY <1>7
  <2>2. pid \in Int /\ (pid = -1 \/ pid > 0)
    BY <1>1
  <2>3. QED
    BY <2>1, <2>2, WaitOnward
<1>8. CASE \E nomem \in NoMem, woken \in SUBSET Sleepers(kernel) :
              \/ proc_exit(nomem, woken)
              \/ TrampolineExit(nomem, woken)
              \/ CtrlC(nomem, woken)
              \/ \E pid \in Pids : proc_kill(pid, nomem, woken)
  BY <1>8, SysExitOnward, TrampolineExitOnward, CtrlCOnward, SysKillOnward
<1>9. CASE \E pid \in Pids : proc_block(pid)
  BY <1>9, BlockOnward
<1>10. CASE \E s \in Slots : proc_unblock(s)
  BY <1>10, UnblockOnward
<1>11. QED
  BY <1>2, <1>3, <1>4, <1>5, <1>6, <1>7, <1>8, <1>9, <1>10 DEF Next

-----------------------------------------------------------------------------
(* The waiting and the terminal, in every state *)

\* Who sleeps in proc_wait, unless it may be unblocked there, and who has the terminal,
\* unless others than the shell may start foreground processes.
Settled(k) ==
    /\ "unblock_waiter" \notin k.may => Waits(k)
    /\ "nested_fg" \notin k.may => Ruled(k, Alive(k))

InvOnward == Inv /\ Settled(kernel)

\* main leaves nobody waiting, and the shell with the terminal.
LEMMA InitSettled ==
    ASSUME Init
    PROVE  Settled(kernel)
<1>1. PICK k, P : /\ k = kernel /\ P = k.pcb /\ k.fg_pid = Shell
                  /\ P = [s \in Slots |-> CASE s = Idle -> IdleRecord [] s = 1 -> ShellRecord
                                            [] OTHER -> Unused]
  BY DEF Init, IdleRecord, ShellRecord
<1>2. Idle \in Slots /\ 1 \in Slots /\ 1 # Idle
  BY ProcAssumption DEF Slots, Idle
<1>3. PICK idle, shell : idle = IdleRecord /\ shell = ShellRecord
  OBVIOUS
<1>4. P[Idle] = idle /\ P[1] = shell /\ \A s \in Slots : s # Idle /\ s # 1 => P[s] = Unused
  BY <1>1, <1>2, <1>3
<1>5. idle.used /\ idle.state = "RUNNING" /\ idle.at = "user" /\ idle.waiting_for = 0
  BY <1>3 DEF IdleRecord, Unused
<1>6. /\ shell.used /\ shell.state = "READY" /\ shell.at = "user" /\ shell.waiting_for = 0
      /\ shell.fg = TRUE /\ shell.pid = Shell /\ shell.parent_pid = IdlePid
  BY <1>3 DEF ShellRecord, Unused
<1>7. ~Unused.used
  BY DEF Unused
<1>8. \A s \in Alive(k) : s = Idle \/ s = 1
  BY <1>1, <1>4, <1>7 DEF Alive
<1>9. 1 \in Alive(k)
  BY <1>1, <1>2, <1>4, <1>6 DEF Alive
<1>10. Waits(k)
  <2>1. \A s \in Alive(k) : P[s].waiting_for = 0 /\ P[s].at = "user"
    BY <1>4, <1>5, <1>6, <1>8
  <2>2. \A s \in Alive(k) : Waiter(k, s)
    BY <1>1, <2>1 DEF Waiter
  <2>3. QED
    BY <2>2 DEF Waits
<1>11. Ruled(k, Alive(k))
  <2>1. P[1].pid = k.fg_pid /\ P[1].fg
    BY <1>1, <1>4, <1>6
  <2>2. \A s \in Alive(k) : Ruler(k, Alive(k), s)
    BY <1>1, <1>4, <1>6, <1>8 DEF Ruler
  <2>3. idle.pid = IdlePid /\ IdlePid # Shell
    BY <1>3, IdleMade, SlotFacts
  <2>4. \A s \in Alive(k) : P[s].pid = Shell => P[s].fg /\ P[s].parent_pid = IdlePid
    BY <1>4, <1>6, <1>8, <2>3
  <2>5. QED
    BY <1>1, <1>9, <2>1, <2>2, <2>4 DEF Ruled
<1>12. QED
  BY <1>1, <1>10, <1>11 DEF Settled

\* The invariant with the waiting and the terminal.
THEOREM InvarianceOnward == Spec /\ Orderly => []InvOnward
<1>1. Init /\ Orderly => InvOnward
  BY InitGood, InitSettled DEF Inv, InvOnward
<1>2. InvOnward /\ [Next]_kernel => InvOnward'
  <2>1. ASSUME InvOnward, Next
        PROVE  Good(kernel') /\ Settled(kernel') /\ kernel'.may = kernel.may
    <3>1. Good(kernel) /\ Orderly /\ Settled(kernel)
      BY <2>1 DEF InvOnward, Inv
    <3>2. Good(kernel') /\ kernel'.may = kernel.may
      BY <2>1, <3>1, StepGood
    <3>3. Onward(kernel, kernel')
      BY <2>1, <3>1, StepOnward
    <3>4. QED
      BY <3>1, <3>2, <3>3 DEF Onward, Settled
  <2>2. Good(kernel') => Good(kernel)'
    BY DEF Good, Exiting, Sound, Core, Kernel
  <2>3. Settled(kernel') => Settled(kernel)'
    BY DEF Settled, Waits, Waiter, Has, Ruled, Ruler, Alive
  <2>4. InvOnward /\ Next => InvOnward'
    BY <2>1, <2>2, <2>3 DEF InvOnward, Inv, Orderly
  <2>5. InvOnward /\ kernel' = kernel => InvOnward'
    BY <2>2, <2>3 DEF InvOnward, Inv, Orderly
  <2>6. QED
    BY <2>4, <2>5
<1>3. QED
  BY <1>1, <1>2, PTL DEF Spec

\* proc_wait never sleeps for good over a result that is there, or for a child that is
\* gone: unless proc_unblock is called for a waiter, whoever waits has no result to take
\* and a child left whose proc_exit or proc_kill will wake it.
THEOREM WaitersAreWoken == Spec /\ Orderly => []WaitersHaveChildren
<1>1. InvOnward => WaitersHaveChildren
  <2> SUFFICES ASSUME InvOnward, "unblock_waiter" \notin kernel.may,
                      NEW s \in InState(kernel, "BLOCKED"), kernel.pcb[s].waiting_for # 0
               PROVE  /\ ~HasResult(kernel, s, kernel.pcb[s].waiting_for)
                      /\ \E c \in kernel.pcb[s].kids \cap (Alive(kernel) \cup {Caller}) :
                            \/ kernel.pcb[s].waiting_for =< 0
                            \/ kernel.pcb[c].pid = kernel.pcb[s].waiting_for
    BY DEF WaitersHaveChildren
  <2>1. PICK k, P, Z, x : k = kernel /\ P = kernel.pcb /\ Z = kernel.zombies /\ x = P[s].waiting_for
    OBVIOUS
  <2>2. s \in Slots /\ P[s].used /\ P[s].state = "BLOCKED"
    BY <2>1 DEF InState
  <2>3. s \in Alive(k)
    BY <2>1, <2>2 DEF Alive
  <2>4. Waits(k)
    BY <2>1 DEF InvOnward, Settled
  <2>5. Waiter(k, s)
    BY <2>3, <2>4 DEF Waits
  <2>6. /\ ~Has(P[s], x) /\ P[s].target = x
        /\ \E c \in P[s].kids : P[s].target = -1 \/ P[c].pid = P[s].target
    BY <2>1, <2>5 DEF Waiter
  <2>7. ~HasResult(k, s, x)
    BY <2>1, <2>6, HasIs
  <2>8. PICK c \in P[s].kids : x = -1 \/ P[c].pid = x
    BY <2>6
  <2>9. Inv
    BY DEF InvOnward
  <2>10. P \in [Slots -> Pcb] /\ Tree(P, Z) /\ Dead(P, Z, Exiting(k)) /\ Numbered(P, kernel.next_pid)
    BY <2>1, <2>9, InvParts
  <2>11. P[s] \in Pcb
    BY <2>2, <2>10
  <2>12. c \in Slots
    BY <2>11 DEF Pcb
  <2>13. P[c].used /\ P[c].parent_pid = P[s].pid
    BY <2>2, <2>10, <2>12 DEF Tree
  <2>14. P[s].pid # -1
    <3>1. P[s].pid \in Nat
      BY <2>11 DEF Pcb
    <3>2. QED
      BY <3>1
  <2>15. c \notin Z
    BY <2>10, <2>13, <2>14 DEF Tree
  <2>16. P[c].state = "EXITED" => c \in Exiting(k)
    BY <2>10, <2>12, <2>13, <2>15 DEF Dead
  <2>17. c \in Alive(k) \cup {Caller}
    BY <2>1, <2>12, <2>13, <2>16 DEF Alive, Exiting, Caller
  <2>18. x = -1 => x =< 0
    OBVIOUS
  <2>19. QED
    BY <2>1, <2>7, <2>8, <2>17, <2>18
<1>2. QED
  BY <1>1, InvarianceOnward, PTL

\* Whoever proc_wait wakes up has the result it slept for: the call does not fail while
\* the child it waits for lives, unless proc_unblock is called for the waiter or the
\* result has found no memory.
THEOREM WokenHaveResults == Spec /\ Orderly => []WaitHasResult
<1>1. InvOnward => WaitHasResult
  <2> SUFFICES ASSUME InvOnward, kernel.may \cap {"unblock_waiter", "malloc_fails"} = {},
                      NEW s \in InState(kernel, "READY") \cup InState(kernel, "RUNNING"),
                      kernel.pcb[s].at = "wait"
               PROVE  HasResult(kernel, s, kernel.pcb[s].target)
    BY DEF WaitHasResult
  <2>1. PICK k, a : k = kernel /\ a = kernel.pcb[s]
    OBVIOUS
  <2>2. "unblock_waiter" \notin k.may /\ "malloc_fails" \notin k.may
    BY <2>1
  <2>3. s \in Slots /\ a.used /\ (a.state = "READY" \/ a.state = "RUNNING")
    BY <2>1 DEF InState
  <2>4. s \in Alive(k) /\ a.state # "BLOCKED"
    BY <2>1, <2>3 DEF Alive
  <2>5. Waiter(k, s)
    BY <2>1, <2>2, <2>4 DEF InvOnward, Settled, Waits
  <2>6. a.waiting_for = 0
    BY <2>1, <2>4, <2>5 DEF Waiter
  <2>7. /\ a.target = -1 \/ a.target > 0
        /\ a.waiting_for = a.target \/ Has(a, a.target)
    BY <2>1, <2>2, <2>5 DEF Waiter
  <2>8. a.target \in Int
    <3>1. kernel.pcb \in [Slots -> Pcb]
      BY InvParts DEF InvOnward
    <3>2. a \in Pcb
      BY <2>1, <2>3, <3>1
    <3>3. QED
      BY <3>2 DEF Pcb
  <2>9. Has(a, a.target)
    BY <2>6, <2>7, <2>8
  <2>10. QED
    BY <2>1, <2>9, HasIs
<1>2. QED
  BY <1>1, InvarianceOnward, PTL

\* The process that fg_pid names lives: the keyboard reaches somebody, and Ctrl+C does
\* not look for a process that is gone.
THEOREM ForegroundLives == Spec /\ Orderly => []ForegroundAlive
<1>1. InvOnward => ForegroundAlive
  <2> SUFFICES ASSUME InvOnward, "nested_fg" \notin kernel.may
               PROVE  Having(kernel, kernel.fg_pid) \cap Alive(kernel) # {}
    BY DEF ForegroundAlive
  <2>1. PICK s \in Alive(kernel) : kernel.pcb[s].pid = kernel.fg_pid
    BY DEF InvOnward, Settled, Ruled
  <2>2. s \in Having(kernel, kernel.fg_pid)
    BY <2>1 DEF Having, Alive
  <2>3. QED
    BY <2>1, <2>2
<1>2. QED
  BY <1>1, InvarianceOnward, PTL

\* Every step of the process table is one that ProcStates allows, or one that the
\* scheduler does not see: a process leaves the ready ones only for the CPU, the CPU
\* passes only to a ready process, and to idle only when there is none.
THEOREM StatesImplemented == Spec /\ Orderly => ImplementsProcStates
<1>1. Inv /\ [Next]_kernel => [Abstract!Next]_<<Abstract!vars>>
  <2>1. Inv /\ Next => Abstract!Next
    BY StepOnward DEF Inv
  <2>2. kernel' = kernel => UNCHANGED Abstract!vars
    <3>1. ASSUME kernel' = kernel
          PROVE  UNCHANGED Abstract!vars
      BY <3>1 DEF Abstract!vars, Caller, Alive
    <3>2. QED
      BY <3>1
  <2>3. QED
    BY <2>1, <2>2
<1>2. QED
  BY <1>1, Invariance, PTL DEF Spec, ImplementsProcStates
=============================================================================
