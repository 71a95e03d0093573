----------------------------- MODULE SchedProofs -----------------------------
(***************************************************************************)
(* Proofs about Sched, for every set of processes and every value of the   *)
(* constants.  Inv is inductive.  The argument follows schedule(): the     *)
(* outgoing process is requeued, the queues age, one process is picked;    *)
(* each of the three is a lemma between two of the predicates Leaving,     *)
(* NoneRunning and Inv, and each handler reduces to them.                  *)
(***************************************************************************)
EXTENDS Sched, QueueProofs

\* The queue pick_next looks for exists unless every queue is empty: a
\* non-empty set of priorities has a greatest element.
LEMMA TopPrioExists ==
    ASSUME NEW s, \E i \in Prios : s.ready[i] # <<>>
    PROVE  /\ TopPrio(s) \in Prios
           /\ s.ready[TopPrio(s)] # <<>>
<1> DEFINE Busy == {i \in Prios : s.ready[i] # <<>>}
           Below == {HIGHEST_PRIO - i : i \in Busy}
<1>1. HIGHEST_PRIO \in Nat /\ Prios = 0 .. HIGHEST_PRIO
  BY SchedAssumption DEF HIGHEST_PRIO, Prios, MIN_PRIO
<1>2. Below \subseteq Nat /\ Below # {}
  BY <1>1
<1>3. PICK x \in Below : \A y \in Below : ~(<<y, x>> \in OpToRel(<, Nat))
  BY <1>2, WFMin, NatLessThanWellFounded
<1>4. \A y \in Below : ~(y < x)
  BY <1>2, <1>3 DEF OpToRel
<1>5. PICK i \in Busy : x = HIGHEST_PRIO - i
  BY <1>3
<1>6. \A j \in Prios : j > i => s.ready[j] = <<>>
  <2> SUFFICES ASSUME NEW j \in Prios, j > i, s.ready[j] # <<>> PROVE FALSE
    OBVIOUS
  <2>1. HIGHEST_PRIO - j \in Below
    OBVIOUS
  <2>2. HIGHEST_PRIO - j < x
    BY <1>1, <1>5
  <2>3. QED
    BY <2>1, <2>2, <1>4
<1>7. QED
  BY <1>5, <1>6 DEF TopPrio

-----------------------------------------------------------------------------
\* A state and the fields an operation leaves alone.
SameButQueues(s, t) ==
    /\ t.enabled = s.enabled
    /\ t.current = s.current
    /\ t.cpu = s.cpu
    /\ t.pcb = s.pcb

\* An assignment to ready_head and ready_tail touches no other field.
LEMMA NewQueues ==
    ASSUME NEW s \in SchedState, NEW R \in [Prios -> Seq(Procs)]
    PROVE  /\ [s EXCEPT !.ready = R] \in SchedState
           /\ [s EXCEPT !.ready = R].ready = R
           /\ SameButQueues(s, [s EXCEPT !.ready = R])
<1> DEFINE Q == [Prios -> Seq(Procs)]
           P == [Procs \cup {Idle} -> PCB]
<1>1. SchedState = [enabled : BOOLEAN, current : Procs \cup {Idle, NULL},
                    cpu : Procs \cup {Idle}, ready : Q, pcb : P]
  BY DEF SchedState
<1> HIDE DEF Q, P
<1>2. R \in Q
  BY DEF Q
<1>3. QED
  BY <1>1, <1>2 DEF SameButQueues

\* The range checks on priorities (proc_create, proc_nice, q_push) leave a valid
\* index into the ready queues.
LEMMA PriosFacts ==
    /\ HIGHEST_PRIO \in Nat
    /\ Prios = 0 .. HIGHEST_PRIO
    /\ MIN_PRIO = 0
    /\ \A i \in Prios : Clamp(i) = i
    /\ \A i \in Int : Clamp(i) \in Prios
    /\ DEFAULT_PRIO \in Prios
BY SchedAssumption DEF HIGHEST_PRIO, Prios, MIN_PRIO, Clamp

\* q_push appends p to the queue of its priority and changes nothing else.
LEMMA PushQueues ==
    ASSUME NEW s \in SchedState, QueueShape(s), NEW p \in Procs, p \notin Queued(s)
    PROVE  /\ q_push(s, p) \in SchedState
           /\ QueueShape(q_push(s, p))
           /\ Queued(q_push(s, p)) = Queued(s) \cup {p}
           /\ SameButQueues(s, q_push(s, p))
<1> DEFINE t == q_push(s, p)
           n == s.pcb[p].priority
<1>1. s.pcb[p] \in PCB /\ n \in Prios
  BY DEF SchedState, PCB
<1>2. /\ t = [s EXCEPT !.ready = [s.ready EXCEPT ![n] = Append(s.ready[n], p)]]
      /\ s.ready \in [Prios -> Seq(Procs)]
  BY <1>1, PriosFacts DEF q_push, SchedState
<1>3. /\ t \in SchedState
      /\ t.ready = [s.ready EXCEPT ![n] = Append(s.ready[n], p)]
      /\ SameButQueues(s, t)
  <2> DEFINE R == [s.ready EXCEPT ![n] = Append(s.ready[n], p)]
  <2>1. R \in [Prios -> Seq(Procs)]
    BY <1>1, <1>2
  <2> HIDE DEF R
  <2>2. t = [s EXCEPT !.ready = R]
    BY <1>2 DEF R
  <2>3. t \in SchedState /\ t.ready = R /\ SameButQueues(s, t)
    BY <2>1, <2>2, NewQueues
  <2>4. QED
    BY <2>3 DEF R
<1>4. /\ t.ready[n] = Append(s.ready[n], p)
      /\ \A i \in Prios \ {n} : t.ready[i] = s.ready[i]
  BY <1>1, <1>2, <1>3
<1>5. p \notin Members(s.ready[n])
  BY <1>1 DEF Queued
<1> HIDE DEF t, n
<1>6. ASSUME NEW q \in Seq(Procs), p \notin Members(q),
             \A a, b \in DOMAIN q : q[a] = q[b] => a = b
      PROVE  /\ Members(Append(q, p)) = Members(q) \cup {p}
             /\ \A a, b \in DOMAIN Append(q, p) : Append(q, p)[a] = Append(q, p)[b] => a = b
  <2>1. /\ DOMAIN Append(q, p) = 1 .. Len(q) + 1
        /\ DOMAIN q = 1 .. Len(q)
        /\ Len(q) \in Nat
        /\ \A a \in 1 .. Len(q) : Append(q, p)[a] = q[a]
        /\ Append(q, p)[Len(q) + 1] = p
    OBVIOUS
  <2>2. \A a \in 1 .. Len(q) : q[a] # p
    BY <1>6, <2>1 DEF Members
  <2> DEFINE r == Append(q, p)
  <2> HIDE DEF r
  <2>3. \A a \in DOMAIN r : a \in DOMAIN q \/ a = Len(q) + 1
    BY <2>1 DEF r
  <2>4. Members(r) = Members(q) \cup {p}
    <3>1. \A x \in Members(r) : x \in Members(q) \cup {p}
      BY <2>1, <2>3 DEF Members, r
    <3>2. \A x \in Members(q) : x \in Members(r)
      BY <2>1 DEF Members, r
    <3>3. p \in Members(r)
      BY <2>1 DEF Members, r
    <3>4. QED
      BY <3>1, <3>2, <3>3
  <2>5. \A a, b \in DOMAIN r : r[a] = r[b] => a = b
    BY <1>6, <2>1, <2>2, <2>3 DEF r
  <2>6. QED
    BY <2>4, <2>5 DEF r
<1>7. s.ready[n] \in Seq(Procs) /\ \A a, b \in DOMAIN s.ready[n] : s.ready[n][a] = s.ready[n][b] => a = b
  BY <1>1, <1>2 DEF QueueShape, n
<1>8. /\ Members(t.ready[n]) = Members(s.ready[n]) \cup {p}
      /\ \A a, b \in DOMAIN t.ready[n] : t.ready[n][a] = t.ready[n][b] => a = b
  BY <1>4, <1>5, <1>6, <1>7
<1>9. \A i \in Prios : \A x \in Members(t.ready[i]) : t.pcb[x].priority = i
  <2>1. \A i \in Prios : \A x \in Members(s.ready[i]) : s.pcb[x].priority = i
    BY DEF QueueShape, Members
  <2>2. t.pcb = s.pcb
    BY <1>3 DEF SameButQueues
  <2>3. ASSUME NEW x \in Members(t.ready[n]) PROVE t.pcb[x].priority = n
    <3>1. CASE x = p
      BY <3>1, <2>2 DEF n
    <3>2. CASE x \in Members(s.ready[n])
      BY <3>2, <2>1, <2>2, <1>1 DEF n
    <3>3. QED
      BY <2>3, <1>8, <3>1, <3>2
  <2>4. ASSUME NEW i \in Prios, i # n, NEW x \in Members(t.ready[i]) PROVE t.pcb[x].priority = i
    BY <2>1, <2>2, <2>4, <1>4
  <2>5. QED
    BY <2>3, <2>4
<1>10. QueueShape(t)
  <2>1. \A i \in Prios : \A a, b \in DOMAIN t.ready[i] : t.ready[i][a] = t.ready[i][b] => a = b
    BY <1>4, <1>8 DEF QueueShape
  <2>2. QED
    BY <2>1, <1>9 DEF QueueShape, Members
<1>11. Queued(t) = Queued(s) \cup {p}
  <2>1. n \in Prios
    BY <1>1 DEF n
  <2>2. \A i \in Prios : Members(t.ready[i]) = Members(s.ready[i]) \cup (IF i = n THEN {p} ELSE {})
    BY <1>4, <1>8
  <2>3. QED
    BY <2>1, <2>2 DEF Queued
<1>12. QED
  BY <1>3, <1>10, <1>11 DEF t

\* q_remove takes the processes of F out of their queues and changes nothing else.
LEMMA RemoveQueues ==
    ASSUME NEW s \in SchedState, QueueShape(s), NEW F
    PROVE  /\ q_remove(s, F) \in SchedState
           /\ QueueShape(q_remove(s, F))
           /\ Queued(q_remove(s, F)) = Queued(s) \ F
           /\ SameButQueues(s, q_remove(s, F))
<1> DEFINE t == q_remove(s, F)
           Keep(i) == {q \in Procs : ~(q \in F /\ s.pcb[q].priority = i)}
<1>1. s.ready \in [Prios -> Seq(Procs)]
  BY DEF SchedState
<1>2. t = [s EXCEPT !.ready = [i \in Prios |-> Filter(s.ready[i], Keep(i))]]
  BY DEF q_remove
<1>3. ASSUME NEW i \in Prios
      PROVE  /\ s.ready[i] \in Seq(Procs)
             /\ \A a, b \in DOMAIN s.ready[i] : s.ready[i][a] = s.ready[i][b] => a = b
             /\ \A x \in Members(s.ready[i]) : x \in Procs /\ s.pcb[x].priority = i
  BY <1>1 DEF QueueShape, Members
<1> HIDE DEF Keep
<1>4. ASSUME NEW i \in Prios
      PROVE  /\ Filter(s.ready[i], Keep(i)) \in Seq(Procs)
             /\ Members(Filter(s.ready[i], Keep(i))) = Members(s.ready[i]) \cap Keep(i)
             /\ \A a, b \in DOMAIN Filter(s.ready[i], Keep(i)) :
                  Filter(s.ready[i], Keep(i))[a] = Filter(s.ready[i], Keep(i))[b] => a = b
  BY <1>3, FilterProperties DEF Distinct
<1>5. /\ t \in SchedState
      /\ t.ready = [i \in Prios |-> Filter(s.ready[i], Keep(i))]
      /\ SameButQueues(s, t)
  <2> DEFINE R == [i \in Prios |-> Filter(s.ready[i], Keep(i))]
  <2>1. R \in [Prios -> Seq(Procs)]
    BY <1>4
  <2> HIDE DEF R
  <2>2. t = [s EXCEPT !.ready = R]
    BY <1>2 DEF R
  <2>3. t \in SchedState /\ t.ready = R /\ SameButQueues(s, t)
    BY <2>1, <2>2, NewQueues
  <2>4. QED
    BY <2>3 DEF R
<1> HIDE DEF t
<1>6. ASSUME NEW i \in Prios
      PROVE  Members(t.ready[i]) = Members(s.ready[i]) \ F
  <2>1. Members(t.ready[i]) = Members(s.ready[i]) \cap Keep(i)
    BY <1>4, <1>5
  <2>2. \A x \in Members(s.ready[i]) : x \in Keep(i) <=> x \notin F
    BY <1>3 DEF Keep
  <2>3. QED
    BY <2>1, <2>2
<1>7. QueueShape(t)
  <2>1. \A i \in Prios : \A a, b \in DOMAIN t.ready[i] : t.ready[i][a] = t.ready[i][b] => a = b
    BY <1>4, <1>5
  <2>2. \A i \in Prios : \A x \in Members(t.ready[i]) : t.pcb[x].priority = i
    <3> SUFFICES ASSUME NEW i \in Prios, NEW x \in Members(t.ready[i]) PROVE t.pcb[x].priority = i
      OBVIOUS
    <3>1. x \in Members(s.ready[i]) /\ t.pcb = s.pcb
      BY <1>5, <1>6 DEF SameButQueues
    <3>2. QED
      BY <3>1, <1>3
  <2>3. QED
    BY <2>1, <2>2 DEF QueueShape, Members
<1>8. Queued(t) = Queued(s) \ F
  BY <1>6 DEF Queued
<1>9. QED
  BY <1>5, <1>7, <1>8 DEF t

\* Two queues with nobody in common, one behind the other.
LEMMA ConcatQueues ==
    ASSUME NEW S, NEW q \in Seq(S), NEW r \in Seq(S),
           \A a, b \in DOMAIN q : q[a] = q[b] => a = b,
           \A a, b \in DOMAIN r : r[a] = r[b] => a = b,
           Members(q) \cap Members(r) = {}
    PROVE  /\ q \o r \in Seq(S)
           /\ Members(q \o r) = Members(q) \cup Members(r)
           /\ \A a, b \in DOMAIN (q \o r) : (q \o r)[a] = (q \o r)[b] => a = b
<1> DEFINE c == q \o r
<1>1. /\ DOMAIN q = 1 .. Len(q) /\ DOMAIN r = 1 .. Len(r)
      /\ Len(q) \in Nat /\ Len(r) \in Nat
  OBVIOUS
<1>2. /\ c \in Seq(S) /\ DOMAIN c = 1 .. Len(q) + Len(r)
      /\ \A a \in 1 .. Len(q) : c[a] = q[a]
      /\ \A a \in Len(q) + 1 .. Len(q) + Len(r) : c[a] = r[a - Len(q)]
  OBVIOUS
<1> HIDE DEF c
<1>3. \A a \in 1 .. Len(r) : c[a + Len(q)] = r[a] /\ a + Len(q) \in DOMAIN c
  BY <1>1, <1>2
<1>4. \A a \in DOMAIN c : \/ a \in DOMAIN q /\ c[a] = q[a]
                          \/ a - Len(q) \in DOMAIN r /\ c[a] = r[a - Len(q)]
  BY <1>1, <1>2
<1>5. Members(c) = Members(q) \cup Members(r)
  <2>1. \A x \in Members(c) : x \in Members(q) \cup Members(r)
    BY <1>4 DEF Members
  <2>2. \A x \in Members(q) : x \in Members(c)
    BY <1>1, <1>2 DEF Members
  <2>3. \A x \in Members(r) : x \in Members(c)
    BY <1>1, <1>3 DEF Members
  <2>4. QED
    BY <2>1, <2>2, <2>3
<1>6. \A a \in DOMAIN q, b \in DOMAIN r : q[a] # r[b]
  BY DEF Members
<1>7. \A a, b \in DOMAIN c : c[a] = c[b] => a = b
  <2> SUFFICES ASSUME NEW a \in DOMAIN c, NEW b \in DOMAIN c, c[a] = c[b] PROVE a = b
    OBVIOUS
  <2>1. a \in Int /\ b \in Int
    BY <1>1, <1>2
  <2>2. CASE a \in DOMAIN q /\ c[a] = q[a] /\ b \in DOMAIN q /\ c[b] = q[b]
    BY <2>2
  <2>3. CASE /\ a - Len(q) \in DOMAIN r /\ c[a] = r[a - Len(q)]
             /\ b - Len(q) \in DOMAIN r /\ c[b] = r[b - Len(q)]
    <3>1. a - Len(q) = b - Len(q)
      BY <2>3
    <3>2. QED
      BY <3>1, <2>1, <1>1
  <2>4. QED
    BY <1>4, <1>6, <2>2, <2>3
<1>8. QED
  BY <1>2, <1>5, <1>7 DEF c

\* An assignment to fields of the pcbs touches neither the queues nor current.
LEMMA NewPcbs ==
    ASSUME NEW s \in SchedState, NEW P \in [Procs \cup {Idle} -> PCB]
    PROVE  /\ [s EXCEPT !.pcb = P] \in SchedState
           /\ [s EXCEPT !.pcb = P].pcb = P
           /\ [s EXCEPT !.pcb = P].ready = s.ready
           /\ [s EXCEPT !.pcb = P].enabled = s.enabled
           /\ [s EXCEPT !.pcb = P].current = s.current
           /\ [s EXCEPT !.pcb = P].cpu = s.cpu
<1> DEFINE Q == [Prios -> Seq(Procs)]
           T == [Procs \cup {Idle} -> PCB]
<1>1. SchedState = [enabled : BOOLEAN, current : Procs \cup {Idle, NULL},
                    cpu : Procs \cup {Idle}, ready : Q, pcb : T]
  BY DEF SchedState
<1> HIDE DEF Q, T
<1>2. P \in T
  BY DEF T
<1>3. QED
  BY <1>1, <1>2

\* The processes of a queue of s, and how a queue of s is typed.
LEMMA QueueFacts ==
    ASSUME NEW s \in SchedState, QueueShape(s), NEW i \in Prios
    PROVE  /\ s.ready[i] \in Seq(Procs)
           /\ \A a, b \in DOMAIN s.ready[i] : s.ready[i][a] = s.ready[i][b] => a = b
           /\ Members(s.ready[i]) = {p \in Queued(s) : s.pcb[p].priority = i}
           /\ Queued(s) \subseteq Procs
<1>1. s.ready \in [Prios -> Seq(Procs)]
  BY DEF SchedState
<1>2. \A j \in Prios : \A x \in Members(s.ready[j]) : x \in Procs /\ s.pcb[x].priority = j
  BY <1>1 DEF QueueShape, Members
<1>3. Members(s.ready[i]) = {p \in Queued(s) : s.pcb[p].priority = i}
  BY <1>2 DEF Queued
<1>4. Queued(s) \subseteq Procs
  BY <1>2 DEF Queued
<1>5. QED
  BY <1>1, <1>3, <1>4 DEF QueueShape

\* A round of aging moves processes up and loses none of them.
LEMMA AgingQueues ==
    ASSUME NEW s \in SchedState, QueueShape(s)
    PROVE  /\ apply_aging(s) \in SchedState
           /\ QueueShape(apply_aging(s))
           /\ Queued(apply_aging(s)) = Queued(s)
           /\ apply_aging(s).enabled = s.enabled
           /\ apply_aging(s).current = s.current
           /\ apply_aging(s).cpu = s.cpu
           /\ \A p \in Procs \cup {Idle} :
                /\ apply_aging(s).pcb[p].state = s.pcb[p].state
                /\ apply_aging(s).pcb[p].base_priority = s.pcb[p].base_priority
                /\ apply_aging(s).pcb[p].priority >= s.pcb[p].priority
                /\ p \notin Queued(s) => apply_aging(s).pcb[p] = s.pcb[p]
<1> DEFINE promoted == Promoted(s)
           NewPcb(p) == IF p \in promoted
                        THEN [s.pcb[p] EXCEPT !.priority = @ + 1, !.aging_ticks = 0]
                        ELSE IF p \in Queued(s)
                        THEN [s.pcb[p] EXCEPT !.aging_ticks = AgedTicks(s, p)]
                        ELSE s.pcb[p]
           P == [p \in Procs \cup {Idle} |-> NewPcb(p)]
           Kept(i) == Filter(s.ready[i], Procs \ promoted)
           Raised(i) == IF i = MIN_PRIO THEN <<>> ELSE Filter(s.ready[i - 1], promoted)
           R == [i \in Prios |-> Kept(i) \o Raised(i)]
           t == apply_aging(s)
<1>1. promoted \subseteq Queued(s) /\ \A p \in promoted : s.pcb[p].priority < HIGHEST_PRIO
  BY DEF Promoted
<1>2. \A p \in Procs \cup {Idle} :
        /\ s.pcb[p] \in PCB
        /\ AgedTicks(s, p) \in 0 .. AGING_THRESHOLD
  <2>1. \A p \in Procs \cup {Idle} : s.pcb[p] \in PCB
    BY DEF SchedState
  <2>2. AGING_THRESHOLD \in Nat /\ AGING_THRESHOLD > 0
    BY SchedAssumption
  <2>3. \A p \in Procs \cup {Idle} : s.pcb[p].aging_ticks \in 0 .. AGING_THRESHOLD
    BY <2>1 DEF PCB
  <2>4. QED
    BY <2>1, <2>2, <2>3 DEF AgedTicks
<1>3. t = [[s EXCEPT !.pcb = P] EXCEPT !.ready = R]
  BY DEF apply_aging, SchedState
<1> HIDE DEF promoted
<1>4. ASSUME NEW p \in Procs \cup {Idle}
      PROVE  /\ NewPcb(p) \in PCB
             /\ NewPcb(p).state = s.pcb[p].state
             /\ NewPcb(p).base_priority = s.pcb[p].base_priority
             /\ NewPcb(p).priority = s.pcb[p].priority + (IF p \in promoted THEN 1 ELSE 0)
             /\ p \notin Queued(s) => NewPcb(p) = s.pcb[p]
  <2>1. s.pcb[p].priority \in Int
    BY <1>2, PriosFacts DEF PCB
  <2>2. CASE p \in promoted
    <3>1. s.pcb[p].priority + 1 \in Prios
      BY <2>2, <1>1, <1>2, PriosFacts DEF PCB
    <3>2. NewPcb(p) = [s.pcb[p] EXCEPT !.priority = s.pcb[p].priority + 1, !.aging_ticks = 0]
      BY <2>2
    <3>3. 0 \in 0 .. AGING_THRESHOLD
      BY SchedAssumption
    <3>4. p \in Queued(s)
      BY <2>2, <1>1
    <3> HIDE DEF NewPcb
    <3>5. QED
      BY <3>1, <3>2, <3>3, <3>4, <1>2, <2>2 DEF PCB
  <2>3. CASE p \notin promoted /\ p \in Queued(s)
    <3>1. NewPcb(p) = [s.pcb[p] EXCEPT !.aging_ticks = AgedTicks(s, p)]
      BY <2>3
    <3> HIDE DEF NewPcb
    <3>2. QED
      BY <3>1, <1>2, <2>1, <2>3 DEF PCB
  <2>4. CASE p \notin promoted /\ p \notin Queued(s)
    BY <1>2, <2>1, <2>4
  <2>5. QED
    BY <2>2, <2>3, <2>4
<1> HIDE DEF NewPcb
<1>5. P \in [Procs \cup {Idle} -> PCB]
  BY <1>4
<1>6. ASSUME NEW i \in Prios
      PROVE  /\ Kept(i) \in Seq(Procs)
             /\ Members(Kept(i)) = {p \in Queued(s) \ promoted : s.pcb[p].priority = i}
             /\ \A a, b \in DOMAIN Kept(i) : Kept(i)[a] = Kept(i)[b] => a = b
  <2>1. /\ Kept(i) \in Seq(Procs)
        /\ Members(Kept(i)) = Members(s.ready[i]) \cap (Procs \ promoted)
        /\ \A a, b \in DOMAIN Kept(i) : Kept(i)[a] = Kept(i)[b] => a = b
    BY QueueFacts, FilterProperties DEF Distinct
  <2> HIDE DEF Kept
  <2>2. Members(Kept(i)) = {p \in Queued(s) \ promoted : s.pcb[p].priority = i}
    BY <2>1, QueueFacts
  <2>3. QED
    BY <2>1, <2>2
<1>7. ASSUME NEW i \in Prios
      PROVE  /\ Raised(i) \in Seq(Procs)
             /\ Members(Raised(i)) = {p \in promoted : s.pcb[p].priority + 1 = i}
             /\ \A a, b \in DOMAIN Raised(i) : Raised(i)[a] = Raised(i)[b] => a = b
  <2>0. \A p \in Queued(s) : s.pcb[p].priority \in Prios
    BY <1>2, QueueFacts DEF PCB
  <2>1. CASE i = MIN_PRIO
    <3>1. Raised(i) = <<>>
      BY <2>1
    <3>2. {p \in promoted : s.pcb[p].priority + 1 = i} = {}
      BY <1>1, <2>0, <2>1, PriosFacts
    <3> HIDE DEF Raised
    <3>3. Members(Raised(i)) = {}
      BY <3>1 DEF Members
    <3>4. QED
      BY <3>1, <3>2, <3>3
  <2>2. CASE i # MIN_PRIO
    <3>1. i - 1 \in Prios /\ Raised(i) = Filter(s.ready[i - 1], promoted)
      BY <2>2, PriosFacts
    <3> HIDE DEF Raised
    <3>2. /\ Raised(i) \in Seq(Procs)
          /\ Members(Raised(i)) = Members(s.ready[i - 1]) \cap promoted
          /\ \A a, b \in DOMAIN Raised(i) : Raised(i)[a] = Raised(i)[b] => a = b
      BY <3>1, QueueFacts, FilterProperties DEF Distinct
    <3>3. Members(s.ready[i - 1]) = {p \in Queued(s) : s.pcb[p].priority = i - 1}
      BY <3>1, QueueFacts
    <3>4. \A p \in promoted : p \in Queued(s) /\ s.pcb[p].priority \in Int
      BY <1>1, <2>0, PriosFacts
    <3>5. i \in Int
      BY PriosFacts
    <3>6. \A p \in promoted : s.pcb[p].priority = i - 1 <=> s.pcb[p].priority + 1 = i
      BY <3>4, <3>5
    <3>7. Members(Raised(i)) = {p \in promoted : s.pcb[p].priority + 1 = i}
      BY <3>2, <3>3, <3>4, <3>6
    <3>8. QED
      BY <3>2, <3>7
  <2>3. QED
    BY <2>1, <2>2
<1> HIDE DEF Kept, Raised
<1>8. ASSUME NEW i \in Prios
      PROVE  /\ R[i] \in Seq(Procs)
             /\ Members(R[i]) = Members(Kept(i)) \cup Members(Raised(i))
             /\ \A a, b \in DOMAIN R[i] : R[i][a] = R[i][b] => a = b
  <2>1. Members(Kept(i)) \cap Members(Raised(i)) = {}
    BY <1>6, <1>7
  <2>2. R[i] = Kept(i) \o Raised(i)
    OBVIOUS
  <2> HIDE DEF R
  <2>3. QED
    BY <2>1, <2>2, <1>6, <1>7, ConcatQueues
<1>9. R \in [Prios -> Seq(Procs)]
  BY <1>8
<1> HIDE DEF P, R
<1>10. /\ t \in SchedState /\ t.pcb = P /\ t.ready = R
       /\ t.enabled = s.enabled /\ t.current = s.current /\ t.cpu = s.cpu
  <2> DEFINE u == [s EXCEPT !.pcb = P]
  <2>1. /\ u \in SchedState /\ u.pcb = P
        /\ u.enabled = s.enabled /\ u.current = s.current /\ u.cpu = s.cpu
    BY <1>5, NewPcbs
  <2> HIDE DEF u
  <2>2. t = [u EXCEPT !.ready = R]
    BY <1>3 DEF u
  <2>3. QED
    BY <2>1, <2>2, <1>9, NewQueues DEF SameButQueues
<1> HIDE DEF t
<1>11. \A p \in Procs \cup {Idle} :
         /\ t.pcb[p].state = s.pcb[p].state
         /\ t.pcb[p].base_priority = s.pcb[p].base_priority
         /\ t.pcb[p].priority = s.pcb[p].priority + (IF p \in promoted THEN 1 ELSE 0)
         /\ p \notin Queued(s) => t.pcb[p] = s.pcb[p]
  BY <1>4, <1>10 DEF P
<1>12. \A p \in Procs \cup {Idle} : t.pcb[p].priority >= s.pcb[p].priority
  <2>1. \A p \in Procs \cup {Idle} : s.pcb[p].priority \in Int
    BY <1>2, PriosFacts DEF PCB
  <2>2. QED
    BY <2>1, <1>11
<1>13. Queued(s) \subseteq Procs /\ \A p \in Queued(s) : s.pcb[p].priority \in Int
  <2>1. 0 \in Prios
    BY PriosFacts
  <2>2. Queued(s) \subseteq Procs
    BY <2>1, QueueFacts
  <2>3. QED
    BY <2>2, <1>2, PriosFacts DEF PCB
<1>14. \A i \in Prios : Members(t.ready[i]) = {p \in Queued(s) : t.pcb[p].priority = i}
  <2> SUFFICES ASSUME NEW i \in Prios
               PROVE  Members(t.ready[i]) = {p \in Queued(s) : t.pcb[p].priority = i}
    OBVIOUS
  <2>1. Members(t.ready[i]) = Members(Kept(i)) \cup Members(Raised(i))
    BY <1>8, <1>10
  <2>2. \A p \in Queued(s) : t.pcb[p].priority = s.pcb[p].priority + (IF p \in promoted THEN 1 ELSE 0)
    BY <1>11, <1>13
  <2>3. \A p \in Queued(s) \ promoted : t.pcb[p].priority = s.pcb[p].priority
    BY <2>2, <1>13
  <2>4. \A p \in promoted : p \in Queued(s) /\ t.pcb[p].priority = s.pcb[p].priority + 1
    BY <2>2, <1>1
  <2>5. QED
    BY <2>1, <2>3, <2>4, <1>6, <1>7
<1>15. QueueShape(t)
  <2>1. \A i \in Prios : \A a, b \in DOMAIN t.ready[i] : t.ready[i][a] = t.ready[i][b] => a = b
    BY <1>8, <1>10
  <2>2. \A i \in Prios : \A a \in DOMAIN t.ready[i] : t.ready[i][a] \in Members(t.ready[i])
    BY DEF Members
  <2>3. QED
    BY <2>1, <2>2, <1>14 DEF QueueShape
<1>16. Queued(t) = Queued(s)
  <2>1. \A p \in Queued(s) : t.pcb[p].priority \in Prios
    BY <1>10, <1>13 DEF SchedState, PCB
  <2>2. QED
    BY <2>1, <1>14 DEF Queued
<1>17. QED
  BY <1>10, <1>11, <1>12, <1>15, <1>16 DEF t

-----------------------------------------------------------------------------
(***************************************************************************)
(* The inductive invariant, as a predicate on scheduler states, and the    *)
(* weaker predicates that hold inside a handler: Leaving while the process *)
(* on the CPU has stopped being RUNNING, NoneRunning between requeue and   *)
(* pick_next.                                                              *)
(***************************************************************************)
Boosted(s) == \A p \in Procs : s.pcb[p].priority >= s.pcb[p].base_priority

Core(s) ==
    /\ s \in SchedState
    /\ QueueShape(s)
    /\ Queued(s) = Ready(s)
    /\ s.pcb[Idle].state = "RUNNING"
    /\ Boosted(s)

Inv(s) ==
    /\ Core(s)
    /\ \A p \in Procs : s.pcb[p].state = "RUNNING" <=> s.current = p
    /\ s.current # NULL => s.cpu = s.current
    /\ \A p \in Procs : s.current = p => s.pcb[p].priority = s.pcb[p].base_priority
    /\ ~s.enabled => s.current = Idle

Leaving(s) ==
    /\ Core(s)
    /\ s.enabled
    /\ s.current # NULL
    /\ s.cpu = s.current
    /\ \A p \in Procs : s.pcb[p].state = "RUNNING" => s.current = p
    /\ s.current \notin Ready(s)
    /\ s.current \in Procs =>
         /\ s.pcb[s.current].state \in {"RUNNING", "BLOCKED", "EXITED"}
         /\ s.pcb[s.current].priority = s.pcb[s.current].base_priority

NoneRunning(s) ==
    /\ Core(s)
    /\ s.enabled
    /\ \A p \in Procs : s.pcb[p].state # "RUNNING"

\* What the proofs use of the constants of sched.h.
LEMMA ConstantFacts ==
    /\ Idle \notin Procs /\ NULL \notin Procs /\ NULL # Idle
    /\ TIME_SLICE_TICKS \in Nat /\ TIME_SLICE_TICKS > 0
    /\ 0 \in 0 .. TIME_SLICE_TICKS
    /\ TIME_SLICE_TICKS \in 0 .. TIME_SLICE_TICKS
    /\ 0 \in 0 .. AGING_THRESHOLD
BY SchedAssumption

\* Replacing one pcb keeps the type, and the queues if its priority stays.
LEMMA OnePcb ==
    ASSUME NEW s \in SchedState, NEW p \in Procs \cup {Idle}, NEW r \in PCB
    PROVE  LET t == [s EXCEPT !.pcb[p] = r]
           IN  /\ t \in SchedState
               /\ t.pcb[p] = r
               /\ \A q \in Procs \cup {Idle} : q # p => t.pcb[q] = s.pcb[q]
               /\ t.ready = s.ready
               /\ t.enabled = s.enabled
               /\ t.current = s.current
               /\ t.cpu = s.cpu
               /\ Queued(t) = Queued(s)
               /\ QueueShape(s) /\ (p \notin Queued(s) \/ r.priority = s.pcb[p].priority) => QueueShape(t)
<1> DEFINE P == [s.pcb EXCEPT ![p] = r]
           t == [s EXCEPT !.pcb[p] = r]
<1>1. s.pcb \in [Procs \cup {Idle} -> PCB] /\ s.ready \in [Prios -> Seq(Procs)]
  BY DEF SchedState
<1>2. P \in [Procs \cup {Idle} -> PCB] /\ P[p] = r /\ \A q \in Procs \cup {Idle} : q # p => P[q] = s.pcb[q]
  BY <1>1
<1>3. t = [s EXCEPT !.pcb = P]
  OBVIOUS
<1> HIDE DEF P, t
<1>4. /\ t \in SchedState /\ t.pcb = P /\ t.ready = s.ready
      /\ t.enabled = s.enabled /\ t.current = s.current /\ t.cpu = s.cpu
  BY <1>2, <1>3, NewPcbs
<1>5. Queued(t) = Queued(s)
  BY <1>4 DEF Queued
<1>6. ASSUME QueueShape(s), p \notin Queued(s) \/ r.priority = s.pcb[p].priority
      PROVE  QueueShape(t)
  <2>1. \A i \in Prios : \A a \in DOMAIN s.ready[i] :
            s.ready[i][a] \in Procs /\ s.ready[i][a] \in Queued(s)
    BY <1>1 DEF Queued, Members
  <2>2. \A x \in Queued(s) : x \in Procs => t.pcb[x].priority = s.pcb[x].priority
    BY <1>2, <1>4, <1>6
  <2>3. QED
    BY <1>4, <1>6, <2>1, <2>2 DEF QueueShape
<1>7. QED
  BY <1>2, <1>4, <1>5, <1>6 DEF t

\* schedule() assigns current and returns its frame in one go.
LEMMA NewRun ==
    ASSUME NEW s \in SchedState, NEW c \in Procs \cup {Idle}
    PROVE  /\ [s EXCEPT !.current = c, !.cpu = c] \in SchedState
           /\ [s EXCEPT !.current = c, !.cpu = c].ready = s.ready
           /\ [s EXCEPT !.current = c, !.cpu = c].pcb = s.pcb
           /\ [s EXCEPT !.current = c, !.cpu = c].enabled = s.enabled
           /\ [s EXCEPT !.current = c, !.cpu = c].current = c
           /\ [s EXCEPT !.current = c, !.cpu = c].cpu = c
<1> DEFINE Q == [Prios -> Seq(Procs)]
           T == [Procs \cup {Idle} -> PCB]
<1>1. SchedState = [enabled : BOOLEAN, current : Procs \cup {Idle, NULL},
                    cpu : Procs \cup {Idle}, ready : Q, pcb : T]
  BY DEF SchedState
<1> HIDE DEF Q, T
<1>2. QED
  BY <1>1

\* The head of a queue leaves it.
LEMMA PopQueues ==
    ASSUME NEW s \in SchedState, QueueShape(s), NEW i \in Prios, s.ready[i] # <<>>
    PROVE  LET t == [s EXCEPT !.ready[i] = Tail(@)]
           IN  /\ t \in SchedState
               /\ QueueShape(t)
               /\ Head(s.ready[i]) \in Queued(s)
               /\ Queued(t) = Queued(s) \ {Head(s.ready[i])}
               /\ SameButQueues(s, t)
<1> DEFINE q == s.ready[i]
           h == Head(q)
           R == [s.ready EXCEPT ![i] = Tail(q)]
           t == [s EXCEPT !.ready[i] = Tail(@)]
<1>1. s.ready \in [Prios -> Seq(Procs)] /\ q \in Seq(Procs) /\ q # <<>>
  BY DEF SchedState
<1>2. R \in [Prios -> Seq(Procs)] /\ R[i] = Tail(q) /\ \A j \in Prios : j # i => R[j] = s.ready[j]
  BY <1>1
<1>3. t = [s EXCEPT !.ready = R]
  OBVIOUS
<1>4. /\ Len(q) \in Nat /\ Len(q) > 0 /\ DOMAIN q = 1 .. Len(q) /\ h = q[1]
      /\ DOMAIN Tail(q) = 1 .. Len(q) - 1
      /\ \A a \in 1 .. Len(q) - 1 : Tail(q)[a] = q[a + 1]
  BY <1>1
<1>5. \A a, b \in DOMAIN q : q[a] = q[b] => a = b
  BY DEF QueueShape
<1> DEFINE r == Tail(q)
<1> HIDE DEF R, t, h, r
<1>6. h \in Members(q) /\ Members(r) = Members(q) \ {h}
  <2>1. h \in Members(q)
    BY <1>4 DEF Members
  <2>2. \A x \in Members(r) : x \in Members(q) /\ x # h
    BY <1>4, <1>5 DEF Members, r
  <2>3. \A a \in DOMAIN q : q[a] # h => a - 1 \in DOMAIN r /\ r[a - 1] = q[a]
    BY <1>4 DEF r
  <2>4. \A x \in Members(q) : x # h => x \in Members(r)
    BY <2>3 DEF Members
  <2>5. QED
    BY <2>1, <2>2, <2>4
<1>7. \A a, b \in DOMAIN r : r[a] = r[b] => a = b
  <2>1. \A a \in DOMAIN r : a \in Int /\ a + 1 \in DOMAIN q /\ r[a] = q[a + 1]
    BY <1>4 DEF r
  <2>2. \A a, b \in DOMAIN r : r[a] = r[b] => a + 1 = b + 1
    BY <2>1, <1>5
  <2>3. QED
    BY <2>1, <2>2
<1>8. t \in SchedState /\ t.ready = R /\ SameButQueues(s, t)
  BY <1>2, <1>3, NewQueues
<1>9. \A j \in Prios : Members(t.ready[j]) = Members(s.ready[j]) \ {h}
  <2>1. \A j \in Prios : j # i => h \notin Members(s.ready[j])
    <3>1. h \in Queued(s) /\ s.pcb[h].priority = i
      BY <1>6, QueueFacts
    <3>2. QED
      BY <3>1, QueueFacts
  <2>2. QED
    BY <2>1, <1>2, <1>6, <1>8 DEF r
<1>10. Queued(t) = Queued(s) \ {h} /\ h \in Queued(s)
  <2>1. h \in Queued(s)
    BY <1>6 DEF Queued
  <2>2. \A x : x \in Queued(t) <=> \E j \in Prios : x \in Members(t.ready[j])
    BY DEF Queued
  <2>3. \A x : x \in Queued(s) <=> \E j \in Prios : x \in Members(s.ready[j])
    BY DEF Queued
  <2>4. \A x : x \in Queued(t) <=> (x \in Queued(s) /\ x # h)
    BY <2>2, <2>3, <1>9
  <2> DEFINE A == Queued(t)
             B == Queued(s)
  <2> HIDE DEF A, B
  <2>5. A = B \ {h}
    BY <2>4 DEF A, B
  <2>6. QED
    BY <2>1, <2>5 DEF A, B
<1>11. QueueShape(t)
  <2>1. \A j \in Prios : \A a, b \in DOMAIN t.ready[j] : t.ready[j][a] = t.ready[j][b] => a = b
    BY <1>2, <1>7, <1>8 DEF QueueShape, r
  <2>2. \A j \in Prios : \A x \in Members(t.ready[j]) : t.pcb[x].priority = j
    <3> SUFFICES ASSUME NEW j \in Prios, NEW x \in Members(t.ready[j]) PROVE t.pcb[x].priority = j
      OBVIOUS
    <3>1. x \in Members(s.ready[j]) /\ t.pcb = s.pcb
      BY <1>8, <1>9 DEF SameButQueues
    <3>2. QED
      BY <3>1, QueueFacts
  <2>3. QED
    BY <2>1, <2>2 DEF QueueShape, Members
<1>12. QED
  BY <1>8, <1>10, <1>11 DEF t, h

-----------------------------------------------------------------------------
\* t is s after pick_next: a ready process runs, idle if there is none, and
\* nobody else changes state.
Chosen(s, t) ==
    /\ \A p \in Procs : t.pcb[p].state = IF p = t.current THEN "RUNNING" ELSE s.pcb[p].state
    /\ \/ t.current \in Ready(s)
       \/ t.current = Idle /\ Ready(s) = {}
    /\ t.enabled = s.enabled

\* pick_next and the switch that follows it: from a state in which nobody runs,
\* the chosen process, or idle if the queues are empty, runs alone.
LEMMA PickNext ==
    ASSUME NEW s, NoneRunning(s)
    PROVE  /\ Inv(pick_next(s))
           /\ Chosen(s, pick_next(s))
<1> DEFINE t == pick_next(s)
<1>1. /\ s \in SchedState /\ QueueShape(s) /\ Queued(s) = Ready(s)
      /\ s.pcb[Idle].state = "RUNNING" /\ Boosted(s) /\ s.enabled
      /\ \A p \in Procs : s.pcb[p].state # "RUNNING"
      /\ Idle \in Procs \cup {Idle} /\ s.pcb[Idle] \in PCB
      /\ \A p \in Procs : s.pcb[p] \in PCB
  BY DEF NoneRunning, Core, SchedState
<1>2. CASE \A i \in Prios : s.ready[i] = <<>>
  <2> DEFINE r == [s.pcb[Idle] EXCEPT !.state = "RUNNING", !.ticks_left = TIME_SLICE_TICKS]
             u == [s EXCEPT !.pcb[Idle] = r]
  <2>1. r \in PCB /\ r.state = "RUNNING"
    BY <1>1, ConstantFacts DEF PCB, ProcState
  <2>2. t = [u EXCEPT !.current = Idle, !.cpu = Idle]
    BY <1>2 DEF pick_next, run_idle
  <2> HIDE DEF r, t
  <2>3. /\ u \in SchedState /\ u.pcb[Idle] = r
        /\ \A q \in Procs : u.pcb[q] = s.pcb[q]
        /\ u.ready = s.ready /\ u.enabled = s.enabled
    <3>1. /\ u \in SchedState /\ u.pcb[Idle] = r
          /\ \A q \in Procs \cup {Idle} : q # Idle => u.pcb[q] = s.pcb[q]
          /\ u.ready = s.ready /\ u.enabled = s.enabled
      <4>1. s \in SchedState /\ Idle \in Procs \cup {Idle} /\ r \in PCB
        BY <1>1, <2>1
      <4>2. QED
        BY <4>1, OnePcb
    <3> HIDE DEF u
    <3>2. QED
      BY <3>1, ConstantFacts
  <2> HIDE DEF u
  <2>4. /\ t \in SchedState /\ t.ready = s.ready /\ t.pcb = u.pcb /\ t.enabled = s.enabled
        /\ t.current = Idle /\ t.cpu = Idle
    BY <2>2, <2>3, NewRun
  <2>5. Queued(t) = {} /\ Queued(s) = {}
    <3>1. \A i \in Prios : Members(t.ready[i]) = {} /\ Members(s.ready[i]) = {}
      BY <1>2, <2>4 DEF Members
    <3>2. QED
      BY <3>1 DEF Queued
  <2>6. Ready(t) = {} /\ QueueShape(t) /\ Boosted(t)
    <3>1. Ready(t) = Ready(s)
      BY <2>3, <2>4 DEF Ready
    <3>2. QueueShape(t)
      BY <1>2, <2>4 DEF QueueShape
    <3>3. Boosted(t)
      BY <1>1, <2>3, <2>4 DEF Boosted
    <3>4. QED
      BY <1>1, <2>5, <3>1, <3>2, <3>3
  <2>7. Core(t)
    BY <2>1, <2>3, <2>4, <2>5, <2>6 DEF Core
  <2>8. Inv(t)
    BY <1>1, <2>3, <2>4, <2>7, ConstantFacts DEF Inv
  <2>9. Chosen(s, t)
    BY <1>1, <2>3, <2>4, <2>5, ConstantFacts DEF Chosen
  <2>10. QED
    BY <2>8, <2>9 DEF t
<1>3. CASE \E i \in Prios : s.ready[i] # <<>>
  <2> DEFINE top == TopPrio(s)
             n == Head(s.ready[top])
             u == [s EXCEPT !.ready[top] = Tail(@)]
             r == [s.pcb[n] EXCEPT !.state = "RUNNING", !.ticks_left = TIME_SLICE_TICKS,
                                   !.priority = s.pcb[n].base_priority, !.aging_ticks = 0]
             v == [u EXCEPT !.pcb[n] = r]
  <2>1. top \in Prios /\ s.ready[top] # <<>>
    BY <1>3, TopPrioExists
  <2>2. t = [v EXCEPT !.current = n, !.cpu = n]
    BY <1>3 DEF pick_next
  <2> HIDE DEF top
  <2>3. /\ u \in SchedState /\ QueueShape(u) /\ n \in Queued(s)
        /\ Queued(u) = Queued(s) \ {n} /\ SameButQueues(s, u)
    BY <1>1, <2>1, PopQueues
  <2> HIDE DEF n, u, t
  <2>4. n \in Procs /\ n \in Ready(s)
    BY <1>1, <2>3 DEF Ready
  <2>5. /\ r \in PCB /\ r.state = "RUNNING" /\ r.priority = r.base_priority
    BY <1>1, <2>4, ConstantFacts DEF PCB, ProcState
  <2> HIDE DEF r
  <2>6. /\ v \in SchedState /\ v.pcb[n] = r
        /\ \A q \in Procs \cup {Idle} : q # n => v.pcb[q] = s.pcb[q]
        /\ v.enabled = s.enabled /\ Queued(v) = Queued(u) /\ QueueShape(v)
    BY <2>3, <2>4, <2>5, OnePcb DEF SameButQueues
  <2> HIDE DEF v
  <2>7. /\ t \in SchedState /\ t.ready = v.ready /\ t.pcb = v.pcb /\ t.enabled = s.enabled
        /\ t.current = n /\ t.cpu = n
    BY <2>2, <2>4, <2>6, NewRun
  <2>8. Queued(t) = Queued(s) \ {n} /\ QueueShape(t)
    BY <2>3, <2>6, <2>7 DEF Queued, QueueShape
  <2>9. Ready(t) = Ready(s) \ {n}
    BY <2>4, <2>5, <2>6, <2>7 DEF Ready
  <2>10. Boosted(t)
    <3>1. \A q \in Procs : t.pcb[q].priority \in Int /\ t.pcb[q].base_priority \in Int
      <4>1. \A q \in Procs : t.pcb[q] \in PCB
        BY <2>7 DEF SchedState
      <4>2. QED
        BY <4>1, PriosFacts DEF PCB
    <3>2. t.pcb[n].priority = t.pcb[n].base_priority
      BY <2>5, <2>6, <2>7
    <3>3. \A q \in Procs : q # n => t.pcb[q] = s.pcb[q]
      BY <2>6, <2>7
    <3>4. QED
      BY <1>1, <3>1, <3>2, <3>3 DEF Boosted
  <2>11. Core(t)
    BY <1>1, <2>4, <2>6, <2>7, <2>8, <2>9, <2>10, ConstantFacts DEF Core
  <2>12. Inv(t)
    BY <1>1, <2>4, <2>5, <2>6, <2>7, <2>11, ConstantFacts DEF Inv
  <2>13. Chosen(s, t)
    BY <2>4, <2>5, <2>6, <2>7 DEF Chosen
  <2>14. QED
    BY <2>12, <2>13 DEF t
<1>4. QED
  BY <1>2, <1>3

\* apply_aging moves processes between queues and changes nobody's state.
LEMMA AgingKeepsNoneRunning ==
    ASSUME NEW s, NoneRunning(s)
    PROVE  /\ NoneRunning(apply_aging(s))
           /\ \A p \in Procs : apply_aging(s).pcb[p].state = s.pcb[p].state
           /\ Ready(apply_aging(s)) = Ready(s)
           /\ apply_aging(s).enabled = s.enabled
<1> DEFINE t == apply_aging(s)
<1>1. /\ s \in SchedState /\ QueueShape(s) /\ Queued(s) = Ready(s)
      /\ s.pcb[Idle].state = "RUNNING" /\ Boosted(s) /\ s.enabled
      /\ \A p \in Procs : s.pcb[p].state # "RUNNING"
  BY DEF NoneRunning, Core
<1>2. /\ t \in SchedState /\ QueueShape(t) /\ Queued(t) = Queued(s) /\ t.enabled = s.enabled
      /\ \A p \in Procs \cup {Idle} : /\ t.pcb[p].state = s.pcb[p].state
                                      /\ t.pcb[p].base_priority = s.pcb[p].base_priority
                                      /\ t.pcb[p].priority >= s.pcb[p].priority
  BY <1>1, AgingQueues
<1> HIDE DEF t
<1>3. Ready(t) = Ready(s)
  BY <1>2 DEF Ready
<1>4. Boosted(t)
  <2>1. \A p \in Procs : /\ t.pcb[p].priority \in Int /\ t.pcb[p].base_priority \in Int
                         /\ s.pcb[p].priority \in Int /\ s.pcb[p].base_priority \in Int
    BY <1>1, <1>2, PriosFacts DEF SchedState, PCB
  <2>2. QED
    BY <1>1, <1>2, <2>1 DEF Boosted
<1>5. NoneRunning(t)
  BY <1>1, <1>2, <1>3, <1>4 DEF NoneRunning, Core
<1>6. QED
  BY <1>2, <1>3, <1>5 DEF t

\* The state of p once the process on the CPU of s has left it.
LeftState(s, p) ==
    IF p = s.current /\ s.pcb[p].state = "RUNNING" THEN "READY" ELSE s.pcb[p].state

\* schedule() takes the CPU away: the outgoing process is back in a queue if it
\* was RUNNING, and in none if it was BLOCKED or EXITED.
LEMMA Requeue ==
    ASSUME NEW s, Leaving(s)
    PROVE  /\ NoneRunning(requeue(s))
           /\ \A p \in Procs : requeue(s).pcb[p].state = LeftState(s, p)
<1> DEFINE t == requeue(s)
           c == s.current
<1>1. /\ s \in SchedState /\ QueueShape(s) /\ Queued(s) = Ready(s)
      /\ s.pcb[Idle].state = "RUNNING" /\ Boosted(s) /\ s.enabled
      /\ \A p \in Procs : s.pcb[p].state = "RUNNING" => c = p
      /\ c \in Procs \cup {Idle} /\ c \notin Ready(s)
      /\ c \in Procs => s.pcb[c].state \in {"RUNNING", "BLOCKED", "EXITED"}
      /\ s.pcb[c] \in PCB
  BY DEF Leaving, Core, SchedState
<1>2. CASE s.pcb[c].state = "RUNNING" /\ c # Idle
  <2> DEFINE r == [s.pcb[c] EXCEPT !.state = "READY", !.ticks_left = TIME_SLICE_TICKS,
                                   !.priority = s.pcb[c].base_priority, !.aging_ticks = 0]
             u == [s EXCEPT !.pcb[c] = r]
  <2>1. r \in PCB /\ r.state = "READY" /\ r.priority = r.base_priority
    BY <1>1, ConstantFacts DEF PCB, ProcState
  <2>2. t = q_push(u, c) /\ c \in Procs
    BY <1>1, <1>2 DEF requeue
  <2> HIDE DEF r, t
  <2>3. /\ u \in SchedState /\ u.pcb[c] = r
        /\ \A q \in Procs \cup {Idle} : q # c => u.pcb[q] = s.pcb[q]
        /\ u.enabled = s.enabled /\ Queued(u) = Queued(s) /\ QueueShape(u)
    <3>1. s \in SchedState /\ c \in Procs \cup {Idle} /\ r \in PCB /\ c \notin Queued(s) /\ QueueShape(s)
      BY <1>1, <2>1
    <3> HIDE DEF c
    <3>2. QED
      BY <3>1, OnePcb
  <2> HIDE DEF u
  <2>4. /\ t \in SchedState /\ QueueShape(t) /\ Queued(t) = Queued(s) \cup {c}
        /\ t.enabled = s.enabled /\ t.pcb = u.pcb
    <3>1. u \in SchedState /\ QueueShape(u) /\ c \in Procs /\ c \notin Queued(u)
      BY <1>1, <2>2, <2>3
    <3> HIDE DEF c
    <3>2. QED
      BY <3>1, <2>2, <2>3, PushQueues DEF SameButQueues
  <2>5. Ready(t) = Ready(s) \cup {c}
    BY <2>1, <2>2, <2>3, <2>4 DEF Ready
  <2>6. \A p \in Procs : t.pcb[p].state = LeftState(s, p) /\ t.pcb[p].state # "RUNNING"
    BY <1>1, <1>2, <2>1, <2>2, <2>3, <2>4 DEF LeftState
  <2>7. Boosted(t)
    <3>1. t.pcb[c] \in PCB
      BY <2>2, <2>4 DEF SchedState
    <3>2. t.pcb[c].priority = t.pcb[c].base_priority /\ t.pcb[c].priority \in Int
      BY <2>1, <2>3, <2>4, <3>1, PriosFacts DEF PCB
    <3>3. \A q \in Procs : q # c => t.pcb[q] = s.pcb[q]
      BY <2>3, <2>4
    <3>4. QED
      BY <1>1, <3>2, <3>3 DEF Boosted
  <2>8. NoneRunning(t)
    BY <1>1, <1>2, <2>3, <2>4, <2>5, <2>6, <2>7 DEF NoneRunning, Core
  <2>9. QED
    BY <2>6, <2>8 DEF t
<1>3. CASE c \in Procs /\ s.pcb[c].state \in {"BLOCKED", "EXITED"}
  <2> DEFINE r == [s.pcb[c] EXCEPT !.ticks_left = 0]
             u == [s EXCEPT !.pcb[c] = r]
  <2>1. /\ r \in PCB /\ r.state = s.pcb[c].state
        /\ r.priority = s.pcb[c].priority /\ r.base_priority = s.pcb[c].base_priority
    BY <1>1, ConstantFacts DEF PCB
  <2>2. t = u
    BY <1>1, <1>3, ConstantFacts DEF requeue
  <2> HIDE DEF r, t
  <2>3. /\ u \in SchedState /\ u.pcb[c] = r
        /\ \A q \in Procs \cup {Idle} : q # c => u.pcb[q] = s.pcb[q]
        /\ u.enabled = s.enabled /\ Queued(u) = Queued(s) /\ QueueShape(u)
    <3>1. s \in SchedState /\ c \in Procs \cup {Idle} /\ r \in PCB /\ r.priority = s.pcb[c].priority /\ QueueShape(s)
      BY <1>1, <2>1
    <3> HIDE DEF c
    <3>2. QED
      BY <3>1, OnePcb
  <2> HIDE DEF u
  <2>4. \A p \in Procs : /\ t.pcb[p].state = s.pcb[p].state
                         /\ t.pcb[p].priority = s.pcb[p].priority
                         /\ t.pcb[p].base_priority = s.pcb[p].base_priority
    BY <2>1, <2>2, <2>3
  <2>5. Ready(t) = Ready(s) /\ Boosted(t)
    BY <1>1, <2>4 DEF Ready, Boosted
  <2>6. \A p \in Procs : t.pcb[p].state = LeftState(s, p) /\ t.pcb[p].state # "RUNNING"
    BY <1>1, <1>3, <2>4 DEF LeftState
  <2>7. t.pcb[Idle].state = "RUNNING"
    BY <1>1, <1>3, <2>2, <2>3, ConstantFacts
  <2>8. NoneRunning(t)
    BY <1>1, <2>2, <2>3, <2>5, <2>6, <2>7 DEF NoneRunning, Core
  <2>9. QED
    BY <2>6, <2>8 DEF t
<1>4. CASE c = Idle
  <2>1. t = s
    BY <1>1, <1>4 DEF requeue
  <2>2. \A p \in Procs : s.pcb[p].state # "RUNNING" /\ LeftState(s, p) = s.pcb[p].state
    BY <1>1, <1>4, ConstantFacts DEF LeftState
  <2>3. NoneRunning(s)
    BY <1>1, <2>2 DEF NoneRunning, Core
  <2>4. QED
    BY <2>1, <2>2, <2>3
<1>5. QED
  BY <1>1, <1>2, <1>3, <1>4, ConstantFacts

\* t is s after the CPU has passed on.
Switched(s, t) ==
    /\ \A p \in Procs : t.pcb[p].state = IF p = t.current THEN "RUNNING" ELSE LeftState(s, p)
    /\ \/ t.current \in Procs /\ LeftState(s, t.current) = "READY"
       \/ t.current = Idle /\ \A p \in Procs : LeftState(s, p) # "READY"
    /\ t.enabled = s.enabled

\* The second half of schedule(): requeue, age, pick.
LEMMA SwitchIsPick ==
    ASSUME NEW s, Leaving(s)
    PROVE  /\ Inv(pick_next(apply_aging(requeue(s))))
           /\ Switched(s, pick_next(apply_aging(requeue(s))))
<1> DEFINE u == requeue(s)
           v == apply_aging(u)
           w == pick_next(v)
<1>1. NoneRunning(u) /\ \A p \in Procs : u.pcb[p].state = LeftState(s, p)
  BY Requeue
<1> HIDE DEF u
<1>2. /\ NoneRunning(v) /\ \A p \in Procs : v.pcb[p].state = u.pcb[p].state
  BY <1>1, AgingKeepsNoneRunning
<1> HIDE DEF v
<1>3. Inv(w) /\ Chosen(v, w)
  BY <1>2, PickNext
<1> HIDE DEF w
<1>4. \A p \in Procs : v.pcb[p].state = LeftState(s, p)
  BY <1>1, <1>2
<1>5. v.enabled = s.enabled
  BY <1>2 DEF NoneRunning, Leaving
<1>6. Switched(s, w)
  BY <1>3, <1>4, <1>5 DEF Switched, Chosen, Ready
<1>7. QED
  BY <1>3, <1>6 DEF u, v, w

\* Giving a different number of ticks to the process on the CPU.
LEMMA NewTicks ==
    ASSUME NEW s, Leaving(s), NEW n \in 0 .. TIME_SLICE_TICKS
    PROVE  LET t == [s EXCEPT !.pcb[s.current].ticks_left = n]
           IN  /\ Leaving(t)
               /\ t.current = s.current
               /\ t.enabled = s.enabled
               /\ t.pcb[t.current].ticks_left = n
               /\ \A p \in Procs \cup {Idle} : t.pcb[p].state = s.pcb[p].state
               /\ \A p \in Procs : LeftState(t, p) = LeftState(s, p)
<1> DEFINE c == s.current
           r == [s.pcb[c] EXCEPT !.ticks_left = n]
           u == [s EXCEPT !.pcb[c] = r]
           t == [s EXCEPT !.pcb[s.current].ticks_left = n]
<1>1. /\ s \in SchedState /\ QueueShape(s) /\ Queued(s) = Ready(s)
      /\ s.pcb[Idle].state = "RUNNING" /\ Boosted(s)
      /\ c \in Procs \cup {Idle} /\ s.pcb[c] \in PCB
  BY DEF Leaving, Core, SchedState
<1>2. /\ r \in PCB /\ r.state = s.pcb[c].state /\ r.ticks_left = n
      /\ r.priority = s.pcb[c].priority /\ r.base_priority = s.pcb[c].base_priority
  BY <1>1 DEF PCB
<1>3. t = u
  OBVIOUS
<1> HIDE DEF r, t
<1>4. /\ u \in SchedState /\ u.pcb[c] = r
      /\ \A q \in Procs \cup {Idle} : q # c => u.pcb[q] = s.pcb[q]
      /\ u.enabled = s.enabled /\ u.current = s.current /\ u.cpu = s.cpu
      /\ Queued(u) = Queued(s) /\ QueueShape(u)
  <2>1. s \in SchedState /\ c \in Procs \cup {Idle} /\ r \in PCB /\ r.priority = s.pcb[c].priority /\ QueueShape(s)
    BY <1>1, <1>2
  <2> HIDE DEF c
  <2>2. QED
    BY <2>1, OnePcb
<1> HIDE DEF u
<1>5. \A p \in Procs \cup {Idle} : /\ u.pcb[p].state = s.pcb[p].state
                                   /\ u.pcb[p].priority = s.pcb[p].priority
                                   /\ u.pcb[p].base_priority = s.pcb[p].base_priority
  BY <1>2, <1>4
<1>6. Ready(u) = Ready(s) /\ Boosted(u)
  BY <1>1, <1>5 DEF Ready, Boosted
<1>7. Core(u)
  BY <1>1, <1>4, <1>5, <1>6 DEF Core
<1>8. Leaving(u)
  BY <1>4, <1>5, <1>6, <1>7 DEF Leaving
<1>9. \A p \in Procs : LeftState(u, p) = LeftState(s, p)
  BY <1>4, <1>5 DEF LeftState
<1>10. QED
  BY <1>2, <1>3, <1>4, <1>5, <1>8, <1>9 DEF t

\* sched_force_yield always passes the CPU on.
LEMMA ForceYield ==
    ASSUME NEW s, Leaving(s)
    PROVE  /\ Inv(sched_force_yield(s))
           /\ Switched(s, sched_force_yield(s))
<1> DEFINE t == [s EXCEPT !.pcb[s.current].ticks_left = 0]
           u == [t EXCEPT !.pcb[t.current].ticks_left = 0]
<1>1. s.current # NULL
  BY DEF Leaving
<1>2. /\ Leaving(t) /\ t.current = s.current /\ t.enabled = s.enabled
      /\ t.pcb[t.current].ticks_left = 0
      /\ \A p \in Procs : LeftState(t, p) = LeftState(s, p)
  BY NewTicks, ConstantFacts
<1>3. sched_force_yield(s) = schedule(t)
  BY <1>1 DEF sched_force_yield
<1> HIDE DEF t
<1>4. /\ Leaving(u) /\ u.current = t.current /\ u.enabled = t.enabled
      /\ u.pcb[u.current].ticks_left = 0
      /\ \A p \in Procs : LeftState(u, p) = LeftState(t, p)
  BY <1>2, NewTicks, ConstantFacts
<1>5. schedule(t) = pick_next(apply_aging(requeue(u)))
  <2>1. t.enabled /\ t.current # NULL
    BY <1>2 DEF Leaving
  <2>2. [t EXCEPT !.pcb[t.current].ticks_left = IF @ > 0 THEN @ - 1 ELSE 0] = u
    BY <1>2
  <2>3. ~(u.pcb[t.current].ticks_left > 0)
    BY <1>4
  <2> HIDE DEF u
  <2>4. QED
    BY <2>1, <2>2, <2>3 DEF schedule
<1> HIDE DEF u
<1>6. Inv(schedule(t)) /\ Switched(u, schedule(t))
  BY <1>4, <1>5, SwitchIsPick
<1>7. Switched(s, schedule(t))
  BY <1>2, <1>4, <1>6 DEF Switched
<1>8. QED
  BY <1>3, <1>6, <1>7

-----------------------------------------------------------------------------
(* The invariant across each handler. *)

\* While the scheduler runs, the process on the CPU may always be made to leave.
LEMMA InvIsLeaving ==
    ASSUME NEW s, Inv(s), s.enabled, s.current # NULL
    PROVE  Leaving(s)
<1>1. s.current \in Procs \cup {Idle}
  BY DEF Inv, Core, SchedState
<1>2. s.current \notin Ready(s)
  BY DEF Inv, Ready
<1>3. QED
  BY <1>1, <1>2 DEF Inv, Leaving

\* The process on the CPU keeps it, or it passes on; every process keeps its
\* state unless it passes on.
LEMMA ScheduleStep ==
    ASSUME NEW s, Inv(s)
    PROVE  /\ Inv(schedule(s))
           /\ \/ /\ schedule(s).current = s.current
                 /\ schedule(s).enabled = s.enabled
                 /\ \A p \in Procs : schedule(s).pcb[p].state = s.pcb[p].state
              \/ s.enabled /\ s.current # NULL /\ Switched(s, schedule(s))
<1>1. CASE ~s.enabled \/ s.current = NULL
  BY <1>1 DEF schedule
<1>2. CASE s.enabled /\ s.current # NULL
  <2> DEFINE k == s.pcb[s.current].ticks_left
             n == IF k > 0 THEN k - 1 ELSE 0
             t == [s EXCEPT !.pcb[s.current].ticks_left = n]
  <2>1. Leaving(s)
    BY <1>2, InvIsLeaving
  <2>2. k \in 0 .. TIME_SLICE_TICKS
    <3>1. s.current \in Procs \cup {Idle} /\ s \in SchedState
      BY <1>2 DEF Inv, Core, SchedState
    <3>2. QED
      BY <3>1 DEF SchedState, PCB
  <2>3. n \in 0 .. TIME_SLICE_TICKS
    BY <2>2, ConstantFacts
  <2>4. [s EXCEPT !.pcb[s.current].ticks_left = IF @ > 0 THEN @ - 1 ELSE 0] = t
    OBVIOUS
  <2> HIDE DEF n, k
  <2>5. /\ Leaving(t) /\ t.current = s.current /\ t.enabled = s.enabled
        /\ \A p \in Procs \cup {Idle} : t.pcb[p].state = s.pcb[p].state
        /\ \A p \in Procs : LeftState(t, p) = LeftState(s, p)
    BY <2>1, <2>3, NewTicks
  <2> HIDE DEF t
  <2>6. \/ schedule(s) = t
        \/ schedule(s) = pick_next(apply_aging(requeue(t)))
    BY <1>2, <2>4 DEF schedule
  <2>7. CASE schedule(s) = t
    <3>1. \A p \in Procs : t.pcb[p].state = "RUNNING" <=> t.current = p
      BY <2>5 DEF Inv
    <3>2. Inv(t)
      BY <2>5, <3>1 DEF Leaving, Inv
    <3>3. QED
      BY <2>5, <2>7, <3>2
  <2>8. CASE schedule(s) = pick_next(apply_aging(requeue(t)))
    <3>1. Inv(schedule(s)) /\ Switched(t, schedule(s))
      BY <2>5, <2>8, SwitchIsPick
    <3>2. Switched(s, schedule(s))
      BY <2>5, <3>1 DEF Switched
    <3>3. QED
      BY <1>2, <3>1, <3>2
  <2>9. QED
    BY <2>6, <2>7, <2>8
<1>3. QED
  BY <1>1, <1>2 DEF Inv, Core, SchedState

\* collect_zombies releases slots and leaves queues, current and the other
\* processes alone.
LEMMA CollectZombies ==
    ASSUME NEW s, Inv(s)
    PROVE  LET t == collect_zombies(s)
           IN  /\ Inv(t)
               /\ t.current = s.current /\ t.cpu = s.cpu /\ t.enabled = s.enabled
               /\ Ready(t) = Ready(s) /\ Blocked(t) = Blocked(s)
               /\ \A p \in Procs : t.pcb[p].state = IF s.pcb[p].state = "EXITED" THEN "FREE"
                                                    ELSE s.pcb[p].state
               /\ \A p \in Procs : t.pcb[p].state # "EXITED"
<1> DEFINE P == [p \in Procs \cup {Idle} |->
                   IF s.pcb[p].state = "EXITED" THEN [s.pcb[p] EXCEPT !.state = "FREE"]
                                                ELSE s.pcb[p]]
           t == collect_zombies(s)
<1>1. s \in SchedState /\ QueueShape(s) /\ Queued(s) = Ready(s) /\ Core(s)
  BY DEF Inv, Core
<1>2. \A p \in Procs \cup {Idle} : s.pcb[p] \in PCB
  BY <1>1 DEF SchedState
<1>3. \A p \in Procs \cup {Idle} :
        /\ P[p] \in PCB
        /\ P[p].state = IF s.pcb[p].state = "EXITED" THEN "FREE" ELSE s.pcb[p].state
        /\ P[p].priority = s.pcb[p].priority
        /\ P[p].base_priority = s.pcb[p].base_priority
  BY <1>2 DEF PCB, ProcState
<1>4. t = [s EXCEPT !.pcb = P]
  BY DEF collect_zombies
<1>5. P \in [Procs \cup {Idle} -> PCB]
  BY <1>3
<1> HIDE DEF P, t
<1>6. /\ t \in SchedState /\ t.pcb = P /\ t.ready = s.ready
      /\ t.enabled = s.enabled /\ t.current = s.current /\ t.cpu = s.cpu
  BY <1>1, <1>4, <1>5, NewPcbs
<1>7. Ready(t) = Ready(s) /\ Blocked(t) = Blocked(s)
  BY <1>3, <1>6 DEF Ready, Blocked
<1>8. Queued(t) = Queued(s)
  BY <1>6 DEF Queued
<1>9. QueueShape(t)
  <2>1. \A i \in Prios : \A a \in DOMAIN s.ready[i] : s.ready[i][a] \in Procs
    BY <1>1 DEF SchedState
  <2>2. QED
    BY <1>1, <1>3, <1>6, <2>1 DEF QueueShape
<1>10. Boosted(t)
  BY <1>1, <1>3, <1>6 DEF Boosted, Core
<1>11. t.pcb[Idle].state = "RUNNING"
  BY <1>1, <1>3, <1>6 DEF Core
<1>12. Core(t)
  BY <1>1, <1>6, <1>7, <1>8, <1>9, <1>10, <1>11 DEF Core
<1>13. Inv(t)
  BY <1>3, <1>6, <1>12 DEF Inv
<1>14. QED
  BY <1>3, <1>6, <1>7, <1>13 DEF t

\* A process that was in no queue enters one.
LEMMA Enqueue ==
    ASSUME NEW s, Core(s), NEW p \in Procs, p \notin Queued(s), NEW r \in PCB,
           r.priority >= r.base_priority, s.enabled \/ s.current # NULL
    PROVE  LET t == sched_enqueue([s EXCEPT !.pcb[p] = r], p)
           IN  /\ Core(t)
               /\ t.current = s.current /\ t.cpu = s.cpu /\ t.enabled = s.enabled
               /\ \A q \in Procs \cup {Idle} : q # p => t.pcb[q] = s.pcb[q]
               /\ t.pcb[p].state = "READY"
               /\ t.pcb[p].priority = r.priority
               /\ t.pcb[p].base_priority = r.base_priority
<1> DEFINE u == [s EXCEPT !.pcb[p] = r]
           r2 == [r EXCEPT !.state = "READY", !.priority = Clamp(r.priority),
                           !.ticks_left = TIME_SLICE_TICKS, !.aging_ticks = 0]
           v == [u EXCEPT !.pcb[p] = r2]
           t == sched_enqueue(u, p)
<1>1. /\ s \in SchedState /\ QueueShape(s) /\ Queued(s) = Ready(s)
      /\ s.pcb[Idle].state = "RUNNING" /\ Boosted(s)
  BY DEF Core
<1>2. /\ u \in SchedState /\ u.pcb[p] = r
      /\ \A q \in Procs \cup {Idle} : q # p => u.pcb[q] = s.pcb[q]
      /\ u.enabled = s.enabled /\ u.current = s.current /\ u.cpu = s.cpu
      /\ Queued(u) = Queued(s) /\ QueueShape(u)
  BY <1>1, OnePcb
<1> HIDE DEF u
<1>3. t = q_push([u EXCEPT !.pcb[p] = [u.pcb[p] EXCEPT !.state = "READY",
                                   !.priority = Clamp(u.pcb[p].priority),
                                   !.ticks_left = TIME_SLICE_TICKS,
                                   !.aging_ticks = 0]], p)
  BY <1>2 DEF sched_enqueue
<1>4. t = q_push(v, p)
  BY <1>2, <1>3
<1>5. r.priority \in Prios /\ Clamp(r.priority) = r.priority
  BY PriosFacts DEF PCB
<1>6. /\ r2 \in PCB /\ r2.state = "READY" /\ r2.priority = r.priority
      /\ r2.base_priority = r.base_priority
  BY <1>5, ConstantFacts DEF PCB, ProcState
<1> HIDE DEF r2, t
<1>7. /\ v \in SchedState /\ v.pcb[p] = r2
      /\ \A q \in Procs \cup {Idle} : q # p => v.pcb[q] = u.pcb[q]
      /\ v.enabled = u.enabled /\ v.current = u.current /\ v.cpu = u.cpu
      /\ Queued(v) = Queued(u) /\ QueueShape(v)
  BY <1>2, <1>6, OnePcb
<1> HIDE DEF v
<1>8. /\ t \in SchedState /\ QueueShape(t) /\ Queued(t) = Queued(s) \cup {p}
      /\ t.pcb = v.pcb /\ t.enabled = s.enabled /\ t.current = s.current /\ t.cpu = s.cpu
  BY <1>2, <1>4, <1>7, PushQueues DEF SameButQueues
<1>9. Ready(t) = Ready(s) \cup {p}
  BY <1>2, <1>6, <1>7, <1>8 DEF Ready
<1>10. \A q \in Procs \cup {Idle} : q # p => t.pcb[q] = s.pcb[q]
  BY <1>2, <1>7, <1>8
<1>11. Boosted(t)
  BY <1>1, <1>6, <1>7, <1>8, <1>10 DEF Boosted
<1>12. t.pcb[Idle].state = "RUNNING"
  BY <1>1, <1>10, ConstantFacts
<1>13. Core(t)
  BY <1>1, <1>8, <1>9, <1>11, <1>12 DEF Core
<1>14. QED
  BY <1>6, <1>7, <1>8, <1>10, <1>13 DEF t, u

\* proc_unblock makes one blocked process READY and leaves everything else.
LEMMA UnblockStep ==
    ASSUME NEW s, Core(s), NEW p \in Blocked(s), s.enabled
    PROVE  LET t == unblock(s, p)
           IN  /\ Core(t)
               /\ t.current = s.current /\ t.cpu = s.cpu /\ t.enabled = s.enabled
               /\ \A q \in Procs \cup {Idle} : q # p => t.pcb[q] = s.pcb[q]
               /\ t.pcb[p].state = "READY"
<1> DEFINE r == [s.pcb[p] EXCEPT !.state = "READY", !.ticks_left = TIME_SLICE_TICKS,
                                 !.aging_ticks = 0]
           t == unblock(s, p)
<1>1. p \in Procs /\ s.pcb[p].state = "BLOCKED" /\ s.pcb[p] \in PCB
  BY DEF Blocked, Core, SchedState
<1>2. p \notin Queued(s)
  BY <1>1 DEF Core, Ready
<1>3. r \in PCB /\ r.priority = s.pcb[p].priority /\ r.base_priority = s.pcb[p].base_priority
  BY <1>1, ConstantFacts DEF PCB, ProcState
<1>4. r.priority >= r.base_priority
  BY <1>1, <1>3 DEF Core, Boosted
<1>5. t = sched_enqueue([s EXCEPT !.pcb[p] = r], p)
  BY DEF unblock
<1> HIDE DEF r, t
<1>6. /\ Core(t)
      /\ t.current = s.current /\ t.cpu = s.cpu /\ t.enabled = s.enabled
      /\ \A q \in Procs \cup {Idle} : q # p => t.pcb[q] = s.pcb[q]
      /\ t.pcb[p].state = "READY"
  <2>1. Core(s) /\ p \in Procs /\ p \notin Queued(s) /\ r \in PCB /\ r.priority >= r.base_priority /\ (s.enabled \/ s.current # NULL)
    BY <1>1, <1>2, <1>3, <1>4
  <2>2. QED
    BY <2>1, <1>5, Enqueue
<1>7. QED
  BY <1>6 DEF t

\* The processes that die leave their queues; the priorities of all stay.
LEMMA BuryStep ==
    ASSUME NEW s, Core(s), NEW F \in SUBSET Procs
    PROVE  LET t == bury(s, F)
           IN  /\ Core(t)
               /\ t.current = s.current /\ t.cpu = s.cpu /\ t.enabled = s.enabled
               /\ \A p \in Procs : /\ t.pcb[p].state = IF p \in F THEN "EXITED" ELSE s.pcb[p].state
                                   /\ t.pcb[p].priority = s.pcb[p].priority
                                   /\ t.pcb[p].base_priority = s.pcb[p].base_priority
<1> DEFINE G == F \cap Ready(s)
           u == q_remove(s, G)
           P == [p \in Procs \cup {Idle} |->
                   IF p \in F THEN [s.pcb[p] EXCEPT !.state = "EXITED", !.ticks_left = 0]
                              ELSE s.pcb[p]]
           t == bury(s, F)
<1>1. /\ s \in SchedState /\ QueueShape(s) /\ Queued(s) = Ready(s)
      /\ s.pcb[Idle].state = "RUNNING" /\ Boosted(s)
      /\ \A p \in Procs \cup {Idle} : s.pcb[p] \in PCB
  BY DEF Core, SchedState
<1>2. \A p \in Procs \cup {Idle} :
        /\ P[p] \in PCB
        /\ P[p].state = IF p \in F THEN "EXITED" ELSE s.pcb[p].state
        /\ P[p].priority = s.pcb[p].priority
        /\ P[p].base_priority = s.pcb[p].base_priority
  BY <1>1, ConstantFacts DEF PCB, ProcState
<1>3. t = [u EXCEPT !.pcb = P]
  BY DEF bury
<1>4. P \in [Procs \cup {Idle} -> PCB]
  BY <1>2
<1> HIDE DEF P, t
<1>5. u \in SchedState /\ QueueShape(u) /\ Queued(u) = Queued(s) \ G /\ SameButQueues(s, u)
  <2> HIDE DEF G
  <2>1. QED
    BY <1>1, RemoveQueues
<1> HIDE DEF u
<1>6. /\ t \in SchedState /\ t.pcb = P /\ t.ready = u.ready
      /\ t.enabled = u.enabled /\ t.current = u.current /\ t.cpu = u.cpu
  BY <1>3, <1>4, <1>5, NewPcbs
<1>7. Queued(t) = Queued(u)
  BY <1>6 DEF Queued
<1>8. QueueShape(t)
  <2>1. \A i \in Prios : \A a \in DOMAIN u.ready[i] : u.ready[i][a] \in Procs
    BY <1>5 DEF SchedState
  <2>2. u.pcb = s.pcb
    BY <1>5 DEF SameButQueues
  <2>3. QED
    BY <1>2, <1>5, <1>6, <2>1, <2>2 DEF QueueShape
<1>9. Ready(t) = Ready(s) \ G
  BY <1>2, <1>6 DEF Ready
<1>10. Boosted(t)
  BY <1>1, <1>2, <1>6 DEF Boosted
<1>11. t.pcb[Idle].state = "RUNNING"
  BY <1>1, <1>2, <1>6, ConstantFacts
<1>12. Core(t)
  BY <1>1, <1>5, <1>6, <1>7, <1>8, <1>9, <1>10, <1>11 DEF Core
<1>13. QED
  BY <1>2, <1>5, <1>6, <1>12 DEF t, SameButQueues

\* proc_block on a process that waits in a queue takes it out and marks it.
LEMMA BlockOtherStep ==
    ASSUME NEW s, Inv(s), NEW p \in Ready(s), p # s.current
    PROVE  LET t == block(sched_remove(s, p), p)
           IN  /\ Inv(t)
               /\ t.current = s.current /\ t.enabled = s.enabled
               /\ \A q \in Procs : t.pcb[q].state = IF q = p THEN "BLOCKED" ELSE s.pcb[q].state
<1> DEFINE u == q_remove(s, {p})
           r == [s.pcb[p] EXCEPT !.state = "BLOCKED", !.ticks_left = 0]
           v == [u EXCEPT !.pcb[p] = r]
           t == block(sched_remove(s, p), p)
<1>1. /\ s \in SchedState /\ QueueShape(s) /\ Queued(s) = Ready(s)
      /\ s.pcb[Idle].state = "RUNNING" /\ Boosted(s)
      /\ p \in Procs /\ s.pcb[p].state = "READY" /\ s.pcb[p] \in PCB
  BY DEF Inv, Core, SchedState, Ready
<1>2. sched_remove(s, p) = u
  <2>1. [s EXCEPT !.current = IF p = @ THEN NULL ELSE @] = s
    <3> DEFINE Q == [Prios -> Seq(Procs)]
               T == [Procs \cup {Idle} -> PCB]
    <3>1. s \in [enabled : BOOLEAN, current : Procs \cup {Idle, NULL},
                 cpu : Procs \cup {Idle}, ready : Q, pcb : T]
      BY <1>1 DEF SchedState
    <3> HIDE DEF Q, T
    <3>2. QED
      BY <3>1
  <2>2. QED
    BY <1>1, <2>1 DEF sched_remove
<1>3. u \in SchedState /\ QueueShape(u) /\ Queued(u) = Queued(s) \ {p} /\ SameButQueues(s, u)
  BY <1>1, RemoveQueues
<1>4. /\ r \in PCB /\ r.state = "BLOCKED" /\ r.priority = s.pcb[p].priority
      /\ r.base_priority = s.pcb[p].base_priority
  BY <1>1, ConstantFacts DEF PCB, ProcState
<1>5. t = v
  <2> HIDE DEF u
  <2>1. u.pcb = s.pcb
    BY <1>3 DEF SameButQueues
  <2>2. QED
    BY <1>2, <2>1 DEF block
<1> HIDE DEF r, u, t
<1>6. /\ v \in SchedState /\ v.pcb[p] = r
      /\ \A q \in Procs \cup {Idle} : q # p => v.pcb[q] = u.pcb[q]
      /\ v.enabled = u.enabled /\ v.current = u.current /\ v.cpu = u.cpu
      /\ Queued(v) = Queued(u) /\ QueueShape(v)
  <2>1. u \in SchedState /\ p \in Procs \cup {Idle} /\ r \in PCB /\ p \notin Queued(u) /\ QueueShape(u)
    BY <1>1, <1>3, <1>4
  <2>2. QED
    BY <2>1, OnePcb
<1> HIDE DEF v
<1>7. /\ \A q \in Procs \cup {Idle} : q # p => v.pcb[q] = s.pcb[q]
      /\ v.enabled = s.enabled /\ v.current = s.current /\ v.cpu = s.cpu
  BY <1>3, <1>6 DEF SameButQueues
<1>8. Ready(v) = Ready(s) \ {p}
  BY <1>4, <1>6, <1>7 DEF Ready
<1>9. Boosted(v)
  BY <1>1, <1>4, <1>6, <1>7 DEF Boosted
<1>10. v.pcb[Idle].state = "RUNNING"
  BY <1>1, <1>7, ConstantFacts
<1>11. Core(v)
  BY <1>1, <1>3, <1>6, <1>8, <1>9, <1>10 DEF Core
<1>12. \A q \in Procs : v.pcb[q].state = IF q = p THEN "BLOCKED" ELSE s.pcb[q].state
  BY <1>4, <1>6, <1>7
<1>13. Inv(v)
  <2>1. \A q \in Procs : v.pcb[q].state = "RUNNING" <=> v.current = q
    BY <1>7, <1>12 DEF Inv
  <2>2. \A q \in Procs : v.current = q => v.pcb[q].priority = v.pcb[q].base_priority
    BY <1>7 DEF Inv
  <2>3. QED
    BY <1>7, <1>11, <2>1, <2>2 DEF Inv
<1>14. QED
  BY <1>5, <1>7, <1>12, <1>13 DEF t

\* A process that goes to sleep is ready to leave the CPU.
LEMMA BlockSelfStep ==
    ASSUME NEW s, Leaving(s), s.current # Idle
    PROVE  LET t == block(s, s.current)
           IN  /\ Leaving(t)
               /\ t.current = s.current /\ t.enabled = s.enabled
               /\ \A q \in Procs : t.pcb[q].state = IF q = s.current THEN "BLOCKED" ELSE s.pcb[q].state
<1> DEFINE c == s.current
           r == [s.pcb[c] EXCEPT !.state = "BLOCKED", !.ticks_left = 0]
           v == [s EXCEPT !.pcb[c] = r]
<1>1. /\ s \in SchedState /\ QueueShape(s) /\ Queued(s) = Ready(s)
      /\ s.pcb[Idle].state = "RUNNING" /\ Boosted(s)
      /\ c \in Procs /\ c \notin Ready(s) /\ s.pcb[c] \in PCB
      /\ s.pcb[c].priority = s.pcb[c].base_priority
      /\ c # NULL /\ s.cpu = c /\ s.enabled
      /\ \A p \in Procs : s.pcb[p].state = "RUNNING" => c = p
  BY ConstantFacts DEF Leaving, Core, SchedState
<1>2. block(s, c) = v
  BY DEF block
<1>3. /\ r \in PCB /\ r.state = "BLOCKED" /\ r.priority = s.pcb[c].priority
      /\ r.base_priority = s.pcb[c].base_priority
  BY <1>1, ConstantFacts DEF PCB, ProcState
<1> HIDE DEF r
<1>4. /\ v \in SchedState /\ v.pcb[c] = r
      /\ \A q \in Procs \cup {Idle} : q # c => v.pcb[q] = s.pcb[q]
      /\ v.enabled = s.enabled /\ v.current = s.current /\ v.cpu = s.cpu
      /\ Queued(v) = Queued(s) /\ QueueShape(v)
  <2>1. s \in SchedState /\ c \in Procs \cup {Idle} /\ r \in PCB /\ r.priority = s.pcb[c].priority /\ QueueShape(s)
    BY <1>1, <1>3
  <2> HIDE DEF c
  <2>2. v = [s EXCEPT !.pcb[c] = r]
    OBVIOUS
  <2> HIDE DEF v
  <2>3. QED
    BY <2>1, <2>2, OnePcb
<1> HIDE DEF v
<1>5. \A q \in Procs : v.pcb[q].state = IF q = c THEN "BLOCKED" ELSE s.pcb[q].state
  BY <1>3, <1>4
<1>6. Ready(v) = Ready(s)
  BY <1>1, <1>5 DEF Ready
<1>7. Boosted(v)
  BY <1>1, <1>3, <1>4 DEF Boosted
<1>8. v.pcb[Idle].state = "RUNNING"
  BY <1>1, <1>4, ConstantFacts
<1>9. Core(v)
  BY <1>1, <1>4, <1>6, <1>7, <1>8 DEF Core
<1>10. Leaving(v)
  BY <1>1, <1>3, <1>4, <1>5, <1>6, <1>9 DEF Leaving, Ready
<1>11. QED
  BY <1>2, <1>4, <1>5, <1>10

\* A scheduler state is determined by its fields.
LEMMA SameState ==
    ASSUME NEW s \in SchedState, NEW t \in SchedState,
           t.enabled = s.enabled, t.current = s.current, t.cpu = s.cpu,
           t.ready = s.ready, t.pcb = s.pcb
    PROVE  t = s
<1> DEFINE Q == [Prios -> Seq(Procs)]
           T == [Procs \cup {Idle} -> PCB]
<1>1. SchedState = [enabled : BOOLEAN, current : Procs \cup {Idle, NULL},
                    cpu : Procs \cup {Idle}, ready : Q, pcb : T]
  BY DEF SchedState
<1> HIDE DEF Q, T
<1>2. QED
  BY <1>1

\* sched_remove and schedule() change current and nothing else with it.
LEMMA NewCurrent ==
    ASSUME NEW s \in SchedState, NEW c \in Procs \cup {Idle, NULL}
    PROVE  LET t == [s EXCEPT !.current = c]
           IN  /\ t \in SchedState
               /\ t.current = c
               /\ t.enabled = s.enabled /\ t.cpu = s.cpu /\ t.ready = s.ready /\ t.pcb = s.pcb
<1> DEFINE Q == [Prios -> Seq(Procs)]
           T == [Procs \cup {Idle} -> PCB]
<1>1. SchedState = [enabled : BOOLEAN, current : Procs \cup {Idle, NULL},
                    cpu : Procs \cup {Idle}, ready : Q, pcb : T]
  BY DEF SchedState
<1> HIDE DEF Q, T
<1>2. QED
  BY <1>1

\* The assignments of proc_nice to priority and, before it, to base_priority.
SetPrio(s, p, n) == [s EXCEPT !.pcb[p].priority = n]

Refilable(s, p, n) ==
    /\ s \in SchedState
    /\ QueueShape(s)
    /\ s.enabled = TRUE
    /\ Queued(s) \ {p} = Ready(s) \ {p}
    /\ s.pcb[Idle].state = "RUNNING"
    /\ \A q \in Procs \ {p} : s.pcb[q].priority >= s.pcb[q].base_priority
    /\ s.pcb[p].base_priority = n

Refiled(s, t, p, n) ==
    /\ Core(t)
    /\ t.current = s.current /\ t.cpu = s.cpu /\ t.enabled = TRUE
    /\ \A q \in Procs \cup {Idle} : q # p => t.pcb[q] = s.pcb[q]
    /\ t.pcb[p].state = "READY"
    /\ t.pcb[p].priority = n
    /\ t.pcb[p].base_priority = n

\* proc_nice on a process that can run: it leaves the queue it may be in and
\* enters, once, the queue of its new priority.
LEMMA Refile ==
    ASSUME NEW s, NEW p \in Procs, NEW n \in Prios, Refilable(s, p, n)
    PROVE  Refiled(s, sched_enqueue(SetPrio(q_remove(s, {p}), p, n), p), p, n)
<1> DEFINE y == q_remove(s, {p})
           r == [y.pcb[p] EXCEPT !.priority = n]
           b == [r EXCEPT !.state = "BLOCKED"]
           z == [y EXCEPT !.pcb[p] = b]
           v == [y EXCEPT !.pcb[p] = r]
           w == [z EXCEPT !.pcb[p] = r]
           t == sched_enqueue(SetPrio(y, p, n), p)
<1>1. /\ y \in SchedState /\ QueueShape(y) /\ Queued(y) = Queued(s) \ {p}
      /\ y.enabled = s.enabled /\ y.current = s.current /\ y.cpu = s.cpu /\ y.pcb = s.pcb
  BY RemoveQueues DEF SameButQueues, Refilable
<1>2. y.pcb[p] \in PCB /\ s.pcb[p] \in PCB
  BY <1>1 DEF SchedState
<1>3. t = sched_enqueue(v, p)
  BY DEF SetPrio
<1> HIDE DEF y, t
<1>4. /\ r \in PCB /\ r.priority = n /\ r.base_priority = n /\ r.state = s.pcb[p].state
      /\ b \in PCB /\ b.priority = n /\ b.base_priority = n /\ b.state = "BLOCKED"
  BY <1>1, <1>2 DEF PCB, ProcState, Refilable
<1>5. r.priority >= r.base_priority /\ b.priority >= b.base_priority
  BY <1>4, PriosFacts
<1> HIDE DEF r, b
<1>6. p \notin Queued(y)
  BY <1>1
<1>7. /\ v \in SchedState /\ v.pcb[p] = r /\ v.ready = y.ready
      /\ \A q \in Procs \cup {Idle} : q # p => v.pcb[q] = y.pcb[q]
      /\ v.enabled = y.enabled /\ v.current = y.current /\ v.cpu = y.cpu
  <2>1. y \in SchedState /\ p \in Procs \cup {Idle} /\ r \in PCB
    BY <1>1, <1>4
  <2>2. QED
    BY <2>1, OnePcb
<1>8. /\ z \in SchedState /\ z.pcb[p] = b /\ z.ready = y.ready
      /\ \A q \in Procs \cup {Idle} : q # p => z.pcb[q] = y.pcb[q]
      /\ z.enabled = y.enabled /\ z.current = y.current /\ z.cpu = y.cpu
      /\ Queued(z) = Queued(y) /\ QueueShape(z)
  <2>1. y \in SchedState /\ p \in Procs \cup {Idle} /\ b \in PCB /\ QueueShape(y)
    BY <1>1, <1>4
  <2>2. QED
    BY <2>1, <1>6, OnePcb
<1> HIDE DEF v, z
<1>9. /\ w \in SchedState /\ w.pcb[p] = r /\ w.ready = z.ready
      /\ \A q \in Procs \cup {Idle} : q # p => w.pcb[q] = z.pcb[q]
      /\ w.enabled = z.enabled /\ w.current = z.current /\ w.cpu = z.cpu
  BY <1>8, <1>4, OnePcb
<1> HIDE DEF w
<1>10. v = w
  <2>1. v.pcb \in [Procs \cup {Idle} -> PCB] /\ w.pcb \in [Procs \cup {Idle} -> PCB]
    BY <1>7, <1>9 DEF SchedState
  <2>2. \A q \in Procs \cup {Idle} : w.pcb[q] = v.pcb[q]
    BY <1>7, <1>8, <1>9
  <2>3. w.pcb = v.pcb
    BY <2>1, <2>2
  <2>4. /\ v \in SchedState /\ w \in SchedState
        /\ w.enabled = v.enabled /\ w.current = v.current /\ w.cpu = v.cpu /\ w.ready = v.ready
    BY <1>7, <1>8, <1>9
  <2>5. QED
    BY <2>3, <2>4, SameState
<1>11. Core(z)
  <2>1. \A q \in Procs : q # p => z.pcb[q] = s.pcb[q]
    BY <1>1, <1>8
  <2>2. Ready(z) = Ready(s) \ {p}
    BY <2>1, <1>4, <1>8 DEF Ready
  <2>3. Queued(z) = Ready(z)
    BY <1>1, <1>8, <2>2 DEF Refilable
  <2>4. z.pcb[Idle].state = "RUNNING"
    BY <1>1, <1>8, ConstantFacts DEF Refilable
  <2>5. Boosted(z)
    BY <1>5, <1>8, <2>1 DEF Boosted, Refilable
  <2>6. QED
    BY <1>8, <2>3, <2>4, <2>5 DEF Core
<1>12. /\ Core(t)
       /\ t.current = z.current /\ t.cpu = z.cpu /\ t.enabled = z.enabled
       /\ \A q \in Procs \cup {Idle} : q # p => t.pcb[q] = z.pcb[q]
       /\ t.pcb[p].state = "READY"
       /\ t.pcb[p].priority = r.priority
       /\ t.pcb[p].base_priority = r.base_priority
  <2>1. p \notin Queued(z) /\ (z.enabled \/ z.current # NULL)
    BY <1>1, <1>6, <1>8 DEF Refilable
  <2>2. t = sched_enqueue([z EXCEPT !.pcb[p] = r], p)
    BY <1>3, <1>10 DEF w
  <2> DEFINE e == sched_enqueue([z EXCEPT !.pcb[p] = r], p)
  <2>3. /\ Core(e)
        /\ e.current = z.current /\ e.cpu = z.cpu /\ e.enabled = z.enabled
        /\ \A q \in Procs \cup {Idle} : q # p => e.pcb[q] = z.pcb[q]
        /\ e.pcb[p].state = "READY"
        /\ e.pcb[p].priority = r.priority
        /\ e.pcb[p].base_priority = r.base_priority
    BY <1>4, <1>5, <1>11, <2>1, Enqueue
  <2>4. t = e
    BY <2>2
  <2> HIDE DEF e
  <2>5. QED
    BY <2>3, <2>4
<1>13. Refiled(s, t, p, n)
  BY <1>1, <1>4, <1>8, <1>12 DEF Refilable, Refiled
<1>14. QED
  BY <1>13 DEF t, y

\* proc_nice keeps the invariant; on a process other than the caller it changes
\* nobody's state.
LEMMA NiceStep ==
    ASSUME NEW s, Inv(s), s.enabled = TRUE, s.cpu # Idle, NEW p \in Procs \cup {Idle}, NEW n \in Prios
    PROVE  LET t == renice(s, p, n)
           IN  /\ Inv(t)
               /\ p # s.current => /\ t.current = s.current
                                   /\ t.enabled = s.enabled
                                   /\ \A q \in Procs : t.pcb[q].state = s.pcb[q].state
<1> DEFINE running == s.pcb[p].state = "RUNNING" /\ p = s.current
           waiting == s.pcb[p].state = "READY"
           r == [s.pcb[p] EXCEPT !.base_priority = n, !.aging_ticks = 0,
                                 !.state = IF running THEN "READY" ELSE s.pcb[p].state]
           x == [s EXCEPT !.pcb[p] = r]
           t == renice(s, p, n)
<1>1. /\ s \in SchedState /\ QueueShape(s) /\ Queued(s) = Ready(s) /\ Queued(s) \subseteq Procs
      /\ s.pcb[Idle].state = "RUNNING" /\ Boosted(s) /\ s.pcb[p] \in PCB
      /\ \A q \in Procs : s.pcb[q].state = "RUNNING" <=> s.current = q
      /\ s.current # NULL => s.cpu = s.current
      /\ \A q \in Procs : s.current = q => s.pcb[q].priority = s.pcb[q].base_priority
  BY DEF Inv, Core, SchedState, Ready
<1>2. /\ r \in PCB /\ r.priority = s.pcb[p].priority /\ r.base_priority = n
      /\ r.state = IF running THEN "READY" ELSE s.pcb[p].state
  BY <1>1, ConstantFacts DEF PCB, ProcState
<1>3. p = s.current => p \in Procs /\ running
  BY <1>1, ConstantFacts
<1>6. t = LET u == IF waiting \/ running THEN sched_remove(x, p) ELSE x
               v == SetPrio(u, p, n)
               w == IF waiting \/ running THEN sched_enqueue(v, p) ELSE v
           IN  IF running THEN sched_force_yield(w) ELSE w
  BY DEF renice, SetPrio
<1> HIDE DEF r
<1>4. /\ x \in SchedState /\ x.pcb[p] = r
      /\ \A q \in Procs \cup {Idle} : q # p => x.pcb[q] = s.pcb[q]
      /\ x.enabled = s.enabled /\ x.current = s.current /\ x.cpu = s.cpu
      /\ Queued(x) = Queued(s) /\ QueueShape(x)
  BY <1>1, <1>2, OnePcb
<1> HIDE DEF x, t
<1>7. CASE waiting
  <2>1. p \in Procs /\ p # s.current /\ ~running
    BY <1>1, <1>7, ConstantFacts
  <2>2. sched_remove(x, p) = q_remove(x, {p})
    <3>1. [x EXCEPT !.current = IF p = @ THEN NULL ELSE @] = x
      <4> DEFINE y == [x EXCEPT !.current = x.current]
      <4>1. x.current \in Procs \cup {Idle, NULL}
        BY <1>4 DEF SchedState
      <4>2. y = x
        BY <1>4, <4>1, NewCurrent, SameState
      <4>3. QED
        BY <1>4, <2>1, <4>2
    <3>2. x.pcb[p].state = "READY"
      BY <1>2, <1>4, <1>7, <2>1
    <3>3. QED
      BY <3>1, <3>2 DEF sched_remove
  <2>3. t = sched_enqueue(SetPrio(q_remove(x, {p}), p, n), p)
    BY <1>7, <1>6, <2>1, <2>2
  <2>4. /\ Core(t) /\ t.current = x.current /\ t.cpu = x.cpu /\ t.enabled = TRUE
        /\ \A q \in Procs \cup {Idle} : q # p => t.pcb[q] = x.pcb[q]
        /\ t.pcb[p].state = "READY" /\ t.pcb[p].priority = n /\ t.pcb[p].base_priority = n
    <3>1. Queued(x) \ {p} = Ready(x) \ {p}
      BY <1>1, <1>4 DEF Ready
    <3>2. x.pcb[Idle].state = "RUNNING"
      BY <1>1, <1>4, <2>1, ConstantFacts
    <3>3. \A q \in Procs \ {p} : x.pcb[q].priority >= x.pcb[q].base_priority
      BY <1>1, <1>4 DEF Boosted
    <3>4. /\ x \in SchedState /\ QueueShape(x) /\ x.enabled = TRUE /\ x.pcb[p].base_priority = n
      BY <1>2, <1>4
    <3>5. Refilable(x, p, n)
      BY <2>3, <3>1, <3>2, <3>3, <3>4 DEF Refilable
    <3>6. Refiled(x, t, p, n)
      BY <2>1, <2>3, <3>5, Refile
    <3>7. QED
      BY <3>6 DEF Refiled
  <2>5. \A q \in Procs : t.pcb[q].state = s.pcb[q].state
    BY <1>4, <1>7, <2>4
  <2>6. \A q \in Procs : t.current = q => t.pcb[q].priority = t.pcb[q].base_priority
    BY <1>1, <1>4, <2>1, <2>4
  <2>7. Inv(t)
    BY <1>1, <1>4, <2>4, <2>5, <2>6 DEF Inv
  <2>8. QED
    BY <1>4, <2>4, <2>5, <2>7 DEF t
<1>8. CASE running
  <2> DEFINE y == [x EXCEPT !.current = NULL]
  <2>1. p \in Procs /\ p = s.current /\ ~waiting
    BY <1>3, <1>8
  <2>2. /\ y \in SchedState /\ y.current = NULL /\ y.enabled = s.enabled /\ y.cpu = s.cpu
        /\ y.ready = x.ready /\ y.pcb = x.pcb
    BY <1>4, NewCurrent
  <2>3. sched_remove(x, p) = q_remove(y, {p})
    <3>1. [x EXCEPT !.current = IF p = @ THEN NULL ELSE @] = y
      BY <1>4, <2>1
    <3>2. x.pcb[p].state = "READY"
      BY <1>2, <1>4, <1>8
    <3>3. QED
      BY <3>1, <3>2 DEF sched_remove
  <2> HIDE DEF y
  <2> DEFINE w == sched_enqueue(SetPrio(q_remove(y, {p}), p, n), p)
  <2>4. t = sched_force_yield(w)
    BY <1>8, <1>6, <2>3
  <2>5. /\ Core(w) /\ w.current = y.current /\ w.cpu = y.cpu /\ w.enabled = TRUE
        /\ \A q \in Procs \cup {Idle} : q # p => w.pcb[q] = y.pcb[q]
        /\ w.pcb[p].state = "READY" /\ w.pcb[p].priority = n /\ w.pcb[p].base_priority = n
    <3>1. Queued(y) = Queued(s)
      BY <1>4, <2>2 DEF Queued
    <3>2. Queued(y) \ {p} = Ready(y) \ {p}
      BY <1>1, <1>4, <2>2, <3>1 DEF Ready
    <3>3. y.pcb[Idle].state = "RUNNING"
      BY <1>1, <1>4, <2>1, <2>2, ConstantFacts
    <3>4. \A q \in Procs \ {p} : y.pcb[q].priority >= y.pcb[q].base_priority
      BY <1>1, <1>4, <2>2 DEF Boosted
    <3>5. QueueShape(y)
      BY <1>4, <2>2 DEF QueueShape
    <3>6. y \in SchedState /\ y.enabled = TRUE /\ y.pcb[p].base_priority = n
      BY <1>2, <1>4, <2>2
    <3>7. Refilable(y, p, n)
      BY <3>2, <3>3, <3>4, <3>5, <3>6 DEF Refilable
    <3>8. Refiled(y, w, p, n)
      BY <2>1, <3>7, Refile
    <3> HIDE DEF w
    <3>9. QED
      BY <3>8 DEF Refiled
  <2> HIDE DEF w
  <2>6. t = w
    BY <2>2, <2>4, <2>5 DEF sched_force_yield, schedule
  <2>7. \A q \in Procs : w.pcb[q].state # "RUNNING"
    BY <1>1, <1>4, <2>1, <2>2, <2>5
  <2>8. Inv(w)
    BY <2>2, <2>5, <2>7, ConstantFacts DEF Inv
  <2>9. QED
    BY <2>1, <2>6, <2>8 DEF t
<1>9. CASE ~waiting /\ ~running
  <2> DEFINE r2 == [r EXCEPT !.priority = n]
             y == [x EXCEPT !.pcb[p] = r2]
  <2>1. p # s.current /\ p \notin Queued(s)
    BY <1>1, <1>3, <1>9 DEF Ready
  <2>2. t = SetPrio(x, p, n)
    BY <1>9, <1>6
  <2>3. t = y
    BY <1>4, <2>2 DEF SetPrio
  <2>4. r2 \in PCB /\ r2.priority = n /\ r2.base_priority = n /\ r2.state = s.pcb[p].state
    BY <1>2, <1>9 DEF PCB
  <2> HIDE DEF r2
  <2>5. /\ y \in SchedState /\ y.pcb[p] = r2
        /\ \A q \in Procs \cup {Idle} : q # p => y.pcb[q] = x.pcb[q]
        /\ y.enabled = x.enabled /\ y.current = x.current /\ y.cpu = x.cpu
        /\ Queued(y) = Queued(x) /\ QueueShape(y)
    BY <1>4, <2>1, <2>4, OnePcb
  <2> HIDE DEF y
  <2>6. \A q \in Procs \cup {Idle} : y.pcb[q].state = s.pcb[q].state
    BY <1>4, <2>4, <2>5
  <2>7. Ready(y) = Ready(s)
    BY <2>6 DEF Ready
  <2>8. Boosted(y)
    BY <1>1, <1>4, <2>4, <2>5, PriosFacts DEF Boosted
  <2>9. Core(y)
    BY <1>1, <1>4, <2>5, <2>6, <2>7, <2>8 DEF Core
  <2>10. Inv(y)
    BY <1>1, <1>4, <2>1, <2>5, <2>6, <2>9 DEF Inv
  <2>11. QED
    BY <1>4, <2>3, <2>5, <2>6, <2>10 DEF t
<1>10. QED
  BY <1>7, <1>8, <1>9

-----------------------------------------------------------------------------
(* One lemma per handler: it keeps the invariant. *)

\* sched_init leaves idle on the CPU and nobody else in the tables.
LEMMA InitState ==
    /\ Inv(sched_init)
    /\ sched_init.current = Idle
    /\ sched_init.enabled = FALSE
    /\ \A p \in Procs : sched_init.pcb[p].state = "FREE"
<1> DEFINE i == [NoPCB EXCEPT !.state = "RUNNING", !.ticks_left = TIME_SLICE_TICKS]
           P == [p \in Procs \cup {Idle} |-> IF p = Idle THEN i ELSE NoPCB]
           R == [k \in Prios |-> <<>>]
           s == [enabled |-> FALSE, current |-> Idle, cpu |-> Idle, ready |-> R, pcb |-> P]
           a == [enabled |-> FALSE, current |-> NULL, cpu |-> Idle, ready |-> R, pcb |-> P]
<1>1. NoPCB \in PCB /\ NoPCB.state = "FREE" /\ NoPCB.priority = 0 /\ NoPCB.base_priority = 0
  BY ConstantFacts, PriosFacts DEF NoPCB, PCB, ProcState
<1>2. i \in PCB /\ i.state = "RUNNING" /\ i.ticks_left = TIME_SLICE_TICKS
  BY <1>1, ConstantFacts DEF PCB, ProcState
<1>3. [i EXCEPT !.state = "RUNNING", !.ticks_left = TIME_SLICE_TICKS] = i
  OBVIOUS
<1> DEFINE N == [p \in Procs \cup {Idle} |-> NoPCB]
<1>4. PowerOn = [enabled |-> FALSE, current |-> NULL, cpu |-> Idle, ready |-> R, pcb |-> N]
  BY DEF PowerOn
<1>5. sched_enqueue(PowerOn, Idle) = s
  <2> HIDE DEF i
  <2>1. [[p \in Procs \cup {Idle} |-> NoPCB] EXCEPT ![Idle] = i] = P
    OBVIOUS
  <2>2. /\ PowerOn.enabled = FALSE /\ PowerOn.current = NULL
        /\ PowerOn.pcb = [p \in Procs \cup {Idle} |-> NoPCB]
        /\ PowerOn.pcb[Idle] = NoPCB
    BY DEF PowerOn
  <2> HIDE DEF P, R, N
  <2>3. [PowerOn EXCEPT !.current = Idle, !.pcb = P] = s
    <3> DEFINE m == [PowerOn EXCEPT !.current = Idle]
               f == [m EXCEPT !.pcb = P]
    <3>1. P \in [Procs \cup {Idle} -> PCB] /\ N \in [Procs \cup {Idle} -> PCB]
      BY <1>1, <1>2 DEF P, N
    <3>2. R \in [Prios -> Seq(Procs)]
      BY DEF R
    <3>3. PowerOn \in SchedState /\ s \in SchedState
      BY <1>4, <3>1, <3>2 DEF SchedState
    <3>4. PowerOn.enabled = FALSE /\ PowerOn.cpu = Idle /\ PowerOn.ready = R
      BY <1>4
    <3>5. s.enabled = FALSE /\ s.current = Idle /\ s.cpu = Idle /\ s.ready = R /\ s.pcb = P
      OBVIOUS
    <3>6. /\ m \in SchedState /\ m.enabled = PowerOn.enabled /\ m.current = Idle
          /\ m.cpu = PowerOn.cpu /\ m.ready = PowerOn.ready
      BY <3>3, NewCurrent
    <3>7. [PowerOn EXCEPT !.current = Idle, !.pcb = P] = f
      OBVIOUS
    <3> HIDE DEF m, s
    <3>8. /\ f \in SchedState /\ f.enabled = m.enabled /\ f.current = m.current
          /\ f.cpu = m.cpu /\ f.ready = m.ready /\ f.pcb = P
      BY <3>1, <3>6, NewPcbs
    <3> HIDE DEF f
    <3>9. f = s
      BY <3>3, <3>4, <3>5, <3>6, <3>8, SameState
    <3>10. QED
      BY <3>7, <3>9
  <2>4. [PowerOn EXCEPT !.current = Idle, !.pcb[Idle] = i] = s
    BY <2>1, <2>2, <2>3 DEF N
  <2>5. QED
    BY <2>2, <2>4 DEF sched_enqueue, i
<1>6. sched_remove(s, Idle) = a
  BY <1>2 DEF sched_remove
<1>7. sched_init = s
  <2>1. sched_init = [a EXCEPT !.pcb[Idle] = [a.pcb[Idle] EXCEPT !.state = "RUNNING",
                                                !.ticks_left = TIME_SLICE_TICKS],
                               !.current = Idle]
    BY <1>5, <1>6 DEF sched_init
  <2>2. a.pcb[Idle] = i
    OBVIOUS
  <2>3. [P EXCEPT ![Idle] = i] = P
    OBVIOUS
  <2> HIDE DEF i, P
  <2>4. QED
    BY <1>3, <2>1, <2>2, <2>3
<1>8. P \in [Procs \cup {Idle} -> PCB] /\ P[Idle] = i /\ \A p \in Procs : P[p] = NoPCB
  BY <1>1, <1>2, ConstantFacts
<1> HIDE DEF i, P
<1>9. R \in [Prios -> Seq(Procs)] /\ \A k \in Prios : R[k] = <<>>
  OBVIOUS
<1> HIDE DEF R
<1>10. s \in SchedState
  BY <1>8, <1>9 DEF SchedState
<1>11. Members(<<>>) = {}
  BY DEF Members
<1>12. QueueShape(s) /\ Queued(s) = {}
  BY <1>9, <1>11 DEF QueueShape, Queued
<1>13. Ready(s) = {}
  BY <1>1, <1>8 DEF Ready
<1>14. Boosted(s)
  BY <1>1, <1>8 DEF Boosted
<1>15. Core(s)
  BY <1>2, <1>8, <1>10, <1>12, <1>13, <1>14 DEF Core
<1>16. Inv(s)
  BY <1>1, <1>8, <1>15, ConstantFacts DEF Inv
<1>17. QED
  BY <1>1, <1>7, <1>8, <1>16

\* Nobody but the processes of F changes state; those enter state v.
Becomes(s, t, F, v) ==
    /\ t.current = s.current
    /\ t.enabled = s.enabled
    /\ \A p \in Procs : t.pcb[p].state = IF p \in F THEN v ELSE s.pcb[p].state

\* proc_create and main() put a new process behind those of its priority.
LEMMA CreateStep ==
    ASSUME NEW s, Inv(s), NEW p \in Procs, s.pcb[p].state = "FREE", NEW prio \in Int
    PROVE  /\ Inv(sched_enqueue([s EXCEPT !.pcb[p] = NewPCB(prio)], p))
           /\ Becomes(s, sched_enqueue([s EXCEPT !.pcb[p] = NewPCB(prio)], p), {p}, "READY")
<1> DEFINE r == NewPCB(prio)
           t == sched_enqueue([s EXCEPT !.pcb[p] = r], p)
<1>1. r \in PCB /\ r.priority = r.base_priority /\ r.priority \in Int
  BY ConstantFacts, PriosFacts DEF NewPCB, PCB, ProcState
<1>2. r.priority >= r.base_priority
  BY <1>1
<1>3. Core(s) /\ p \notin Queued(s) /\ (s.enabled \/ s.current # NULL) /\ s.current # p
  BY ConstantFacts DEF Inv, Core, Ready
<1> HIDE DEF r
<1>4. /\ Core(t)
      /\ t.current = s.current /\ t.cpu = s.cpu /\ t.enabled = s.enabled
      /\ \A q \in Procs \cup {Idle} : q # p => t.pcb[q] = s.pcb[q]
      /\ t.pcb[p].state = "READY"
  BY <1>1, <1>2, <1>3, Enqueue
<1> HIDE DEF t
<1>5. \A q \in Procs : t.pcb[q].state = "RUNNING" <=> t.current = q
  BY <1>3, <1>4 DEF Inv
<1>6. \A q \in Procs : t.current = q => t.pcb[q].priority = t.pcb[q].base_priority
  BY <1>3, <1>4 DEF Inv
<1>7. Inv(t)
  BY <1>4, <1>5, <1>6 DEF Inv
<1>8. Becomes(s, t, {p}, "READY")
  BY <1>4 DEF Becomes
<1>9. QED
  BY <1>7, <1>8 DEF t, r

\* A wake-up, whoever asks for it, adds one process to the queues.
LEMMA WakeStep ==
    ASSUME NEW s, Inv(s), s.enabled = TRUE, NEW p \in Blocked(s)
    PROVE  Inv(unblock(s, p)) /\ Becomes(s, unblock(s, p), {p}, "READY")
<1> DEFINE t == unblock(s, p)
<1>1. Core(s) /\ s.enabled /\ p \in Procs /\ s.current # p
  BY DEF Inv, Blocked
<1>2. /\ Core(t)
      /\ t.current = s.current /\ t.cpu = s.cpu /\ t.enabled = s.enabled
      /\ \A q \in Procs \cup {Idle} : q # p => t.pcb[q] = s.pcb[q]
      /\ t.pcb[p].state = "READY"
  BY <1>1, UnblockStep
<1> HIDE DEF t
<1>3. \A q \in Procs : t.pcb[q].state = "RUNNING" <=> t.current = q
  BY <1>1, <1>2 DEF Inv
<1>4. \A q \in Procs : t.current = q => t.pcb[q].priority = t.pcb[q].base_priority
  BY <1>1, <1>2 DEF Inv
<1>5. Inv(t)
  BY <1>2, <1>3, <1>4 DEF Inv
<1>6. Becomes(s, t, {p}, "READY")
  BY <1>2 DEF Becomes
<1>7. QED
  BY <1>5, <1>6 DEF t

\* The wake-ups of a handler append to each queue the woken processes of its
\* priority and change nothing else.
LEMMA WakeMany ==
    ASSUME NEW s, Core(s), NEW w \in Seq(Procs),
           \A a, b \in DOMAIN w : w[a] = w[b] => a = b,
           Members(w) \subseteq Blocked(s)
    PROVE  /\ Core(wake(s, w))
           /\ wake(s, w).current = s.current
           /\ wake(s, w).cpu = s.cpu
           /\ wake(s, w).enabled = s.enabled
           /\ \A p \in Procs :
                /\ wake(s, w).pcb[p].state = IF p \in Members(w) THEN "READY" ELSE s.pcb[p].state
                /\ wake(s, w).pcb[p].priority = s.pcb[p].priority
                /\ wake(s, w).pcb[p].base_priority = s.pcb[p].base_priority
<1> DEFINE P == [p \in Procs \cup {Idle} |->
                   IF p \in Members(w)
                   THEN [s.pcb[p] EXCEPT !.state = "READY", !.ticks_left = TIME_SLICE_TICKS,
                                         !.aging_ticks = 0]
                   ELSE s.pcb[p]]
           Of(i) == {p \in Procs : s.pcb[p].priority = i}
           New(i) == Filter(w, Of(i))
           R == [i \in Prios |-> s.ready[i] \o New(i)]
           u == [s EXCEPT !.pcb = P]
           v == [u EXCEPT !.ready = R]
           t == wake(s, w)
<1>1. /\ s \in SchedState /\ QueueShape(s) /\ Queued(s) = Ready(s)
      /\ s.pcb[Idle].state = "RUNNING" /\ Boosted(s)
      /\ \A p \in Procs \cup {Idle} : s.pcb[p] \in PCB
  BY DEF Core, SchedState
<1>2. Members(w) \subseteq Procs /\ Idle \notin Members(w) /\ Members(w) \cap Queued(s) = {}
  BY <1>1, ConstantFacts DEF Blocked, Ready
<1>3. \A p \in Procs \cup {Idle} :
        /\ P[p] \in PCB
        /\ P[p].state = IF p \in Members(w) THEN "READY" ELSE s.pcb[p].state
        /\ P[p].priority = s.pcb[p].priority
        /\ P[p].base_priority = s.pcb[p].base_priority
  BY <1>1, ConstantFacts DEF PCB, ProcState
<1>4. P \in [Procs \cup {Idle} -> PCB]
  BY <1>3
<1>5. t = v
  BY DEF wake
<1> HIDE DEF P, t
<1>6. ASSUME NEW i \in Prios
      PROVE  /\ New(i) \in Seq(Procs)
             /\ Members(New(i)) = Members(w) \cap Of(i)
             /\ \A a, b \in DOMAIN New(i) : New(i)[a] = New(i)[b] => a = b
  <2> HIDE DEF Of
  <2>1. QED
    BY FilterProperties DEF Distinct
<1> HIDE DEF New
<1>7. ASSUME NEW i \in Prios
      PROVE  /\ s.ready[i] \in Seq(Procs)
             /\ \A a, b \in DOMAIN s.ready[i] : s.ready[i][a] = s.ready[i][b] => a = b
             /\ Members(s.ready[i]) = {p \in Queued(s) : s.pcb[p].priority = i}
             /\ Queued(s) \subseteq Procs
  BY <1>1, QueueFacts
<1>8. ASSUME NEW i \in Prios
      PROVE  /\ s.ready[i] \o New(i) \in Seq(Procs)
             /\ Members(s.ready[i] \o New(i)) = Members(s.ready[i]) \cup Members(New(i))
             /\ \A a, b \in DOMAIN (s.ready[i] \o New(i)) :
                  (s.ready[i] \o New(i))[a] = (s.ready[i] \o New(i))[b] => a = b
  <2> DEFINE q == s.ready[i]
             r == New(i)
  <2>1. q \in Seq(Procs) /\ \A a, b \in DOMAIN q : q[a] = q[b] => a = b
    BY <1>7
  <2>2. r \in Seq(Procs) /\ \A a, b \in DOMAIN r : r[a] = r[b] => a = b
    BY <1>6
  <2>3. Members(q) \cap Members(r) = {}
    BY <1>2, <1>6, <1>7
  <2> HIDE DEF q, r
  <2>4. /\ q \o r \in Seq(Procs)
        /\ Members(q \o r) = Members(q) \cup Members(r)
        /\ \A a, b \in DOMAIN (q \o r) : (q \o r)[a] = (q \o r)[b] => a = b
    BY <2>1, <2>2, <2>3, ConcatQueues
  <2>5. QED
    BY <2>4 DEF q, r
<1>9. R \in [Prios -> Seq(Procs)]
  BY <1>8
<1>10. /\ u \in SchedState /\ u.pcb = P
       /\ u.enabled = s.enabled /\ u.current = s.current /\ u.cpu = s.cpu
  BY <1>1, <1>4, NewPcbs
<1> HIDE DEF u
<1>11. /\ v \in SchedState /\ v.ready = R /\ SameButQueues(u, v)
  <2> HIDE DEF R
  <2>1. QED
    BY <1>9, <1>10, NewQueues
<1> HIDE DEF v
<1>12. /\ v.pcb = P /\ v.enabled = s.enabled /\ v.current = s.current /\ v.cpu = s.cpu
  BY <1>10, <1>11 DEF SameButQueues
<1>13. \A i \in Prios : \A x :
         x \in Members(v.ready[i]) <=> x \in Queued(s) \cup Members(w) /\ s.pcb[x].priority = i
  <2> SUFFICES ASSUME NEW i \in Prios
               PROVE  \A x : x \in Members(v.ready[i]) <=>
                               x \in Queued(s) \cup Members(w) /\ s.pcb[x].priority = i
    OBVIOUS
  <2>1. Members(v.ready[i]) = Members(s.ready[i]) \cup Members(New(i))
    BY <1>8, <1>11
  <2>2. QED
    BY <1>2, <1>6, <1>7, <2>1 DEF Of
<1>14. Queued(v) = Queued(s) \cup Members(w)
  <2>1. \A x \in Queued(s) \cup Members(w) : s.pcb[x].priority \in Prios
    <3>1. Queued(s) \subseteq Procs
      BY <1>1 DEF Ready
    <3>2. QED
      BY <1>1, <1>2, <3>1 DEF PCB
  <2>2. \A x : x \in Queued(v) <=> x \in Queued(s) \cup Members(w)
    BY <1>13, <2>1 DEF Queued
  <2>3. QED
    BY <2>2
<1>15. QueueShape(v)
  <2>1. \A i \in Prios : \A a, b \in DOMAIN v.ready[i] : v.ready[i][a] = v.ready[i][b] => a = b
    BY <1>8, <1>11
  <2>2. \A i \in Prios : \A x \in Members(v.ready[i]) : v.pcb[x].priority = i
    <3> SUFFICES ASSUME NEW i \in Prios, NEW x \in Members(v.ready[i]) PROVE v.pcb[x].priority = i
      OBVIOUS
    <3>1. x \in Procs /\ s.pcb[x].priority = i
      BY <1>1, <1>2, <1>13 DEF Ready
    <3>2. QED
      BY <1>3, <1>12, <3>1
  <2>3. QED
    BY <2>1, <2>2 DEF QueueShape, Members
<1>16. Ready(v) = Ready(s) \cup Members(w)
  BY <1>2, <1>3, <1>12 DEF Ready
<1>17. Boosted(v)
  BY <1>1, <1>3, <1>12 DEF Boosted
<1>18. v.pcb[Idle].state = "RUNNING"
  BY <1>1, <1>2, <1>3, <1>12
<1>19. Core(v)
  BY <1>1, <1>11, <1>14, <1>15, <1>16, <1>17, <1>18 DEF Core
<1>20. QED
  BY <1>3, <1>5, <1>12, <1>19 DEF t

\* A queue of processes to wake, as the handlers make it.
LEMMA OrdersAreQueues ==
    ASSUME NEW w \in Orders
    PROVE  w \in Seq(Procs) /\ \A a, b \in DOMAIN w : w[a] = w[b] => a = b
<1>1. Cardinality(Procs) \in Nat
  BY SchedAssumption, FS_CardinalityType
<1>2. PICK n \in 0 .. Cardinality(Procs) : w \in [1 .. n -> Procs]
  BY DEF Orders
<1>3. n \in Nat
  BY <1>1, <1>2
<1>4. w \in Seq(Procs)
  BY <1>2, <1>3
<1>5. QED
  BY <1>4 DEF Orders

\* The effect of a death on the states: F is gone, the processes of W are READY.
Died(s, t, F, W) ==
    /\ t.current = s.current
    /\ t.cpu = s.cpu
    /\ t.enabled = s.enabled
    /\ \A p \in Procs : /\ t.pcb[p].state = IF p \in W THEN "READY"
                                             ELSE IF p \in F THEN "EXITED" ELSE s.pcb[p].state
                        /\ t.pcb[p].priority = s.pcb[p].priority
                        /\ t.pcb[p].base_priority = s.pcb[p].base_priority

\* proc_kill and proc_exit: the dead leave the queues, then those they kept
\* waiting enter them.
LEMMA DeathStep ==
    ASSUME NEW s, Inv(s), NEW F \in SUBSET Procs,
           NEW w \in Orders, Members(w) \subseteq Blocked(s) \ F
    PROVE  /\ Core(wake(bury(s, F), w))
           /\ Died(s, wake(bury(s, F), w), F, Members(w))
<1> DEFINE u == bury(s, F)
           t == wake(u, w)
<1>1. /\ Core(u)
      /\ u.current = s.current /\ u.cpu = s.cpu /\ u.enabled = s.enabled
      /\ \A p \in Procs : /\ u.pcb[p].state = IF p \in F THEN "EXITED" ELSE s.pcb[p].state
                          /\ u.pcb[p].priority = s.pcb[p].priority
                          /\ u.pcb[p].base_priority = s.pcb[p].base_priority
  BY BuryStep DEF Inv
<1> HIDE DEF u
<1>2. /\ w \in Seq(Procs)
      /\ \A a, b \in DOMAIN w : w[a] = w[b] => a = b
      /\ Members(w) \subseteq Blocked(u)
  BY <1>1, OrdersAreQueues DEF Blocked
<1>3. /\ Core(t) /\ t.current = u.current /\ t.cpu = u.cpu /\ t.enabled = u.enabled
      /\ \A p \in Procs : /\ t.pcb[p].state = IF p \in Members(w) THEN "READY" ELSE u.pcb[p].state
                          /\ t.pcb[p].priority = u.pcb[p].priority
                          /\ t.pcb[p].base_priority = u.pcb[p].base_priority
  BY <1>1, <1>2, WakeMany
<1> HIDE DEF t
<1>4. Died(s, t, F, Members(w))
  BY <1>1, <1>3 DEF Died
<1>5. QED
  BY <1>3, <1>4 DEF t, u

\* A death, or the wake-ups of reap, that leaves the process on the CPU alone.
LEMMA DiedKeepsInv ==
    ASSUME NEW s, NEW t, Inv(s), Core(t), NEW F, NEW W, W \subseteq Blocked(s),
           s.current \notin F, Died(s, t, F, W)
    PROVE  Inv(t)
<1>1. \A p \in W : p \in Procs /\ s.pcb[p].state # "RUNNING" /\ s.current # p
  BY DEF Inv, Blocked
<1>2. \A q \in Procs : t.pcb[q].state = "RUNNING" <=> t.current = q
  BY <1>1 DEF Died, Inv
<1>3. \A q \in Procs : t.current = q => t.pcb[q].priority = t.pcb[q].base_priority
  BY DEF Died, Inv
<1>4. QED
  BY <1>2, <1>3 DEF Inv, Died

\* proc_kill of processes that are not on the CPU.
LEMMA KillStep ==
    ASSUME NEW s, Inv(s), NEW F \in SUBSET Procs,
           NEW w \in Orders, Members(w) \subseteq Blocked(s) \ F, s.current \notin F
    PROVE  Inv(wake(bury(s, F), w))
<1> DEFINE t == wake(bury(s, F), w)
<1>1. Core(t) /\ Died(s, t, F, Members(w))
  BY DeathStep
<1> HIDE DEF t
<1>2. Inv(t)
  BY <1>1, DiedKeepsInv
<1>3. QED
  BY <1>2 DEF t

\* proc_exit: the caller is among the dead, and must leave the CPU.
LEMMA ExitStep ==
    ASSUME NEW s, Inv(s), s.enabled = TRUE, NEW F \in SUBSET Procs,
           NEW w \in Orders, Members(w) \subseteq Blocked(s) \ F, s.current \in F
    PROVE  Leaving(wake(bury(s, F), w))
<1> DEFINE t == wake(bury(s, F), w)
<1>1. Core(t) /\ Died(s, t, F, Members(w))
  BY DeathStep
<1> HIDE DEF t
<1>2. s.current \in Procs /\ s.current # NULL /\ s.current \notin Members(w) /\ s.cpu = s.current
  BY ConstantFacts DEF Inv
<1>3. t.pcb[s.current].state = "EXITED" /\ t.current = s.current /\ t.cpu = s.cpu /\ t.enabled = TRUE
  BY <1>1, <1>2 DEF Died
<1>4. t.pcb[s.current].priority = t.pcb[s.current].base_priority
  BY <1>1, <1>2 DEF Died, Inv
<1>5. \A q \in Procs : t.pcb[q].state = "RUNNING" => t.current = q
  BY <1>1, <1>2 DEF Died, Inv
<1>6. t.current \notin Ready(t)
  BY <1>3 DEF Ready
<1>7. Leaving(t)
  BY <1>1, <1>2, <1>3, <1>4, <1>5, <1>6 DEF Leaving
<1>8. QED
  BY <1>7 DEF t

\* The wake-ups of reap, after the zombies are collected.
LEMMA ReapStep ==
    ASSUME NEW s, Inv(s), NEW w \in Orders, Members(w) \subseteq Blocked(s)
    PROVE  Inv(wake(s, w)) /\ Died(s, wake(s, w), {}, Members(w))
<1> DEFINE t == wake(s, w)
<1>1. /\ Core(s) /\ w \in Seq(Procs) /\ \A a, b \in DOMAIN w : w[a] = w[b] => a = b
  BY OrdersAreQueues DEF Inv
<1>2. /\ Core(t) /\ t.current = s.current /\ t.cpu = s.cpu /\ t.enabled = s.enabled
      /\ \A p \in Procs : /\ t.pcb[p].state = IF p \in Members(w) THEN "READY" ELSE s.pcb[p].state
                          /\ t.pcb[p].priority = s.pcb[p].priority
                          /\ t.pcb[p].base_priority = s.pcb[p].base_priority
  BY <1>1, WakeMany
<1> HIDE DEF t
<1>3. Died(s, t, {}, Members(w))
  BY <1>2 DEF Died
<1>4. Inv(t)
  BY <1>2, <1>3, DiedKeepsInv
<1>5. QED
  BY <1>3, <1>4 DEF t

-----------------------------------------------------------------------------
(* The invariant of the specification. *)

\* After the zombies are collected the handler starts from a state like sched.
LEMMA Collected ==
    ASSUME Inv(sched)
    PROVE  /\ Inv(collect_zombies(sched))
           /\ collect_zombies(sched).current = sched.current
           /\ collect_zombies(sched).cpu = sched.cpu
           /\ collect_zombies(sched).enabled = sched.enabled
           /\ sched.enabled \in BOOLEAN
<1>1. sched.enabled \in BOOLEAN
  BY DEF Inv, Core, SchedState
<1>2. QED
  BY <1>1, CollectZombies

\* The handlers that pass the CPU on start from a process that may leave it;
\* when current is NULL schedule() does nothing.
LEMMA YieldKeepsInv ==
    ASSUME NEW s, Inv(s)
    PROVE  Inv(sched_force_yield(s))
<1>1. CASE s.current = NULL
  <2>1. sched_force_yield(s) = s
    BY <1>1 DEF sched_force_yield, schedule
  <2>2. QED
    BY <2>1
<1>2. CASE s.current # NULL /\ s.enabled
  BY <1>2, InvIsLeaving, ForceYield
<1>3. CASE s.current # NULL /\ ~s.enabled
  <2> DEFINE t == [s EXCEPT !.pcb[s.current].ticks_left = 0]
             r == [s.pcb[Idle] EXCEPT !.ticks_left = 0]
             v == [s EXCEPT !.pcb[Idle] = r]
  <2>1. /\ s.current = Idle /\ s \in SchedState /\ s.pcb[Idle] \in PCB /\ s.enabled = FALSE
        /\ Idle \in Procs \cup {Idle} /\ Queued(s) = Ready(s) /\ Boosted(s) /\ QueueShape(s)
        /\ s.pcb[Idle].state = "RUNNING"
    BY <1>3 DEF Inv, Core, SchedState
  <2>2. t = v
    BY <2>1
  <2>3. r \in PCB /\ r.state = "RUNNING" /\ r.priority = s.pcb[Idle].priority
    BY <2>1, ConstantFacts DEF PCB
  <2> HIDE DEF r
  <2>4. /\ v \in SchedState /\ v.pcb[Idle] = r
        /\ \A q \in Procs \cup {Idle} : q # Idle => v.pcb[q] = s.pcb[q]
        /\ v.enabled = s.enabled /\ v.current = s.current /\ v.cpu = s.cpu
        /\ Queued(v) = Queued(s) /\ QueueShape(v)
    BY <2>1, <2>3, OnePcb
  <2> HIDE DEF v, t
  <2>5. \A q \in Procs : v.pcb[q] = s.pcb[q]
    BY <2>4, ConstantFacts
  <2>6. Ready(v) = Ready(s) /\ Boosted(v)
    BY <2>1, <2>5 DEF Ready, Boosted
  <2>7. Core(v)
    BY <2>1, <2>3, <2>4, <2>6 DEF Core
  <2>8. Inv(v)
    BY <2>1, <2>4, <2>5, <2>7 DEF Inv
  <2>9. sched_force_yield(s) = t
    <3>1. sched_force_yield(s) = schedule(t)
      BY <1>3 DEF sched_force_yield, t
    <3>2. QED
      BY <2>1, <2>2, <2>4, <3>1 DEF schedule
  <2>10. QED
    BY <2>2, <2>8, <2>9
<1>4. QED
  BY <1>1, <1>2, <1>3

\* Every handler keeps the invariant.
LEMMA NextKeepsInv ==
    ASSUME Inv(sched), Next
    PROVE  Inv(sched')
<1> DEFINE s == collect_zombies(sched)
<1>1. /\ Inv(s) /\ s.current = sched.current /\ s.cpu = sched.cpu /\ s.enabled = sched.enabled
      /\ sched.enabled \in BOOLEAN
  BY Collected
<1> HIDE DEF s
<1>2. CASE Tick
  BY <1>2, ScheduleStep DEF Tick
<1>3. CASE sched_start
  <2> DEFINE Q == [Prios -> Seq(Procs)]
             T == [Procs \cup {Idle} -> PCB]
  <2>1. sched \in [enabled : BOOLEAN, current : Procs \cup {Idle, NULL},
                   cpu : Procs \cup {Idle}, ready : Q, pcb : T]
    BY DEF Inv, Core, SchedState
  <2> HIDE DEF Q, T
  <2>2. /\ sched' \in [enabled : BOOLEAN, current : Procs \cup {Idle, NULL},
                       cpu : Procs \cup {Idle}, ready : Q, pcb : T]
        /\ sched'.enabled = TRUE /\ sched'.current = sched.current /\ sched'.cpu = sched.cpu
        /\ sched'.ready = sched.ready /\ sched'.pcb = sched.pcb
    BY <1>3, <2>1 DEF sched_start
  <2>3. sched' \in SchedState
    BY <2>2 DEF SchedState, Q, T
  <2>4. Core(sched')
    BY <2>2, <2>3 DEF Inv, Core, QueueShape, Queued, Ready, Boosted
  <2>5. QED
    BY <2>2, <2>4 DEF Inv
<1>4. CASE sys_yield
  BY <1>4, YieldKeepsInv DEF sys_yield
<1>5. ASSUME NEW p \in Procs, BootShell(p) PROVE Inv(sched')
  <2>1. sched.pcb[p].state = "FREE" /\ DEFAULT_PRIO \in Int
    BY <1>5, PriosFacts DEF BootShell
  <2>2. QED
    BY <1>5, <2>1, CreateStep DEF BootShell
<1>6. ASSUME NEW p \in Procs, NEW prio \in (MIN_PRIO - 1) .. (HIGHEST_PRIO + 1), proc_create(p, prio)
      PROVE  Inv(sched')
  <2>1. prio \in Int
    BY PriosFacts
  <2>2. QED
    BY <1>1, <1>6, <2>1, CreateStep DEF proc_create, s
<1>7. ASSUME NEW p \in Procs, proc_block(p) PROVE Inv(sched')
  <2>1. CASE p \in Blocked(s) /\ sched' = s
    BY <1>1, <2>1
  <2>2. CASE p \in Ready(s) /\ p # s.current /\ sched' = block(sched_remove(s, p), p)
    BY <1>1, <2>2, BlockOtherStep
  <2>3. CASE p = s.current /\ sched' = sched_force_yield(block(s, p))
    <3>1. s.enabled /\ s.current # NULL /\ s.current # Idle
      BY <1>1, <1>7, <2>3, ConstantFacts DEF proc_block, InUserland
    <3>2. Leaving(s)
      BY <1>1, <3>1, InvIsLeaving
    <3>3. Leaving(block(s, s.current))
      BY <3>1, <3>2, BlockSelfStep
    <3>4. QED
      BY <2>3, <3>3, ForceYield
  <2>4. QED
    BY <1>7, <2>1, <2>2, <2>3 DEF proc_block, s
<1>8. ASSUME NEW p \in Procs, proc_unblock(p) PROVE Inv(sched')
  <2>1. s.enabled = TRUE
    BY <1>1, <1>8 DEF proc_unblock
  <2>2. QED
    BY <1>1, <1>8, <2>1, WakeStep DEF proc_unblock, s
<1>9. ASSUME NEW p \in Procs, NEW kids \in SUBSET Procs, NEW woken \in Orders,
             proc_kill(p, kids, woken)
      PROVE  Inv(sched')
  <2> DEFINE F == {p} \cup kids
             t == wake(bury(s, F), woken)
  <2>1. /\ s.enabled = TRUE /\ F \in SUBSET Procs /\ s.current \notin F
        /\ Members(woken) \subseteq Blocked(s) \ F
    BY <1>1, <1>9 DEF proc_kill, s
  <2>2. sched' = collect_zombies(t)
    BY <1>9 DEF proc_kill, s
  <2> HIDE DEF F
  <2>3. Inv(t)
    BY <1>1, <2>1, KillStep
  <2> HIDE DEF t
  <2>4. QED
    BY <2>2, <2>3, CollectZombies
<1>10. ASSUME NEW p \in Procs \cup {Idle}, NEW prio \in Prios, proc_nice(p, prio) PROVE Inv(sched')
  <2>1. Clamp(prio) \in Prios
    BY PriosFacts
  <2>2. s.enabled = TRUE /\ s.cpu # Idle
    BY <1>1, <1>10 DEF proc_nice, InUserland
  <2>3. Inv(renice(s, p, Clamp(prio)))
    BY <1>1, <2>1, <2>2, NiceStep
  <2>4. QED
    BY <1>1, <1>10, <2>3 DEF proc_nice, s
<1>11. ASSUME NEW kids \in SUBSET Procs, NEW woken \in Orders, proc_exit(kids, woken)
       PROVE  Inv(sched')
  <2> DEFINE F == {s.current} \cup kids
             t == wake(bury(s, F), woken)
  <2>1. s.current \in Procs
    BY <1>1, <1>11 DEF proc_exit, s, Inv, Core, SchedState
  <2>2. /\ s.enabled = TRUE /\ F \in SUBSET Procs /\ s.current \in F
        /\ Members(woken) \subseteq Blocked(s) \ F
    BY <1>1, <1>11, <2>1 DEF proc_exit, s
  <2>3. sched' = sched_force_yield(t)
    BY <1>11 DEF proc_exit, s
  <2> HIDE DEF F
  <2>4. Leaving(t)
    BY <1>1, <2>2, ExitStep
  <2> HIDE DEF t
  <2>5. QED
    BY <2>3, <2>4, ForceYield
<1>12. CASE sleep
  <2>1. sched.enabled /\ sched.current # NULL /\ sched.current # Idle
    BY <1>12, ConstantFacts DEF sleep, InUserland, Inv
  <2>2. Leaving(block(sched, sched.current))
    BY <2>1, InvIsLeaving, BlockSelfStep
  <2>3. QED
    BY <1>12, <2>2, ForceYield DEF sleep
<1>13. ASSUME NEW woken \in Orders, reap(woken) PROVE Inv(sched')
  <2>1. sched' = wake(s, woken)
    BY <1>13 DEF reap, s
  <2>2. Members(woken) \subseteq Blocked(s)
    BY <1>13, CollectZombies DEF reap, s
  <2>3. QED
    BY <1>1, <2>1, <2>2, ReapStep
<1>14. QED
  BY <1>2, <1>3, <1>4, <1>5, <1>6, <1>7, <1>8, <1>9, <1>10, <1>11, <1>12, <1>13 DEF Next

\* The inductive invariant Inv holds in every reachable state.  It adds to the
\* properties below that idle's state stays RUNNING (schedule() tests idle by
\* pointer, never by state), that aging has only ever raised a priority, and
\* that idle is current until sched_start.
THEOREM Invariance == Spec => []Inv(sched)
<1>1. Init => Inv(sched)
  BY InitState DEF Init
<1>2. Inv(sched) /\ [Next]_sched => Inv(sched)'
  <2> SUFFICES ASSUME Inv(sched), [Next]_sched PROVE Inv(sched')
    OBVIOUS
  <2>1. CASE Next
    BY <2>1, NextKeepsInv
  <2>2. CASE UNCHANGED sched
    BY <2>2
  <2>3. QED
    BY <2>1, <2>2
<1>3. QED
  BY <1>1, <1>2, PTL DEF Spec

\* Every field of the scheduler's state stays in its C range, for any number of
\* slots, priorities and ticks: ready_head is never indexed out of bounds.
THEOREM TypeCorrect == Spec => []TypeOK
<1>1. Inv(sched) => TypeOK
  BY DEF Inv, Core, TypeOK
<1>2. QED
  BY <1>1, Invariance, PTL

\* q_push, q_pop and q_remove keep the ready queues exact: the READY processes,
\* each once, each in the queue of its priority.
THEOREM QueuesExact == Spec => []QueuesHoldReady
<1>1. Inv(sched) => QueuesHoldReady
  BY DEF Inv, Core, QueuesHoldReady
<1>2. QED
  BY <1>1, Invariance, PTL

\* At most one process is RUNNING: the one current points to.
THEOREM OneRunning == Spec => []RunningIsCurrent
<1>1. Inv(sched) => RunningIsCurrent
  BY DEF Inv, RunningIsCurrent
<1>2. QED
  BY <1>1, Invariance, PTL

\* schedule() never saves the registers of one process in the pcb of another.
THEOREM ContextOfCurrent == Spec => []CpuIsCurrent
<1>1. Inv(sched) => CpuIsCurrent
  BY DEF Inv, CpuIsCurrent
<1>2. QED
  BY <1>1, Invariance, PTL

\* apply_aging only lends priority, and schedule() takes it back.
THEOREM AgingLends == Spec => []AgingIsTemporary
<1>1. Inv(sched) => AgingIsTemporary
  BY DEF Inv, Core, Boosted, AgingIsTemporary, Ready
<1>2. QED
  BY <1>1, Invariance, PTL

-----------------------------------------------------------------------------
(* Refinement: without a self-nice, Sched implements ProcStates. *)

\* The refinement mapping of Sched, as an operator on scheduler states.
Abs(s) == [p \in Procs |-> IF s.pcb[p].state = "EXITED" THEN "FREE" ELSE s.pcb[p].state]

With(st, S, v) == [p \in Procs |-> IF p \in S THEN v ELSE st[p]]

\* SwitchFrom of ProcStates, between two scheduler states.
AbsSwitch(st, t) ==
    \/ /\ {p \in Procs : st[p] = "READY"} = {}
       /\ t.current = Idle
       /\ Abs(t) = st
    \/ \E q \in {p \in Procs : st[p] = "READY"} :
       /\ t.current = q
       /\ Abs(t) = With(st, {q}, "RUNNING")

\* What schedule() does when the CPU passes on is SwitchFrom of ProcStates,
\* from the states the outgoing process leaves behind.
LEMMA SwitchRefines ==
    ASSUME NEW s, NEW t, Switched(s, t), NEW st,
           st = [p \in Procs |-> IF LeftState(s, p) = "EXITED" THEN "FREE" ELSE LeftState(s, p)]
    PROVE  AbsSwitch(st, t) /\ t.current # NULL
<1>1. \A p \in Procs : t.pcb[p].state = IF p = t.current THEN "RUNNING" ELSE LeftState(s, p)
  BY DEF Switched
<1>2. CASE t.current \in Procs /\ LeftState(s, t.current) = "READY"
  <2> DEFINE q == t.current
  <2>1. q \in {p \in Procs : st[p] = "READY"}
    BY <1>2
  <2>2. Abs(t) = With(st, {q}, "RUNNING")
    BY <1>1, <1>2 DEF Abs, With
  <2>3. QED
    BY <1>2, <2>1, <2>2, ConstantFacts DEF AbsSwitch
<1>3. CASE t.current = Idle /\ \A p \in Procs : LeftState(s, p) # "READY"
  <2>1. {p \in Procs : st[p] = "READY"} = {}
    BY <1>3
  <2>2. Abs(t) = st
    BY <1>1, <1>3, ConstantFacts DEF Abs
  <2>3. QED
    BY <1>3, <2>1, <2>2, ConstantFacts DEF AbsSwitch
<1>4. QED
  BY <1>2, <1>3 DEF Switched

\* A process that gives up the CPU is READY afterwards: Yield of ProcStates.
LEMMA YieldRefines ==
    ASSUME NEW s, NEW t, Inv(s), Switched(s, t)
    PROVE  AbsSwitch(With(Abs(s), {s.current}, "READY"), t) /\ t.current # NULL
<1> DEFINE st == [p \in Procs |-> IF LeftState(s, p) = "EXITED" THEN "FREE" ELSE LeftState(s, p)]
<1>1. \A p \in Procs : s.pcb[p].state = "RUNNING" <=> s.current = p
  BY DEF Inv
<1>2. st = With(Abs(s), {s.current}, "READY")
  BY <1>1 DEF With, Abs, LeftState
<1> HIDE DEF st
<1>3. AbsSwitch(st, t) /\ t.current # NULL
  BY SwitchRefines DEF st
<1>4. QED
  BY <1>2, <1>3

\* Collecting zombies is invisible in ProcStates.
LEMMA CollectRefines ==
    ASSUME Inv(sched)
    PROVE  Abs(collect_zombies(sched)) = Abs(sched)
<1>1. \A p \in Procs : collect_zombies(sched).pcb[p].state =
                         IF sched.pcb[p].state = "EXITED" THEN "FREE" ELSE sched.pcb[p].state
  BY CollectZombies
<1>2. QED
  BY <1>1 DEF Abs

\* A change of state of one process that does not touch the CPU.
LEMMA BecomesRefines ==
    ASSUME NEW s, NEW t, NEW F, NEW v, Becomes(s, t, F, v), v # "EXITED"
    PROVE  Abs(t) = With(Abs(s), F, v) /\ t.current = s.current
BY DEF Becomes, Abs, With

\* The deaths of proc_kill and proc_exit, as ProcStates sees them.
LEMMA DiedRefines ==
    ASSUME NEW s, NEW t, NEW F, NEW W, Died(s, t, F, W)
    PROVE  Abs(t) = With(With(Abs(s), F, "FREE"), W, "READY")
<1>1. \A p \in Procs : Abs(t)[p] = With(With(Abs(s), F, "FREE"), W, "READY")[p]
  BY DEF Died, Abs, With
<1>2. QED
  BY <1>1 DEF Abs, With

\* With of ProcStates is With of this module.
LEMMA WithIsAbstract ==
    /\ \A st, S, v : Abstract!With(st, S, v) = With(st, S, v)
    /\ \A st, v : Abstract!Are(st, v) = {p \in Procs : st[p] = v}
BY DEF With, Abstract!With, Abstract!Are

\* Every step of Sched, as long as nobody renices itself, is a step of
\* ProcStates or changes nothing in it, and leaves current non-null.
LEMMA NextImplements ==
    ASSUME Inv(sched), sched.current # NULL, ~SelfNice, Next
    PROVE  /\ sched'.current # NULL
           /\ Abstract!Next \/ (Abs(sched') = Abs(sched) /\ sched'.current = sched.current)
<1> DEFINE s == collect_zombies(sched)
<1>1. /\ Inv(s) /\ s.current = sched.current /\ s.cpu = sched.cpu /\ s.enabled = sched.enabled
      /\ sched.enabled \in BOOLEAN /\ Abs(s) = Abs(sched)
  BY Collected, CollectRefines
<1> HIDE DEF s
<1>2. ASSUME Switched(sched, sched')
      PROVE  sched'.current # NULL /\ Abstract!Yield
  <2>1. AbsSwitch(With(Abs(sched), {sched.current}, "READY"), sched') /\ sched'.current # NULL
    BY <1>2, YieldRefines
  <2>2. QED
    BY <2>1, WithIsAbstract DEF Abstract!Yield, Abstract!SwitchFrom, AbsSwitch, Abs
<1>3. CASE Tick
  <2>1. CASE /\ schedule(sched).current = sched.current
             /\ \A p \in Procs : schedule(sched).pcb[p].state = sched.pcb[p].state
    BY <1>3, <2>1 DEF Tick, Abs
  <2>2. CASE Switched(sched, schedule(sched))
    BY <1>2, <1>3, <2>2 DEF Tick, Abstract!Next
  <2>3. QED
    BY <2>1, <2>2, ScheduleStep
<1>4. CASE sched_start
  <2> DEFINE Q == [Prios -> Seq(Procs)]
             T == [Procs \cup {Idle} -> PCB]
  <2>1. sched \in [enabled : BOOLEAN, current : Procs \cup {Idle, NULL},
                   cpu : Procs \cup {Idle}, ready : Q, pcb : T]
    BY DEF Inv, Core, SchedState
  <2> HIDE DEF Q, T
  <2>2. sched'.current = sched.current /\ sched'.pcb = sched.pcb
    BY <1>4, <2>1 DEF sched_start
  <2>3. QED
    BY <2>2 DEF Abs
<1>5. CASE sys_yield
  <2>1. sched.enabled /\ sched' = sched_force_yield(sched)
    BY <1>5 DEF sys_yield, InUserland
  <2>2. Switched(sched, sched')
    BY <2>1, InvIsLeaving, ForceYield
  <2>3. QED
    BY <1>2, <2>2 DEF Abstract!Next
<1>6. ASSUME NEW x, NEW p \in Procs, Abs(x) = Abs(sched), x.current = sched.current,
             x.pcb[p].state = "FREE", Becomes(x, sched', {p}, "READY")
      PROVE  sched'.current # NULL /\ Abstract!Next
  <2>1. Abs(sched') = With(Abs(sched), {p}, "READY") /\ sched'.current = sched.current
    BY <1>6, BecomesRefines
  <2>2. Abs(sched)[p] = "FREE"
    BY <1>6 DEF Abs
  <2>3. Abstract!Create(p)
    BY <2>1, <2>2, WithIsAbstract DEF Abstract!Create, Abs
  <2>4. QED
    BY <2>1, <2>3 DEF Abstract!Next
<1>7. ASSUME NEW p \in Procs, BootShell(p) PROVE sched'.current # NULL /\ Abstract!Next
  <2>1. sched.pcb[p].state = "FREE" /\ DEFAULT_PRIO \in Int
    BY <1>7, PriosFacts DEF BootShell
  <2>2. Becomes(sched, sched', {p}, "READY")
    BY <1>7, <2>1, CreateStep DEF BootShell
  <2>3. QED
    BY <1>6, <2>1, <2>2
<1>8. ASSUME NEW p \in Procs, NEW prio \in (MIN_PRIO - 1) .. (HIGHEST_PRIO + 1), proc_create(p, prio)
      PROVE  sched'.current # NULL /\ Abstract!Next
  <2>1. prio \in Int /\ s.pcb[p].state = "FREE"
    BY <1>8, PriosFacts DEF proc_create, s
  <2>2. sched' = sched_enqueue([s EXCEPT !.pcb[p] = NewPCB(prio)], p)
    BY <1>8 DEF proc_create, s
  <2>3. Becomes(s, sched', {p}, "READY")
    BY <1>1, <2>1, <2>2, CreateStep
  <2>4. QED
    BY <1>1, <1>6, <2>1, <2>3
<1>9. ASSUME NEW p \in Procs, proc_block(p)
      PROVE  /\ sched'.current # NULL
             /\ Abstract!Next \/ (Abs(sched') = Abs(sched) /\ sched'.current = sched.current)
  <2>1. CASE p \in Blocked(s) /\ sched' = s
    BY <1>1, <2>1
  <2>2. CASE p \in Ready(s) /\ p # s.current /\ sched' = block(sched_remove(s, p), p)
    <3>1. Becomes(s, sched', {p}, "BLOCKED")
      BY <1>1, <2>2, BlockOtherStep DEF Becomes
    <3>2. Abs(sched') = With(Abs(sched), {p}, "BLOCKED") /\ sched'.current = sched.current
      BY <1>1, <3>1, BecomesRefines
    <3>3. Abs(sched)[p] = "READY"
      BY <1>1, <2>2 DEF Abs, Ready
    <3>4. Abstract!BlockOther(p)
      BY <3>2, <3>3, WithIsAbstract DEF Abstract!BlockOther, Abs
    <3>5. QED
      BY <3>2, <3>4 DEF Abstract!Next
  <2>3. CASE p = s.current /\ sched' = sched_force_yield(block(s, p))
    <3> DEFINE b == block(s, s.current)
               st == [q \in Procs |-> IF LeftState(b, q) = "EXITED" THEN "FREE" ELSE LeftState(b, q)]
    <3>1. s.enabled /\ s.current # NULL /\ s.current # Idle
      BY <1>1, <1>9, <2>3, ConstantFacts DEF proc_block, InUserland
    <3>2. Leaving(s)
      BY <1>1, <3>1, InvIsLeaving
    <3>3. /\ Leaving(b) /\ b.current = s.current
          /\ \A q \in Procs : b.pcb[q].state = IF q = s.current THEN "BLOCKED" ELSE s.pcb[q].state
      BY <3>1, <3>2, BlockSelfStep
    <3>4. sched' = sched_force_yield(b)
      BY <2>3
    <3> HIDE DEF b
    <3>5. Switched(b, sched')
      BY <3>3, <3>4, ForceYield
    <3>6. st = With(Abs(s), {s.current}, "BLOCKED")
      BY <3>3 DEF LeftState, With, Abs
    <3>7. AbsSwitch(st, sched') /\ sched'.current # NULL
      BY <3>5, SwitchRefines
    <3> HIDE DEF st
    <3>8. AbsSwitch(With(Abs(sched), {sched.current}, "BLOCKED"), sched')
      BY <1>1, <3>6, <3>7
    <3>9. Abstract!BlockSelf
      BY <1>1, <3>1, <3>8, WithIsAbstract DEF Abstract!BlockSelf, Abstract!SwitchFrom, AbsSwitch, Abs
    <3>10. QED
      BY <3>7, <3>9 DEF Abstract!Next
  <2>4. QED
    BY <1>9, <2>1, <2>2, <2>3 DEF proc_block, s
<1>10. ASSUME NEW p \in Procs, proc_unblock(p)
       PROVE  /\ sched'.current # NULL
              /\ Abstract!Next \/ (Abs(sched') = Abs(sched) /\ sched'.current = sched.current)
  <2>1. s.enabled = TRUE
    BY <1>1, <1>10 DEF proc_unblock
  <2>2. CASE p \in Blocked(s) /\ sched' = unblock(s, p)
    <3>1. Becomes(s, sched', {p}, "READY")
      BY <1>1, <2>1, <2>2, WakeStep
    <3>2. Abs(sched') = With(Abs(sched), {p}, "READY") /\ sched'.current = sched.current
      BY <1>1, <3>1, BecomesRefines
    <3>3. Abs(sched)[p] = "BLOCKED"
      BY <1>1, <2>2 DEF Abs, Blocked
    <3>4. Abstract!Unblock(p)
      BY <3>2, <3>3, WithIsAbstract DEF Abstract!Unblock, Abs
    <3>5. QED
      BY <3>2, <3>4 DEF Abstract!Next
  <2>3. CASE sched' = s
    BY <1>1, <2>3
  <2>4. QED
    BY <1>10, <2>2, <2>3 DEF proc_unblock, s
<1>11. ASSUME NEW p \in Procs, NEW kids \in SUBSET Procs, NEW woken \in Orders,
              proc_kill(p, kids, woken)
       PROVE  sched'.current # NULL /\ Abstract!Next
  <2> DEFINE F == {p} \cup kids
             W == Members(woken)
             t == wake(bury(s, F), woken)
  <2>1. /\ s.enabled = TRUE /\ F \in SUBSET Procs /\ s.current \notin F
        /\ Members(woken) \subseteq Blocked(s) \ F
    BY <1>1, <1>11 DEF proc_kill, s
  <2>2. sched' = collect_zombies(t)
    BY <1>11 DEF proc_kill, s
  <2> HIDE DEF F
  <2>3. Inv(t) /\ Died(s, t, F, W)
    BY <1>1, <2>1, KillStep, DeathStep
  <2> HIDE DEF t
  <2>4. /\ sched'.current = t.current
        /\ \A q \in Procs : sched'.pcb[q].state = IF t.pcb[q].state = "EXITED" THEN "FREE" ELSE t.pcb[q].state
    BY <2>2, <2>3, CollectZombies
  <2>5. Abs(sched') = Abs(t)
    BY <2>4 DEF Abs
  <2>6. Abs(t) = With(With(Abs(sched), F, "FREE"), W, "READY")
    BY <1>1, <2>3, DiedRefines
  <2>7. W \subseteq {q \in Procs : Abs(sched)[q] = "BLOCKED"} \ F /\ W \in SUBSET Procs
    <3>1. \A q \in Blocked(s) : q \in Procs /\ Abs(s)[q] = "BLOCKED"
      BY DEF Blocked, Abs
    <3>2. QED
      BY <1>1, <2>1, <3>1, ConstantFacts
  <2> HIDE DEF W
  <2>8. sched'.current = sched.current
    BY <1>1, <2>3, <2>4 DEF Died
  <2>9. Abstract!Kill(F, W)
    BY <1>1, <2>1, <2>5, <2>6, <2>7, <2>8, WithIsAbstract DEF Abstract!Kill, Abs
  <2>10. QED
    BY <2>1, <2>7, <2>8, <2>9 DEF Abstract!Next
<1>12. ASSUME NEW p \in Procs \cup {Idle}, NEW prio \in Prios, proc_nice(p, prio)
       PROVE  Abs(sched') = Abs(sched) /\ sched'.current = sched.current
  <2>1. Clamp(prio) \in Prios
    BY PriosFacts
  <2>2. s.enabled = TRUE /\ s.cpu # Idle /\ p # s.current
    BY <1>1, <1>12 DEF proc_nice, InUserland, s
  <2> DEFINE t == renice(s, p, Clamp(prio))
  <2>3. t.current = s.current /\ \A q \in Procs : t.pcb[q].state = s.pcb[q].state
    BY <1>1, <2>1, <2>2, NiceStep
  <2>4. sched' = s \/ sched' = t
    BY <1>12 DEF proc_nice, s
  <2> HIDE DEF t
  <2>5. Abs(t) = Abs(s)
    BY <2>3 DEF Abs
  <2>6. QED
    BY <1>1, <2>3, <2>4, <2>5
<1>13. ASSUME NEW kids \in SUBSET Procs, NEW woken \in Orders, proc_exit(kids, woken)
       PROVE  sched'.current # NULL /\ Abstract!Next
  <2> DEFINE F == {s.current} \cup kids
             W == Members(woken)
             t == wake(bury(s, F), woken)
             st == [q \in Procs |-> IF LeftState(t, q) = "EXITED" THEN "FREE" ELSE LeftState(t, q)]
  <2>1. s.current \in Procs
    BY <1>1, <1>13 DEF proc_exit, s, Inv, Core, SchedState
  <2>2. /\ s.enabled = TRUE /\ F \in SUBSET Procs /\ s.current \in F
        /\ Members(woken) \subseteq Blocked(s) \ F
    BY <1>1, <1>13, <2>1 DEF proc_exit, s
  <2>3. sched' = sched_force_yield(t)
    BY <1>13 DEF proc_exit, s
  <2> HIDE DEF F
  <2>4. Leaving(t) /\ Died(s, t, F, W)
    BY <1>1, <2>2, ExitStep, DeathStep
  <2> HIDE DEF t
  <2>5. Switched(t, sched')
    BY <2>3, <2>4, ForceYield
  <2>6. AbsSwitch(st, sched') /\ sched'.current # NULL
    BY <2>5, SwitchRefines
  <2>7. st = Abs(t)
    <3>1. t.pcb[t.current].state = "EXITED"
      BY <2>1, <2>2, <2>4 DEF Died
    <3>2. QED
      BY <3>1 DEF LeftState, Abs
  <2> HIDE DEF st
  <2>8. Abs(t) = With(With(Abs(sched), F, "FREE"), W, "READY")
    BY <1>1, <2>4, DiedRefines
  <2>9. W \subseteq {q \in Procs : Abs(sched)[q] = "BLOCKED"} \ F /\ W \in SUBSET Procs
    <3>1. \A q \in Blocked(s) : q \in Procs /\ Abs(s)[q] = "BLOCKED"
      BY DEF Blocked, Abs
    <3>2. QED
      BY <1>1, <2>2, <3>1, ConstantFacts
  <2> HIDE DEF W
  <2>10. AbsSwitch(With(With(Abs(sched), F, "FREE"), W, "READY"), sched')
    BY <2>6, <2>7, <2>8
  <2>11. Abstract!Exit(F, W)
    BY <1>1, <2>2, <2>9, <2>10, WithIsAbstract DEF Abstract!Exit, Abstract!SwitchFrom, AbsSwitch, Abs
  <2>12. QED
    BY <2>2, <2>6, <2>9, <2>11 DEF Abstract!Next
<1>14. CASE sleep
  <2> DEFINE b == block(sched, sched.current)
             st == [q \in Procs |-> IF LeftState(b, q) = "EXITED" THEN "FREE" ELSE LeftState(b, q)]
  <2>1. sched.enabled /\ sched.current # NULL /\ sched.current # Idle
    BY <1>14, ConstantFacts DEF sleep, InUserland, Inv
  <2>2. /\ Leaving(b) /\ b.current = sched.current
        /\ \A q \in Procs : b.pcb[q].state = IF q = sched.current THEN "BLOCKED" ELSE sched.pcb[q].state
    BY <2>1, InvIsLeaving, BlockSelfStep
  <2>3. sched' = sched_force_yield(b)
    BY <1>14 DEF sleep
  <2> HIDE DEF b
  <2>4. Switched(b, sched')
    BY <2>2, <2>3, ForceYield
  <2>5. st = With(Abs(sched), {sched.current}, "BLOCKED")
    BY <2>2 DEF LeftState, With, Abs
  <2>6. AbsSwitch(st, sched') /\ sched'.current # NULL
    BY <2>4, SwitchRefines
  <2> HIDE DEF st
  <2>7. Abstract!BlockSelf
    BY <2>1, <2>5, <2>6, WithIsAbstract DEF Abstract!BlockSelf, Abstract!SwitchFrom, AbsSwitch, Abs
  <2>8. QED
    BY <2>6, <2>7 DEF Abstract!Next
<1>15. ASSUME NEW woken \in Orders, reap(woken) PROVE sched'.current # NULL /\ Abstract!Next
  <2> DEFINE W == Members(woken)
  <2>1. sched' = wake(s, woken)
    BY <1>15 DEF reap, s
  <2>2. W \subseteq Blocked(s)
    BY <1>15, CollectZombies DEF reap, s
  <2>3. Died(s, sched', {}, W)
    BY <1>1, <2>1, <2>2, ReapStep
  <2>4. Abs(sched') = With(With(Abs(sched), {}, "FREE"), W, "READY") /\ sched'.current = sched.current
    BY <1>1, <2>3, DiedRefines DEF Died
  <2>5. W \subseteq {q \in Procs : Abs(sched)[q] = "BLOCKED"} \ {} /\ W \in SUBSET Procs
    <3>1. \A q \in Blocked(s) : q \in Procs /\ Abs(s)[q] = "BLOCKED"
      BY DEF Blocked, Abs
    <3>2. QED
      BY <1>1, <2>2, <3>1
  <2> HIDE DEF W
  <2>6. Abstract!Kill({}, W)
    BY <2>4, <2>5, WithIsAbstract DEF Abstract!Kill, Abs
  <2>7. QED
    BY <2>4, <2>5, <2>6 DEF Abstract!Next
<1>16. QED
  BY <1>3, <1>4, <1>5, <1>7, <1>8, <1>9, <1>10, <1>11, <1>12, <1>13, <1>14, <1>15 DEF Next

\* Inv and a non-null current, kept together.
LEMMA AliveInvariance ==
    ASSUME ~SelfNice
    PROVE  Spec => [](Inv(sched) /\ sched.current # NULL)
<1>1. Init => Inv(sched) /\ sched.current # NULL
  BY InitState, ConstantFacts DEF Init
<1>2. Inv(sched) /\ sched.current # NULL /\ [Next]_sched => (Inv(sched) /\ sched.current # NULL)'
  <2> SUFFICES ASSUME Inv(sched), sched.current # NULL, [Next]_sched
               PROVE  Inv(sched') /\ sched'.current # NULL
    OBVIOUS
  <2>1. CASE Next
    BY <2>1, NextKeepsInv, NextImplements
  <2>2. CASE UNCHANGED sched
    BY <2>2
  <2>3. QED
    BY <2>1, <2>2
<1>3. QED
  BY <1>1, <1>2, PTL DEF Spec

\* As long as no process changes its own priority, current is never NULL once
\* the scheduler runs, so the timer can always take the CPU away.
THEOREM Alive ==
    ASSUME ~SelfNice
    PROVE  Spec => []SchedulerAlive
<1>1. Inv(sched) /\ sched.current # NULL => SchedulerAlive
  BY DEF SchedulerAlive
<1>2. QED
  BY <1>1, AliveInvariance, PTL

\* The queues, priorities, aging and time slices of sched.c implement the
\* policy-free scheduler that the rest of the kernel relies on.
THEOREM Refinement ==
    ASSUME ~SelfNice
    PROVE  Spec => ImplementsProcStates
<1>1. Init => Abstract!Init
  <2> SUFFICES ASSUME Init PROVE Abstract!Init
    OBVIOUS
  <2>1. sched.current = Idle /\ \A p \in Procs : sched.pcb[p].state = "FREE"
    BY InitState DEF Init
  <2>2. QED
    BY <2>1 DEF Abstract!Init
<1>2. Inv(sched) /\ sched.current # NULL /\ [Next]_sched => [Abstract!Next]_(Abstract!vars)
  <2> SUFFICES ASSUME Inv(sched), sched.current # NULL, [Next]_sched
               PROVE  [Abstract!Next]_(Abstract!vars)
    OBVIOUS
  <2>1. CASE Next
    BY <2>1, NextImplements DEF Abs, Abstract!vars
  <2>2. CASE UNCHANGED sched
    BY <2>2 DEF Abstract!vars
  <2>3. QED
    BY <2>1, <2>2
<1>3. QED
  BY <1>1, <1>2, AliveInvariance, PTL DEF Spec, ImplementsProcStates, Abstract!Spec

\* pick_next falls back on idle only when every ready queue is empty.
THEOREM IdleIsLastResort ==
    ASSUME ~SelfNice
    PROVE  Spec => IdleOnlyIfNothingReady
<1>1. Inv(sched) /\ sched.current # NULL /\ [Next]_sched =>
        [(sched.current # Idle /\ sched'.current = Idle) => Ready(sched') = {}]_sched
  <2> SUFFICES ASSUME Inv(sched), sched.current # NULL, Next,
                      sched.current # Idle, sched'.current = Idle
               PROVE  Ready(sched') = {}
    OBVIOUS
  <2>1. Abstract!Next
    BY NextImplements
  <2>2. {p \in Procs : Abs(sched')[p] = "READY"} = {}
    <3>1. CASE Abstract!Yield
      BY <3>1, ConstantFacts DEF Abstract!Yield, Abstract!SwitchFrom, Abstract!Are, Abs
    <3>2. CASE Abstract!BlockSelf
      BY <3>2, ConstantFacts DEF Abstract!BlockSelf, Abstract!SwitchFrom, Abstract!Are, Abs
    <3>3. ASSUME NEW p \in Procs, Abstract!Create(p) \/ Abstract!BlockOther(p) \/ Abstract!Unblock(p)
          PROVE  FALSE
      BY <3>3 DEF Abstract!Create, Abstract!BlockOther, Abstract!Unblock
    <3>4. ASSUME NEW dead \in SUBSET Procs, NEW woken \in SUBSET Procs, Abstract!Exit(dead, woken)
          PROVE  {p \in Procs : Abs(sched')[p] = "READY"} = {}
      BY <3>4, ConstantFacts DEF Abstract!Exit, Abstract!SwitchFrom, Abstract!Are, Abs
    <3>5. ASSUME NEW dead \in SUBSET Procs, NEW woken \in SUBSET Procs, Abstract!Kill(dead, woken)
          PROVE  FALSE
      BY <3>5 DEF Abstract!Kill
    <3>6. QED
      BY <2>1, <3>1, <3>2, <3>3, <3>4, <3>5 DEF Abstract!Next
  <2>3. QED
    BY <2>2 DEF Ready, Abs
<1>2. QED
  BY <1>1, AliveInvariance, PTL DEF Spec, IdleOnlyIfNothingReady
=============================================================================
