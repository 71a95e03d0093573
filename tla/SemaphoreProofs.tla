---------------------------- MODULE SemaphoreProofs ----------------------------
(***************************************************************************)
(* Proofs about Semaphore, for every finite set of slots and semaphores,   *)
(* every size of the handle table and every set of situations.             *)
(*                                                                         *)
(* Inv is inductive.  Next to the properties it says how pids name         *)
(* processes, that a process inside ksem_wait has a handle on the          *)
(* semaphore (as long as each uses its own), and that undisturbed wait     *)
(* queues hold processes that sleep there and only when no unit is left.   *)
(* WaitersReachable is inductive relative to it.                           *)
(*                                                                         *)
(* Then, on top of it, that Mvar implements OnePlace, for all numbers of   *)
(* writers and readers.  The steps of Mvar are steps of Semaphore, so that *)
(* Inv holds for it.  MInv is inductive together with Inv: there is one    *)
(* unit at most, in the count of one of the two semaphores or with one     *)
(* process, as long as no call fails for want of memory.  Only this part   *)
(* uses MvarAssumption.                                                    *)
(***************************************************************************)
EXTENDS Mvar, QueueProofs

SemRec == [used : BOOLEAN, name : Names \cup {None}, count : Nat, refcount : Nat,
           unlinked : BOOLEAN, waiters : Seq(Slots)]
HandleRec == [sem : Sems \cup {None}, owner : Nat]
ProcRec == [pid : Nat, state : {"READY", "BLOCKED"}, at : Sems \cup {None}]

Types ==
    /\ sems \in [Sems -> SemRec]
    /\ handles \in [Handles -> HandleRec]
    /\ procs \in [Slots -> ProcRec]
    /\ next_pid \in Nat
    /\ due \in [Sems -> Int]

\* Pids tell processes apart, and the next one is new.
Pids ==
    /\ next_pid > 0
    /\ \A p \in Live : procs[p].pid < next_pid
    /\ \A p, q \in Live : procs[p].pid = procs[q].pid => p = q

\* Whoever is BLOCKED is inside ksem_wait; an unused slot is inside nothing.
Calls ==
    \A p \in Slots : /\ procs[p].state = "BLOCKED" => procs[p].at # None
                     /\ procs[p].pid = 0 => procs[p].at = None

\* A process inside ksem_wait keeps the handle that it waits through.
WaitersHaveHandles ==
    "shared_handle" \notin may =>
        \A p \in Live : procs[p].at # None =>
            \E h \in Handles : handles[h].sem = procs[p].at /\ handles[h].owner = procs[p].pid

\* Undisturbed, a wait queue holds processes that sleep there, each once, and is
\* empty while there are units.
QueuesExact ==
    may \cap {"unblock", "kill", "parent_dies"} = {} =>
        \A s \in Sems : /\ Distinct(sems[s].waiters)
                        /\ \A p \in Members(sems[s].waiters) :
                              p \in Live /\ procs[p].state = "BLOCKED" /\ procs[p].at = s
                        /\ sems[s].waiters # <<>> => sems[s].count = 0

Inv ==
    /\ Types /\ Pids /\ Calls
    /\ RefcountExact /\ HandlesHaveOwners /\ WaitersHaveHandles
    /\ QueuesExact /\ UnitsConserved

-----------------------------------------------------------------------------
(* The operators of the model *)

\* A semaphore that was freed.
LEMMA FreedType == Freed \in SemRec
BY EmptySeq DEF Freed, SemRec

\* ksem_close frees the semaphore with the last reference, once it is unlinked and
\* nobody waits; otherwise only the reference count changes.
LEMMA CloseFacts ==
    ASSUME NEW sem \in SemRec, NEW n \in Nat, n =< sem.refcount,
           sem.unlinked /\ sem.refcount = 0 => sem.waiters # <<>>
    PROVE  LET r == ksem_close(sem, n)
           IN  \/ r = Freed /\ n = sem.refcount /\ n > 0 /\ sem.unlinked /\ sem.waiters = <<>>
               \/ /\ r \in SemRec
                  /\ r.used = sem.used /\ r.count = sem.count /\ r.unlinked = sem.unlinked
                  /\ r.waiters = sem.waiters /\ r.name = sem.name
                  /\ r.refcount = sem.refcount - n
                  /\ r.unlinked /\ r.refcount = 0 => r.waiters # <<>>
BY DEF ksem_close, sem_ready_to_destroy, SemRec

\* A process stands in a queue if it is one of its members.
LEMMA WaitingIsMember == \A s, p : Waiting(s, p) <=> p \in Members(sems[s].waiters)
BY DEF Waiting, Members

\* The same in the next state.
LEMMA WaitingIsMemberNext == (\A s, p : Waiting(s, p) <=> p \in Members(sems[s].waiters))'
BY WaitingIsMember, PTL

\* The open handles can be counted, and so can any of them.
LEMMA HandlesFinite == \A S \in SUBSET Handles : IsFiniteSet(S) /\ Cardinality(S) \in Nat
<1>1. IsFiniteSet(Handles)
  BY SemAssumption, FS_Interval DEF Handles
<1>2. QED
  BY <1>1, FS_Subset, FS_CardinalityType

\* There are finitely many processes.
LEMMA SlotsFinite == \A S \in SUBSET Slots : IsFiniteSet(S) /\ Cardinality(S) \in Nat
BY SemAssumption, FS_Subset, FS_CardinalityType

\* The processes that a post woke inside ksem_wait of s.
GrantedTo(s) == {q \in Slots : q \in Live /\ procs[q].at = s /\ ~Waiting(s, q)}

\* Granted, as a number of processes.
LEMMA GrantedIsCount == \A s : Granted(Live, s) = Cardinality(GrantedTo(s))
<1> TAKE s
<1>1. {q \in Live : procs[q].at = s /\ ~Waiting(s, q)} = GrantedTo(s)
  BY DEF GrantedTo, Live
<1>2. QED
  BY <1>1 DEF Granted

\* The same in the next state.
LEMMA GrantedIsCountNext == (\A s : Granted(Live, s) = Cardinality(GrantedTo(s)))'
BY GrantedIsCount, PTL

\* References stay exact when handles stay and queues of unlinked semaphores without
\* a handle do not run empty.
LEMMA RefFrame ==
    ASSUME Types, RefcountExact, UNCHANGED handles,
           \A s \in Sems : /\ sems'[s].used = sems[s].used
                           /\ sems'[s].refcount = sems[s].refcount
                           /\ sems'[s].unlinked = sems[s].unlinked
                           /\ sems[s].used /\ sems[s].unlinked /\ sems[s].refcount = 0
                                /\ sems[s].waiters # <<>> => sems'[s].waiters # <<>>
    PROVE  RefcountExact'
<1>1. \A h \in Handles : handles[h].sem # None => handles[h].sem \in Sems
  BY DEF Types, HandleRec
<1>2. \A s : {h \in Handles : handles[h].sem = s}' = {h \in Handles : handles[h].sem = s}
  OBVIOUS
<1>3. QED
  BY <1>1, <1>2 DEF RefcountExact

\* An open handle keeps its semaphore, with at least one reference.
LEMMA HandleHolds ==
    ASSUME Types, RefcountExact, NEW h \in Handles, handles[h].sem # None
    PROVE  /\ handles[h].sem \in Sems
           /\ sems[handles[h].sem].used
           /\ sems[handles[h].sem].refcount >= 1
<1> DEFINE s == handles[h].sem
           H == {x \in Handles : handles[x].sem = s}
<1>1. s \in Sems
  BY DEF Types, HandleRec
<1>2. sems[s].used /\ sems[s].refcount = Cardinality(H)
  BY <1>1 DEF RefcountExact
<1>3. H # {} /\ H \in SUBSET Handles
  OBVIOUS
<1>4. Cardinality(H) # 0
  BY <1>3, HandlesFinite, FS_EmptySet
<1>5. QED
  BY <1>1, <1>2, <1>3, <1>4, HandlesFinite

-----------------------------------------------------------------------------
(* ksem_wait and ksem_post *)

\* The process has the CPU back: the unit that it was granted is its own.
LEMMA WaitReturnsStep ==
    ASSUME Inv, NEW p \in Slots, WaitReturns(p)
    PROVE  Inv'
<1> USE DEF Inv
<1> DEFINE s0 == procs[p].at
<1>1. /\ p \in Live /\ procs[p].state = "READY" /\ s0 \in Sems
      /\ \A q \in Slots : procs'[q] = IF q = p THEN [procs[p] EXCEPT !.at = None] ELSE procs[q]
      /\ \A s \in Sems : due'[s] = IF s = s0 THEN due[s] - 1 ELSE due[s]
      /\ UNCHANGED <<sems, handles, next_pid, may>>
  BY DEF WaitReturns, CanRun, Live, Types, ProcRec
<1>2. Types'
  BY DEF Types, WaitReturns, CanRun, ProcRec
<1>3. Live' = Live /\ \A q \in Slots : procs'[q].pid = procs[q].pid /\ procs'[q].state = procs[q].state
  BY <1>1 DEF Types, ProcRec, Live
<1>4. Pids'
  BY <1>1, <1>3 DEF Pids, Live
<1>5. Calls'
  BY <1>1, <1>3 DEF Calls, Types, ProcRec
<1>6. RefcountExact'
  BY <1>1, RefFrame
<1>7. HandlesHaveOwners'
  BY <1>1, <1>3 DEF HandlesHaveOwners, Live
<1>8. WaitersHaveHandles'
  BY <1>1, <1>3 DEF WaitersHaveHandles, Types, ProcRec, Live
<1>9. QueuesExact'
  <2>1. \A s \in Sems : \A q \in Members(sems[s].waiters) : q \in Slots
    BY DEF Types, SemRec, Members
  <2>2. QED
    BY <1>1, <1>3, <2>1 DEF QueuesExact
<1>10. UnitsConserved'
  <2> SUFFICES ASSUME may \subseteq {"crowd", "no_memory"}, NEW s \in Sems, sems[s].used
               PROVE  /\ due'[s] = sems[s].count + Granted(Live, s)'
                      /\ due'[s] >= 0
    BY <1>1 DEF UnitsConserved
  <2>1. due[s] = sems[s].count + Cardinality(GrantedTo(s)) /\ sems[s].count >= 0
    BY GrantedIsCount DEF UnitsConserved
  <2>2. ~Waiting(s0, p)
    BY <1>1, WaitingIsMember DEF QueuesExact
  <2>3. GrantedTo(s)' = IF s = s0 THEN GrantedTo(s) \ {p} ELSE GrantedTo(s)
    <3>1. \A q \in Slots : procs'[q].at = IF q = p THEN None ELSE procs[q].at
      BY <1>1 DEF Types, ProcRec
    <3>2. \A q \in Slots : Waiting(s, q)' <=> Waiting(s, q)
      BY <1>1 DEF Waiting
    <3>3. None \notin Sems
      BY SemAssumption
    <3>4. QED
      BY <1>1, <1>3, <3>1, <3>2, <3>3 DEF GrantedTo
  <2>4. s = s0 => p \in GrantedTo(s)
    BY <1>1, <2>2 DEF GrantedTo
  <2>5. IsFiniteSet(GrantedTo(s)) /\ Cardinality(GrantedTo(s)) \in Nat
    BY SlotsFinite DEF GrantedTo
  <2>6. /\ Cardinality(GrantedTo(s)') = IF s = s0 THEN Cardinality(GrantedTo(s)) - 1
                                        ELSE Cardinality(GrantedTo(s))
        /\ Cardinality(GrantedTo(s)') \in Nat
    <3> DEFINE G == GrantedTo(s)
    <3> HIDE DEF G
    <3>1. /\ IsFiniteSet(G \ {p})
          /\ Cardinality(G \ {p}) = IF p \in G THEN Cardinality(G) - 1 ELSE Cardinality(G)
      BY <2>5, FS_RemoveElement DEF G
    <3>2. Cardinality(G \ {p}) \in Nat
      BY <3>1, FS_CardinalityType
    <3>3. GrantedTo(s)' = (IF s = s0 THEN G \ {p} ELSE G) /\ (s = s0 => p \in G)
      BY <2>3, <2>4 DEF G
    <3>4. CASE s = s0
      BY <3>1, <3>2, <3>3, <3>4 DEF G
    <3>5. CASE s # s0
      BY <2>5, <3>3, <3>5 DEF G
    <3>6. QED
      BY <3>4, <3>5
  <2>7. Granted(Live, s)' = Cardinality(GrantedTo(s)')
    BY GrantedIsCountNext
  <2>8. sems[s].count \in Nat
    BY DEF Types, SemRec
  <2>9. QED
    BY <1>1, <2>1, <2>5, <2>6, <2>7, <2>8
<1>11. QED
  BY <1>2, <1>4, <1>5, <1>6, <1>7, <1>8, <1>9, <1>10

\* Wait queues stay exact when they lose waiters, or run empty, and no sleeper is
\* touched.
LEMMA QueuesFrame ==
    ASSUME Types, QueuesExact, UNCHANGED may,
           \A s \in Sems : \/ sems'[s].waiters = <<>>
                           \/ /\ sems'[s].count = sems[s].count
                              /\ Members(sems'[s].waiters) \subseteq Members(sems[s].waiters)
                              /\ Distinct(sems[s].waiters) => Distinct(sems'[s].waiters)
                              /\ sems'[s].waiters # <<>> => sems[s].waiters # <<>>,
           may \cap {"unblock", "kill", "parent_dies"} = {} =>
              \A q \in Live : procs[q].state = "BLOCKED" => procs'[q] = procs[q]
    PROVE  QueuesExact'
<1>1. \A s \in Sems : \A q \in Members(sems[s].waiters) : q \in Slots
  BY DEF Types, SemRec, Members
<1>2. \A q \in Slots : procs'[q] = procs[q] => (q \in Live' <=> q \in Live)
  BY DEF Live
<1>3. Distinct(<<>>) /\ Members(<<>>) = {}
  BY DEF Distinct, Members
<1>4. SUFFICES ASSUME may \cap {"unblock", "kill", "parent_dies"} = {}, NEW s \in Sems
               PROVE  /\ Distinct(sems'[s].waiters)
                      /\ \A q \in Members(sems'[s].waiters) :
                            q \in Live' /\ procs'[q].state = "BLOCKED" /\ procs'[q].at = s
                      /\ sems'[s].waiters # <<>> => sems'[s].count = 0
  BY DEF QueuesExact
<1>5. CASE sems'[s].waiters = <<>>
  BY <1>3, <1>5
<1>6. CASE sems'[s].waiters # <<>>
  BY <1>1, <1>2, <1>4, <1>6 DEF QueuesExact
<1>7. QED
  BY <1>5, <1>6

\* Units are conserved on a semaphore whose count, history and woken processes are
\* what they were.
LEMMA UnitsFrame ==
    ASSUME UnitsConserved, UNCHANGED may,
           may \subseteq {"crowd", "no_memory"} =>
             \A s \in Sems : sems'[s].used => /\ sems[s].used
                                             /\ sems'[s].count = sems[s].count
                                             /\ due'[s] = due[s]
                                             /\ GrantedTo(s)' = GrantedTo(s)
    PROVE  UnitsConserved'
<1> SUFFICES ASSUME may \subseteq {"crowd", "no_memory"}, NEW s \in Sems, sems'[s].used
             PROVE  /\ due'[s] = sems'[s].count + Granted(Live, s)'
                    /\ due'[s] >= 0 /\ sems'[s].count >= 0
  BY DEF UnitsConserved
<1>1. Granted(Live, s)' = Granted(Live, s)
  BY GrantedIsCount, GrantedIsCountNext
<1>2. QED
  BY <1>1 DEF UnitsConserved

\* ksem_wait takes a unit.
LEMMA TakeStep ==
    ASSUME Inv, NEW p \in Slots, NEW h \in Handles, sem_wait(p, h), ~UNCHANGED vars,
           HasUnit(handles[h].sem)
    PROVE  Inv'
<1> USE DEF Inv
<1>0. PICK s0 \in Sems : s0 = handles[h].sem /\ sems[s0].used
  BY HandleHolds DEF sem_wait, Usable
<1>1. /\ sems' = [sems EXCEPT ![s0].count = @ - 1]
      /\ due' = [due EXCEPT ![s0] = @ - 1]
      /\ sems[s0].count > 0
      /\ UNCHANGED <<procs, handles, next_pid, may>>
  BY <1>0 DEF sem_wait, HasUnit, vars
<1>2. \A s \in Sems : /\ sems'[s].used = sems[s].used /\ sems'[s].refcount = sems[s].refcount
                      /\ sems'[s].unlinked = sems[s].unlinked
                      /\ sems'[s].waiters = sems[s].waiters
                      /\ sems'[s].count = IF s = s0 THEN sems[s].count - 1 ELSE sems[s].count
                      /\ due'[s] = IF s = s0 THEN due[s] - 1 ELSE due[s]
  BY <1>1 DEF Types, SemRec
<1>3. Types'
  <2>1. sems[s0].count - 1 \in Nat
    BY <1>1 DEF Types, SemRec
  <2>2. [sems[s0] EXCEPT !.count = @ - 1] \in SemRec
    BY <2>1 DEF Types, SemRec
  <2>3. QED
    BY <1>1, <2>2 DEF Types
<1>4. Pids' /\ Calls' /\ HandlesHaveOwners' /\ WaitersHaveHandles'
  BY <1>1 DEF Pids, Calls, HandlesHaveOwners, WaitersHaveHandles, Live
<1>5. RefcountExact'
  BY <1>1, <1>2, RefFrame
<1>6. QueuesExact'
  <2>1. sems[s0].waiters # <<>> => may \cap {"unblock", "kill", "parent_dies"} # {}
    BY <1>1 DEF QueuesExact
  <2>2. QED
    BY <1>1, <1>2, <2>1 DEF QueuesExact, Live
<1>7. UnitsConserved'
  <2> SUFFICES ASSUME may \subseteq {"crowd", "no_memory"}, NEW s \in Sems, sems[s].used
               PROVE  /\ due'[s] = sems'[s].count + Granted(Live, s)'
                      /\ due'[s] >= 0 /\ sems'[s].count >= 0
    BY <1>1, <1>2 DEF UnitsConserved
  <2>1. GrantedTo(s)' = GrantedTo(s)
    BY <1>1, <1>2 DEF GrantedTo, Waiting, Live
  <2>2. Granted(Live, s)' = Granted(Live, s) /\ Granted(Live, s) \in Nat
    BY <2>1, GrantedIsCount, GrantedIsCountNext, SlotsFinite DEF GrantedTo
  <2>3. sems[s].count \in Nat /\ due[s] \in Int
    BY DEF Types, SemRec
  <2>4. due[s] = sems[s].count + Granted(Live, s)
    BY DEF UnitsConserved
  <2>5. QED
    BY <1>1, <1>2, <2>2, <2>3, <2>4
<1>8. QED
  BY <1>3, <1>4, <1>5, <1>6, <1>7

\* ksem_wait without a unit: the process goes to the end of the queue.
LEMMA SleepStep ==
    ASSUME Inv, NEW p \in Slots, NEW h \in Handles, sem_wait(p, h), ~UNCHANGED vars,
           ~HasUnit(handles[h].sem)
    PROVE  Inv'
<1> USE DEF Inv
<1>0. PICK s0 \in Sems : s0 = handles[h].sem /\ sems[s0].used
  BY HandleHolds DEF sem_wait, Usable
<1>1. /\ p \in Live /\ procs[p].at = None /\ procs[p].state = "READY"
      /\ sems[s0].count = 0 /\ sems[s0].waiters \in Seq(Slots)
      /\ "shared_handle" \notin may => handles[h].owner = procs[p].pid
  BY <1>0 DEF sem_wait, Usable, InUserland, CanRun, Live, HasUnit, Types, SemRec
<1>2. /\ sems' = [sems EXCEPT ![s0].waiters = Append(@, p)]
      /\ procs' = [procs EXCEPT ![p].state = "BLOCKED", ![p].at = s0]
      /\ UNCHANGED <<handles, next_pid, due, may>>
  BY <1>0 DEF sem_wait, wait_queue_push, vars, HasUnit
<1>3. \A s \in Sems : /\ sems'[s].used = sems[s].used /\ sems'[s].refcount = sems[s].refcount
                      /\ sems'[s].unlinked = sems[s].unlinked /\ sems'[s].count = sems[s].count
                      /\ sems'[s].waiters = IF s = s0 THEN Append(sems[s].waiters, p)
                                            ELSE sems[s].waiters
  BY <1>2 DEF Types, SemRec
<1>4. \A q \in Slots : /\ procs'[q].pid = procs[q].pid
                       /\ procs'[q].state = IF q = p THEN "BLOCKED" ELSE procs[q].state
                       /\ procs'[q].at = IF q = p THEN s0 ELSE procs[q].at
  BY <1>2 DEF Types, ProcRec
<1>5. Live' = Live
  BY <1>4 DEF Live
<1>6. /\ Append(sems[s0].waiters, p) \in Seq(Slots) /\ Append(sems[s0].waiters, p) # <<>>
      /\ Members(Append(sems[s0].waiters, p)) = Members(sems[s0].waiters) \cup {p}
  BY <1>1, AppendProperties, AppendMembers
<1>7. \A s \in Sems : Members(sems'[s].waiters) = IF s = s0 THEN Members(sems[s].waiters) \cup {p}
                                                  ELSE Members(sems[s].waiters)
  BY <1>3, <1>6
<1>8. Types'
  <2>1. [sems[s0] EXCEPT !.waiters = Append(@, p)] \in SemRec
    BY <1>6 DEF Types, SemRec
  <2>2. procs' \in [Slots -> ProcRec]
    BY <1>2 DEF Types, ProcRec
  <2>3. QED
    BY <1>2, <2>1, <2>2 DEF Types
<1>9. Pids' /\ Calls' /\ HandlesHaveOwners'
  <2>1. Pids'
    BY <1>2, <1>4, <1>5 DEF Pids, Live
  <2>2. Calls'
    BY <1>1, <1>4, SemAssumption DEF Calls, Live
  <2>3. HandlesHaveOwners'
    BY <1>2, <1>4, <1>5 DEF HandlesHaveOwners, Live
  <2>4. QED
    BY <2>1, <2>2, <2>3
<1>10. RefcountExact'
  BY <1>2, <1>3, <1>6, RefFrame
<1>11. WaitersHaveHandles'
  <2> SUFFICES ASSUME "shared_handle" \notin may, NEW q \in Live, procs'[q].at # None
               PROVE  \E x \in Handles : handles[x].sem = procs'[q].at
                                        /\ handles[x].owner = procs'[q].pid
    BY <1>2, <1>5 DEF WaitersHaveHandles
  <2>1. q \in Slots
    BY DEF Live
  <2>2. CASE q = p
    BY <1>0, <1>1, <1>4, <2>2
  <2>3. CASE q # p
    BY <1>4, <2>1, <2>3 DEF WaitersHaveHandles
  <2>4. QED
    BY <2>2, <2>3
<1>12. QueuesExact'
  <2> SUFFICES ASSUME may \cap {"unblock", "kill", "parent_dies"} = {}, NEW s \in Sems
               PROVE  /\ Distinct(sems'[s].waiters)
                      /\ \A q \in Members(sems'[s].waiters) :
                            q \in Live' /\ procs'[q].state = "BLOCKED" /\ procs'[q].at = s
                      /\ sems'[s].waiters # <<>> => sems'[s].count = 0
    BY <1>2 DEF QueuesExact
  <2>1. p \notin Members(sems[s].waiters) /\ Distinct(sems[s].waiters)
    BY <1>1 DEF QueuesExact
  <2>2. Distinct(sems'[s].waiters)
    <3>1. s = s0 => Distinct(Append(sems[s].waiters, p))
      BY <1>1, <2>1, AppendDistinct
    <3>2. QED
      BY <1>3, <2>1, <3>1
  <2>3. \A q \in Members(sems[s].waiters) : q \in Slots
    BY DEF Members, Types, SemRec
  <2>4. \A q \in Members(sems'[s].waiters) :
            q \in Live' /\ procs'[q].state = "BLOCKED" /\ procs'[q].at = s
    <3>1. \A q \in Members(sems[s].waiters) :
            q \in Live /\ procs[q].state = "BLOCKED" /\ procs[q].at = s
      BY DEF QueuesExact
    <3>2. QED
      BY <1>1, <1>4, <1>5, <1>7, <2>1, <2>3, <3>1
  <2>5. sems'[s].waiters # <<>> => sems'[s].count = 0
    BY <1>1, <1>3 DEF QueuesExact
  <2>6. QED
    BY <2>2, <2>4, <2>5
<1>13. UnitsConserved'
  <2>1. \A s \in Sems, q \in Slots : Waiting(s, q)' <=> Waiting(s, q) \/ (s = s0 /\ q = p)
    BY <1>7, WaitingIsMember, WaitingIsMemberNext
  <2>2. \A s \in Sems : GrantedTo(s)' = GrantedTo(s)
    BY <1>1, <1>4, <1>5, <2>1, SemAssumption DEF GrantedTo
  <2>3. QED
    BY <1>2, <1>3, <2>2, UnitsFrame
<1>14. QED
  BY <1>8, <1>9, <1>10, <1>11, <1>12, <1>13

\* ksem_post: the unit goes to the first waiter, or into the count.
LEMMA PostStep ==
    ASSUME Inv, NEW p \in Slots, NEW h \in Handles, sem_post(p, h)
    PROVE  Inv'
<1> USE DEF Inv
<1>0. PICK s0 \in Sems : s0 = handles[h].sem /\ sems[s0].used /\ sems[s0].refcount >= 1
  BY HandleHolds DEF sem_post, Usable
<1> DEFINE target == Head(sems[s0].waiters)
<1>1. /\ sems' = [sems EXCEPT ![s0] = Posted(s0)]
      /\ procs' = IF Wakes(s0) THEN [procs EXCEPT ![target].state = "READY"] ELSE procs
      /\ due' = [due EXCEPT ![s0] = @ + 1]
      /\ UNCHANGED <<handles, next_pid, may>>
  BY <1>0 DEF sem_post
<1>2. /\ sems[s0].waiters \in Seq(Slots) /\ sems[s0].count \in Nat
      /\ sems[s0].waiters # <<>> =>
           /\ target \in Members(sems[s0].waiters) /\ target \in Slots
           /\ Tail(sems[s0].waiters) \in Seq(Slots)
           /\ Members(sems[s0].waiters) = Members(Tail(sems[s0].waiters)) \cup {target}
           /\ Distinct(sems[s0].waiters) => /\ Distinct(Tail(sems[s0].waiters))
                                            /\ target \notin Members(Tail(sems[s0].waiters))
  <2>1. sems[s0].waiters \in Seq(Slots) /\ sems[s0].count \in Nat
    BY DEF Types, SemRec
  <2>2. QED
    BY <2>1, TailMembers
<1>3. \A s \in Sems :
        /\ sems'[s].used = sems[s].used /\ sems'[s].refcount = sems[s].refcount
        /\ sems'[s].unlinked = sems[s].unlinked
        /\ sems'[s].waiters = IF s = s0 /\ sems[s0].waiters # <<>> THEN Tail(sems[s0].waiters)
                              ELSE sems[s].waiters
        /\ sems'[s].count = IF s = s0 /\ ~Wakes(s0) THEN sems[s].count + 1 ELSE sems[s].count
        /\ due'[s] = IF s = s0 THEN due[s] + 1 ELSE due[s]
  BY <1>1 DEF Types, SemRec, Posted
<1>4. \A q \in Slots : /\ procs'[q].pid = procs[q].pid /\ procs'[q].at = procs[q].at
                       /\ procs'[q].state = IF Wakes(s0) /\ q = target THEN "READY"
                                            ELSE procs[q].state
  BY <1>1 DEF Types, ProcRec
<1>5. Live' = Live
  BY <1>4 DEF Live
<1>6. Types'
  <2>1. Posted(s0) \in SemRec
    <3>1. /\ sems[s0] \in SemRec
          /\ (IF sems[s0].waiters = <<>> THEN sems[s0].waiters ELSE Tail(sems[s0].waiters)) \in Seq(Slots)
          /\ (IF Wakes(s0) THEN sems[s0].count ELSE sems[s0].count + 1) \in Nat
      BY <1>2 DEF Types
    <3>2. QED
      BY <3>1 DEF SemRec, Posted
  <2>2. procs' \in [Slots -> ProcRec]
    BY <1>1 DEF Types, ProcRec
  <2>3. QED
    BY <1>1, <2>1, <2>2 DEF Types
<1>7. Pids' /\ HandlesHaveOwners' /\ WaitersHaveHandles'
  <2>1. Pids'
    BY <1>1, <1>4, <1>5 DEF Pids, Live
  <2>2. HandlesHaveOwners'
    BY <1>1, <1>4, <1>5 DEF HandlesHaveOwners, Live
  <2>3. WaitersHaveHandles'
    BY <1>1, <1>4, <1>5 DEF WaitersHaveHandles, Live
  <2>4. QED
    BY <2>1, <2>2, <2>3
<1>8. Calls'
  BY <1>4 DEF Calls
<1>9. RefcountExact'
  BY <1>0, <1>1, <1>3, RefFrame
<1>10. ASSUME may \cap {"unblock", "kill", "parent_dies"} = {}
       PROVE  /\ Wakes(s0) <=> sems[s0].waiters # <<>>
              /\ sems[s0].waiters # <<>> => procs[target].at = s0 /\ target \in Live
  BY <1>2, <1>10 DEF QueuesExact, Wakes, Live
<1>11. QueuesExact'
  <2> SUFFICES ASSUME may \cap {"unblock", "kill", "parent_dies"} = {}, NEW s \in Sems
               PROVE  /\ Distinct(sems'[s].waiters)
                      /\ \A q \in Members(sems'[s].waiters) :
                            q \in Live' /\ procs'[q].state = "BLOCKED" /\ procs'[q].at = s
                      /\ sems'[s].waiters # <<>> => sems'[s].count = 0
    BY <1>1 DEF QueuesExact
  <2>1. /\ Distinct(sems[s].waiters)
        /\ \A q \in Members(sems[s].waiters) :
              q \in Slots /\ q \in Live /\ procs[q].state = "BLOCKED" /\ procs[q].at = s
        /\ sems[s].waiters # <<>> => sems[s].count = 0
    BY DEF QueuesExact, Live
  <2>2. CASE s = s0 /\ sems[s0].waiters # <<>>
    BY <1>2, <1>3, <1>4, <1>5, <1>10, <2>1, <2>2
  <2>3. CASE s = s0 /\ sems[s0].waiters = <<>>
    BY <1>3, <2>3 DEF Distinct, Members
  <2>4. CASE s # s0
    BY <1>3, <1>4, <1>5, <1>10, <2>1, <2>4
  <2>5. QED
    BY <2>2, <2>3, <2>4
<1>12. UnitsConserved'
  <2> SUFFICES ASSUME may \subseteq {"crowd", "no_memory"}, NEW s \in Sems, sems[s].used
               PROVE  /\ due'[s] = sems'[s].count + Granted(Live, s)'
                      /\ due'[s] >= 0 /\ sems'[s].count >= 0
    BY <1>1, <1>3 DEF UnitsConserved
  <2>0. may \cap {"unblock", "kill", "parent_dies"} = {}
    OBVIOUS
  <2>1. GrantedTo(s)' = IF s = s0 /\ Wakes(s0) THEN GrantedTo(s) \cup {target} ELSE GrantedTo(s)
    <3>1. \A q \in Slots : Waiting(s, q)' <=>
                Waiting(s, q) /\ ~(s = s0 /\ Wakes(s0) /\ q = target)
      BY <1>2, <1>3, <1>10, <2>0, WaitingIsMember, WaitingIsMemberNext DEF QueuesExact
    <3>2. QED
      BY <1>2, <1>4, <1>5, <1>10, <2>0, <3>1 DEF GrantedTo
  <2>2. Wakes(s0) => target \notin GrantedTo(s0)
    BY <1>2, <1>10, <2>0, WaitingIsMember DEF GrantedTo
  <2>3. IsFiniteSet(GrantedTo(s)) /\ Cardinality(GrantedTo(s)) \in Nat
    BY SlotsFinite DEF GrantedTo
  <2>4. Cardinality(GrantedTo(s)') = IF s = s0 /\ Wakes(s0) THEN Cardinality(GrantedTo(s)) + 1
                                    ELSE Cardinality(GrantedTo(s))
    BY <2>1, <2>2, <2>3, FS_AddElement
  <2>5. /\ Granted(Live, s) = Cardinality(GrantedTo(s))
        /\ Granted(Live, s)' = Cardinality(GrantedTo(s)')
    BY GrantedIsCount, GrantedIsCountNext
  <2>6. sems[s].count \in Nat /\ due[s] = sems[s].count + Granted(Live, s)
    BY DEF Types, SemRec, UnitsConserved
  <2>7. CASE s = s0 /\ Wakes(s0)
    BY <1>3, <2>3, <2>4, <2>5, <2>6, <2>7
  <2>8. CASE ~(s = s0 /\ Wakes(s0))
    BY <1>3, <2>3, <2>4, <2>5, <2>6, <2>8
  <2>9. QED
    BY <2>7, <2>8
<1>13. QED
  BY <1>6, <1>7, <1>8, <1>9, <1>11, <1>12

-----------------------------------------------------------------------------
(* Opening, closing and unlinking *)

\* The handles that are open on s.
On(s) == {x \in Handles : handles[x].sem = s}

\* Closing a handle gives one reference back.
LEMMA CloseStep ==
    ASSUME Inv, NEW p \in Slots, NEW h \in Handles, sem_close(p, h)
    PROVE  Inv'
<1> USE DEF Inv
<1>0. PICK s0 \in Sems : s0 = handles[h].sem /\ sems[s0].used /\ sems[s0].refcount >= 1
  BY HandleHolds DEF sem_close, Usable
<1> DEFINE r == ksem_close(sems[s0], 1)
<1>1. /\ sems' = [sems EXCEPT ![s0] = r]
      /\ handles' = [handles EXCEPT ![h] = NoHandle]
      /\ due' = IF sems'[s0].used THEN due ELSE [due EXCEPT ![s0] = 0]
      /\ UNCHANGED <<procs, next_pid, may>>
  BY <1>0 DEF sem_close
<1>2. p \in Live /\ procs[p].at = None
  BY DEF sem_close, InUserland, CanRun, Live
<1>3. \/ r = Freed /\ sems[s0].refcount = 1 /\ sems[s0].waiters = <<>>
      \/ /\ r \in SemRec
         /\ r.used = sems[s0].used /\ r.count = sems[s0].count /\ r.unlinked = sems[s0].unlinked
         /\ r.waiters = sems[s0].waiters
         /\ r.refcount = sems[s0].refcount - 1
         /\ r.unlinked /\ r.refcount = 0 => r.waiters # <<>>
  <2>1. sems[s0] \in SemRec /\ (sems[s0].unlinked /\ sems[s0].refcount = 0 => sems[s0].waiters # <<>>)
    BY <1>0 DEF Types, RefcountExact
  <2>2. QED
    BY <1>0, <2>1, CloseFacts
<1> HIDE DEF r
<1>4. sems'[s0] = r /\ \A s \in Sems \ {s0} : sems'[s] = sems[s]
  BY <1>1 DEF Types
<1>5. Freed.used = FALSE /\ Freed.waiters = <<>>
  BY DEF Freed
<1>6. Types'
  <2>1. r \in SemRec
    BY <1>3, FreedType
  <2>2. NoHandle \in HandleRec
    BY DEF NoHandle, HandleRec
  <2>3. QED
    BY <1>1, <2>1, <2>2 DEF Types
<1>7. Pids' /\ Calls'
  BY <1>1 DEF Pids, Calls, Live
<1>8. \A x \in Handles : handles'[x] = IF x = h THEN NoHandle ELSE handles[x]
  BY <1>1 DEF Types
<1>9. RefcountExact'
  <2>1. \A s \in Sems : On(s)' = IF s = s0 THEN On(s) \ {h} ELSE On(s)
    BY <1>0, <1>8, SemAssumption DEF On, NoHandle
  <2>2. \A s \in Sems : On(s) \in SUBSET Handles /\ IsFiniteSet(On(s)) /\ Cardinality(On(s)) \in Nat
    BY HandlesFinite DEF On
  <2>3. h \in On(s0)
    BY <1>0 DEF On
  <2>4. \A s \in Sems : Cardinality(On(s)') = IF s = s0 THEN Cardinality(On(s)) - 1
                                             ELSE Cardinality(On(s))
    BY <2>1, <2>2, <2>3, FS_RemoveElement
  <2>5. \A s \in Sems : sems[s].used => sems[s].refcount = Cardinality(On(s))
    BY DEF RefcountExact, On
  <2>6. ASSUME NEW x \in Handles, handles'[x].sem # None PROVE sems'[handles'[x].sem].used
    <3>1. x # h /\ handles'[x] = handles[x] /\ handles[x].sem \in Sems /\ sems[handles[x].sem].used
      BY <1>8, <2>6, HandleHolds DEF NoHandle
    <3>2. CASE handles[x].sem # s0
      BY <1>4, <3>1, <3>2
    <3>3. CASE handles[x].sem = s0
      <4>1. x \in On(s0) \ {h}
        BY <3>1, <3>3 DEF On
      <4>2. Cardinality(On(s0) \ {h}) # 0
        BY <4>1, <2>2, FS_RemoveElement, FS_EmptySet
      <4>3. sems[s0].refcount # 1
        <5>1. Cardinality(On(s0) \ {h}) = Cardinality(On(s0)) - 1
          BY <2>2, <2>3, FS_RemoveElement
        <5>2. sems[s0].refcount = Cardinality(On(s0))
          BY <1>0, <2>5
        <5>3. QED
          BY <5>1, <5>2, <4>2
      <4>4. QED
        BY <1>0, <1>3, <1>4, <3>1, <3>3, <4>3
    <3>4. QED
      BY <3>2, <3>3
  <2>7. ASSUME NEW s \in Sems, sems'[s].used
        PROVE  /\ sems'[s].refcount = Cardinality(On(s)')
               /\ sems'[s].unlinked /\ sems'[s].refcount = 0 => sems'[s].waiters # <<>>
    BY <1>0, <1>3, <1>4, <1>5, <2>4, <2>5, <2>7 DEF RefcountExact
  <2>8. QED
    BY <2>6, <2>7 DEF RefcountExact, On
<1>10. HandlesHaveOwners'
  BY <1>1, <1>8 DEF HandlesHaveOwners, NoHandle, Live
<1>11. WaitersHaveHandles'
  <2> SUFFICES ASSUME "shared_handle" \notin may, NEW q \in Live, procs[q].at # None
               PROVE  \E x \in Handles : handles'[x].sem = procs[q].at
                                        /\ handles'[x].owner = procs[q].pid
    BY <1>1 DEF WaitersHaveHandles, Live
  <2>1. PICK x \in Handles : handles[x].sem = procs[q].at /\ handles[x].owner = procs[q].pid
    BY DEF WaitersHaveHandles
  <2>2. handles[h].owner = procs[p].pid
    BY DEF sem_close, Usable
  <2>3. x # h
    BY <1>2, <2>1, <2>2 DEF Pids
  <2>4. QED
    BY <1>8, <2>1, <2>3
<1>12. QueuesExact'
  <2>1. \A s \in Sems : sems'[s].waiters = <<>> \/ (/\ sems'[s].count = sems[s].count
                                                  /\ sems'[s].waiters = sems[s].waiters)
    BY <1>3, <1>4, <1>5
  <2>2. QED
    BY <1>1, <2>1, QueuesFrame
<1>13. UnitsConserved'
  <2>1. \A s \in Sems : sems'[s].used => /\ sems[s].used /\ sems'[s].count = sems[s].count
                                        /\ sems'[s].waiters = sems[s].waiters
                                        /\ due'[s] = due[s]
    BY <1>0, <1>1, <1>3, <1>4, <1>5 DEF Types
  <2>2. \A s \in Sems : sems'[s].waiters = sems[s].waiters => GrantedTo(s)' = GrantedTo(s)
    BY <1>1 DEF GrantedTo, Waiting, Live
  <2>3. QED
    BY <1>1, <2>1, <2>2, UnitsFrame
<1>14. QED
  BY <1>6, <1>7, <1>9, <1>10, <1>11, <1>12, <1>13

\* Unlinking frees a semaphore that nobody has open and nobody waits for.
LEMMA UnlinkStep ==
    ASSUME Inv, NEW p \in Slots, NEW name \in Names, sem_unlink(p, name)
    PROVE  Inv'
<1> USE DEF Inv
<1>0. PICK s0 \in Found(name) :
        LET sem == [sems[s0] EXCEPT !.unlinked = TRUE]
        IN  /\ sems' = [sems EXCEPT ![s0] = IF sem_ready_to_destroy(sem) THEN Freed ELSE sem]
            /\ due' = IF sems'[s0].used THEN due ELSE [due EXCEPT ![s0] = 0]
  BY DEF sem_unlink
<1>1. s0 \in Sems /\ sems[s0].used /\ UNCHANGED <<handles, procs, next_pid, may>>
  BY DEF sem_unlink, Found, Linked
<1>2. /\ \A s \in Sems \ {s0} : sems'[s] = sems[s]
      /\ \/ sems'[s0] = Freed /\ sems[s0].refcount = 0 /\ sems[s0].waiters = <<>>
         \/ /\ sems'[s0] \in SemRec
            /\ sems'[s0].used = sems[s0].used /\ sems'[s0].count = sems[s0].count
            /\ sems'[s0].waiters = sems[s0].waiters /\ sems'[s0].refcount = sems[s0].refcount
            /\ sems'[s0].refcount = 0 => sems'[s0].waiters # <<>>
  BY <1>0, <1>1 DEF Types, SemRec, sem_ready_to_destroy
<1>3. Freed.used = FALSE /\ Freed.waiters = <<>>
  BY DEF Freed
<1>4. Types'
  <2>1. sems'[s0] \in SemRec
    BY <1>2, FreedType
  <2>2. sems' \in [Sems -> SemRec]
    BY <1>0, <1>1, <2>1 DEF Types
  <2>3. due' \in [Sems -> Int]
    BY <1>0, <1>1 DEF Types
  <2>4. QED
    BY <1>1, <2>2, <2>3 DEF Types
<1>5. Pids' /\ Calls' /\ HandlesHaveOwners' /\ WaitersHaveHandles'
  BY <1>1 DEF Pids, Calls, HandlesHaveOwners, WaitersHaveHandles, Live
<1>6. RefcountExact'
  <2>1. \A s \in Sems : On(s)' = On(s)
    BY <1>1 DEF On
  <2>2. ASSUME NEW x \in Handles, handles[x].sem # None PROVE sems'[handles[x].sem].used
    BY <1>2, <2>2, HandleHolds
  <2>3. ASSUME NEW s \in Sems, sems'[s].used
        PROVE  /\ sems'[s].refcount = Cardinality(On(s)')
               /\ sems'[s].unlinked /\ sems'[s].refcount = 0 => sems'[s].waiters # <<>>
    <3>1. sems[s].used => sems[s].refcount = Cardinality(On(s))
      BY DEF RefcountExact, On
    <3>2. QED
      BY <1>1, <1>2, <1>3, <2>1, <2>3, <3>1 DEF RefcountExact
  <2>4. QED
    BY <1>1, <2>2, <2>3 DEF RefcountExact, On
<1>7. QueuesExact'
  <2>1. \A s \in Sems : sems'[s].waiters = <<>> \/ (/\ sems'[s].count = sems[s].count
                                                  /\ sems'[s].waiters = sems[s].waiters)
    BY <1>2, <1>3
  <2>2. QED
    BY <1>1, <2>1, QueuesFrame
<1>8. UnitsConserved'
  <2>1. \A s \in Sems : sems'[s].used => /\ sems[s].used /\ sems'[s].count = sems[s].count
                                        /\ sems'[s].waiters = sems[s].waiters
                                        /\ due'[s] = due[s]
    BY <1>0, <1>1, <1>2, <1>3 DEF Types
  <2>2. \A s \in Sems : sems'[s].waiters = sems[s].waiters => GrantedTo(s)' = GrantedTo(s)
    BY <1>1 DEF GrantedTo, Waiting, Live
  <2>3. QED
    BY <1>1, <2>1, <2>2, UnitsFrame
<1>9. QED
  BY <1>4, <1>5, <1>6, <1>7, <1>8

-----------------------------------------------------------------------------
(* sys_sem_open *)

\* Opening either finds the semaphore or makes one, and either adds a handle on it
\* or, with the table full, changes no reference.
LEMMA OpenCases ==
    ASSUME Inv, NEW p \in Slots, NEW name \in Names, NEW init \in 0 .. 1,
           sem_open(p, name, init), "no_memory" \notin may \/ ~UNCHANGED vars
    PROVE  \E s0 \in Sems : \E r \in SemRec :
             /\ sems' = [sems EXCEPT ![s0] = r]
             /\ r.used /\ ~r.unlinked /\ r.name = name
             /\ \/ /\ sems[s0].used
                   /\ r.count = sems[s0].count /\ r.waiters = sems[s0].waiters
                   /\ due' = due
                \/ /\ ~sems[s0].used
                   /\ r.count = init /\ r.waiters = <<>>
                   /\ due' = [due EXCEPT ![s0] = init]
             /\ \/ /\ handles' = handles
                   /\ r.refcount = IF sems[s0].used THEN sems[s0].refcount ELSE 0
                \/ /\ \E h \in Handles :
                         /\ handles[h].sem = None
                         /\ handles' = [handles EXCEPT ![h] = [sem |-> s0, owner |-> procs[p].pid]]
                   /\ r.refcount = IF sems[s0].used THEN sems[s0].refcount + 1 ELSE 1
<1> USE DEF Inv
<1> DEFINE free == {h \in Handles : handles[h].sem = None}
           h0 == CHOOSE x \in free : \A y \in free : x =< y
           Attach(s, sem) ==
             IF free = {}
             THEN sems' = [sems EXCEPT ![s] = ksem_close(sem, 1)] /\ UNCHANGED handles
             ELSE /\ sems' = [sems EXCEPT ![s] = sem]
                  /\ handles' = [handles EXCEPT ![h0] = [sem |-> s, owner |-> procs[p].pid]]
           old(s) == [sems[s] EXCEPT !.refcount = @ + 1]
           new == [Freed EXCEPT !.used = TRUE, !.name = name, !.count = init, !.refcount = 1]
<1>1. \/ \E s \in Found(name) : Attach(s, old(s)) /\ UNCHANGED due
      \/ \E s \in Sems : ~sems[s].used /\ Attach(s, new) /\ due' = [due EXCEPT ![s] = init]
  BY DEF sem_open, vars
<1>2. free # {} => h0 \in free
  <2>1. free \in SUBSET Nat
    BY SemAssumption DEF Handles
  <2>2. QED
    BY <2>1, SmallestOf
<1>3. ASSUME NEW s \in Sems, NEW sem \in SemRec, Attach(s, sem), sem.refcount > 0, ~sem.unlinked
      PROVE  \E r \in SemRec :
               /\ sems' = [sems EXCEPT ![s] = r]
               /\ r.used = sem.used /\ ~r.unlinked /\ r.name = sem.name
               /\ r.count = sem.count /\ r.waiters = sem.waiters
               /\ \/ handles' = handles /\ r.refcount = sem.refcount - 1
                  \/ /\ \E h \in Handles :
                          /\ handles[h].sem = None
                          /\ handles' = [handles EXCEPT ![h] = [sem |-> s, owner |-> procs[p].pid]]
                     /\ r.refcount = sem.refcount
  <2>1. CASE free = {}
    <3>1. sem.refcount \in Nat
      BY DEF SemRec
    <3>2. LET r == ksem_close(sem, 1)
          IN  /\ r \in SemRec /\ r.used = sem.used /\ r.count = sem.count
              /\ r.unlinked = sem.unlinked /\ r.waiters = sem.waiters /\ r.name = sem.name
              /\ r.refcount = sem.refcount - 1
      BY <1>3, <3>1, CloseFacts
    <3>3. sems' = [sems EXCEPT ![s] = ksem_close(sem, 1)] /\ handles' = handles
      BY <1>3, <2>1
    <3>4. QED
      BY <1>3, <3>2, <3>3
  <2>2. CASE free # {}
    <3>1. h0 \in Handles /\ handles[h0].sem = None
      BY <1>2, <2>2
    <3>2. /\ sems' = [sems EXCEPT ![s] = sem]
          /\ handles' = [handles EXCEPT ![h0] = [sem |-> s, owner |-> procs[p].pid]]
      BY <1>3, <2>2
    <3> HIDE DEF h0
    <3>3. QED
      BY <1>3, <3>1, <3>2
  <2>3. QED
    BY <2>1, <2>2
<1>4. CASE \E s \in Found(name) : Attach(s, old(s)) /\ UNCHANGED due
  <2>1. PICK s0 \in Found(name) : Attach(s0, old(s0)) /\ UNCHANGED due
    BY <1>4
  <2>2. s0 \in Sems /\ sems[s0].used /\ ~sems[s0].unlinked /\ sems[s0] \in SemRec
        /\ sems[s0].name = name
    BY DEF Found, Linked, Types
  <2>3. /\ old(s0) \in SemRec /\ old(s0).refcount = sems[s0].refcount + 1 /\ old(s0).refcount > 0
        /\ sems[s0].refcount \in Nat
        /\ old(s0).used = sems[s0].used /\ old(s0).unlinked = sems[s0].unlinked
        /\ old(s0).count = sems[s0].count /\ old(s0).waiters = sems[s0].waiters
        /\ old(s0).name = sems[s0].name
    <3>1. \A sem \in SemRec :
            LET o == [sem EXCEPT !.refcount = @ + 1]
            IN  /\ o \in SemRec /\ o.refcount = sem.refcount + 1 /\ o.refcount > 0
                /\ sem.refcount \in Nat /\ o.used = sem.used /\ o.unlinked = sem.unlinked
                /\ o.count = sem.count /\ o.waiters = sem.waiters /\ o.name = sem.name
      BY DEF SemRec
    <3>2. QED
      BY <2>2, <3>1
  <2>4. PICK r \in SemRec :
             /\ sems' = [sems EXCEPT ![s0] = r]
             /\ r.used = old(s0).used /\ ~r.unlinked /\ r.name = old(s0).name
             /\ r.count = old(s0).count /\ r.waiters = old(s0).waiters
             /\ \/ handles' = handles /\ r.refcount = old(s0).refcount - 1
                \/ /\ \E h \in Handles :
                        /\ handles[h].sem = None
                        /\ handles' = [handles EXCEPT ![h] = [sem |-> s0, owner |-> procs[p].pid]]
                   /\ r.refcount = old(s0).refcount
    <3> HIDE DEF old, Attach
    <3>1. QED
      BY <1>3, <2>1, <2>2, <2>3
  <2>5. /\ r.used /\ r.count = sems[s0].count /\ r.waiters = sems[s0].waiters /\ r.name = name
        /\ old(s0).refcount - 1 = sems[s0].refcount
    <3> HIDE DEF old
    <3>1. QED
      BY <2>2, <2>3, <2>4
  <2>6. QED
    <3> HIDE DEF old, Attach
    <3>1. QED
      BY <2>1, <2>2, <2>3, <2>4, <2>5
<1>5. CASE \E s \in Sems : ~sems[s].used /\ Attach(s, new) /\ due' = [due EXCEPT ![s] = init]
  <2>1. PICK s0 \in Sems : ~sems[s0].used /\ Attach(s0, new) /\ due' = [due EXCEPT ![s0] = init]
    BY <1>5
  <2>2. /\ new \in SemRec /\ new.refcount = 1 /\ new.used = TRUE /\ new.unlinked = FALSE
        /\ new.count = init /\ new.waiters = <<>> /\ new.name = name
    <3>0. init \in Nat
      OBVIOUS
    <3>1. \A f \in SemRec :
            LET o == [f EXCEPT !.used = TRUE, !.name = name, !.count = init, !.refcount = 1]
            IN  /\ o \in SemRec /\ o.refcount = 1 /\ o.used = TRUE /\ o.unlinked = f.unlinked
                /\ o.count = init /\ o.waiters = f.waiters /\ o.name = name
      BY <3>0 DEF SemRec
    <3>2. Freed.unlinked = FALSE /\ Freed.waiters = <<>>
      BY DEF Freed
    <3>3. QED
      BY <3>1, <3>2, FreedType
  <2>3. PICK r \in SemRec :
             /\ sems' = [sems EXCEPT ![s0] = r]
             /\ r.used = new.used /\ ~r.unlinked /\ r.name = new.name
             /\ r.count = new.count /\ r.waiters = new.waiters
             /\ \/ handles' = handles /\ r.refcount = new.refcount - 1
                \/ /\ \E h \in Handles :
                        /\ handles[h].sem = None
                        /\ handles' = [handles EXCEPT ![h] = [sem |-> s0, owner |-> procs[p].pid]]
                   /\ r.refcount = new.refcount
    <3> HIDE DEF new, Attach
    <3>1. QED
      BY <1>3, <2>1, <2>2
  <2>4. r.used /\ r.count = init /\ r.waiters = <<>> /\ new.refcount - 1 = 0 /\ r.name = name
    <3> HIDE DEF new
    <3>1. QED
      BY <2>2, <2>3
  <2>5. QED
    <3> HIDE DEF new, Attach
    <3>1. QED
      BY <2>1, <2>2, <2>3, <2>4
<1>6. QED
  BY <1>1, <1>4, <1>5

\* The new reference is counted, and belongs to the process that opened.
LEMMA OpenStep ==
    ASSUME Inv, NEW p \in Slots, NEW name \in Names, NEW init \in 0 .. 1,
           sem_open(p, name, init), ~UNCHANGED vars
    PROVE  Inv'
<1> USE DEF Inv
<1>0. PICK s0 \in Sems, r \in SemRec :
             /\ sems' = [sems EXCEPT ![s0] = r]
             /\ r.used /\ ~r.unlinked
             /\ \/ /\ sems[s0].used
                   /\ r.count = sems[s0].count /\ r.waiters = sems[s0].waiters
                   /\ due' = due
                \/ /\ ~sems[s0].used
                   /\ r.count = init /\ r.waiters = <<>>
                   /\ due' = [due EXCEPT ![s0] = init]
             /\ \/ /\ handles' = handles
                   /\ r.refcount = IF sems[s0].used THEN sems[s0].refcount ELSE 0
                \/ /\ \E h \in Handles :
                         /\ handles[h].sem = None
                         /\ handles' = [handles EXCEPT ![h] = [sem |-> s0, owner |-> procs[p].pid]]
                   /\ r.refcount = IF sems[s0].used THEN sems[s0].refcount + 1 ELSE 1
  BY OpenCases
<1>1. p \in Live /\ procs[p].pid \in Nat /\ UNCHANGED <<procs, next_pid, may>>
  BY DEF sem_open, InUserland, CanRun, Live, Types, ProcRec
<1>2. /\ sems'[s0] = r /\ \A s \in Sems \ {s0} : sems'[s] = sems[s]
      /\ \A s \in Sems \ {s0} : due'[s] = due[s]
      /\ due'[s0] = IF sems[s0].used THEN due[s0] ELSE init
  BY <1>0 DEF Types
<1>3. \A h \in Handles : handles[h].sem # None => sems[handles[h].sem].used
  BY HandleHolds
<1>4. \A h \in Handles : \/ handles'[h] = handles[h]
                         \/ /\ handles[h].sem = None
                            /\ handles'[h].sem = s0 /\ handles'[h].owner = procs[p].pid
  BY <1>0 DEF Types
<1>5. Types'
  <2>1. handles' \in [Handles -> HandleRec]
    BY <1>0, <1>1 DEF Types, HandleRec
  <2>2. due' \in [Sems -> Int]
    BY <1>0 DEF Types
  <2>3. QED
    BY <1>0, <1>1, <2>1, <2>2 DEF Types
<1>6. Pids' /\ Calls'
  BY <1>1 DEF Pids, Calls, Live
<1>7. RefcountExact'
  <2>1. \A s \in Sems : On(s) \in SUBSET Handles /\ IsFiniteSet(On(s)) /\ Cardinality(On(s)) \in Nat
    BY HandlesFinite DEF On
  <2>2. \A s \in Sems : /\ sems[s].used => sems[s].refcount = Cardinality(On(s))
                        /\ ~sems[s].used => On(s) = {} /\ Cardinality(On(s)) = 0
    BY <1>3, FS_EmptySet, SemAssumption DEF RefcountExact, On
  <2>3. \A s \in Sems \ {s0} : On(s)' = On(s)
    BY <1>4, SemAssumption DEF On
  <2>4. r.refcount = Cardinality(On(s0)')
    <3>1. CASE handles' = handles
      <4>1. On(s0)' = On(s0)
        BY <3>1 DEF On
      <4>2. r.refcount = IF sems[s0].used THEN sems[s0].refcount ELSE 0
        BY <1>0, <3>1, <1>1, SemAssumption DEF Types, HandleRec
      <4>3. QED
        BY <2>2, <4>1, <4>2
    <3>2. CASE handles' # handles
      <4>1. PICK h \in Handles :
              /\ handles[h].sem = None
              /\ handles' = [handles EXCEPT ![h] = [sem |-> s0, owner |-> procs[p].pid]]
        BY <1>0, <3>2
      <4>2. On(s0)' = On(s0) \cup {h} /\ h \notin On(s0)
        BY <4>1, SemAssumption DEF On, Types
      <4>3. Cardinality(On(s0)') = Cardinality(On(s0)) + 1
        BY <2>1, <4>2, FS_AddElement
      <4>4. r.refcount = IF sems[s0].used THEN sems[s0].refcount + 1 ELSE 1
        BY <1>0, <3>2
      <4>5. QED
        BY <2>2, <4>3, <4>4
    <3>3. QED
      BY <3>1, <3>2
  <2>5. ASSUME NEW x \in Handles, handles'[x].sem # None PROVE sems'[handles'[x].sem].used
    <3>1. CASE handles'[x] = handles[x]
      BY <1>0, <1>2, <2>5, <3>1, HandleHolds
    <3>2. CASE handles'[x] # handles[x]
      BY <1>0, <1>2, <1>4, <3>2
    <3>3. QED
      BY <3>1, <3>2
  <2>6. ASSUME NEW s \in Sems, sems'[s].used
        PROVE  /\ sems'[s].refcount = Cardinality(On(s)')
               /\ sems'[s].unlinked /\ sems'[s].refcount = 0 => sems'[s].waiters # <<>>
    <3>1. CASE s = s0
      BY <1>0, <1>2, <2>4, <3>1
    <3>2. CASE s # s0
      BY <1>2, <2>2, <2>3, <2>6, <3>2 DEF RefcountExact
    <3>3. QED
      BY <3>1, <3>2
  <2>7. QED
    BY <2>5, <2>6 DEF RefcountExact, On
<1>8. HandlesHaveOwners'
  BY <1>1, <1>4 DEF HandlesHaveOwners, Live
<1>9. WaitersHaveHandles'
  BY <1>1, <1>4 DEF WaitersHaveHandles, Live
<1>10. QueuesExact'
  <2>1. \A s \in Sems : sems'[s].waiters = <<>> \/ (/\ sems'[s].count = sems[s].count
                                                  /\ sems'[s].waiters = sems[s].waiters)
    BY <1>0, <1>2
  <2>2. QED
    BY <1>1, <2>1, QueuesFrame
<1>11. UnitsConserved'
  <2> SUFFICES ASSUME may \subseteq {"crowd", "no_memory"}, NEW s \in Sems, sems'[s].used
               PROVE  /\ due'[s] = sems'[s].count + Granted(Live, s)'
                      /\ due'[s] >= 0 /\ sems'[s].count >= 0
    BY <1>1 DEF UnitsConserved
  <2>1. Granted(Live, s)' = Cardinality(GrantedTo(s)')
    BY GrantedIsCountNext
  <2>2. CASE sems[s].used
    <3>1. sems'[s].count = sems[s].count /\ due'[s] = due[s] /\ sems'[s].waiters = sems[s].waiters
      BY <1>0, <1>2, <2>2
    <3>2. GrantedTo(s)' = GrantedTo(s)
      BY <1>1, <3>1 DEF GrantedTo, Waiting, Live
    <3>3. QED
      BY <2>1, <2>2, <3>1, <3>2, GrantedIsCount DEF UnitsConserved
  <2>3. CASE ~sems[s].used
    <3>1. s = s0 /\ sems'[s].count = init /\ due'[s] = init
      BY <1>0, <1>2, <2>3
    <3>2. \A q \in Live : procs[q].at # s
      <4> SUFFICES ASSUME NEW q \in Live, procs[q].at = s PROVE FALSE
        OBVIOUS
      <4>1. PICK x \in Handles : handles[x].sem = s
        BY SemAssumption DEF WaitersHaveHandles
      <4>2. QED
        BY <1>3, <2>3, <4>1, SemAssumption
    <3>3. GrantedTo(s)' = {}
      BY <1>1, <3>2 DEF GrantedTo, Live
    <3>4. QED
      BY <2>1, <3>1, <3>3, FS_EmptySet
  <2>4. QED
    BY <2>2, <2>3
<1>12. QED
  BY <1>5, <1>6, <1>7, <1>8, <1>9, <1>10, <1>11

-----------------------------------------------------------------------------
(* The life of processes *)

\* A new process is inside no system call, and its pid is new.
LEMMA CreateStep ==
    ASSUME Inv, NEW p \in Slots, Create(p)
    PROVE  Inv'
<1> USE DEF Inv
<1>1. /\ procs[p].pid = 0 /\ procs[p].at = None
      /\ procs' = [procs EXCEPT ![p] = [NoProc EXCEPT !.pid = next_pid]]
      /\ next_pid' = next_pid + 1 /\ next_pid \in Nat /\ next_pid > 0
      /\ UNCHANGED <<sems, handles, due, may>>
  BY DEF Create, Calls, Types, Pids
<1>2. \A q \in Slots \ {p} : procs'[q] = procs[q]
  BY <1>1 DEF Types
<1>3. /\ procs'[p].pid = next_pid /\ procs'[p].at = None /\ procs'[p].state = "READY"
      /\ procs'[p] \in ProcRec
  BY <1>1 DEF Types, NoProc, ProcRec
<1>4. Live' = Live \cup {p} /\ p \notin Live
  BY <1>1, <1>2, <1>3 DEF Live
<1>5. Types'
  BY <1>1, <1>3 DEF Types
<1>6. Pids'
  <2>1. \A q \in Live : q \in Slots \ {p} /\ procs'[q].pid = procs[q].pid
                        /\ procs[q].pid \in Nat /\ procs[q].pid < next_pid
    BY <1>2, <1>4 DEF Live, Pids, Types, ProcRec
  <2>2. QED
    BY <1>1, <1>3, <1>4, <2>1 DEF Pids
<1>7. Calls'
  BY <1>2, <1>3, <1>1 DEF Calls
<1>8. RefcountExact'
  BY <1>1, RefFrame
<1>9. HandlesHaveOwners'
  BY <1>1, <1>2, <1>4 DEF HandlesHaveOwners, Live
<1>10. WaitersHaveHandles'
  BY <1>1, <1>2, <1>3, <1>4 DEF WaitersHaveHandles, Live
<1>11. QueuesExact'
  <2>1. \A q \in Live : procs'[q] = procs[q]
    BY <1>2, <1>4 DEF Live
  <2>2. QED
    BY <1>1, <2>1, QueuesFrame
<1>12. UnitsConserved'
  <2>1. \A s \in Sems : GrantedTo(s)' = GrantedTo(s)
    BY <1>1, <1>2, <1>3, <1>4, SemAssumption DEF GrantedTo, Waiting, Live
  <2>2. QED
    BY <1>1, <2>1, UnitsFrame
<1>13. QED
  BY <1>5, <1>6, <1>7, <1>8, <1>9, <1>10, <1>11, <1>12

\* ksem_remove_waiters_for takes the process out of the queues it visits, and
\* touches nothing else.
LEMMA RemovedWaiters ==
    ASSUME Types, NEW p \in Slots, NEW s \in Sems
    PROVE  LET r == ksem_remove_waiters_for(p)[s]
           IN  /\ r \in SemRec
               /\ r.used = sems[s].used /\ r.count = sems[s].count
               /\ r.refcount = sems[s].refcount /\ r.unlinked = sems[s].unlinked
               /\ r.name = sems[s].name
               /\ s \notin Linked => r = sems[s]
               /\ s \in Linked => p \notin Members(r.waiters)
               /\ Members(r.waiters) \subseteq Members(sems[s].waiters)
               /\ Members(sems[s].waiters) \subseteq Members(r.waiters) \cup {p}
               /\ Distinct(sems[s].waiters) => Distinct(r.waiters)
               /\ r.waiters # <<>> => sems[s].waiters # <<>>
<1> DEFINE r == ksem_remove_waiters_for(p)[s]
           q == sems[s].waiters
           f == Filter(q, Slots \ {p})
<1>1. sems[s] \in SemRec /\ q \in Seq(Slots)
  BY DEF Types, SemRec
<1>2. /\ f \in Seq(Slots) /\ Members(f) = Members(q) \cap (Slots \ {p})
      /\ Distinct(q) => Distinct(f)
  BY <1>1, FilterProperties
<1>3. Members(q) \subseteq Slots
  BY <1>1 DEF Members
<1>4. f # <<>> => q # <<>>
  <2> SUFFICES ASSUME f # <<>>, q = <<>> PROVE FALSE
    OBVIOUS
  <2> HIDE DEF f
  <2>1. Members(f) # {}
    BY <1>2, TailMembers
  <2>2. Members(q) = {}
    BY DEF Members
  <2>3. QED
    BY <1>2, <2>1, <2>2
<1>5. r = IF s \in Linked THEN [sems[s] EXCEPT !.waiters = f] ELSE sems[s]
  BY DEF ksem_remove_waiters_for, wait_queue_remove_proc
<1> HIDE DEF f, r
<1>6. CASE s \in Linked
  <2>1. r = [sems[s] EXCEPT !.waiters = f]
    BY <1>5, <1>6
  <2>2. r \in SemRec /\ r.waiters = f /\ r.used = sems[s].used /\ r.count = sems[s].count
        /\ r.refcount = sems[s].refcount /\ r.unlinked = sems[s].unlinked /\ r.name = sems[s].name
    BY <1>1, <1>2, <2>1 DEF SemRec
  <2>3. QED
    BY <1>2, <1>3, <1>4, <1>6, <2>2 DEF r
<1>7. CASE s \notin Linked
  BY <1>1, <1>5, <1>7 DEF r
<1>8. QED
  BY <1>6, <1>7

\* The processes that are left are what they were.
LEMMA GoneFacts ==
    ASSUME Types, Pids, Calls, NEW P \in SUBSET Slots, Gone(P), UNCHANGED next_pid
    PROVE  /\ procs' \in [Slots -> ProcRec]
           /\ Live' = Live \ P
           /\ \A q \in Slots \ P : procs'[q] = procs[q]
           /\ Pids' /\ Calls'
<1>1. NoProc \in ProcRec /\ NoProc.pid = 0 /\ NoProc.state = "READY" /\ NoProc.at = None
  BY DEF NoProc, ProcRec
<1>2. procs' = [q \in Slots |-> IF q \in P THEN NoProc ELSE procs[q]]
  BY DEF Gone
<1>3. \A q \in Slots : procs'[q] = IF q \in P THEN NoProc ELSE procs[q]
  BY <1>2
<1>4. procs' \in [Slots -> ProcRec]
  BY <1>1, <1>2 DEF Types
<1>5. Live' = Live \ P
  BY <1>1, <1>3 DEF Live
<1>6. Pids'
  BY <1>3, <1>5 DEF Pids, Live
<1>7. Calls'
  BY <1>1, <1>3 DEF Calls
<1>8. QED
  BY <1>3, <1>4, <1>5, <1>6, <1>7

\* The children that die with a process.
LEMMA KidsFacts ==
    ASSUME NEW p \in Slots, NEW kids \in Kids(p)
    PROVE  /\ kids \subseteq Live /\ {p} \cup kids \in SUBSET Slots
           /\ "parent_dies" \notin may => kids = {}
BY DEF Kids, Live

\* proc_exit closes the handles of the process: its references are given back, and
\* the semaphores that nobody else uses are freed.
LEMMA ExitStep ==
    ASSUME Inv, NEW p \in Slots, NEW kids \in Kids(p), proc_exit(p, kids)
    PROVE  Inv'
<1> USE DEF Inv
<1> DEFINE P == {p} \cup kids
           rest(s) == ksem_remove_waiters_for(p)[s]
           n(s) == Cardinality(Owned(p, s))
<1>1. /\ sems' = [s \in Sems |-> ksem_close(rest(s), n(s))]
      /\ handles' = [h \in Handles |-> IF handles[h].owner = procs[p].pid THEN NoHandle
                                       ELSE handles[h]]
      /\ Gone(P)
      /\ due' = [s \in Sems |-> IF sems'[s].used THEN due[s] - Granted(kids, s) ELSE 0]
      /\ UNCHANGED <<next_pid, may>>
      /\ p \in Live /\ procs[p].state = "READY" /\ procs[p].at = None
  BY DEF proc_exit, sem_cleanup_process_handles, InUserland, CanRun, Live
<1>2. P \in SUBSET Slots /\ kids \in SUBSET Slots /\ ("parent_dies" \notin may => kids = {} /\ P = {p})
  BY KidsFacts DEF Live
<1>3. /\ procs' \in [Slots -> ProcRec] /\ Live' = Live \ P /\ Pids' /\ Calls'
      /\ \A q \in Slots \ P : procs'[q] = procs[q]
  BY <1>1, <1>2, GoneFacts
<1>4. \A s \in Sems : /\ rest(s) \in SemRec
                      /\ rest(s).used = sems[s].used /\ rest(s).count = sems[s].count
                      /\ rest(s).refcount = sems[s].refcount /\ rest(s).unlinked = sems[s].unlinked
                      /\ s \notin Linked => rest(s).waiters = sems[s].waiters
                      /\ Members(rest(s).waiters) \subseteq Members(sems[s].waiters)
                      /\ Members(sems[s].waiters) \subseteq Members(rest(s).waiters) \cup {p}
                      /\ Distinct(sems[s].waiters) => Distinct(rest(s).waiters)
                      /\ rest(s).waiters # <<>> => sems[s].waiters # <<>>
  BY RemovedWaiters
<1> HIDE DEF rest
<1>5. \A s \in Sems : /\ Owned(p, s) \in SUBSET On(s)
                      /\ IsFiniteSet(On(s)) /\ Cardinality(On(s)) \in Nat /\ n(s) \in Nat
                      /\ On(s)' = On(s) \ Owned(p, s)
                      /\ Cardinality(On(s)') = Cardinality(On(s)) - n(s)
                      /\ n(s) =< Cardinality(On(s))
                      /\ n(s) = Cardinality(On(s)) => On(s)' = {}
                      /\ sems[s].used => sems[s].refcount = Cardinality(On(s))
                      /\ ~sems[s].used => On(s) = {}
  <2> TAKE s \in Sems
  <2>1. Owned(p, s) \in SUBSET On(s) /\ On(s) \in SUBSET Handles
    BY DEF Owned, On
  <2>2. IsFiniteSet(On(s)) /\ Cardinality(On(s)) \in Nat
    BY <2>1, HandlesFinite
  <2>3. /\ IsFiniteSet(Owned(p, s)) /\ n(s) \in Nat /\ n(s) =< Cardinality(On(s))
        /\ n(s) = Cardinality(On(s)) => Owned(p, s) = On(s)
    BY <2>1, <2>2, FS_Subset, FS_CardinalityType
  <2>4. On(s)' = On(s) \ Owned(p, s)
    BY <1>1, SemAssumption DEF On, Owned, NoHandle, Types
  <2>5. Cardinality(On(s) \ Owned(p, s)) = Cardinality(On(s)) - n(s)
    <3>1. On(s) \cap Owned(p, s) = Owned(p, s)
      BY <2>1
    <3>2. Cardinality(On(s) \ Owned(p, s)) = Cardinality(On(s)) - Cardinality(On(s) \cap Owned(p, s))
      BY <2>2, FS_Difference
    <3>3. QED
      BY <3>1, <3>2
  <2>6. sems[s].used => sems[s].refcount = Cardinality(On(s))
    BY DEF RefcountExact, On
  <2>7. ~sems[s].used => On(s) = {}
    BY SemAssumption DEF RefcountExact, On
  <2>8. QED
    BY <2>1, <2>2, <2>3, <2>4, <2>5, <2>6, <2>7
<1> HIDE DEF n
<1>6. \A s \in Sems :
        \/ sems'[s] = Freed /\ On(s)' = {} /\ sems[s].used
        \/ /\ sems'[s] \in SemRec
           /\ sems'[s].used = sems[s].used /\ sems'[s].count = sems[s].count
           /\ sems'[s].unlinked = sems[s].unlinked
           /\ sems'[s].waiters = rest(s).waiters
           /\ sems'[s].used => /\ sems'[s].refcount = Cardinality(On(s)')
                               /\ sems'[s].unlinked /\ sems'[s].refcount = 0
                                    => sems'[s].waiters # <<>>
  <2> TAKE s \in Sems
  <2>1. sems'[s] = ksem_close(rest(s), n(s))
    BY <1>1
  <2>2. CASE sems[s].used
    <3>1. n(s) =< rest(s).refcount /\ n(s) \in Nat
      BY <1>4, <1>5, <2>2
    <3>2. rest(s).unlinked /\ rest(s).refcount = 0 => rest(s).waiters # <<>>
      BY <1>4, <2>2 DEF RefcountExact, Linked
    <3>3. rest(s) \in SemRec
      BY <1>4
    <3>4. \/ sems'[s] = Freed /\ n(s) = rest(s).refcount
          \/ /\ sems'[s] \in SemRec
             /\ sems'[s].used = rest(s).used /\ sems'[s].count = rest(s).count
             /\ sems'[s].unlinked = rest(s).unlinked /\ sems'[s].waiters = rest(s).waiters
             /\ sems'[s].refcount = rest(s).refcount - n(s)
             /\ sems'[s].unlinked /\ sems'[s].refcount = 0 => sems'[s].waiters # <<>>
      BY <2>1, <3>1, <3>2, <3>3, CloseFacts
    <3>5. QED
      BY <1>4, <1>5, <2>2, <3>4
  <2>3. CASE ~sems[s].used
    <3>1. n(s) = 0
      <4>1. Owned(p, s) = {}
        BY <1>5, <2>3
      <4>2. QED
        BY <4>1, FS_EmptySet DEF n
    <3>2. sems'[s] = rest(s)
      BY <2>1, <3>1 DEF ksem_close
    <3>3. QED
      BY <1>4, <2>3, <3>2
  <2>4. QED
    BY <2>2, <2>3
<1>7. Freed.used = FALSE /\ Freed.waiters = <<>>
  BY DEF Freed
<1>8. Types'
  <2>1. sems' \in [Sems -> SemRec]
    <3>1. \A s \in Sems : sems'[s] \in SemRec
      BY <1>6, FreedType
    <3>2. QED
      BY <1>1, <3>1
  <2>2. handles' \in [Handles -> HandleRec]
    BY <1>1 DEF Types, NoHandle, HandleRec
  <2>3. due' \in [Sems -> Int]
    <3>1. \A s \in Sems : Granted(kids, s) \in Nat
      BY <1>2, SlotsFinite DEF Granted
    <3>2. QED
      BY <1>1, <3>1 DEF Types
  <2>4. QED
    BY <1>1, <1>3, <2>1, <2>2, <2>3 DEF Types
<1>9. \A h \in Handles : handles'[h] = IF handles[h].owner = procs[p].pid THEN NoHandle
                                       ELSE handles[h]
  BY <1>1
<1>10. RefcountExact'
  <2>1. ASSUME NEW x \in Handles, handles'[x].sem # None PROVE sems'[handles'[x].sem].used
    <3>1. handles'[x] = handles[x] /\ handles[x].sem \in Sems /\ sems[handles[x].sem].used
      BY <1>9, <2>1, HandleHolds DEF NoHandle
    <3>2. x \in On(handles[x].sem)'
      BY <3>1 DEF On
    <3>3. QED
      BY <1>6, <3>1, <3>2
  <2>2. ASSUME NEW s \in Sems, sems'[s].used
        PROVE  /\ sems'[s].refcount = Cardinality(On(s)')
               /\ sems'[s].unlinked /\ sems'[s].refcount = 0 => sems'[s].waiters # <<>>
    BY <1>6, <1>7, <2>2
  <2>3. QED
    BY <2>1, <2>2 DEF RefcountExact, On
<1>11. HandlesHaveOwners'
  <2> SUFFICES ASSUME may \cap {"kill", "parent_dies"} = {},
                      NEW h \in Handles, handles'[h].sem # None
               PROVE  \E q \in Live' : procs'[q].pid = handles'[h].owner
    BY <1>1 DEF HandlesHaveOwners
  <2>1. handles'[h] = handles[h] /\ handles[h].owner # procs[p].pid
    BY <1>9 DEF NoHandle
  <2>2. PICK q \in Live : procs[q].pid = handles[h].owner
    BY <2>1 DEF HandlesHaveOwners
  <2>3. q # p /\ P = {p} /\ q \in Slots
    BY <1>2, <2>1, <2>2 DEF Live
  <2>4. QED
    BY <1>3, <2>1, <2>2, <2>3
<1>12. WaitersHaveHandles'
  <2> SUFFICES ASSUME "shared_handle" \notin may, NEW q \in Live', procs'[q].at # None
               PROVE  \E h \in Handles : handles'[h].sem = procs'[q].at
                                        /\ handles'[h].owner = procs'[q].pid
    BY <1>1 DEF WaitersHaveHandles
  <2>1. q \in Live /\ q # p /\ procs'[q] = procs[q]
    BY <1>3 DEF Live
  <2>2. PICK h \in Handles : handles[h].sem = procs[q].at /\ handles[h].owner = procs[q].pid
    BY <2>1 DEF WaitersHaveHandles
  <2>3. procs[q].pid # procs[p].pid
    BY <1>1, <2>1 DEF Pids
  <2>4. QED
    BY <1>9, <2>1, <2>2, <2>3
<1>13. \A s \in Sems : \/ sems'[s].waiters = <<>> /\ ~sems'[s].used
                       \/ /\ sems'[s].count = sems[s].count /\ sems'[s].used = sems[s].used
                          /\ sems'[s].waiters = rest(s).waiters
  BY <1>6, <1>7
<1>14. QueuesExact'
  <2>1. "parent_dies" \notin may =>
          \A q \in Live : procs[q].state = "BLOCKED" => procs'[q] = procs[q]
    BY <1>1, <1>2, <1>3 DEF Live
  <2>2. \A s \in Sems : \/ sems'[s].waiters = <<>>
                        \/ /\ sems'[s].count = sems[s].count
                           /\ Members(sems'[s].waiters) \subseteq Members(sems[s].waiters)
                           /\ Distinct(sems[s].waiters) => Distinct(sems'[s].waiters)
                           /\ sems'[s].waiters # <<>> => sems[s].waiters # <<>>
    BY <1>4, <1>13
  <2>3. QED
    BY <1>1, <2>1, <2>2, QueuesFrame
<1>15. UnitsConserved'
  <2> SUFFICES ASSUME may \subseteq {"crowd", "no_memory"}, NEW s \in Sems, sems'[s].used
               PROVE  /\ sems[s].used
                      /\ sems'[s].count = sems[s].count
                      /\ due'[s] = due[s]
                      /\ GrantedTo(s)' = GrantedTo(s)
    BY <1>1, UnitsFrame
  <2>1. kids = {} /\ P = {p}
    BY <1>2
  <2>2. sems[s].used /\ sems'[s].count = sems[s].count /\ sems'[s].waiters = rest(s).waiters
    BY <1>13
  <2>3. Granted(kids, s) = 0
    BY <2>1, FS_EmptySet DEF Granted
  <2>4. due'[s] = due[s]
    BY <1>1, <2>3 DEF Types
  <2>5. \A q \in Slots \ {p} : Waiting(s, q)' <=> Waiting(s, q)
    BY <1>4, <2>2, WaitingIsMember, WaitingIsMemberNext
  <2>6. GrantedTo(s)' = GrantedTo(s)
    BY <1>1, <1>3, <2>1, <2>5, SemAssumption DEF GrantedTo
  <2>7. QED
    BY <2>2, <2>4, <2>6
<1>16. QED
  BY <1>3, <1>8, <1>10, <1>11, <1>12, <1>14, <1>15

\* proc_kill leaves the handles, and so the references, as they are.
LEMMA KillStep ==
    ASSUME Inv, NEW p \in Slots, NEW kids \in Kids(p), proc_kill(p, kids)
    PROVE  Inv'
<1> USE DEF Inv
<1> DEFINE P == {p} \cup kids
<1>1. /\ sems' = ksem_remove_waiters_for(p)
      /\ Gone(P)
      /\ due' = [s \in Sems |-> due[s] - Granted(P, s)]
      /\ UNCHANGED <<handles, next_pid, may>>
      /\ "kill" \in may
  BY DEF proc_kill
<1>2. P \in SUBSET Slots
  BY KidsFacts
<1>3. /\ procs' \in [Slots -> ProcRec] /\ Live' = Live \ P /\ Pids' /\ Calls'
      /\ \A q \in Slots \ P : procs'[q] = procs[q]
  BY <1>1, <1>2, GoneFacts
<1>4. \A s \in Sems : /\ sems'[s] \in SemRec
                      /\ sems'[s].used = sems[s].used
                      /\ sems'[s].refcount = sems[s].refcount
                      /\ sems'[s].unlinked = sems[s].unlinked
                      /\ s \notin Linked => sems'[s].waiters = sems[s].waiters
  BY <1>1, RemovedWaiters
<1>5. Types'
  <2>1. sems' \in [Sems -> SemRec]
    <3>1. sems' = [s \in Sems |-> sems'[s]]
      BY <1>1 DEF ksem_remove_waiters_for
    <3>2. QED
      BY <1>4, <3>1
  <2>2. \A s \in Sems : Granted(P, s) \in Nat
    BY <1>2, SlotsFinite DEF Granted
  <2>3. due' \in [Sems -> Int]
    <3>1. \A s \in Sems : due[s] - Granted(P, s) \in Int
      <4>1. \A s \in Sems : due[s] \in Int
        BY DEF Types
      <4>2. QED
        BY <2>2, <4>1
    <3>2. QED
      BY <1>1, <3>1
  <2>4. QED
    BY <1>1, <1>3, <2>1, <2>3 DEF Types
<1>6. RefcountExact'
  BY <1>1, <1>4, RefFrame DEF Linked
<1>7. WaitersHaveHandles'
  BY <1>1, <1>3 DEF WaitersHaveHandles, Live
<1>8. HandlesHaveOwners' /\ QueuesExact' /\ UnitsConserved'
  BY <1>1 DEF HandlesHaveOwners, QueuesExact, UnitsConserved
<1>9. QED
  BY <1>3, <1>5, <1>6, <1>7, <1>8

\* proc_unblock makes the process READY and leaves its waiter in the queue.
LEMMA UnblockStep ==
    ASSUME Inv, NEW p \in Slots, proc_unblock(p)
    PROVE  Inv'
<1> USE DEF Inv
<1>1. /\ procs' = [procs EXCEPT ![p].state = "READY"]
      /\ "unblock" \in may
      /\ UNCHANGED <<sems, handles, next_pid, due, may>>
  BY DEF proc_unblock
<1>2. \A q \in Slots : /\ procs'[q].pid = procs[q].pid /\ procs'[q].at = procs[q].at
                       /\ procs'[q].state = "BLOCKED" => procs[q].state = "BLOCKED"
  BY <1>1 DEF Types, ProcRec
<1>3. Live' = Live
  BY <1>2 DEF Live
<1>4. Types'
  BY <1>1 DEF Types, ProcRec
<1>5. Pids'
  BY <1>1, <1>2, <1>3 DEF Pids, Live
<1>6. Calls'
  BY <1>2 DEF Calls
<1>7. RefcountExact'
  BY <1>1, RefFrame
<1>8. HandlesHaveOwners'
  BY <1>1, <1>2, <1>3 DEF HandlesHaveOwners, Live
<1>9. WaitersHaveHandles'
  BY <1>1, <1>2, <1>3 DEF WaitersHaveHandles, Live
<1>10. QueuesExact' /\ UnitsConserved'
  BY <1>1 DEF QueuesExact, UnitsConserved
<1>11. QED
  BY <1>4, <1>5, <1>6, <1>7, <1>8, <1>9, <1>10

-----------------------------------------------------------------------------
(* Those who sleep stand in a queue *)

\* WaitersReachable, by the members of queues.
LEMMA ReachForm ==
    ASSUME Types
    PROVE  WaitersReachable <=>
             \A q \in Slots : procs[q].pid # 0 /\ procs[q].state = "BLOCKED" =>
                 /\ procs[q].at \in Sems /\ sems[procs[q].at].used
                 /\ q \in Members(sems[procs[q].at].waiters)
BY WaitingIsMember DEF WaitersReachable, SleepsOn, Live

\* The same in the next state.
LEMMA ReachFormNext ==
    ASSUME Types'
    PROVE  WaitersReachable' <=>
             \A q \in Slots : procs'[q].pid # 0 /\ procs'[q].state = "BLOCKED" =>
                 /\ procs'[q].at \in Sems /\ sems'[procs'[q].at].used
                 /\ q \in Members(sems'[procs'[q].at].waiters)
BY WaitingIsMemberNext DEF WaitersReachable, SleepsOn, Live

\* A step in which nobody falls asleep, and which takes no sleeper out of its queue,
\* leaves all sleepers reachable.
LEMMA ReachFrame ==
    ASSUME Types, Types', WaitersReachable,
           \A q \in Slots : procs'[q].pid # 0 /\ procs'[q].state = "BLOCKED" =>
             /\ procs[q].pid # 0 /\ procs[q].state = "BLOCKED" /\ procs'[q].at = procs[q].at
             /\ \A s \in Sems : sems[s].used /\ q \in Members(sems[s].waiters) =>
                    sems'[s].used /\ q \in Members(sems'[s].waiters)
    PROVE  WaitersReachable'
BY ReachForm, ReachFormNext

\* ksem_close frees no semaphore in whose queue somebody stands.
LEMMA CloseKeepsQueue ==
    ASSUME NEW sem \in SemRec, NEW n, NEW q \in Members(sem.waiters)
    PROVE  LET r == ksem_close(sem, n) IN r.used = sem.used /\ r.waiters = sem.waiters
<1>1. sem.waiters # <<>>
  BY DEF Members
<1>2. QED
  BY <1>1 DEF ksem_close, sem_ready_to_destroy, SemRec

\* ksem_wait: who falls asleep is at the end of the queue.
LEMMA ReachWait ==
    ASSUME Inv, Inv', WaitersReachable, NEW p \in Slots, NEW h \in Handles, sem_wait(p, h),
           ~UNCHANGED vars
    PROVE  WaitersReachable'
<1> USE DEF Inv
<1>0. PICK s0 \in Sems : s0 = handles[h].sem /\ sems[s0].used
  BY HandleHolds DEF sem_wait, Usable
<1>1. sems[s0] \in SemRec /\ sems[s0].waiters \in Seq(Slots)
  BY DEF Types, SemRec
<1>2. CASE HasUnit(s0)
  <2>1. sems' = [sems EXCEPT ![s0].count = @ - 1] /\ procs' = procs
    BY <1>0, <1>2 DEF sem_wait, vars
  <2>2. \A s \in Sems : sems'[s].used = sems[s].used /\ sems'[s].waiters = sems[s].waiters
    BY <1>1, <2>1 DEF Types, SemRec
  <2>3. QED
    BY <2>1, <2>2, ReachFrame
<1>3. CASE ~HasUnit(s0)
  <2>1. /\ sems' = [sems EXCEPT ![s0].waiters = Append(@, p)]
        /\ procs' = [procs EXCEPT ![p].state = "BLOCKED", ![p].at = s0]
    BY <1>0, <1>3 DEF sem_wait, wait_queue_push, vars
  <2>2. \A s \in Sems : /\ sems'[s].used = sems[s].used
                        /\ sems'[s].waiters = IF s = s0 THEN Append(sems[s].waiters, p)
                                              ELSE sems[s].waiters
    BY <1>1, <2>1 DEF Types, SemRec
  <2>3. Members(Append(sems[s0].waiters, p)) = Members(sems[s0].waiters) \cup {p}
    BY <1>1, AppendMembers
  <2>4. /\ \A q \in Slots \ {p} : procs'[q] = procs[q]
        /\ procs'[p].at = s0
    BY <2>1 DEF Types, ProcRec
  <2>5. p \in Members(sems'[s0].waiters) /\ sems'[s0].used
    BY <1>0, <2>2, <2>3
  <2>6. \A s \in Sems : Members(sems[s].waiters) \subseteq Members(sems'[s].waiters)
    BY <2>2, <2>3
  <2>7. QED
    BY <2>2, <2>4, <2>5, <2>6, ReachForm, ReachFormNext
<1>4. QED
  BY <1>2, <1>3

\* ksem_post: the only process that leaves the queue is the one that it wakes, or one
\* that does not sleep.
LEMMA ReachPost ==
    ASSUME Inv, Inv', WaitersReachable, NEW p \in Slots, NEW h \in Handles, sem_post(p, h)
    PROVE  WaitersReachable'
<1> USE DEF Inv
<1>0. PICK s0 \in Sems : s0 = handles[h].sem /\ sems[s0].used
  BY HandleHolds DEF sem_post, Usable
<1> DEFINE target == Head(sems[s0].waiters)
<1>1. /\ sems' = [sems EXCEPT ![s0] = Posted(s0)]
      /\ procs' = IF Wakes(s0) THEN [procs EXCEPT ![target].state = "READY"] ELSE procs
  BY <1>0 DEF sem_post
<1>2. sems[s0].waiters # <<>> =>
          Members(sems[s0].waiters) = Members(Tail(sems[s0].waiters)) \cup {target}
  <2>1. sems[s0].waiters \in Seq(Slots)
    BY DEF Types, SemRec
  <2>2. QED
    BY <2>1, TailMembers
<1>3. \A s \in Sems :
        /\ sems'[s].used = sems[s].used
        /\ sems'[s].waiters = IF s = s0 /\ sems[s0].waiters # <<>> THEN Tail(sems[s0].waiters)
                              ELSE sems[s].waiters
  BY <1>1 DEF Types, SemRec, Posted
<1>4. \A q \in Slots : /\ procs'[q].pid = procs[q].pid /\ procs'[q].at = procs[q].at
                       /\ procs'[q].state = IF Wakes(s0) /\ q = target THEN "READY"
                                            ELSE procs[q].state
  BY <1>1 DEF Types, ProcRec
<1>5. ASSUME NEW q \in Slots, procs'[q].pid # 0, procs'[q].state = "BLOCKED"
      PROVE  /\ procs[q].pid # 0 /\ procs[q].state = "BLOCKED" /\ procs'[q].at = procs[q].at
             /\ \A s \in Sems : sems[s].used /\ q \in Members(sems[s].waiters) =>
                    sems'[s].used /\ q \in Members(sems'[s].waiters)
  <2>1. procs[q].pid # 0 /\ procs[q].state = "BLOCKED" /\ procs'[q].at = procs[q].at
    BY <1>4, <1>5
  <2>2. sems[s0].waiters # <<>> => q # target
    BY <1>4, <1>5, <2>1 DEF Wakes
  <2>3. QED
    BY <1>2, <1>3, <2>1, <2>2
<1>6. QED
  BY <1>5, ReachFrame

\* sys_sem_open leaves the queues alone.
LEMMA ReachOpen ==
    ASSUME Inv, Inv', WaitersReachable, NEW p \in Slots, NEW name \in Names, NEW init \in 0 .. 1,
           sem_open(p, name, init), ~UNCHANGED vars
    PROVE  WaitersReachable'
<1> USE DEF Inv
<1>1. PICK s0 \in Sems, r \in SemRec :
        /\ sems' = [sems EXCEPT ![s0] = r]
        /\ r.used /\ (sems[s0].used => r.waiters = sems[s0].waiters)
  BY OpenCases
<1>2. \A s \in Sems : sems[s].used => sems'[s].used /\ sems'[s].waiters = sems[s].waiters
  BY <1>1 DEF Types
<1>3. procs' = procs
  BY DEF sem_open
<1>4. QED
  BY <1>2, <1>3, ReachFrame

\* Neither sys_sem_close nor sys_sem_unlink frees a semaphore with somebody in its queue.
LEMMA ReachClose ==
    ASSUME Inv, Inv', WaitersReachable, NEW p \in Slots,
           \/ \E h \in Handles : sem_close(p, h)
           \/ \E name \in Names : sem_unlink(p, name)
    PROVE  WaitersReachable'
<1> USE DEF Inv
<1>1. procs' = procs
  BY DEF sem_close, sem_unlink
<1>2. ASSUME NEW h \in Handles, sem_close(p, h),
             NEW s \in Sems, NEW q \in Members(sems[s].waiters)
      PROVE  sems'[s].used = sems[s].used /\ sems'[s].waiters = sems[s].waiters
  <2>1. sems' = [sems EXCEPT ![handles[h].sem] = ksem_close(@, 1)] /\ sems[s] \in SemRec
    BY <1>2 DEF sem_close, Types
  <2>2. sems'[s] = sems[s] \/ sems'[s] = ksem_close(sems[s], 1)
    BY <2>1 DEF Types
  <2>3. QED
    BY <2>1, <2>2, CloseKeepsQueue
<1>3. ASSUME NEW name \in Names, sem_unlink(p, name),
             NEW s \in Sems, NEW q \in Members(sems[s].waiters)
      PROVE  sems'[s].used = sems[s].used /\ sems'[s].waiters = sems[s].waiters
  <2>1. PICK x \in Sems :
          LET sem == [sems[x] EXCEPT !.unlinked = TRUE]
          IN  sems' = [sems EXCEPT ![x] = IF sem_ready_to_destroy(sem) THEN Freed ELSE sem]
    BY <1>3 DEF sem_unlink, Found, Linked
  <2>2. sems[s] \in SemRec /\ sems[s].waiters # <<>>
    BY DEF Types, Members
  <2>3. QED
    BY <2>1, <2>2 DEF Types, SemRec, sem_ready_to_destroy
<1>4. QED
  BY <1>1, <1>2, <1>3, ReachFrame

\* A process that ends is taken out of queues by its own slot only, and those that are
\* left are what they were.
LEMMA ReachEnd ==
    ASSUME Inv, Inv', WaitersReachable, NEW p \in Slots, NEW kids \in Kids(p),
           proc_exit(p, kids) \/ proc_kill(p, kids)
    PROVE  WaitersReachable'
<1> USE DEF Inv
<1>1. \A q \in Slots : procs'[q].pid # 0 => q # p /\ procs'[q] = procs[q]
  <2>1. procs' = [q \in Slots |-> IF q \in {p} \cup kids THEN NoProc ELSE procs[q]]
    BY DEF proc_exit, proc_kill, Gone
  <2>2. NoProc.pid = 0
    BY DEF NoProc
  <2>3. QED
    BY <2>1, <2>2
<1>2. ASSUME NEW s \in Sems, NEW q \in Slots \ {p}, sems[s].used, q \in Members(sems[s].waiters)
      PROVE  sems'[s].used /\ q \in Members(sems'[s].waiters)
  <2> DEFINE r == ksem_remove_waiters_for(p)[s]
             n == Cardinality(Owned(p, s))
  <2>1. r \in SemRec /\ r.used /\ q \in Members(r.waiters)
    BY <1>2, RemovedWaiters
  <2>2. sems'[s] = r \/ sems'[s] = ksem_close(r, n)
    BY DEF proc_exit, proc_kill
  <2> HIDE DEF r, n
  <2>3. QED
    BY <2>1, <2>2, CloseKeepsQueue
<1>3. QED
  BY <1>1, <1>2, ReachFrame

\* No step leaves a sleeper behind.
LEMMA NextReach == Inv /\ Inv' /\ WaitersReachable /\ [Next]_vars => WaitersReachable'
<1> SUFFICES ASSUME Inv, Inv', WaitersReachable, [Next]_vars PROVE WaitersReachable'
  OBVIOUS
<1>0. Types /\ Types'
  BY DEF Inv
<1>1. CASE UNCHANGED vars
  BY <1>0, <1>1, ReachFrame DEF vars
<1>2. ASSUME NEW p \in Slots, Create(p) \/ WaitReturns(p) \/ proc_unblock(p)
      PROVE  WaitersReachable'
  <2>1. sems' = sems
    BY <1>2 DEF Create, WaitReturns, proc_unblock
  <2>2. /\ \A q \in Slots \ {p} : procs'[q] = procs[q]
        /\ procs'[p].state = "READY"
    BY <1>0, <1>2 DEF Create, WaitReturns, proc_unblock, NoProc, CanRun, Types, ProcRec
  <2>3. QED
    BY <1>0, <2>1, <2>2, ReachFrame
<1>3. CASE ~UNCHANGED vars
  BY <1>2, <1>3, ReachWait, ReachPost, ReachOpen, ReachClose, ReachEnd DEF Next
<1>4. QED
  BY <1>1, <1>3

-----------------------------------------------------------------------------
(* The theorems *)

\* No semaphore is in use at the start.
LEMMA InitInv == Init => Inv
<1> SUFFICES ASSUME Init PROVE Inv
  OBVIOUS
<1>1. PICK p \in Slots : procs = [q \in Slots |-> IF q = p THEN [NoProc EXCEPT !.pid = 1] ELSE NoProc]
  BY DEF Init
<1>2. /\ sems = [s \in Sems |-> Freed] /\ handles = [h \in Handles |-> NoHandle]
      /\ next_pid = 2 /\ due = [s \in Sems |-> 0]
  BY DEF Init
<1>3. /\ Freed.used = FALSE /\ Freed.waiters = <<>> /\ NoHandle.sem = None
  BY DEF Freed, NoHandle
<1>4. /\ \A q \in Slots : procs[q].at = None /\ procs[q].state = "READY"
      /\ Live = {p} /\ procs[p].pid = 1
  BY <1>1 DEF NoProc, Live
<1>5. Types
  <2>1. procs \in [Slots -> ProcRec]
    BY <1>1 DEF NoProc, ProcRec
  <2>2. handles \in [Handles -> HandleRec]
    BY <1>2 DEF NoHandle, HandleRec
  <2>3. QED
    BY <1>2, <2>1, <2>2, FreedType DEF Types
<1>6. Pids /\ Calls
  BY <1>2, <1>4 DEF Pids, Calls
<1>7. RefcountExact /\ HandlesHaveOwners
  BY <1>2, <1>3 DEF RefcountExact, HandlesHaveOwners
<1>8. WaitersHaveHandles
  BY <1>4 DEF WaitersHaveHandles, Live
<1>9. QueuesExact
  BY <1>2, <1>3 DEF QueuesExact, Members, Distinct
<1>10. UnitsConserved
  BY <1>2, <1>3 DEF UnitsConserved
<1>11. QED
  BY <1>5, <1>6, <1>7, <1>8, <1>9, <1>10 DEF Inv

\* Each step keeps the invariant.
LEMMA NextInv == Inv /\ [Next]_vars => Inv'
<1> SUFFICES ASSUME Inv, [Next]_vars PROVE Inv'
  OBVIOUS
<1>1. CASE UNCHANGED vars
  <2>1. \A s \in Sems : GrantedTo(s)' = GrantedTo(s)
    BY <1>1 DEF vars, GrantedTo, Live, Waiting
  <2>2. UnitsConserved'
    BY <1>1, <2>1, UnitsFrame DEF vars, Inv
  <2>3. QED
    BY <1>1, <2>2 DEF vars, Inv, Types, Pids, Calls, RefcountExact, HandlesHaveOwners,
                      WaitersHaveHandles, QueuesExact, Live
<1>2. ASSUME NEW p \in Slots, Create(p) PROVE Inv'
  BY <1>2, CreateStep
<1>3. ASSUME NEW p \in Slots, WaitReturns(p) PROVE Inv'
  BY <1>3, WaitReturnsStep
<1>4. ASSUME NEW p \in Slots, proc_unblock(p) PROVE Inv'
  BY <1>4, UnblockStep
<1>5. ASSUME NEW p \in Slots, NEW name \in Names, sem_unlink(p, name) PROVE Inv'
  BY <1>5, UnlinkStep
<1>6. ASSUME NEW p \in Slots, NEW name \in Names, NEW init \in 0 .. 1, sem_open(p, name, init),
             ~UNCHANGED vars
      PROVE  Inv'
  BY <1>6, OpenStep
<1>7. ASSUME NEW p \in Slots, NEW h \in Handles, sem_wait(p, h), ~UNCHANGED vars PROVE Inv'
  BY <1>7, TakeStep, SleepStep
<1>8. ASSUME NEW p \in Slots, NEW h \in Handles, sem_post(p, h) PROVE Inv'
  BY <1>8, PostStep
<1>9. ASSUME NEW p \in Slots, NEW h \in Handles, sem_close(p, h) PROVE Inv'
  BY <1>9, CloseStep
<1>10. ASSUME NEW p \in Slots, NEW kids \in Kids(p), proc_exit(p, kids) PROVE Inv'
  BY <1>10, ExitStep
<1>11. ASSUME NEW p \in Slots, NEW kids \in Kids(p), proc_kill(p, kids) PROVE Inv'
  BY <1>11, KillStep
<1>12. QED
  BY <1>1, <1>2, <1>3, <1>4, <1>5, <1>6, <1>7, <1>8, <1>9, <1>10, <1>11 DEF Next

\* Every reachable state satisfies the inductive invariant: semaphore.c and the
\* handle table keep references, queues and units in step.
THEOREM Invariance == Spec => []Inv
<1>1. QED
  BY InitInv, NextInv, PTL DEF Spec

\* refcount is the number of open handles, so ksem_close frees a semaphore when the
\* last handle goes and never while a handle still points to it.
THEOREM References == Spec => []RefcountExact
<1>1. Inv => RefcountExact
  BY DEF Inv
<1>2. QED
  BY <1>1, Invariance, PTL

\* As long as processes end by proc_exit alone, sem_cleanup_process_handles leaves no
\* handle behind: each open one belongs to a process that lives.
THEOREM HandleOwners == Spec => []HandlesHaveOwners
<1>1. Inv => HandlesHaveOwners
  BY DEF Inv
<1>2. QED
  BY <1>1, Invariance, PTL

\* Whatever is killed, unblocked, closed or unlinked, and whoever uses whose handle, a
\* post can reach each process that sleeps in ksem_wait: it stands in the queue of its
\* semaphore, and sem_free does not come before it has left.
THEOREM SleepersReachable == Spec => []WaitersReachable
<1>1. Init => WaitersReachable
  BY DEF Init, WaitersReachable, NoProc, Live
<1>2. Inv /\ Inv' /\ WaitersReachable /\ [Next]_vars => WaitersReachable'
  BY NextReach
<1>3. QED
  BY <1>1, <1>2, Invariance, PTL DEF Spec

\* Undisturbed by kills, dying parents and proc_unblock, ksem_post loses no wakeup:
\* nobody sleeps on a semaphore that has units to give.
THEOREM NoWakeupLost == Spec => []NoLostWakeup
<1>1. Inv => NoLostWakeup
  <2> SUFFICES ASSUME Inv, may \cap {"unblock", "kill", "parent_dies"} = {},
                      NEW s \in Sems, NEW p \in Live, SleepsOn(s, p)
               PROVE  sems[s].count = 0
    BY DEF NoLostWakeup
  <2>1. sems[s].waiters # <<>>
    BY DEF SleepsOn, Waiting
  <2>2. QED
    BY <2>1 DEF Inv, QueuesExact
<1>2. QED
  BY <1>1, Invariance, PTL

\* Where processes only open, wait, post, close, unlink and exit, ksem_post and
\* ksem_wait neither make nor lose units.
THEOREM Units == Spec => []UnitsConserved
<1>1. Inv => UnitsConserved
  BY DEF Inv
<1>2. QED
  BY <1>1, Invariance, PTL

-----------------------------------------------------------------------------
(* The mvar program: its invariant *)

\* The letters that writers write.
Letters == UNION {1 .. n[1] : n \in Launches}

\* What mvar_start creates: a writer with its letter, or a reader.
Member ==
    {[NoProg EXCEPT !.role = "writer", !.pc = "open_empty", !.letter = v] : v \in Letters}
        \cup {[NoProg EXCEPT !.role = "reader", !.pc = "open_empty"]}

ProgRec ==
    [role : {"none", "shell", "writer", "reader"},
     pc : {"none", "prompt", "open_empty", "open_full", "close", "wait", "use", "post", "print"},
     empty : 0 .. HANDLE_MAX, full : 0 .. HANDLE_MAX,
     letter : Letters \cup {None}, value : Letters \cup {None}, todo : Seq(Member)]

ProgTypes ==
    /\ prog \in [Slots -> ProgRec]
    /\ ctx \in [in_use : BOOLEAN, value : Letters \cup {None}]

InTeam(p) == prog[p].role \in {"writer", "reader"}

\* What the program of a process can be doing: only the shell is at a prompt or has
\* something to create, only members are in a loop, with both handles.
Sensible(p) ==
    /\ procs[p].pid = 0 <=> prog[p].role = "none"
    /\ prog[p].role = "none" => prog[p] = NoProg
    /\ prog[p].role = "shell" =>
        /\ p = First(Slots)
        /\ prog[p].pc \in {"prompt", "open_empty", "open_full", "close"}
    /\ prog[p].role # "shell" => prog[p].todo = <<>>
    /\ InTeam(p) => prog[p].pc \in {"open_empty", "open_full", "close", "wait", "use", "post", "print"}
    /\ prog[p].role = "writer" => prog[p].letter \in Letters /\ prog[p].pc # "print"
    /\ prog[p].pc \in {"wait", "use", "post", "print"} => prog[p].empty # 0 /\ prog[p].full # 0
    /\ prog[p].role # "reader" \/ prog[p].pc \notin {"post", "print"} => prog[p].value = None

\* Each process has its handles for itself, and they are what it takes them for.
OwnHandles(p) ==
    /\ prog[p].empty # 0 => handles[prog[p].empty] = [sem |-> "empty", owner |-> procs[p].pid]
    /\ prog[p].full # 0 => handles[prog[p].full] = [sem |-> "full", owner |-> procs[p].pid]

\* No semaphore goes away, and each keeps its name.
Lasting == \A s \in Sems : IF sems[s].used THEN ~sems[s].unlinked /\ sems[s].name = s
                           ELSE sems[s] = Freed

\* A wait queue holds those that sleep on the semaphore, each once.
SleepersQueue ==
    \A s \in Sems : /\ Distinct(sems[s].waiters)
                    /\ \A p \in Members(sems[s].waiters) :
                        p \in Live /\ procs[p].state = "BLOCKED" /\ procs[p].at = s

SemOf(role) == IF role = "writer" THEN "empty" ELSE "full"

\* Who is inside ksem_wait waits there for its turn.
Waits ==
    \A p \in Slots : procs[p].at # None =>
        InTeam(p) /\ prog[p].pc = "use" /\ procs[p].at = SemOf(prog[p].role)

\* The process has taken a unit from one semaphore and not yet put it into the other.
Holds(p) == InTeam(p) /\ (prog[p].pc = "post" \/ (prog[p].pc = "use" /\ ~Asleep(p)))

\* There is at most one unit: in one of the counts or with one process.
OneUnit ==
    /\ \A p, q \in Slots : Holds(p) /\ Holds(q) => p = q
    /\ \A p \in Slots : Holds(p) => sems["empty"].count + sems["full"].count = 0
    /\ sems["empty"].count + sems["full"].count =< 1
    /\ sems["full"].count > 0 => sems["empty"].used

\* Before mvar_start has both semaphores nobody uses the context.
NotStarted == ~ctx.in_use \/ \E p \in Slots : prog[p].role = "shell" /\ prog[p].pc \in {"open_empty", "open_full"}

NobodyYet ==
    /\ NotStarted => (\A p \in Slots : ~InTeam(p)) /\ sems["full"].count = 0
    /\ ~ctx.in_use => \A p \in Slots : prog[p].todo = <<>>

MInv ==
    /\ ProgTypes /\ (\A p \in Slots : Sensible(p) /\ OwnHandles(p))
    /\ Lasting /\ SleepersQueue /\ Waits /\ OneUnit /\ NobodyYet

\* mm_malloc does not fail.
Enough == "no_memory" \notin may

MvarInv == Inv /\ MInv /\ Enough

\* What the place of OnePlace holds, and for whom it counts.
Fills(p) == Is(p, "writer", "post") \/ (Is(p, "reader", "use") /\ ~Asleep(p))

-----------------------------------------------------------------------------
(* Facts about single states *)

\* First returns one of the processes that it is asked about.
LEMMA FirstOfSome == ASSUME NEW S \in SUBSET Slots, S # {} PROVE First(S) \in S
<1>1. S \in SUBSET Nat
  BY MvarAssumption
<1>2. QED
  BY <1>1, SmallestOf DEF First

\* What may happen is decided at the start.
LEMMA SituationStays == [Next]_vars => may' = may
BY DEF Next, vars, Create, WaitReturns, proc_unblock, sem_unlink, sem_open, sem_wait, sem_post,
       sem_close, proc_exit, proc_kill

\* A system call of the mvar programs is a system call: what module Semaphore promises
\* holds for them.
LEMMA MvarUsesSemaphores == MvarNext => [Next]_vars
<1> SUFFICES ASSUME MvarNext PROVE [Next]_vars
  OBVIOUS
<1>1. "empty" \in Names /\ "full" \in Names /\ "other" \in Names
  BY MvarAssumption
<1>2. \A p \in Slots : {} \in Kids(p)
  BY DEF Kids
<1>3. PICK p \in Slots : Step(p) \/ kill_member(p) \/ take_handle(p)
  BY DEF MvarNext
<1>4. ASSUME NEW h, sem_wait(p, h) \/ sem_post(p, h) \/ sem_close(p, h) PROVE h \in Handles
  BY <1>4 DEF sem_wait, sem_post, sem_close, Usable
<1>5. CASE take_handle(p) \/ open_empty(p) \/ open_full(p)
  <2>1. PICK name \in Names, init \in 0 .. 1 : sem_open(p, name, init)
    BY <1>1, <1>5 DEF take_handle, open_empty, open_full, open, InitialEmpty
  <2>2. QED
    BY <2>1 DEF Next
<1>6. CASE close_handle(p) \/ wait(p) \/ post(p)
  <2>1. PICK h : sem_wait(p, h) \/ sem_post(p, h) \/ sem_close(p, h)
    BY <1>6 DEF close_handle, wait, post
  <2>2. QED
    BY <1>4, <2>1 DEF Next
<1>7. CASE give_up(p) \/ kill_member(p)
  BY <1>2, <1>7 DEF give_up, kill_member, Next
<1>8. CASE create_next(p)
  <2> DEFINE free == {q \in Slots : procs[q].pid = 0}
  <2>1. CASE free # {} /\ Create(First(free))
    <3>1. First(free) \in Slots
      BY <2>1, FirstOfSome
    <3>2. QED
      BY <2>1, <3>1 DEF Next
  <2>2. CASE UNCHANGED vars
    BY <2>2
  <2>3. QED
    BY <1>8, <2>1, <2>2 DEF create_next
<1>9. CASE wait_returns(p)
  BY <1>9 DEF wait_returns, Next
<1>10. CASE mvar_start(p) \/ launched(p) \/ write_value(p) \/ read_value(p) \/ print_value(p)
  BY <1>10 DEF mvar_start, launched, write_value, read_value, print_value, vars
<1>11. QED
  BY <1>3, <1>5, <1>6, <1>7, <1>8, <1>9, <1>10 DEF Step

\* The place is filled by whoever fills it, or by a unit in "full".
LEMMA ValueForm ==
    Inv /\ Lasting => (HasValue <=> (\E p \in Slots : Fills(p)) \/ sems["full"].count > 0)
<1> SUFFICES ASSUME Inv, Lasting
             PROVE  (\E s \in Found("full") : sems[s].count > 0) <=> sems["full"].count > 0
  BY DEF HasValue, Fills
<1>1. "full" \in Sems
  BY MvarAssumption
<1>2. Freed.count = 0
  BY DEF Freed
<1>3. ASSUME NEW s \in Found("full") PROVE s = "full"
  BY <1>3 DEF Found, Linked, Lasting
<1>4. sems["full"].count > 0 => "full" \in Found("full")
  BY <1>1, <1>2 DEF Found, Linked, Lasting
<1>5. QED
  BY <1>3, <1>4

\* The same in the next state.
LEMMA ValueFormNext ==
    (Inv /\ Lasting => (HasValue <=> (\E p \in Slots : Fills(p)) \/ sems["full"].count > 0))'
BY ValueForm, PTL

\* Whoever is in a loop is a process with both handles.
LEMMA LoopFacts ==
    ASSUME MvarInv, NEW p \in Slots, prog[p].pc \in {"wait", "use", "post", "print"}
    PROVE  /\ InTeam(p) /\ procs[p].pid # 0
           /\ prog[p].empty \in Handles /\ prog[p].full \in Handles
           /\ handles[prog[p].empty].sem = "empty" /\ handles[prog[p].full].sem = "full"
           /\ sems["empty"].used /\ sems["full"].used
<1>1. /\ Sensible(p) /\ OwnHandles(p) /\ prog[p] \in ProgRec /\ Types /\ RefcountExact
      /\ "empty" \in Sems /\ "full" \in Sems /\ HANDLE_MAX \in Nat
  BY MvarAssumption, SemAssumption DEF MvarInv, MInv, ProgTypes, Inv
<1>2. InTeam(p) /\ procs[p].pid # 0
  <2>1. NoProg.pc = "none"
    BY DEF NoProg
  <2>2. prog[p].role \in {"none", "shell", "writer", "reader"}
    BY <1>1 DEF ProgRec
  <2>3. prog[p].role # "none" /\ prog[p].role # "shell"
    BY <1>1, <2>1 DEF Sensible
  <2>4. QED
    BY <1>1, <2>2, <2>3 DEF Sensible, InTeam
<1>3. prog[p].empty \in Handles /\ prog[p].full \in Handles
  BY <1>1 DEF Sensible, ProgRec, Handles
<1>4. handles[prog[p].empty].sem = "empty" /\ handles[prog[p].full].sem = "full"
  BY <1>1, <1>3 DEF OwnHandles, Sensible
<1>5. sems["empty"].used /\ sems["full"].used
  BY <1>1, <1>3, <1>4, SemAssumption DEF RefcountExact
<1>6. QED
  BY <1>2, <1>3, <1>4, <1>5

-----------------------------------------------------------------------------
(* What a step leaves alone *)

\* A program that does nothing keeps its handles while nobody touches those of its pid.
LEMMA OtherPrograms ==
    ASSUME MvarInv, NEW q \in Slots, prog'[q] = prog[q], procs'[q].pid = procs[q].pid,
           \A h \in Handles : handles[h].sem # None /\ handles[h].owner = procs[q].pid
                                => handles'[h] = handles[h]
    PROVE  Sensible(q)' /\ OwnHandles(q)'
<1>1. /\ Sensible(q) /\ OwnHandles(q) /\ prog[q] \in ProgRec
      /\ "empty" # None /\ "full" # None /\ HANDLE_MAX \in Nat
  BY MvarAssumption, SemAssumption DEF MvarInv, MInv, ProgTypes
<1>2. (prog[q].empty # 0 => prog[q].empty \in Handles) /\ (prog[q].full # 0 => prog[q].full \in Handles)
  BY <1>1 DEF ProgRec, Handles
<1>3. Sensible(q)'
  BY <1>1 DEF Sensible, InTeam
<1>4. OwnHandles(q)'
  BY <1>1, <1>2 DEF OwnHandles
<1>5. QED
  BY <1>3, <1>4

\* Where nobody is queued or woken the sleepers are the same.
LEMMA SameSleepers ==
    ASSUME MvarInv, UNCHANGED procs, \A s \in Sems : sems'[s].waiters = sems[s].waiters
    PROVE  SleepersQueue' /\ \A q \in Slots : Asleep(q)' <=> Asleep(q)
<1>1. \A s \in Sems : Members(sems'[s].waiters) = Members(sems[s].waiters)
  OBVIOUS
<1>2. SleepersQueue'
  BY <1>1 DEF MvarInv, MInv, SleepersQueue, Live
<1>3. QED
  BY <1>2 DEF Asleep, SleepsOn, Waiting

\* Units stay where they are unless a process lets go of one.
LEMMA SameUnits ==
    ASSUME MvarInv, \A q \in Slots : Holds(q)' => Holds(q),
           \A s \in {"empty", "full"} : sems'[s].count = sems[s].count,
           sems["empty"].used => sems'["empty"].used
    PROVE  OneUnit'
BY DEF MvarInv, MInv, OneUnit

\* The place is as full as it was, with the same value.
LEMMA SameBox ==
    ASSUME MvarInv, Inv', Lasting', \A q \in Slots : Fills(q)' <=> Fills(q),
           sems'["full"].count = sems["full"].count, ctx'.value = ctx.value
    PROVE  Box' = Box
<1>1. HasValue' <=> HasValue
  BY ValueForm, ValueFormNext DEF MvarInv, MInv
<1>2. QED
  BY <1>1 DEF Box

\* What a step is to the place.
PlaceStep == Place!Next \/ (Box' = Box /\ Got' = Got)

\* Whoever holds the unit is the only one, and none is left in the semaphores.
LEMMA HolderFacts ==
    ASSUME MvarInv, NEW p \in Slots, Holds(p)
    PROVE  /\ \A q \in Slots : Holds(q) => q = p
           /\ \A q \in Slots \ {p} : ~Fills(q)
           /\ sems["empty"].count = 0 /\ sems["full"].count = 0
<1>1. sems["empty"].count \in Nat /\ sems["full"].count \in Nat
  BY MvarAssumption DEF MvarInv, Inv, Types, SemRec
<1>2. \A q \in Slots : Holds(q) => q = p
  BY DEF MvarInv, MInv, OneUnit
<1>3. \A q \in Slots : Fills(q) => Holds(q)
  BY DEF Fills, Holds, Is, InTeam
<1>4. sems["empty"].count + sems["full"].count = 0
  BY DEF MvarInv, MInv, OneUnit
<1>5. QED
  BY <1>1, <1>2, <1>3, <1>4

\* A process that is not inside ksem_wait, or was woken there, is not asleep.
LEMMA AwakeFacts ==
    ASSUME NEW p \in Slots, procs[p].at = None \/ procs[p].state = "READY"
    PROVE  ~Asleep(p)
BY SemAssumption DEF Asleep, SleepsOn

\* The step of a program outside system calls.
LEMMA ProgramStep ==
    ASSUME MvarInv, NEW p \in Slots, UNCHANGED vars, procs[p].at = None,
           NEW r \in ProgRec, prog' = [prog EXCEPT ![p] = r],
           r.role = prog[p].role, r.empty = prog[p].empty, r.full = prog[p].full,
           Sensible(p)', ctx' \in [in_use : BOOLEAN, value : Letters \cup {None}]
    PROVE  /\ Inv' /\ ProgTypes' /\ Lasting' /\ SleepersQueue' /\ Waits'
           /\ \A q \in Slots : Sensible(q)' /\ OwnHandles(q)'
           /\ \A q \in Slots : InTeam(q)' <=> InTeam(q)
           /\ \A q \in Slots : Asleep(q)' <=> Asleep(q)
           /\ \A q \in Slots \ {p} : (Holds(q)' <=> Holds(q)) /\ (Fills(q)' <=> Fills(q))
<1>0. UNCHANGED <<sems, handles, procs, next_pid, due, may>>
  BY DEF vars
<1>1. Inv'
  BY NextInv DEF MvarInv
<1>2. prog \in [Slots -> ProgRec]
  BY DEF MvarInv, MInv, ProgTypes
<1>3. prog'[p] = r /\ \A q \in Slots \ {p} : prog'[q] = prog[q]
  BY <1>2
<1>4. ProgTypes'
  BY <1>2 DEF ProgTypes
<1>5. Lasting'
  BY <1>0 DEF MvarInv, MInv, Lasting
<1>6. SleepersQueue' /\ \A q \in Slots : Asleep(q)' <=> Asleep(q)
  BY <1>0, SameSleepers
<1>7. \A q \in Slots : InTeam(q)' <=> InTeam(q)
  BY <1>3 DEF InTeam
<1>8. ASSUME NEW q \in Slots \ {p} PROVE Sensible(q)' /\ OwnHandles(q)'
  BY <1>0, <1>3, OtherPrograms
<1>9. OwnHandles(p)'
  BY <1>0, <1>3 DEF MvarInv, MInv, OwnHandles
<1>10. Waits'
  BY <1>0, <1>3, <1>7 DEF MvarInv, MInv, Waits, InTeam
<1>11. \A q \in Slots \ {p} : (Holds(q)' <=> Holds(q)) /\ (Fills(q)' <=> Fills(q))
  BY <1>3, <1>6, <1>7 DEF Holds, Fills, Is
<1>12. QED
  BY <1>1, <1>4, <1>5, <1>6, <1>7, <1>8, <1>9, <1>10, <1>11

\* A writer puts its letter into the empty place.
LEMMA WriteStep ==
    ASSUME MvarInv, NEW p \in Slots, write_value(p)
    PROVE  MInv' /\ PlaceStep
<1> DEFINE r == [prog[p] EXCEPT !.pc = "post"]
<1>0. prog \in [Slots -> ProgRec] /\ prog[p] \in ProgRec /\ Sensible(p)
  BY DEF MvarInv, MInv, ProgTypes
<1>1. /\ prog[p].role = "writer" /\ prog[p].pc = "use" /\ procs[p].at = None /\ UNCHANGED vars
      /\ prog' = [prog EXCEPT ![p] = r]
      /\ ctx' = [ctx EXCEPT !.value = prog[p].letter]
  BY <1>0 DEF write_value, Is, InUserland, Goto
<1>2. /\ r \in ProgRec /\ r.role = "writer" /\ r.pc = "post" /\ r.empty = prog[p].empty
      /\ r.full = prog[p].full /\ r.letter = prog[p].letter /\ r.value = prog[p].value
      /\ r.todo = prog[p].todo
  BY <1>0, <1>1 DEF ProgRec
<1> HIDE DEF r
<1>3. prog'[p] = r /\ \A q \in Slots \ {p} : prog'[q] = prog[q]
  BY <1>0, <1>1
<1>4. Sensible(p)'
  BY <1>0, <1>1, <1>2, <1>3 DEF Sensible, InTeam, vars
<1>5. /\ prog[p].letter \in Letters
      /\ ctx' \in [in_use : BOOLEAN, value : Letters \cup {None}]
      /\ ctx'.in_use = ctx.in_use /\ ctx'.value = prog[p].letter
  BY <1>0, <1>1 DEF Sensible, MvarInv, MInv, ProgTypes
<1>6. /\ Inv' /\ ProgTypes' /\ Lasting' /\ SleepersQueue' /\ Waits'
      /\ \A q \in Slots : Sensible(q)' /\ OwnHandles(q)'
      /\ \A q \in Slots : InTeam(q)' <=> InTeam(q)
      /\ \A q \in Slots \ {p} : (Holds(q)' <=> Holds(q)) /\ (Fills(q)' <=> Fills(q))
  BY <1>1, <1>2, <1>4, <1>5, ProgramStep
<1>7. Holds(p)
  BY <1>1, AwakeFacts DEF Holds, InTeam
<1>8. OneUnit'
  BY <1>1, <1>6, <1>7, SameUnits DEF vars
<1>9. NobodyYet'
  BY <1>1, <1>2, <1>3, <1>5, <1>6 DEF MvarInv, MInv, NobodyYet, NotStarted, vars, InTeam
<1>10. Box = <<>>
  BY <1>1, <1>7, HolderFacts, ValueForm DEF Box, Fills, Is, MvarInv, MInv
<1>11. Box' = <<prog[p].letter>>
  <2>1. Fills(p)'
    BY <1>2, <1>3 DEF Fills, Is
  <2>2. HasValue'
    BY <1>6, <2>1, ValueFormNext
  <2>3. QED
    BY <1>5, <2>2 DEF Box
<1>12. Got' = Got
  BY <1>2, <1>3 DEF Got
<1>13. PlaceStep
  <2>1. Place!Put(prog[p].letter)
    BY <1>10, <1>11, <1>12 DEF Place!Put, Box, Got
  <2>2. QED
    BY <1>5, <2>1 DEF PlaceStep, Place!Next, Letters
<1>14. QED
  BY <1>6, <1>8, <1>9, <1>13 DEF MInv

\* A reader takes the value out of the place.
LEMMA ReadStep ==
    ASSUME MvarInv, NEW p \in Slots, read_value(p)
    PROVE  MInv' /\ PlaceStep
<1> DEFINE r == [prog[p] EXCEPT !.pc = "post", !.value = ctx.value]
<1>0. /\ prog \in [Slots -> ProgRec] /\ prog[p] \in ProgRec /\ Sensible(p)
      /\ ctx \in [in_use : BOOLEAN, value : Letters \cup {None}]
  BY DEF MvarInv, MInv, ProgTypes
<1>1. /\ prog[p].role = "reader" /\ prog[p].pc = "use" /\ procs[p].at = None /\ UNCHANGED vars
      /\ prog' = [prog EXCEPT ![p] = r] /\ ctx' = ctx
  BY <1>0 DEF read_value, Is, InUserland
<1>2. /\ r \in ProgRec /\ r.role = "reader" /\ r.pc = "post" /\ r.empty = prog[p].empty
      /\ r.full = prog[p].full /\ r.value = ctx.value /\ r.todo = prog[p].todo
  BY <1>0, <1>1 DEF ProgRec
<1> HIDE DEF r
<1>3. prog'[p] = r /\ \A q \in Slots \ {p} : prog'[q] = prog[q]
  BY <1>0, <1>1
<1>4. Sensible(p)'
  BY <1>0, <1>1, <1>2, <1>3 DEF Sensible, InTeam, vars
<1>5. /\ Inv' /\ ProgTypes' /\ Lasting' /\ SleepersQueue' /\ Waits'
      /\ \A q \in Slots : Sensible(q)' /\ OwnHandles(q)'
      /\ \A q \in Slots : InTeam(q)' <=> InTeam(q)
      /\ \A q \in Slots \ {p} : (Holds(q)' <=> Holds(q)) /\ (Fills(q)' <=> Fills(q))
  BY <1>0, <1>1, <1>2, <1>4, ProgramStep
<1>6. ~Asleep(p) /\ Holds(p) /\ Fills(p)
  BY <1>1, AwakeFacts DEF Holds, Fills, Is, InTeam
<1>7. OneUnit'
  BY <1>1, <1>5, <1>6, SameUnits DEF vars
<1>8. NobodyYet'
  BY <1>1, <1>2, <1>3, <1>5 DEF MvarInv, MInv, NobodyYet, NotStarted, vars, InTeam
<1>9. Box = <<ctx.value>> /\ prog[p].value = None
  BY <1>0, <1>1, <1>6, ValueForm DEF Box, MvarInv, MInv, Sensible
<1>10. Box' = <<>>
  <2>1. \A q \in Slots : ~Fills(q)'
    BY <1>2, <1>3, <1>5, <1>6, HolderFacts DEF Fills, Is
  <2>2. sems'["full"].count = 0
    BY <1>1, <1>6, HolderFacts DEF vars
  <2>3. QED
    BY <1>5, <2>1, <2>2, ValueFormNext DEF Box
<1>11. Got[p] = None /\ Got' = [Got EXCEPT ![p] = ctx.value]
  BY <1>2, <1>3, <1>9 DEF Got
<1>12. PlaceStep
  <2>1. Head(<<ctx.value>>) = ctx.value /\ <<ctx.value>> # <<>>
    OBVIOUS
  <2>2. Place!Take(p)
    BY <1>9, <1>10, <1>11, <2>1 DEF Place!Take, Box, Got
  <2>3. QED
    BY <2>2 DEF PlaceStep, Place!Next
<1>13. QED
  BY <1>5, <1>7, <1>8, <1>12 DEF MInv

\* A reader prints the value that it has read, and asks for the next one.
LEMMA PrintStep ==
    ASSUME MvarInv, NEW p \in Slots, print_value(p)
    PROVE  MInv' /\ PlaceStep
<1> DEFINE r == [prog[p] EXCEPT !.pc = "wait", !.value = None]
<1>0. /\ prog \in [Slots -> ProgRec] /\ prog[p] \in ProgRec /\ Sensible(p)
      /\ ctx \in [in_use : BOOLEAN, value : Letters \cup {None}]
  BY DEF MvarInv, MInv, ProgTypes
<1>1. /\ prog[p].pc = "print" /\ procs[p].at = None /\ UNCHANGED vars
      /\ prog' = [prog EXCEPT ![p] = r] /\ ctx' = ctx
  BY <1>0 DEF print_value, InUserland
<1>2. /\ r \in ProgRec /\ r.role = prog[p].role /\ r.pc = "wait" /\ r.empty = prog[p].empty
      /\ r.full = prog[p].full /\ r.value = None /\ r.todo = prog[p].todo
      /\ r.letter = prog[p].letter
  BY <1>0, <1>1 DEF ProgRec
<1> HIDE DEF r
<1>3. prog'[p] = r /\ \A q \in Slots \ {p} : prog'[q] = prog[q]
  BY <1>0, <1>1
<1>4. InTeam(p)
  BY <1>1, LoopFacts
<1>5. Sensible(p)'
  BY <1>0, <1>1, <1>2, <1>3, <1>4 DEF Sensible, InTeam, vars
<1>6. /\ Inv' /\ ProgTypes' /\ Lasting' /\ SleepersQueue' /\ Waits'
      /\ \A q \in Slots : Sensible(q)' /\ OwnHandles(q)'
      /\ \A q \in Slots : InTeam(q)' <=> InTeam(q)
      /\ \A q \in Slots \ {p} : (Holds(q)' <=> Holds(q)) /\ (Fills(q)' <=> Fills(q))
  BY <1>0, <1>1, <1>2, <1>5, ProgramStep
<1>7. ~Holds(p)' /\ ~Fills(p)' /\ ~Fills(p)
  BY <1>1, <1>2, <1>3 DEF Holds, Fills, Is
<1>8. OneUnit'
  BY <1>1, <1>6, <1>7, SameUnits DEF vars
<1>9. NobodyYet'
  BY <1>1, <1>2, <1>3, <1>4, <1>6 DEF MvarInv, MInv, NobodyYet, NotStarted, vars, InTeam
<1>10. Box' = Box
  BY <1>1, <1>6, <1>7, SameBox DEF vars
<1>11. Got' = [Got EXCEPT ![p] = None]
  BY <1>2, <1>3 DEF Got
<1>12. PlaceStep
  <2>1. Place!Done(p)
    BY <1>10, <1>11 DEF Place!Done, Box, Got
  <2>2. QED
    BY <2>1 DEF PlaceStep, Place!Next
<1>13. QED
  BY <1>6, <1>8, <1>9, <1>12 DEF MInv

\* The shell has created all that it could and is back at its prompt.
LEMMA LaunchedStep ==
    ASSUME MvarInv, NEW p \in Slots, launched(p)
    PROVE  MInv' /\ PlaceStep
<1> DEFINE r == [prog[p] EXCEPT !.pc = "prompt"]
<1>0. /\ prog \in [Slots -> ProgRec] /\ prog[p] \in ProgRec /\ Sensible(p)
      /\ ctx \in [in_use : BOOLEAN, value : Letters \cup {None}]
  BY DEF MvarInv, MInv, ProgTypes
<1>1. /\ prog[p].role = "shell" /\ prog[p].pc = "close" /\ UNCHANGED vars
      /\ prog' = [prog EXCEPT ![p] = r] /\ ctx' = ctx
  BY <1>0 DEF launched, Closed, Goto
<1>2. /\ r \in ProgRec /\ r.role = "shell" /\ r.pc = "prompt" /\ r.empty = prog[p].empty
      /\ r.full = prog[p].full /\ r.value = prog[p].value /\ r.todo = prog[p].todo
  BY <1>0, <1>1 DEF ProgRec
<1> HIDE DEF r
<1>3. prog'[p] = r /\ \A q \in Slots \ {p} : prog'[q] = prog[q]
  BY <1>0, <1>1
<1>4. Sensible(p)' /\ ~InTeam(p) /\ procs[p].at = None
  BY <1>0, <1>1, <1>2, <1>3 DEF Sensible, InTeam, vars, MvarInv, MInv, Waits
<1>5. /\ Inv' /\ ProgTypes' /\ Lasting' /\ SleepersQueue' /\ Waits'
      /\ \A q \in Slots : Sensible(q)' /\ OwnHandles(q)'
      /\ \A q \in Slots : InTeam(q)' <=> InTeam(q)
      /\ \A q \in Slots \ {p} : (Holds(q)' <=> Holds(q)) /\ (Fills(q)' <=> Fills(q))
  BY <1>0, <1>1, <1>2, <1>4, ProgramStep
<1>6. ~Holds(p)' /\ ~Fills(p)' /\ ~Fills(p)
  BY <1>1, <1>2, <1>3 DEF Holds, Fills, Is, InTeam
<1>7. OneUnit'
  BY <1>1, <1>5, <1>6, SameUnits DEF vars
<1>8. NobodyYet'
  BY <1>1, <1>2, <1>3, <1>5 DEF MvarInv, MInv, NobodyYet, NotStarted, vars
<1>9. Box' = Box
  BY <1>1, <1>5, <1>6, SameBox DEF vars
<1>10. Got' = Got
  BY <1>2, <1>3 DEF Got
<1>11. QED
  BY <1>5, <1>7, <1>8, <1>9, <1>10 DEF MInv, PlaceStep

\* Before the start the place is empty.
LEMMA NotStartedFacts ==
    ASSUME MvarInv, NotStarted
    PROVE  /\ \A q \in Slots : ~InTeam(q) /\ ~Holds(q) /\ ~Fills(q)
           /\ sems["full"].count = 0 /\ Box = <<>>
<1>1. (\A q \in Slots : ~InTeam(q)) /\ sems["full"].count = 0
  BY DEF MvarInv, MInv, NobodyYet
<1>2. \A q \in Slots : ~Holds(q) /\ ~Fills(q)
  BY <1>1 DEF Holds, Fills, Is, InTeam
<1>3. Box = <<>>
  BY <1>1, <1>2, ValueForm DEF Box, MvarInv, MInv
<1>4. QED
  BY <1>1, <1>2, <1>3

\* A slot without a process.
LEMMA NoProgType ==
    /\ NoProg \in ProgRec
    /\ NoProg.role = "none" /\ NoProg.pc = "none" /\ NoProg.letter = None /\ NoProg.value = None
    /\ NoProg.empty = 0 /\ NoProg.full = 0 /\ NoProg.todo = <<>>
<1>1. <<>> \in Seq(Member) /\ HANDLE_MAX \in Nat
  BY EmptySeq, SemAssumption
<1>2. QED
  BY <1>1 DEF NoProg, ProgRec

\* The processes that a launch asks for are writers with letters, and readers.
LEMMA TeamType == ASSUME NEW n \in Launches PROVE Team(n[1], n[2]) \in Seq(Member)
<1>1. n[1] \in Nat /\ n[2] \in Nat
  BY MvarAssumption
<1> DEFINE new(i) == [NoProg EXCEPT !.role = IF i =< n[1] THEN "writer" ELSE "reader",
                                    !.pc = "open_empty",
                                    !.letter = IF i =< n[1] THEN i ELSE None]
<1>2. ASSUME NEW i \in 1 .. n[1] + n[2] PROVE new(i) \in Member
  <2>1. CASE i =< n[1]
    <3>1. i \in Letters
      BY <1>1, <2>1 DEF Letters
    <3>2. new(i) = [NoProg EXCEPT !.role = "writer", !.pc = "open_empty", !.letter = i]
      BY <2>1
    <3>3. QED
      BY <3>1, <3>2 DEF Member
  <2>2. CASE ~(i =< n[1])
    <3>1. new(i) = [NoProg EXCEPT !.role = "reader", !.pc = "open_empty"]
      <4>1. new(i) = [NoProg EXCEPT !.role = "reader", !.pc = "open_empty", !.letter = None]
        BY <2>2
      <4>2. [NoProg EXCEPT !.role = "reader", !.pc = "open_empty", !.letter = None]
              = [NoProg EXCEPT !.role = "reader", !.pc = "open_empty"]
        <5>1. \A f \in ProgRec : f.letter = None =>
                [f EXCEPT !.role = "reader", !.pc = "open_empty", !.letter = None]
                  = [f EXCEPT !.role = "reader", !.pc = "open_empty"]
          BY DEF ProgRec
        <5>2. NoProg \in ProgRec /\ NoProg.letter = None
          BY NoProgType
        <5>3. QED
          BY <5>1, <5>2
      <4>3. QED
        BY <4>1, <4>2
    <3>2. QED
      BY <3>1 DEF Member
  <2>3. QED
    BY <2>1, <2>2
<1>3. Team(n[1], n[2]) = [i \in 1 .. n[1] + n[2] |-> new(i)]
  BY DEF Team
<1> HIDE DEF new
<1>4. QED
  BY <1>1, <1>2, <1>3

\* The shell takes the context and decides whom to create.
LEMMA StartStep ==
    ASSUME MvarInv, NEW p \in Slots, mvar_start(p)
    PROVE  MInv' /\ PlaceStep
<1>0. /\ prog \in [Slots -> ProgRec] /\ prog[p] \in ProgRec /\ Sensible(p)
      /\ ctx \in [in_use : BOOLEAN, value : Letters \cup {None}]
  BY DEF MvarInv, MInv, ProgTypes
<1>1. PICK n \in Launches :
        prog' = [prog EXCEPT ![p].pc = "open_empty", ![p].todo = Team(n[1], n[2])]
  BY DEF mvar_start
<1> DEFINE t == Team(n[1], n[2])
           r == [prog[p] EXCEPT !.pc = "open_empty", !.todo = t]
<1>2. t \in Seq(Member)
  BY TeamType
<1> HIDE DEF t
<1>3. /\ prog[p].role = "shell" /\ prog[p].pc = "prompt" /\ UNCHANGED vars
      /\ prog' = [prog EXCEPT ![p] = r] /\ ctx' = [in_use |-> TRUE, value |-> None]
      /\ ~ctx.in_use
  BY <1>0, <1>1 DEF mvar_start, Is, t
<1>4. /\ r \in ProgRec /\ r.role = "shell" /\ r.pc = "open_empty" /\ r.empty = prog[p].empty
      /\ r.full = prog[p].full /\ r.value = prog[p].value
  BY <1>0, <1>2, <1>3 DEF ProgRec
<1> HIDE DEF r
<1>5. prog'[p] = r /\ \A q \in Slots \ {p} : prog'[q] = prog[q]
  BY <1>0, <1>3
<1>6. Sensible(p)' /\ ~InTeam(p) /\ procs[p].at = None
  BY <1>0, <1>3, <1>4, <1>5 DEF Sensible, InTeam, vars, MvarInv, MInv, Waits
<1>7. ctx' \in [in_use : BOOLEAN, value : Letters \cup {None}] /\ ctx'.in_use
  BY <1>3
<1>8. /\ Inv' /\ ProgTypes' /\ Lasting' /\ SleepersQueue' /\ Waits'
      /\ \A q \in Slots : Sensible(q)' /\ OwnHandles(q)'
      /\ \A q \in Slots : InTeam(q)' <=> InTeam(q)
      /\ \A q \in Slots \ {p} : (Holds(q)' <=> Holds(q)) /\ (Fills(q)' <=> Fills(q))
  BY <1>3, <1>4, <1>6, <1>7, ProgramStep
<1>9. NotStarted
  BY <1>3 DEF NotStarted
<1>10. ~Holds(p)' /\ ~Fills(p)'
  BY <1>4, <1>5 DEF Holds, Fills, Is, InTeam
<1>11. OneUnit'
  BY <1>3, <1>8, <1>10, SameUnits DEF vars
<1>12. NobodyYet'
  BY <1>3, <1>7, <1>8, <1>9, NotStartedFacts DEF NobodyYet, vars
<1>13. Box = <<>> /\ Box' = <<>>
  <2>1. \A q \in Slots : ~Fills(q)'
    BY <1>8, <1>9, <1>10, NotStartedFacts
  <2>2. sems'["full"].count = 0
    BY <1>3, <1>9, NotStartedFacts DEF vars
  <2>3. Box' = <<>>
    BY <1>8, <2>1, <2>2, ValueFormNext DEF Box
  <2>4. QED
    BY <1>9, <2>3, NotStartedFacts
<1>14. Got' = Got
  BY <1>4, <1>5 DEF Got
<1>15. QED
  BY <1>8, <1>11, <1>12, <1>13, <1>14 DEF MInv, PlaceStep

-----------------------------------------------------------------------------
(* ksem_wait and ksem_post *)

\* Programs that go on while others are in the kernel.
LEMMA NobodyFrame ==
    ASSUME MvarInv, NotStarted' => NotStarted, \A q \in Slots : InTeam(q)' => InTeam(q),
           NotStarted => sems'["full"].count = sems["full"].count,
           ctx'.in_use = ctx.in_use, \A q \in Slots : prog'[q].todo = prog[q].todo
    PROVE  NobodyYet'
BY DEF MvarInv, MInv, NobodyYet

\* A process that was woken returns from ksem_wait.
LEMMA ReturnStep ==
    ASSUME MvarInv, Inv', NEW p \in Slots, wait_returns(p)
    PROVE  MInv' /\ PlaceStep
<1>0. Types /\ procs[p] \in ProcRec
  BY DEF MvarInv, Inv, Types
<1>1. /\ procs[p].pid # 0 /\ procs[p].state = "READY"
      /\ procs' = [procs EXCEPT ![p].at = None] /\ UNCHANGED <<sems, handles, prog, ctx>>
  BY DEF wait_returns, WaitReturns, CanRun
<1>2. /\ \A q \in Slots \ {p} : procs'[q] = procs[q]
      /\ procs'[p].pid = procs[p].pid /\ procs'[p].at = None /\ procs'[p].state = "READY"
  BY <1>0, <1>1 DEF Types, ProcRec
<1>3. \A q \in Slots : Sensible(q)' /\ OwnHandles(q)'
  BY <1>1, <1>2, OtherPrograms
<1>4. \A q \in Slots : Asleep(q)' <=> Asleep(q)
  <2>1. ~Asleep(p)
    BY <1>1, AwakeFacts
  <2>2. ~Asleep(p)'
    BY <1>2, SemAssumption DEF Asleep, SleepsOn
  <2>3. ASSUME NEW q \in Slots \ {p} PROVE Asleep(q)' <=> Asleep(q)
    BY <1>1, <1>2 DEF Asleep, SleepsOn, Waiting
  <2>4. QED
    BY <2>1, <2>2, <2>3
<1>5. SleepersQueue'
  <2>1. \A s \in Sems : p \notin Members(sems[s].waiters)
    BY <1>1 DEF MvarInv, MInv, SleepersQueue
  <2>2. QED
    BY <1>1, <1>2, <2>1 DEF MvarInv, MInv, SleepersQueue, Live
<1>6. \A q \in Slots : (InTeam(q)' <=> InTeam(q)) /\ (Holds(q)' <=> Holds(q)) /\ (Fills(q)' <=> Fills(q))
  BY <1>1, <1>4 DEF InTeam, Holds, Fills, Is
<1>7. ProgTypes' /\ Lasting' /\ Waits'
  BY <1>1, <1>2, <1>6 DEF MvarInv, MInv, ProgTypes, Lasting, Waits
<1>8. OneUnit'
  BY <1>1, <1>6, SameUnits
<1>9. NobodyYet'
  BY <1>1, <1>6 DEF MvarInv, MInv, NobodyYet, NotStarted
<1>10. Box' = Box
  BY <1>1, <1>6, <1>7, SameBox
<1>11. Got' = Got
  BY <1>1 DEF Got
<1>12. QED
  BY <1>3, <1>5, <1>7, <1>8, <1>9, <1>10, <1>11 DEF MInv, PlaceStep

\* The semaphores that a program waits for and posts to, and their counts.
LEMMA RoleSemaphores ==
    ASSUME MvarInv, NEW p \in Slots, prog[p].pc \in {"wait", "use", "post", "print"}
    PROVE  LET s == handles[WaitsFor(p)].sem
               t == handles[Posts(p)].sem
           IN  /\ s \in {"empty", "full"} /\ t \in {"empty", "full"} /\ t # s
               /\ s = SemOf(prog[p].role)
               /\ s \in Sems /\ t \in Sems /\ sems[s].used /\ sems[t].used
BY LoopFacts, MvarAssumption DEF WaitsFor, Posts, SemOf

\* What the two counts add up to.
LEMMA CountTypes ==
    ASSUME Types
    PROVE  /\ "empty" \in Sems /\ "full" \in Sems /\ "empty" # None /\ "full" # None
           /\ sems["empty"].count \in Nat /\ sems["full"].count \in Nat
BY MvarAssumption, SemAssumption DEF Types, SemRec

\* Where one semaphore changes in its count and queue only.
LEMMA OneSemaphore ==
    ASSUME MvarInv, NEW s \in Sems, sems[s].used,
           \A x \in Sems \ {s} : sems'[x] = sems[x],
           sems'[s].used = sems[s].used, sems'[s].unlinked = sems[s].unlinked,
           sems'[s].name = sems[s].name
    PROVE  Lasting'
BY DEF MvarInv, MInv, Lasting

\* A step of a program into or out of a system call that keeps its handles.
LEMMA CallStep ==
    ASSUME MvarInv, NEW p \in Slots, prog[p].pc \in {"wait", "post"},
           NEW pc \in {"wait", "use", "print"}, pc = "print" => prog[p].role = "reader",
           prog' = [prog EXCEPT ![p].pc = pc], pc = "print" \/ prog[p].value = None,
           UNCHANGED <<handles, ctx>>, \A q \in Slots : procs'[q].pid = procs[q].pid
    PROVE  /\ ProgTypes' /\ Got' = Got
           /\ \A q \in Slots : Sensible(q)' /\ OwnHandles(q)'
           /\ \A q \in Slots : InTeam(q)' <=> InTeam(q)
           /\ \A q \in Slots : prog'[q].role = prog[q].role
           /\ \A q \in Slots \ {p} : prog'[q] = prog[q]
           /\ prog'[p].pc = pc /\ NotStarted' = NotStarted
           /\ (sems'["full"].count = sems["full"].count \/ ~NotStarted) => NobodyYet'
<1> DEFINE r == [prog[p] EXCEPT !.pc = pc]
<1>0. prog \in [Slots -> ProgRec] /\ prog[p] \in ProgRec /\ Sensible(p) /\ OwnHandles(p) /\ ProgTypes
  BY DEF MvarInv, MInv, ProgTypes
<1>1. prog' = [prog EXCEPT ![p] = r]
  BY <1>0
<1>2. /\ r \in ProgRec /\ r.pc = pc /\ r.role = prog[p].role /\ r.empty = prog[p].empty
      /\ r.full = prog[p].full /\ r.value = prog[p].value /\ r.todo = prog[p].todo
      /\ r.letter = prog[p].letter
  BY <1>0 DEF ProgRec
<1> HIDE DEF r
<1>3. prog'[p] = r /\ \A q \in Slots \ {p} : prog'[q] = prog[q]
  BY <1>0, <1>1
<1>4. ProgTypes'
  BY <1>0, <1>1, <1>2 DEF ProgTypes
<1>5. InTeam(p) /\ prog[p].empty # 0 /\ prog[p].full # 0
  BY <1>0, LoopFacts DEF Sensible
<1>6. Sensible(p)'
  BY <1>0, <1>2, <1>3, <1>5 DEF Sensible, InTeam
<1>7. OwnHandles(p)'
  BY <1>0, <1>2, <1>3 DEF OwnHandles
<1>8. ASSUME NEW q \in Slots \ {p} PROVE Sensible(q)' /\ OwnHandles(q)'
  BY <1>3, OtherPrograms
<1>9. \A q \in Slots : prog'[q].role = prog[q].role /\ prog'[q].value = prog[q].value
                       /\ prog'[q].todo = prog[q].todo
  BY <1>2, <1>3
<1>10. \A q \in Slots : InTeam(q)' <=> InTeam(q)
  BY <1>9 DEF InTeam
<1>11. Got' = Got
  BY <1>9 DEF Got
<1>12. NotStarted' = NotStarted
  BY <1>2, <1>3, <1>5 DEF NotStarted, InTeam
<1>13. (sems'["full"].count = sems["full"].count \/ ~NotStarted) => NobodyYet'
  BY <1>9, <1>10, <1>12, NobodyFrame
<1>14. QED
  BY <1>2, <1>3, <1>4, <1>6, <1>7, <1>8, <1>9, <1>10, <1>11, <1>12, <1>13

\* Who is in a loop came after the start.
LEMMA TeamStarted == ASSUME MvarInv, NEW p \in Slots, InTeam(p) PROVE ~NotStarted
BY DEF MvarInv, MInv, NobodyYet

\* A writer or a reader takes the unit that it finds.
LEMMA TakeUnitStep ==
    ASSUME MvarInv, Inv', NEW p \in Slots, wait(p), HasUnit(handles[WaitsFor(p)].sem)
    PROVE  MInv' /\ PlaceStep
<1> DEFINE s == handles[WaitsFor(p)].sem
<1>0. /\ prog[p].pc = "wait" /\ procs[p].at = None /\ UNCHANGED <<procs, handles, ctx>>
      /\ sems' = [sems EXCEPT ![s].count = @ - 1] /\ sems[s].count > 0
      /\ prog' = [prog EXCEPT ![p].pc = "use"]
  BY DEF wait, sem_wait, HasUnit, Goto, InUserland, MvarInv, Enough
<1>1. /\ s \in {"empty", "full"} /\ s = SemOf(prog[p].role) /\ s \in Sems /\ sems[s].used
      /\ sems["empty"].used /\ InTeam(p)
  BY <1>0, RoleSemaphores, LoopFacts
<1> HIDE DEF s
<1>2. sems \in [Sems -> SemRec] /\ sems[s] \in SemRec /\ Types
  BY <1>1 DEF MvarInv, Inv, Types
<1>3. /\ \A x \in Sems \ {s} : sems'[x] = sems[x]
      /\ sems'[s].count = sems[s].count - 1 /\ sems'[s].waiters = sems[s].waiters
      /\ sems'[s].used = sems[s].used /\ sems'[s].unlinked = sems[s].unlinked
      /\ sems'[s].name = sems[s].name
  BY <1>0, <1>1, <1>2 DEF SemRec
<1>4. /\ sems["empty"].count \in Nat /\ sems["full"].count \in Nat
      /\ sems["empty"].count + sems["full"].count =< 1
      /\ \A q \in Slots : Holds(q) => sems["empty"].count + sems["full"].count = 0
  BY <1>2, CountTypes DEF MvarInv, MInv, OneUnit
<1>5. sems'["empty"].count = 0 /\ sems'["full"].count = 0
  BY <1>0, <1>1, <1>3, <1>4, CountTypes, <1>2
<1>6. \A q \in Slots : ~Holds(q)
  BY <1>0, <1>1, <1>4
<1>7. prog[p].value = None
  BY <1>0 DEF MvarInv, MInv, Sensible
<1>8. /\ ProgTypes' /\ Got' = Got /\ NobodyYet' /\ prog'[p].pc = "use"
      /\ \A q \in Slots : Sensible(q)' /\ OwnHandles(q)'
      /\ \A q \in Slots : InTeam(q)' <=> InTeam(q)
      /\ \A q \in Slots : prog'[q].role = prog[q].role
      /\ \A q \in Slots \ {p} : prog'[q] = prog[q]
  BY <1>0, <1>1, <1>7, CallStep, TeamStarted
<1>9. SleepersQueue' /\ \A q \in Slots : Asleep(q)' <=> Asleep(q)
  BY <1>0, <1>3, SameSleepers
<1>10. Lasting'
  BY <1>1, <1>3, OneSemaphore
<1>11. Waits'
  BY <1>0, <1>8 DEF MvarInv, MInv, Waits, InTeam
<1>12. \A q \in Slots \ {p} : ~Holds(q)' /\ ~Fills(q)' /\ ~Fills(q)
  BY <1>6, <1>8, <1>9 DEF Holds, Fills, Is, InTeam
<1>13. OneUnit'
  BY <1>1, <1>3, <1>5, <1>12 DEF OneUnit
<1>14. ~Asleep(p)' /\ ~Fills(p)
  BY <1>0, <1>9, AwakeFacts DEF Fills, Is
<1>15. Box' = Box
  <2>1. CASE prog[p].role = "writer"
    <3>1. s = "empty"
      BY <1>1, <2>1 DEF SemOf
    <3>2. sems["full"].count = 0
      BY <1>0, <1>4, <3>1
    <3>3. ~Fills(p)'
      BY <1>8, <2>1 DEF Fills, Is
    <3>4. ~HasValue /\ ~HasValue'
      BY <1>5, <1>10, <1>12, <1>14, <3>2, <3>3, ValueForm, ValueFormNext DEF MvarInv, MInv
    <3>5. QED
      BY <3>4 DEF Box
  <2>2. CASE prog[p].role = "reader"
    <3>1. s = "full"
      BY <1>1, <2>2 DEF SemOf
    <3>2. Fills(p)'
      BY <1>8, <1>14, <2>2 DEF Fills, Is
    <3>3. HasValue /\ HasValue'
      BY <1>0, <1>10, <3>1, <3>2, ValueForm, ValueFormNext DEF MvarInv, MInv
    <3>4. QED
      BY <1>0, <3>3 DEF Box
  <2>3. QED
    BY <1>1, <2>1, <2>2 DEF InTeam
<1>16. QED
  BY <1>8, <1>9, <1>10, <1>11, <1>13, <1>15 DEF MInv, PlaceStep

\* A writer or a reader finds no unit and goes to sleep at the end of the queue.
LEMMA FallAsleepStep ==
    ASSUME MvarInv, Inv', NEW p \in Slots, wait(p),
           NEW s \in Sems, s = handles[WaitsFor(p)].sem, ~HasUnit(s)
    PROVE  MInv' /\ PlaceStep
<1>0. /\ prog[p].pc = "wait" /\ procs[p].at = None /\ procs[p].state = "READY"
      /\ procs[p].pid # 0 /\ UNCHANGED <<handles, ctx>>
      /\ sems' = [sems EXCEPT ![s].waiters = Append(@, p)]
      /\ procs' = [procs EXCEPT ![p].state = "BLOCKED", ![p].at = s]
      /\ prog' = [prog EXCEPT ![p].pc = "use"]
  BY DEF wait, sem_wait, HasUnit, Goto, InUserland, CanRun, wait_queue_push, MvarInv, Enough
<1>1. /\ s \in {"empty", "full"} /\ s = SemOf(prog[p].role) /\ s \in Sems /\ sems[s].used
      /\ s # None /\ InTeam(p)
  BY <1>0, RoleSemaphores, LoopFacts, SemAssumption
<1>2. /\ sems \in [Sems -> SemRec] /\ sems[s] \in SemRec /\ sems[s].waiters \in Seq(Slots)
      /\ procs \in [Slots -> ProcRec] /\ procs[p] \in ProcRec
  BY <1>1 DEF MvarInv, Inv, Types, SemRec
<1>3. /\ \A x \in Sems \ {s} : sems'[x] = sems[x]
      /\ sems'[s].count = sems[s].count /\ sems'[s].waiters = Append(sems[s].waiters, p)
      /\ sems'[s].used = sems[s].used /\ sems'[s].unlinked = sems[s].unlinked
      /\ sems'[s].name = sems[s].name
  BY <1>0, <1>1, <1>2 DEF SemRec
<1>4. /\ \A q \in Slots \ {p} : procs'[q] = procs[q]
      /\ procs'[p].pid = procs[p].pid /\ procs'[p].at = s /\ procs'[p].state = "BLOCKED"
  BY <1>0, <1>2 DEF ProcRec
<1>5. prog[p].value = None
  BY <1>0 DEF MvarInv, MInv, Sensible
<1>6. /\ ProgTypes' /\ Got' = Got /\ NobodyYet' /\ prog'[p].pc = "use"
      /\ \A q \in Slots : Sensible(q)' /\ OwnHandles(q)'
      /\ \A q \in Slots : InTeam(q)' <=> InTeam(q)
      /\ \A q \in Slots : prog'[q].role = prog[q].role
      /\ \A q \in Slots \ {p} : prog'[q] = prog[q]
  BY <1>0, <1>1, <1>4, <1>5, CallStep, TeamStarted
<1>7. Members(sems'[s].waiters) = Members(sems[s].waiters) \cup {p}
  BY <1>2, <1>3, AppendMembers
<1>8. p \notin Members(sems[s].waiters)
  BY <1>0, <1>1 DEF MvarInv, MInv, SleepersQueue
<1>9. SleepersQueue'
  <2>1. Distinct(sems'[s].waiters)
    BY <1>1, <1>2, <1>3, <1>8, AppendDistinct DEF MvarInv, MInv, SleepersQueue
  <2>2. \A x \in Sems : p \notin Members(sems[x].waiters)
    BY <1>0 DEF MvarInv, MInv, SleepersQueue
  <2>3. \A x \in Sems : \A q \in Members(sems[x].waiters) :
          q \in Slots \ {p} /\ procs[q].pid # 0 /\ procs[q].state = "BLOCKED" /\ procs[q].at = x
    BY <2>2 DEF MvarInv, MInv, SleepersQueue, Live
  <2>4. \A x \in Sems : \A q \in Members(sems'[x].waiters) :
          q \in Live' /\ procs'[q].state = "BLOCKED" /\ procs'[q].at = x
    <3>1. p \in Live' /\ procs'[p].state = "BLOCKED" /\ procs'[p].at = s
      BY <1>0, <1>4 DEF Live
    <3>2. \A x \in Sems : \A q \in Members(sems[x].waiters) :
            q \in Live' /\ procs'[q].state = "BLOCKED" /\ procs'[q].at = x
      BY <1>4, <2>3 DEF Live
    <3>3. \A x \in Sems \ {s} : Members(sems'[x].waiters) = Members(sems[x].waiters)
      BY <1>3
    <3>4. QED
      BY <1>7, <3>1, <3>2, <3>3
  <2>5. \A x \in Sems : Distinct(sems'[x].waiters)
    BY <1>3, <2>1 DEF MvarInv, MInv, SleepersQueue
  <2>6. QED
    BY <2>4, <2>5 DEF SleepersQueue
<1>10. Asleep(p)'
  <2>1. p \in Members(sems'[s].waiters)
    BY <1>7
  <2>2. Waiting(s, p)'
    BY <2>1, WaitingIsMemberNext
  <2>3. QED
    BY <1>1, <1>4, <2>2 DEF Asleep, SleepsOn
<1>11. \A q \in Slots \ {p} : Asleep(q)' <=> Asleep(q)
  <2>1. \A x \in Sems, q \in Slots \ {p} : Waiting(x, q)' <=> Waiting(x, q)
    BY <1>3, <1>7, WaitingIsMember, WaitingIsMemberNext
  <2>2. QED
    BY <1>4, <2>1 DEF Asleep, SleepsOn
<1>12. Lasting'
  BY <1>1, <1>3, OneSemaphore
<1>13. Waits'
  BY <1>1, <1>4, <1>6 DEF MvarInv, MInv, Waits, InTeam
<1>14. \A q \in Slots : (Holds(q)' => Holds(q)) /\ (Fills(q)' <=> Fills(q))
  BY <1>0, <1>6, <1>10, <1>11 DEF Holds, Fills, Is, InTeam
<1>15. sems'["empty"].count = sems["empty"].count /\ sems'["full"].count = sems["full"].count
       /\ (sems["empty"].used => sems'["empty"].used)
  BY <1>1, <1>3, MvarAssumption
<1>16. OneUnit'
  BY <1>14, <1>15, SameUnits
<1>17. Box' = Box
  BY <1>0, <1>12, <1>14, <1>15, SameBox
<1>18. QED
  BY <1>6, <1>9, <1>12, <1>13, <1>16, <1>17 DEF MInv, PlaceStep

\* The process that has the unit hands it to a process that waits for it, or leaves it
\* in the count.
LEMMA HandOverStep ==
    ASSUME MvarInv, Inv', NEW p \in Slots, post(p),
           NEW s \in Sems, s = handles[Posts(p)].sem,
           NEW q, q = Head(sems[s].waiters),
           NEW next, next = IF prog[p].role = "writer" THEN "wait" ELSE "print"
    PROVE  MInv' /\ PlaceStep
<1>0. /\ prog[p].pc = "post" /\ procs[p].at = None /\ procs[p].state = "READY"
      /\ procs[p].pid # 0 /\ UNCHANGED <<handles, ctx>>
      /\ sems' = [sems EXCEPT ![s] = Posted(s)]
      /\ procs' = IF Wakes(s) THEN [procs EXCEPT ![q].state = "READY"] ELSE procs
      /\ prog' = [prog EXCEPT ![p].pc = next]
  BY DEF post, sem_post, Goto, InUserland, CanRun
<1>1. /\ s \in {"empty", "full"} /\ s # SemOf(prog[p].role) /\ s \in Sems /\ sems[s].used
      /\ sems["empty"].used /\ s # None /\ InTeam(p)
  BY <1>0, RoleSemaphores, LoopFacts, SemAssumption
<1>2. /\ sems \in [Sems -> SemRec] /\ sems[s] \in SemRec /\ sems[s].waiters \in Seq(Slots)
      /\ procs \in [Slots -> ProcRec] /\ procs[p] \in ProcRec /\ Types
  BY <1>1 DEF MvarInv, Inv, Types, SemRec
<1>3. /\ sems["empty"].count = 0 /\ sems["full"].count = 0 /\ Holds(p)
      /\ \A x \in Slots \ {p} : ~Holds(x) /\ ~Fills(x)
  BY <1>0, <1>1, HolderFacts DEF Holds
<1>4. \/ sems[s].waiters = <<>> /\ ~Wakes(s)
      \/ /\ sems[s].waiters # <<>> /\ Wakes(s) /\ q \in Slots \ {p}
         /\ procs[q].pid # 0 /\ procs[q].at = s /\ q \in Members(sems[s].waiters)
         /\ Members(sems[s].waiters) = Members(Tail(sems[s].waiters)) \cup {q}
         /\ Distinct(Tail(sems[s].waiters)) /\ q \notin Members(Tail(sems[s].waiters))
         /\ Tail(sems[s].waiters) \in Seq(Slots)
  <2>1. CASE sems[s].waiters = <<>>
    BY <2>1 DEF Wakes
  <2>2. CASE sems[s].waiters # <<>>
    <3>1. Distinct(sems[s].waiters)
      BY <1>1 DEF MvarInv, MInv, SleepersQueue
    <3>2. /\ q \in Slots /\ q \in Members(sems[s].waiters)
          /\ Members(sems[s].waiters) = Members(Tail(sems[s].waiters)) \cup {q}
          /\ Distinct(Tail(sems[s].waiters)) /\ q \notin Members(Tail(sems[s].waiters))
          /\ Tail(sems[s].waiters) \in Seq(Slots)
      BY <1>2, <2>2, <3>1, TailMembers
    <3>3. procs[q].pid # 0 /\ procs[q].state = "BLOCKED" /\ procs[q].at = s
      BY <1>1, <3>2 DEF MvarInv, MInv, SleepersQueue, Live
    <3>4. QED
      BY <1>0, <2>2, <3>2, <3>3 DEF Wakes
  <2>3. QED
    BY <2>1, <2>2
<1>5. /\ \A x \in Sems \ {s} : sems'[x] = sems[x]
      /\ sems'[s].count = IF Wakes(s) THEN 0 ELSE 1
      /\ sems'[s].waiters = IF sems[s].waiters = <<>> THEN <<>> ELSE Tail(sems[s].waiters)
      /\ sems'[s].used = sems[s].used /\ sems'[s].unlinked = sems[s].unlinked
      /\ sems'[s].name = sems[s].name
  <2>1. sems[s].count = 0
    BY <1>1, <1>3
  <2>2. sems'[s] = Posted(s) /\ \A x \in Sems \ {s} : sems'[x] = sems[x]
    BY <1>0, <1>1, <1>2
  <2>3. QED
    BY <1>2, <2>1, <2>2 DEF Posted, SemRec
<1>6. /\ \A x \in Slots : procs'[x].pid = procs[x].pid /\ procs'[x].at = procs[x].at
      /\ \A x \in Slots : x # q \/ ~Wakes(s) => procs'[x] = procs[x]
      /\ Wakes(s) => procs'[q].state = "READY"
  BY <1>0, <1>2, <1>4 DEF ProcRec
<1>7. prog[p].role # "reader" => prog[p].value = None
  BY DEF MvarInv, MInv, Sensible
<1>8. /\ ProgTypes' /\ Got' = Got /\ NobodyYet' /\ prog'[p].pc = next
      /\ \A x \in Slots : Sensible(x)' /\ OwnHandles(x)'
      /\ \A x \in Slots : InTeam(x)' <=> InTeam(x)
      /\ \A x \in Slots : prog'[x].role = prog[x].role
      /\ \A x \in Slots \ {p} : prog'[x] = prog[x]
  <2>1. next \in {"wait", "use", "print"} /\ (next = "print" => prog[p].role = "reader")
    BY <1>1 DEF InTeam
  <2>2. next = "print" \/ prog[p].value = None
    BY <1>7
  <2>3. QED
    BY <1>0, <1>1, <1>6, <2>1, <2>2, CallStep, TeamStarted
<1>9. /\ Members(sems'[s].waiters) \subseteq Members(sems[s].waiters)
      /\ Members(sems[s].waiters) \subseteq Members(sems'[s].waiters) \cup (IF Wakes(s) THEN {q} ELSE {})
      /\ Distinct(sems'[s].waiters) /\ (Wakes(s) => q \notin Members(sems'[s].waiters))
  BY <1>1, <1>4, <1>5 DEF MvarInv, MInv, SleepersQueue
<1>10. SleepersQueue'
  <2>1. \A x \in Sems : \A y \in Members(sems[x].waiters) :
          y \in Slots /\ procs[y].pid # 0 /\ procs[y].state = "BLOCKED" /\ procs[y].at = x
    BY DEF MvarInv, MInv, SleepersQueue, Live
  <2>2. \A x \in Sems : \A y \in Members(sems'[x].waiters) :
          /\ y \in Members(sems[x].waiters) /\ (Wakes(s) => y # q)
    <3>1. ASSUME NEW x \in Sems \ {s}
          PROVE  /\ Members(sems'[x].waiters) = Members(sems[x].waiters)
                 /\ Wakes(s) => q \notin Members(sems[x].waiters)
      BY <1>4, <1>5, <2>1
    <3>2. QED
      BY <1>9, <3>1
  <2>3. \A x \in Sems : Distinct(sems'[x].waiters)
    BY <1>5, <1>9 DEF MvarInv, MInv, SleepersQueue
  <2>4. QED
    BY <1>6, <2>1, <2>2, <2>3 DEF SleepersQueue, Live
<1>11. \A x \in Slots : x # q \/ ~Wakes(s) => (Asleep(x)' <=> Asleep(x))
  <2>1. \A y \in Sems, x \in Slots : x # q \/ ~Wakes(s) => (Waiting(y, x)' <=> Waiting(y, x))
    BY <1>5, <1>9, WaitingIsMember, WaitingIsMemberNext
  <2>2. QED
    BY <1>6, <2>1 DEF Asleep, SleepsOn
<1>12. Lasting'
  BY <1>1, <1>5, OneSemaphore
<1>13. Waits'
  <2> SUFFICES ASSUME NEW x \in Slots, procs'[x].at # None
               PROVE  InTeam(x)' /\ prog'[x].pc = "use" /\ procs'[x].at = SemOf(prog'[x].role)
    BY DEF Waits, SemOf
  <2>1. x # p /\ procs[x].at # None /\ procs'[x].at = procs[x].at
    BY <1>0, <1>6
  <2>2. InTeam(x) /\ prog[x].pc = "use" /\ procs[x].at = SemOf(prog[x].role)
    BY <2>1 DEF MvarInv, MInv, Waits
  <2>3. QED
    BY <1>8, <2>1, <2>2
<1>14. ~Holds(p)' /\ ~Fills(p)' /\ \A x \in Slots \ {p} :
         x # q \/ ~Wakes(s) => ~Holds(x)' /\ ~Fills(x)'
  BY <1>3, <1>8, <1>11 DEF Holds, Fills, Is, InTeam
<1>15. OneUnit'
  <2>1. sems'["empty"].count + sems'["full"].count = IF Wakes(s) THEN 0 ELSE 1
    BY <1>1, <1>3, <1>5, MvarAssumption
  <2>2. \A x \in Slots : Holds(x)' => x = q /\ Wakes(s)
    BY <1>14
  <2>3. sems'["empty"].used
    BY <1>1, <1>5, MvarAssumption
  <2>4. QED
    BY <2>1, <2>2, <2>3 DEF OneUnit
<1>16. Box' = Box
  <2>1. CASE prog[p].role = "writer"
    <3>1. s = "full"
      BY <1>1, <2>1 DEF SemOf
    <3>2. Fills(p)
      BY <1>0, <2>1 DEF Fills, Is
    <3>3. Wakes(s) => Fills(q)'
      <4> SUFFICES ASSUME Wakes(s) PROVE Fills(q)'
        OBVIOUS
      <4>1. q \in Slots \ {p} /\ procs[q].at # None /\ procs[q].at = "full"
        BY <1>1, <1>4, <3>1
      <4>2. prog[q].role = "reader" /\ prog[q].pc = "use"
        BY <4>1 DEF MvarInv, MInv, Waits, SemOf, InTeam
      <4>3. ~Asleep(q)'
        BY <1>6 DEF Asleep, SleepsOn
      <4>4. QED
        BY <1>8, <4>1, <4>2, <4>3 DEF Fills, Is
    <3>4. ~Wakes(s) => sems'["full"].count > 0
      BY <1>5, <3>1
    <3>5. Wakes(s) => q \in Slots
      BY <1>4
    <3>6. HasValue /\ HasValue'
      BY <1>12, <3>2, <3>3, <3>4, <3>5, ValueForm, ValueFormNext DEF MvarInv, MInv
    <3>7. QED
      BY <1>0, <3>6 DEF Box
  <2>2. CASE prog[p].role = "reader"
    <3>1. s = "empty"
      BY <1>1, <2>2 DEF SemOf
    <3>2. ~Fills(p)
      BY <1>0, <2>2 DEF Fills, Is
    <3>3. Wakes(s) => ~Fills(q)'
      <4> SUFFICES ASSUME Wakes(s) PROVE ~Fills(q)'
        OBVIOUS
      <4>1. q \in Slots \ {p} /\ procs[q].at # None /\ procs[q].at = "empty"
        BY <1>1, <1>4, <3>1
      <4>2. prog[q].role = "writer" /\ prog[q].pc = "use"
        BY <4>1 DEF MvarInv, MInv, Waits, SemOf, InTeam
      <4>3. QED
        BY <1>8, <4>1, <4>2 DEF Fills, Is
    <3>4. sems'["full"].count = 0
      BY <1>3, <1>5, <3>1, MvarAssumption
    <3>5. ~HasValue /\ ~HasValue'
      BY <1>3, <1>12, <1>14, <3>2, <3>3, <3>4, ValueForm, ValueFormNext DEF MvarInv, MInv
    <3>6. QED
      BY <3>5 DEF Box
  <2>3. QED
    BY <1>1, <2>1, <2>2 DEF InTeam
<1>17. QED
  BY <1>8, <1>10, <1>12, <1>13, <1>15, <1>16 DEF MInv, PlaceStep

-----------------------------------------------------------------------------
(* Opening and closing handles *)

\* The step of a program that is not in its loop, in a system call that queues and
\* wakes nobody.
LEMMA LaunchStep ==
    ASSUME MvarInv, NEW p \in Slots, procs[p].at = None, UNCHANGED procs,
           \A s \in Sems : sems'[s].waiters = sems[s].waiters,
           NEW r \in ProgRec, prog' = [prog EXCEPT ![p] = r],
           r.role = prog[p].role, r.value = prog[p].value,
           prog[p].pc \notin {"use", "post"}, r.pc \notin {"use", "post"},
           Sensible(p)', OwnHandles(p)',
           \A q \in Slots \ {p} : \A h \in Handles :
               handles[h].sem # None /\ handles[h].owner = procs[q].pid => handles'[h] = handles[h]
    PROVE  /\ (\A q \in Slots : Sensible(q)' /\ OwnHandles(q)') /\ SleepersQueue' /\ Waits'
           /\ Got' = Got
           /\ \A q \in Slots : InTeam(q)' <=> InTeam(q)
           /\ \A q \in Slots : (Holds(q)' <=> Holds(q)) /\ (Fills(q)' <=> Fills(q))
<1>0. prog \in [Slots -> ProgRec]
  BY DEF MvarInv, MInv, ProgTypes
<1>1. prog'[p] = r /\ \A q \in Slots \ {p} : prog'[q] = prog[q]
  BY <1>0
<1>2. SleepersQueue' /\ \A q \in Slots : Asleep(q)' <=> Asleep(q)
  BY SameSleepers
<1>3. ASSUME NEW q \in Slots \ {p} PROVE Sensible(q)' /\ OwnHandles(q)'
  BY <1>1, OtherPrograms
<1>4. \A q \in Slots : InTeam(q)' <=> InTeam(q)
  BY <1>1 DEF InTeam
<1>5. Waits'
  BY <1>1, <1>4 DEF MvarInv, MInv, Waits, InTeam
<1>6. \A q \in Slots \ {p} : (Holds(q)' <=> Holds(q)) /\ (Fills(q)' <=> Fills(q))
  BY <1>1, <1>2, <1>4 DEF Holds, Fills, Is
<1>7. ~Holds(p) /\ ~Holds(p)' /\ ~Fills(p) /\ ~Fills(p)'
  BY <1>1 DEF Holds, Fills, Is
<1>8. Got' = Got
  BY <1>1 DEF Got
<1>9. QED
  BY <1>2, <1>3, <1>4, <1>5, <1>6, <1>7, <1>8

\* ksem_close on a semaphore that keeps its name changes the references only.
LEMMA CloseKeeps ==
    ASSUME NEW sem \in SemRec, ~sem.unlinked, NEW n \in Nat
    PROVE  LET r == ksem_close(sem, n)
           IN  /\ r.used = sem.used /\ r.name = sem.name /\ r.count = sem.count
               /\ r.unlinked = sem.unlinked /\ r.waiters = sem.waiters
BY DEF ksem_close, sem_ready_to_destroy, SemRec

\* A program without one of its handles.
LEMMA WithoutHandle ==
    ASSUME NEW f \in ProgRec
    PROVE  /\ LET a == [f EXCEPT !.empty = 0]
              IN  /\ a \in ProgRec /\ a.role = f.role /\ a.pc = f.pc /\ a.value = f.value
                  /\ a.todo = f.todo /\ a.letter = f.letter /\ a.empty = 0 /\ a.full = f.full
           /\ LET a == [f EXCEPT !.full = 0]
              IN  /\ a \in ProgRec /\ a.role = f.role /\ a.pc = f.pc /\ a.value = f.value
                  /\ a.todo = f.todo /\ a.letter = f.letter /\ a.empty = f.empty /\ a.full = 0
<1>1. 0 \in 0 .. HANDLE_MAX
  BY SemAssumption
<1>2. QED
  BY <1>1 DEF ProgRec

\* One of the handles of a process is closed.
LEMMA CloseHandleStep ==
    ASSUME MvarInv, Inv', NEW p \in Slots, close_handle(p)
    PROVE  MInv' /\ PlaceStep
<1>0. /\ prog \in [Slots -> ProgRec] /\ prog[p] \in ProgRec /\ Sensible(p) /\ OwnHandles(p)
      /\ Types /\ Pids /\ RefcountExact /\ ProgTypes /\ Lasting /\ HANDLE_MAX \in Nat
  BY SemAssumption DEF MvarInv, MInv, ProgTypes, Inv
<1>1. PICK h \in Nat :
        /\ prog[p].pc = "close" /\ h # 0 /\ sem_close(p, h) /\ ctx' = ctx
        /\ \/ h = prog[p].empty /\ prog' = [prog EXCEPT ![p].empty = 0]
           \/ h = prog[p].full /\ prog[p].empty = 0 /\ prog' = [prog EXCEPT ![p].full = 0]
  <2>1. prog[p].empty \in Nat /\ prog[p].full \in Nat
    BY <1>0 DEF ProgRec
  <2>2. CASE prog[p].empty # 0
    BY <2>1, <2>2 DEF close_handle
  <2>3. CASE prog[p].empty = 0
    BY <2>1, <2>3 DEF close_handle
  <2>4. QED
    BY <2>2, <2>3
<1>2. PICK s \in Sems : s = handles[h].sem /\ s \in {"empty", "full"} /\ h \in Handles
                        /\ handles[h].owner = procs[p].pid
  <2>1. h \in Handles
    BY <1>1 DEF sem_close, Usable
  <2>2. QED
    BY <1>0, <1>1, <2>1, CountTypes DEF OwnHandles
<1>3. /\ sems' = [sems EXCEPT ![s] = ksem_close(sems[s], 1)]
      /\ handles' = [handles EXCEPT ![h] = NoHandle]
      /\ UNCHANGED procs /\ procs[p].at = None /\ procs[p].pid # 0
  BY <1>1, <1>2 DEF sem_close, InUserland, CanRun
<1>4. sems[s].used /\ ~sems[s].unlinked /\ sems[s] \in SemRec
  <2>1. s # None
    BY SemAssumption
  <2>2. QED
    BY <1>0, <1>2, <2>1 DEF RefcountExact, Lasting, Types
<1>5. /\ \A x \in Sems \ {s} : sems'[x] = sems[x]
      /\ sems'[s].used = sems[s].used /\ sems'[s].unlinked = sems[s].unlinked
      /\ sems'[s].name = sems[s].name /\ sems'[s].count = sems[s].count
      /\ sems'[s].waiters = sems[s].waiters
  <2>1. sems'[s] = ksem_close(sems[s], 1) /\ \A x \in Sems \ {s} : sems'[x] = sems[x]
    BY <1>0, <1>3 DEF Types
  <2> DEFINE closed == ksem_close(sems[s], 1)
  <2>2. /\ closed.used = sems[s].used /\ closed.name = sems[s].name
        /\ closed.count = sems[s].count /\ closed.unlinked = sems[s].unlinked
        /\ closed.waiters = sems[s].waiters
    BY <1>4, CloseKeeps
  <2> HIDE DEF closed
  <2>3. sems'[s] = closed
    BY <2>1 DEF closed
  <2>4. QED
    BY <2>1, <2>2, <2>3
<1>6. PICK r \in ProgRec :
        /\ prog' = [prog EXCEPT ![p] = r]
        /\ r.role = prog[p].role /\ r.pc = "close" /\ r.value = prog[p].value
        /\ r.todo = prog[p].todo /\ r.letter = prog[p].letter
        /\ \/ h = prog[p].empty /\ r.empty = 0 /\ r.full = prog[p].full
           \/ h = prog[p].full /\ r.empty = 0 /\ prog[p].empty = 0 /\ r.full = 0
  <2> DEFINE a == [prog[p] EXCEPT !.empty = 0]
             b == [prog[p] EXCEPT !.full = 0]
  <2>1. \/ prog' = [prog EXCEPT ![p] = a] /\ h = prog[p].empty
        \/ prog' = [prog EXCEPT ![p] = b] /\ h = prog[p].full /\ prog[p].empty = 0
    BY <1>0, <1>1
  <2>2. /\ a \in ProgRec /\ a.role = prog[p].role /\ a.pc = prog[p].pc /\ a.value = prog[p].value
        /\ a.todo = prog[p].todo /\ a.letter = prog[p].letter /\ a.empty = 0 /\ a.full = prog[p].full
    BY <1>0, WithoutHandle
  <2>3. /\ b \in ProgRec /\ b.role = prog[p].role /\ b.pc = prog[p].pc /\ b.value = prog[p].value
        /\ b.todo = prog[p].todo /\ b.letter = prog[p].letter /\ b.empty = prog[p].empty /\ b.full = 0
    BY <1>0, WithoutHandle
  <2> HIDE DEF a, b
  <2>4. QED
    BY <1>1, <2>1, <2>2, <2>3
<1>7. prog'[p] = r /\ \A q \in Slots \ {p} : prog'[q] = prog[q]
  BY <1>0, <1>6
<1>8. Sensible(p)'
  BY <1>0, <1>1, <1>3, <1>6, <1>7 DEF Sensible, InTeam
<1>9. OwnHandles(p)'
  <2>1. prog[p].full \in Nat /\ prog[p].full =< HANDLE_MAX
    BY <1>0 DEF ProgRec
  <2>2. r.full # 0 => r.full \in Handles /\ r.full # h /\ r.full = prog[p].full
    BY <1>0, <1>1, <1>6, <2>1 DEF OwnHandles, Handles
  <2>3. \A x \in Handles \ {h} : handles'[x] = handles[x]
    BY <1>0, <1>3 DEF Types
  <2>4. QED
    BY <1>0, <1>3, <1>6, <1>7, <2>2, <2>3 DEF OwnHandles
<1>10. \A q \in Slots \ {p} : \A x \in Handles :
         handles[x].sem # None /\ handles[x].owner = procs[q].pid => handles'[x] = handles[x]
  <2>1. \A q \in Slots \ {p} : procs[q].pid # procs[p].pid
    BY <1>0, <1>3 DEF Pids, Live
  <2>2. QED
    BY <1>0, <1>2, <1>3, <2>1 DEF Types
<1>11. \A x \in Sems : sems'[x].waiters = sems[x].waiters
  BY <1>5
<1>12. /\ (\A q \in Slots : Sensible(q)' /\ OwnHandles(q)') /\ SleepersQueue' /\ Waits'
       /\ Got' = Got
       /\ \A q \in Slots : InTeam(q)' <=> InTeam(q)
       /\ \A q \in Slots : (Holds(q)' <=> Holds(q)) /\ (Fills(q)' <=> Fills(q))
  BY <1>1, <1>3, <1>6, <1>8, <1>9, <1>10, <1>11, LaunchStep
<1>13. ProgTypes'
  BY <1>0, <1>1, <1>6 DEF ProgTypes
<1>14. Lasting'
  BY <1>4, <1>5, OneSemaphore
<1>15. \A x \in {"empty", "full"} : sems'[x].count = sems[x].count /\ sems'[x].used = sems[x].used
  BY <1>5, MvarAssumption
<1>16. OneUnit'
  BY <1>12, <1>15, SameUnits
<1>17. NobodyYet'
  <2>1. NotStarted' => NotStarted
    BY <1>1, <1>6, <1>7 DEF NotStarted
  <2>2. \A q \in Slots : prog'[q].todo = prog[q].todo
    BY <1>6, <1>7
  <2>3. QED
    BY <1>1, <1>12, <1>15, <2>1, <2>2, NobodyFrame
<1>18. Box' = Box
  BY <1>1, <1>12, <1>14, <1>15, SameBox
<1>19. QED
  BY <1>12, <1>13, <1>14, <1>16, <1>17, <1>18 DEF MInv, PlaceStep

\* What the process owns is nobody else's.
LEMMA HandlesApart ==
    ASSUME MvarInv, NEW p \in Slots, procs[p].pid # 0, NEW q \in Slots \ {p}
    PROVE  procs[q].pid # procs[p].pid
BY DEF MvarInv, Inv, Pids, Live

\* sys_sem_open adds a handle, if there is one left, and the semaphore if there is none.
LEMMA OpenFacts ==
    ASSUME MvarInv, NEW p \in Slots, NEW name \in Names, NEW init \in 0 .. 1, open(p, name, init)
    PROVE  /\ name \in Sems /\ UNCHANGED procs /\ procs[p].at = None /\ procs[p].pid # 0
           /\ \A s \in Sems : sems'[s].waiters = sems[s].waiters
           /\ \A s \in Sems \ {name} : sems'[s] = sems[s]
           /\ sems'[name].used /\ Lasting'
           /\ sems'[name].count = IF sems[name].used THEN sems[name].count ELSE init
           /\ \/ Opened = 0 /\ handles' = handles
              \/ /\ Opened \in Handles /\ handles[Opened].sem = None
                 /\ handles' = [handles EXCEPT ![Opened] = [sem |-> name, owner |-> procs[p].pid]]
<1>0. /\ sem_open(p, name, init) /\ (\A s \in Sems : sems'[s].used => sems'[s].name = s)
      /\ Inv /\ Types /\ Lasting /\ "no_memory" \notin may
  BY DEF open, MvarInv, MInv, Inv, Enough
<1>1. UNCHANGED procs /\ procs[p].at = None /\ procs[p].pid # 0
  BY <1>0 DEF sem_open, InUserland, CanRun
<1>2. PICK s \in Sems, r \in SemRec :
        /\ sems' = [sems EXCEPT ![s] = r]
        /\ r.used /\ ~r.unlinked /\ r.name = name
        /\ \/ sems[s].used /\ r.count = sems[s].count /\ r.waiters = sems[s].waiters
           \/ ~sems[s].used /\ r.count = init /\ r.waiters = <<>>
        /\ \/ handles' = handles
           \/ \E h \in Handles :
                /\ handles[h].sem = None
                /\ handles' = [handles EXCEPT ![h] = [sem |-> s, owner |-> procs[p].pid]]
  BY <1>0, OpenCases
<1>3. sems'[s] = r /\ \A x \in Sems \ {s} : sems'[x] = sems[x]
  BY <1>0, <1>2 DEF Types
<1>4. s = name
  BY <1>0, <1>2, <1>3
<1>5. Lasting'
  BY <1>0, <1>2, <1>3, <1>4 DEF Lasting
<1>6. \A x \in Sems : sems'[x].waiters = sems[x].waiters
  <2>1. Freed.waiters = <<>>
    BY DEF Freed
  <2>2. QED
    BY <1>0, <1>2, <1>3, <2>1 DEF Lasting
<1>7. CASE handles' = handles
  <2>1. Opened = 0
    BY <1>7 DEF Opened
  <2>2. QED
    BY <1>1, <1>2, <1>3, <1>4, <1>5, <1>6, <1>7, <2>1
<1>8. CASE handles' # handles
  <2>1. PICK h \in Handles :
          /\ handles[h].sem = None
          /\ handles' = [handles EXCEPT ![h] = [sem |-> s, owner |-> procs[p].pid]]
    BY <1>2, <1>8
  <2>2. /\ handles'[h].sem = s /\ s # None
        /\ \A x \in Handles \ {h} : handles'[x] = handles[x]
    BY <1>0, <2>1, SemAssumption DEF Types
  <2>3. {x \in Handles : handles'[x] # handles[x]} = {h}
    BY <2>1, <2>2
  <2>4. Opened = h
    BY <2>3 DEF Opened
  <2>5. QED
    BY <1>1, <1>2, <1>3, <1>4, <1>5, <1>6, <2>1, <2>4
<1>9. QED
  BY <1>7, <1>8

\* The shell takes a handle for something else.
LEMMA TakeHandleStep ==
    ASSUME MvarInv, Inv', NEW p \in Slots, take_handle(p)
    PROVE  MInv' /\ PlaceStep
<1>0. /\ "other" \in Names /\ "other" # "empty" /\ "other" # "full"
      /\ prog \in [Slots -> ProgRec] /\ prog[p] \in ProgRec /\ Sensible(p) /\ OwnHandles(p)
      /\ ProgTypes /\ HANDLE_MAX \in Nat /\ "empty" # None /\ "full" # None /\ Types
  BY MvarAssumption, SemAssumption DEF MvarInv, MInv, ProgTypes, Inv
<1>1. prog[p].role = "shell" /\ prog[p].pc = "prompt" /\ open(p, "other", 0) /\ UNCHANGED <<prog, ctx>>
  BY DEF take_handle, Is
<1>2. /\ UNCHANGED procs /\ procs[p].at = None /\ procs[p].pid # 0
      /\ \A s \in Sems : sems'[s].waiters = sems[s].waiters
      /\ \A s \in Sems \ {"other"} : sems'[s] = sems[s]
      /\ Lasting'
      /\ \/ Opened = 0 /\ handles' = handles
         \/ /\ Opened \in Handles /\ handles[Opened].sem = None
            /\ handles' = [handles EXCEPT ![Opened] = [sem |-> "other", owner |-> procs[p].pid]]
  BY <1>0, <1>1, OpenFacts
<1>3. \A h \in Handles : handles[h].sem # None => handles'[h] = handles[h]
  BY <1>0, <1>2 DEF Types
<1>4. \A q \in Slots : Sensible(q)' /\ OwnHandles(q)'
  BY <1>1, <1>2, <1>3, OtherPrograms
<1>5. SleepersQueue' /\ \A q \in Slots : Asleep(q)' <=> Asleep(q)
  BY <1>2, SameSleepers
<1>6. ProgTypes' /\ Waits'
  BY <1>0, <1>1, <1>2 DEF MvarInv, MInv, ProgTypes, Waits, InTeam
<1>7. \A q \in Slots : (InTeam(q)' <=> InTeam(q)) /\ (Holds(q)' <=> Holds(q)) /\ (Fills(q)' <=> Fills(q))
  BY <1>1, <1>5 DEF InTeam, Holds, Fills, Is
<1>8. \A x \in {"empty", "full"} : sems'[x] = sems[x]
  BY <1>0, <1>2, MvarAssumption
<1>9. OneUnit'
  BY <1>7, <1>8, SameUnits
<1>10. NobodyYet'
  <2>1. NotStarted' => NotStarted
    BY <1>1 DEF NotStarted
  <2>2. QED
    BY <1>1, <1>7, <1>8, <2>1, NobodyFrame
<1>11. Box' = Box
  BY <1>1, <1>2, <1>7, <1>8, SameBox
<1>12. Got' = Got
  BY <1>1 DEF Got
<1>13. QED
  BY <1>2, <1>4, <1>5, <1>6, <1>9, <1>10, <1>11, <1>12 DEF MInv, PlaceStep

\* sys_sem_open for the first semaphore, which starts with one unit: the first process
\* that opens it makes the place.
LEMMA OpenEmptyStep ==
    ASSUME MvarInv, Inv', NEW p \in Slots, open_empty(p)
    PROVE  MInv' /\ PlaceStep
<1>0. /\ "empty" \in Names /\ 1 \in 0 .. 1 /\ "empty" # None /\ "full" # None
      /\ prog \in [Slots -> ProgRec] /\ prog[p] \in ProgRec /\ Sensible(p) /\ OwnHandles(p)
      /\ ProgTypes /\ HANDLE_MAX \in Nat /\ Types /\ Lasting /\ "empty" \in Sems /\ "full" \in Sems
  BY MvarAssumption, SemAssumption DEF MvarInv, MInv, ProgTypes, Inv
<1>1. /\ prog[p].pc = "open_empty" /\ open(p, "empty", 1) /\ ctx' = ctx
      /\ prog' = [prog EXCEPT ![p].pc = "open_full", ![p].empty = Opened]
  BY DEF open_empty, InitialEmpty
<1>2. PICK h \in 0 .. HANDLE_MAX :
      /\ h = Opened /\ UNCHANGED procs /\ procs[p].at = None /\ procs[p].pid # 0
      /\ \A s \in Sems : sems'[s].waiters = sems[s].waiters
      /\ \A s \in Sems \ {"empty"} : sems'[s] = sems[s]
      /\ sems'["empty"].used /\ Lasting'
      /\ sems'["empty"].count = IF sems["empty"].used THEN sems["empty"].count ELSE 1
      /\ \/ h = 0 /\ handles' = handles
         \/ /\ h \in Handles /\ handles[h].sem = None
            /\ handles' = [handles EXCEPT ![h] = [sem |-> "empty", owner |-> procs[p].pid]]
  <2>1. Opened = 0 \/ Opened \in Handles
    BY <1>0, <1>1, OpenFacts
  <2>2. Opened \in 0 .. HANDLE_MAX
    BY <1>0, <2>1 DEF Handles
  <2>3. QED
    BY <1>0, <1>1, <2>2, OpenFacts
<1>3. \A x \in Handles : handles[x].sem # None => handles'[x] = handles[x]
  BY <1>0, <1>2 DEF Types
<1> DEFINE r == [prog[p] EXCEPT !.pc = "open_full", !.empty = h]
<1>4. prog' = [prog EXCEPT ![p] = r]
  BY <1>0, <1>1, <1>2
<1>5. /\ r \in ProgRec /\ r.role = prog[p].role /\ r.pc = "open_full" /\ r.value = prog[p].value
      /\ r.todo = prog[p].todo /\ r.letter = prog[p].letter /\ r.empty = h /\ r.full = prog[p].full
  <2>1. \A f \in ProgRec :
          LET a == [f EXCEPT !.pc = "open_full", !.empty = h]
          IN  /\ a \in ProgRec /\ a.role = f.role /\ a.pc = "open_full" /\ a.value = f.value
              /\ a.todo = f.todo /\ a.letter = f.letter /\ a.empty = h /\ a.full = f.full
    BY DEF ProgRec
  <2>2. QED
    BY <1>0, <2>1
<1> HIDE DEF r
<1>6. prog'[p] = r /\ \A q \in Slots \ {p} : prog'[q] = prog[q]
  BY <1>0, <1>4
<1>7. Sensible(p)'
  BY <1>0, <1>1, <1>2, <1>5, <1>6 DEF Sensible, InTeam
<1>8. OwnHandles(p)'
  <2>1. r.full # 0 => r.full \in Handles
    BY <1>0, <1>5 DEF ProgRec, Handles
  <2>2. r.empty # 0 => handles'[r.empty] = [sem |-> "empty", owner |-> procs[p].pid]
    BY <1>0, <1>2, <1>5 DEF Types
  <2>3. r.full # 0 => handles'[r.full] = [sem |-> "full", owner |-> procs[p].pid]
    BY <1>0, <1>3, <1>5, <2>1 DEF OwnHandles
  <2>4. QED
    BY <1>2, <1>6, <2>2, <2>3 DEF OwnHandles
<1>9. /\ (\A q \in Slots : Sensible(q)' /\ OwnHandles(q)') /\ SleepersQueue' /\ Waits'
      /\ Got' = Got
      /\ \A q \in Slots : InTeam(q)' <=> InTeam(q)
      /\ \A q \in Slots : (Holds(q)' <=> Holds(q)) /\ (Fills(q)' <=> Fills(q))
  BY <1>1, <1>2, <1>3, <1>4, <1>5, <1>7, <1>8, LaunchStep
<1>10. ProgTypes'
  BY <1>0, <1>1, <1>4, <1>5 DEF ProgTypes
<1>11. sems'["full"] = sems["full"]
  BY <1>0, <1>2
<1>12. OneUnit'
  <2>1. CASE sems["empty"].used
    BY <1>2, <1>9, <1>11, <2>1, SameUnits
  <2>2. CASE ~sems["empty"].used
    <3>1. \A q \in Slots : ~Holds(q)
      BY <2>2, LoopFacts DEF Holds
    <3>2. sems["full"].count = 0
      BY <1>0, <2>2, CountTypes DEF MvarInv, MInv, OneUnit
    <3>3. sems'["empty"].count = 1 /\ sems'["full"].count = 0
      BY <1>2, <1>11, <2>2, <3>2
    <3>4. QED
      BY <1>2, <1>9, <3>1, <3>3 DEF OneUnit
  <2>3. QED
    BY <2>1, <2>2
<1>13. NobodyYet'
  <2>1. NotStarted' => NotStarted
    BY <1>1, <1>5, <1>6 DEF NotStarted, InTeam
  <2>2. \A q \in Slots : prog'[q].todo = prog[q].todo
    BY <1>5, <1>6
  <2>3. QED
    BY <1>1, <1>9, <1>11, <2>1, <2>2, NobodyFrame
<1>14. Box' = Box
  BY <1>1, <1>2, <1>9, <1>11, SameBox
<1>15. QED
  BY <1>2, <1>9, <1>10, <1>12, <1>13, <1>14 DEF MInv, PlaceStep

\* sys_sem_open for the second semaphore, which starts empty, and the decision whether
\* both are there.
LEMMA OpenFullStep ==
    ASSUME MvarInv, Inv', NEW p \in Slots, open_full(p)
    PROVE  MInv' /\ PlaceStep
<1>0. /\ "full" \in Names /\ 0 \in 0 .. 1 /\ "empty" # None /\ "full" # None
      /\ prog \in [Slots -> ProgRec] /\ prog[p] \in ProgRec /\ Sensible(p) /\ OwnHandles(p)
      /\ ProgTypes /\ HANDLE_MAX \in Nat /\ Types /\ Lasting /\ "empty" \in Sems /\ "full" \in Sems
      /\ ctx \in [in_use : BOOLEAN, value : Letters \cup {None}]
  BY MvarAssumption, SemAssumption DEF MvarInv, MInv, ProgTypes, Inv
<1>1. prog[p].pc = "open_full" /\ open(p, "full", 0)
  BY DEF open_full
<1>2. PICK h \in 0 .. HANDLE_MAX :
      /\ h = Opened /\ UNCHANGED procs /\ procs[p].at = None /\ procs[p].pid # 0
      /\ \A s \in Sems : sems'[s].waiters = sems[s].waiters
      /\ \A s \in Sems \ {"full"} : sems'[s] = sems[s]
      /\ Lasting'
      /\ sems'["full"].count = IF sems["full"].used THEN sems["full"].count ELSE 0
      /\ \/ h = 0 /\ handles' = handles
         \/ /\ h \in Handles /\ handles[h].sem = None
            /\ handles' = [handles EXCEPT ![h] = [sem |-> "full", owner |-> procs[p].pid]]
  <2>1. Opened = 0 \/ Opened \in Handles
    BY <1>0, <1>1, OpenFacts
  <2>2. Opened \in 0 .. HANDLE_MAX
    BY <1>0, <2>1 DEF Handles
  <2>3. QED
    BY <1>0, <1>1, <2>2, OpenFacts
<1>3. \A x \in Handles : handles[x].sem # None => handles'[x] = handles[x]
  BY <1>0, <1>2 DEF Types
<1>4. PICK both \in BOOLEAN : both = (prog[p].empty # 0 /\ h # 0)
  OBVIOUS
<1>5. PICK pc \in {"wait", "close"} :
        pc = IF both /\ prog[p].role # "shell" THEN "wait" ELSE "close"
  OBVIOUS
<1>6. PICK todo \in Seq(Member) : todo = IF both THEN prog[p].todo ELSE <<>>
  BY <1>0, EmptySeq DEF ProgRec
<1> DEFINE r == [prog[p] EXCEPT !.full = h, !.pc = pc, !.todo = todo]
<1>7. /\ prog' = [prog EXCEPT ![p] = r]
      /\ ctx' = [ctx EXCEPT !.in_use = @ /\ (both \/ prog[p].role # "shell")]
  BY <1>0, <1>2, <1>4, <1>5, <1>6 DEF open_full
<1>8. /\ r \in ProgRec /\ r.role = prog[p].role /\ r.pc = pc /\ r.value = prog[p].value
      /\ r.todo = todo /\ r.letter = prog[p].letter /\ r.empty = prog[p].empty /\ r.full = h
  <2>1. \A f \in ProgRec :
          LET a == [f EXCEPT !.full = h, !.pc = pc, !.todo = todo]
          IN  /\ a \in ProgRec /\ a.role = f.role /\ a.pc = pc /\ a.value = f.value
              /\ a.todo = todo /\ a.letter = f.letter /\ a.empty = f.empty /\ a.full = h
    BY DEF ProgRec
  <2>2. QED
    BY <1>0, <2>1
<1> HIDE DEF r
<1>9. prog'[p] = r /\ \A q \in Slots \ {p} : prog'[q] = prog[q]
  BY <1>0, <1>7
<1>10. /\ ctx' \in [in_use : BOOLEAN, value : Letters \cup {None}] /\ ctx'.value = ctx.value
       /\ ctx'.in_use = (ctx.in_use /\ (both \/ prog[p].role # "shell"))
  BY <1>0, <1>7
<1>11. Sensible(p)'
  BY <1>0, <1>1, <1>2, <1>4, <1>5, <1>6, <1>8, <1>9 DEF Sensible, InTeam
<1>12. OwnHandles(p)'
  <2>1. r.empty # 0 => r.empty \in Handles
    BY <1>0, <1>8 DEF ProgRec, Handles
  <2>2. r.full # 0 => handles'[r.full] = [sem |-> "full", owner |-> procs[p].pid]
    BY <1>0, <1>2, <1>8 DEF Types
  <2>3. r.empty # 0 => handles'[r.empty] = [sem |-> "empty", owner |-> procs[p].pid]
    BY <1>0, <1>3, <1>8, <2>1 DEF OwnHandles
  <2>4. QED
    BY <1>2, <1>9, <2>2, <2>3 DEF OwnHandles
<1>13. /\ (\A q \in Slots : Sensible(q)' /\ OwnHandles(q)') /\ SleepersQueue' /\ Waits'
       /\ Got' = Got
       /\ \A q \in Slots : InTeam(q)' <=> InTeam(q)
       /\ \A q \in Slots : (Holds(q)' <=> Holds(q)) /\ (Fills(q)' <=> Fills(q))
  BY <1>1, <1>2, <1>3, <1>5, <1>7, <1>8, <1>11, <1>12, LaunchStep
<1>14. ProgTypes'
  BY <1>0, <1>7, <1>8, <1>10 DEF ProgTypes
<1>15. sems'["empty"] = sems["empty"] /\ sems'["full"].count = sems["full"].count
  <2>1. Freed.count = 0
    BY DEF Freed
  <2>2. QED
    BY <1>0, <1>2, <2>1 DEF Lasting
<1>16. OneUnit'
  BY <1>13, <1>15, SameUnits
<1>17. NobodyYet'
  <2>1. NotStarted' => NotStarted
    <3>1. CASE prog[p].role = "shell"
      BY <1>1, <3>1 DEF NotStarted
    <3>2. CASE prog[p].role # "shell"
      BY <1>8, <1>9, <1>10, <3>2 DEF NotStarted
    <3>3. QED
      BY <3>1, <3>2
  <2>2. (NotStarted' => (\A q \in Slots : ~InTeam(q)') /\ sems'["full"].count = 0)
    BY <1>13, <1>15, <2>1, NotStartedFacts
  <2>3. ~ctx'.in_use => \A q \in Slots : prog'[q].todo = <<>>
    <3>1. CASE ~ctx.in_use
      BY <1>6, <1>8, <1>9, <3>1 DEF MvarInv, MInv, NobodyYet
    <3>2. CASE ctx.in_use
      <4> SUFFICES ASSUME ~ctx'.in_use PROVE \A q \in Slots : prog'[q].todo = <<>>
        OBVIOUS
      <4>1. prog[p].role = "shell" /\ ~both
        BY <1>10, <3>2
      <4>2. \A q \in Slots \ {p} : prog[q].role # "shell" /\ prog[q].todo = <<>>
        BY <1>0, <4>1 DEF MvarInv, MInv, Sensible
      <4>3. QED
        BY <1>6, <1>8, <1>9, <4>1, <4>2
    <3>3. QED
      BY <3>1, <3>2
  <2>4. QED
    BY <2>2, <2>3 DEF NobodyYet
<1>18. Box' = Box
  BY <1>2, <1>10, <1>13, <1>15, SameBox
<1>19. QED
  BY <1>2, <1>13, <1>14, <1>16, <1>17, <1>18 DEF MInv, PlaceStep

-----------------------------------------------------------------------------
(* Processes that come and go *)

\* A writer or a reader ends: out of the queues, with or without its handles.
LEMMA EndStep ==
    ASSUME MvarInv, Inv', NEW p \in Slots, InTeam(p), procs[p].pid # 0,
           prog' = [prog EXCEPT ![p] = NoProg], Gone({p}), ctx' = ctx,
           \A s \in Sems : /\ sems'[s].used = sems[s].used /\ sems'[s].unlinked = sems[s].unlinked
                           /\ sems'[s].name = sems[s].name /\ sems'[s].count = sems[s].count
                           /\ Members(sems'[s].waiters) = Members(sems[s].waiters) \ {p}
                           /\ Distinct(sems'[s].waiters)
                           /\ ~sems[s].used => sems'[s] = Freed,
           \A h \in Handles : handles[h].owner # procs[p].pid => handles'[h] = handles[h]
    PROVE  MInv' /\ PlaceStep
<1>0. /\ prog \in [Slots -> ProgRec] /\ prog[p] \in ProgRec /\ Sensible(p) /\ ProgTypes
      /\ Lasting /\ SleepersQueue /\ Waits
  BY DEF MvarInv, MInv, ProgTypes
<1>1. /\ procs'[p] = NoProc /\ NoProc.pid = 0 /\ NoProc.at = None
      /\ \A q \in Slots \ {p} : procs'[q] = procs[q]
  BY DEF Gone, NoProc
<1>2. prog'[p] = NoProg /\ \A q \in Slots \ {p} : prog'[q] = prog[q]
  BY <1>0
<1>3. ProgTypes'
  BY <1>0, NoProgType DEF ProgTypes
<1>4. Sensible(p)' /\ OwnHandles(p)'
  BY <1>1, <1>2, NoProgType DEF Sensible, OwnHandles, InTeam
<1>5. ASSUME NEW q \in Slots \ {p} PROVE Sensible(q)' /\ OwnHandles(q)'
  <2>1. procs[q].pid # procs[p].pid
    BY HandlesApart
  <2>2. QED
    BY <1>1, <1>2, <2>1, OtherPrograms
<1>6. Lasting'
  BY <1>0 DEF Lasting
<1>7. SleepersQueue'
  BY <1>0, <1>1 DEF SleepersQueue, Live
<1>8. ~Asleep(p)' /\ \A q \in Slots \ {p} : Asleep(q)' <=> Asleep(q)
  <2>1. \A s \in Sems, q \in Slots \ {p} : Waiting(s, q)' <=> Waiting(s, q)
    BY WaitingIsMember, WaitingIsMemberNext
  <2>2. QED
    BY <1>1, <2>1, SemAssumption DEF Asleep, SleepsOn
<1>9. Waits'
  BY <1>0, <1>1, <1>2 DEF Waits, InTeam
<1>10. /\ ~Holds(p)' /\ ~Fills(p)' /\ ~InTeam(p)'
       /\ \A q \in Slots \ {p} : (Holds(q)' <=> Holds(q)) /\ (Fills(q)' <=> Fills(q))
                                 /\ (InTeam(q)' <=> InTeam(q))
  BY <1>2, <1>8, NoProgType DEF Holds, Fills, InTeam, Is
<1>11. \A s \in {"empty", "full"} : sems'[s].count = sems[s].count /\ sems'[s].used = sems[s].used
  BY MvarAssumption
<1>12. OneUnit'
  BY <1>10, <1>11, SameUnits
<1>13. NobodyYet'
  <2>1. NotStarted' => NotStarted
    BY <1>2, NoProgType DEF NotStarted
  <2>2. \A q \in Slots : prog'[q].todo = prog[q].todo
    BY <1>0, <1>2, NoProgType DEF Sensible, InTeam
  <2>3. QED
    BY <1>10, <1>11, <2>1, <2>2, NobodyFrame
<1>14. Got' = [Got EXCEPT ![p] = None]
  <2>1. prog'[p].value = None /\ \A q \in Slots \ {p} : prog'[q].value = prog[q].value
    BY <1>2, NoProgType
  <2>2. \A q \in Slots : prog'[q].value = IF q = p THEN None ELSE prog[q].value
    BY <2>1
  <2>3. QED
    BY <2>2 DEF Got
<1>15. PlaceStep
  <2>1. CASE Fills(p)
    <3>1. Holds(p)
      BY <2>1 DEF Fills, Holds, Is, InTeam
    <3>2. (\A q \in Slots : ~Fills(q)') /\ sems'["full"].count = 0
      BY <1>10, <1>11, <3>1, HolderFacts
    <3>3. Box' = <<>>
      BY <1>6, <3>2, ValueFormNext DEF Box
    <3>4. prog[p].value = None
      BY <1>0, <2>1 DEF Sensible, Fills, Is
    <3>5. Got' = Got
      BY <1>14, <3>4 DEF Got
    <3>6. Place!Lose
      BY <3>3, <3>5 DEF Place!Lose, Box, Got
    <3>7. QED
      BY <3>6 DEF PlaceStep, Place!Next
  <2>2. CASE ~Fills(p)
    <3>1. Box' = Box
      BY <1>6, <1>10, <1>11, <2>2, SameBox
    <3>2. Place!Done(p)
      BY <1>14, <3>1 DEF Place!Done, Box, Got
    <3>3. QED
      BY <3>2 DEF PlaceStep, Place!Next
  <2>3. QED
    BY <2>1, <2>2
<1>16. QED
  BY <1>3, <1>4, <1>5, <1>6, <1>7, <1>9, <1>12, <1>13, <1>15 DEF MInv

\* A process is taken out of the queues of all semaphores: none of them is unlinked.
LEMMA RemovedFromAll ==
    ASSUME MvarInv, NEW p \in Slots, NEW s \in Sems
    PROVE  LET r == ksem_remove_waiters_for(p)[s]
           IN  /\ r \in SemRec
               /\ r.used = sems[s].used /\ ~r.unlinked /\ r.unlinked = sems[s].unlinked
               /\ r.name = sems[s].name /\ r.count = sems[s].count
               /\ Members(r.waiters) = Members(sems[s].waiters) \ {p} /\ Distinct(r.waiters)
               /\ ~sems[s].used => r = Freed
<1>0. Types /\ Lasting /\ SleepersQueue
  BY DEF MvarInv, MInv, Inv
<1> DEFINE r == ksem_remove_waiters_for(p)[s]
<1>1. /\ r \in SemRec /\ r.used = sems[s].used /\ r.count = sems[s].count
      /\ r.unlinked = sems[s].unlinked /\ r.name = sems[s].name
      /\ (s \notin Linked => r = sems[s]) /\ (s \in Linked => p \notin Members(r.waiters))
      /\ Members(r.waiters) \subseteq Members(sems[s].waiters)
      /\ Members(sems[s].waiters) \subseteq Members(r.waiters) \cup {p}
      /\ Distinct(r.waiters)
  BY <1>0, RemovedWaiters DEF SleepersQueue
<1> HIDE DEF r
<1>2. CASE sems[s].used
  <2>1. ~sems[s].unlinked /\ s \in Linked
    BY <1>0, <1>2 DEF Lasting, Linked
  <2>2. QED
    BY <1>1, <1>2, <2>1 DEF r
<1>3. CASE ~sems[s].used
  <2>1. sems[s] = Freed /\ s \notin Linked
    BY <1>0, <1>3 DEF Lasting, Linked
  <2>2. Members(<<>>) = {} /\ Freed.waiters = <<>> /\ Freed.unlinked = FALSE
    BY DEF Members, Freed
  <2>3. QED
    BY <1>1, <1>3, <2>1, <2>2 DEF r
<1>4. QED
  BY <1>2, <1>3

\* A writer or a reader is killed, and keeps its handles.
LEMMA KillMemberStep ==
    ASSUME MvarInv, Inv', NEW p \in Slots, kill_member(p)
    PROVE  MInv' /\ PlaceStep
<1>1. /\ InTeam(p) /\ procs[p].pid # 0 /\ sems' = ksem_remove_waiters_for(p)
      /\ Gone({p} \cup {}) /\ UNCHANGED <<handles, ctx>> /\ prog' = [prog EXCEPT ![p] = NoProg]
  BY DEF kill_member, proc_kill, Live, InTeam
<1>2. {p} \cup {} = {p}
  OBVIOUS
<1>3. Gone({p})
  BY <1>1, <1>2
<1>4. \A s \in Sems : /\ sems'[s].used = sems[s].used /\ sems'[s].unlinked = sems[s].unlinked
                      /\ sems'[s].name = sems[s].name /\ sems'[s].count = sems[s].count
                      /\ Members(sems'[s].waiters) = Members(sems[s].waiters) \ {p}
                      /\ Distinct(sems'[s].waiters)
                      /\ ~sems[s].used => sems'[s] = Freed
  BY <1>1, RemovedFromAll
<1>5. QED
  BY <1>1, <1>3, <1>4, EndStep

\* A writer or a reader without its semaphores exits.
LEMMA GiveUpStep ==
    ASSUME MvarInv, Inv', NEW p \in Slots, give_up(p)
    PROVE  MInv' /\ PlaceStep
<1>0. Types /\ Sensible(p) /\ prog[p] \in ProgRec
  BY DEF MvarInv, MInv, Inv, ProgTypes
<1>1. /\ prog[p].pc = "close" /\ prog[p].role # "shell" /\ proc_exit(p, {}) /\ ctx' = ctx
      /\ prog' = [prog EXCEPT ![p] = NoProg]
  BY DEF give_up, Closed
<1>2. InTeam(p)
  <2>1. prog[p].role \in {"none", "shell", "writer", "reader"}
    BY <1>0 DEF ProgRec
  <2>2. prog[p].role # "none"
    BY <1>0, <1>1, NoProgType DEF Sensible
  <2>3. QED
    BY <1>1, <2>1, <2>2 DEF InTeam
<1>3. /\ procs[p].pid # 0 /\ Gone({p} \cup {})
      /\ sems' = [s \in Sems |-> ksem_close(ksem_remove_waiters_for(p)[s], Cardinality(Owned(p, s)))]
      /\ handles' = sem_cleanup_process_handles(p)
  BY <1>1 DEF proc_exit, InUserland, CanRun
<1>4. {p} \cup {} = {p}
  OBVIOUS
<1>5. Gone({p})
  BY <1>3, <1>4
<1>6. \A h \in Handles : handles[h].owner # procs[p].pid => handles'[h] = handles[h]
  BY <1>3 DEF sem_cleanup_process_handles
<1>7. ASSUME NEW s \in Sems
      PROVE  /\ sems'[s].used = sems[s].used /\ sems'[s].unlinked = sems[s].unlinked
             /\ sems'[s].name = sems[s].name /\ sems'[s].count = sems[s].count
             /\ Members(sems'[s].waiters) = Members(sems[s].waiters) \ {p}
             /\ Distinct(sems'[s].waiters)
             /\ ~sems[s].used => sems'[s] = Freed
  <2> DEFINE r == ksem_remove_waiters_for(p)[s]
             n == Cardinality(Owned(p, s))
             c == ksem_close(r, n)
  <2>1. n \in Nat
    BY HandlesFinite DEF Owned
  <2>2. /\ r \in SemRec
        /\ r.used = sems[s].used /\ ~r.unlinked /\ r.unlinked = sems[s].unlinked
        /\ r.name = sems[s].name /\ r.count = sems[s].count
        /\ Members(r.waiters) = Members(sems[s].waiters) \ {p} /\ Distinct(r.waiters)
        /\ ~sems[s].used => r = Freed
    BY RemovedFromAll
  <2> HIDE DEF r, n
  <2>3. /\ c.used = r.used /\ c.name = r.name /\ c.count = r.count
        /\ c.unlinked = r.unlinked /\ c.waiters = r.waiters
    BY <2>1, <2>2, CloseKeeps
  <2>4. r = Freed => c = Freed
    BY DEF ksem_close, Freed
  <2> HIDE DEF c
  <2>5. sems'[s] = c
    BY <1>3 DEF c, r, n
  <2>6. QED
    BY <2>2, <2>3, <2>4, <2>5
<1>8. QED
  BY <1>1, <1>2, <1>3, <1>5, <1>6, <1>7, EndStep

\* Who is created has no handles, no value and nothing to create; a writer has its letter.
LEMMA MemberType ==
    ASSUME NEW m \in Member
    PROVE  /\ m \in ProgRec /\ m.role \in {"writer", "reader"} /\ m.pc = "open_empty"
           /\ m.empty = 0 /\ m.full = 0 /\ m.value = None /\ m.todo = <<>>
           /\ (m.role = "writer" => m.letter \in Letters)
<1>1. ASSUME NEW f \in ProgRec, NEW v \in Letters
      PROVE  LET a == [f EXCEPT !.role = "writer", !.pc = "open_empty", !.letter = v]
             IN  /\ a \in ProgRec /\ a.role = "writer" /\ a.pc = "open_empty" /\ a.letter = v
                 /\ a.empty = f.empty /\ a.full = f.full /\ a.value = f.value /\ a.todo = f.todo
  BY DEF ProgRec
<1>2. ASSUME NEW f \in ProgRec
      PROVE  LET a == [f EXCEPT !.role = "reader", !.pc = "open_empty"]
             IN  /\ a \in ProgRec /\ a.role = "reader" /\ a.pc = "open_empty"
                 /\ a.empty = f.empty /\ a.full = f.full /\ a.value = f.value /\ a.todo = f.todo
  BY DEF ProgRec
<1>3. \/ \E v \in Letters : m = [NoProg EXCEPT !.role = "writer", !.pc = "open_empty", !.letter = v]
      \/ m = [NoProg EXCEPT !.role = "reader", !.pc = "open_empty"]
  BY DEF Member
<1>4. CASE \E v \in Letters : m = [NoProg EXCEPT !.role = "writer", !.pc = "open_empty", !.letter = v]
  <2>1. PICK v \in Letters :
          m = [NoProg EXCEPT !.role = "writer", !.pc = "open_empty", !.letter = v]
    BY <1>4
  <2>2. /\ m \in ProgRec /\ m.role = "writer" /\ m.pc = "open_empty" /\ m.letter = v
        /\ m.empty = NoProg.empty /\ m.full = NoProg.full /\ m.value = NoProg.value
        /\ m.todo = NoProg.todo
    BY <1>1, <2>1, NoProgType
  <2>3. QED
    BY <2>2, NoProgType
<1>5. CASE m = [NoProg EXCEPT !.role = "reader", !.pc = "open_empty"]
  BY <1>2, <1>5, NoProgType
<1>6. QED
  BY <1>3, <1>4, <1>5

\* The shell creates the next writer or reader, or gives up.
LEMMA CreateNextStep ==
    ASSUME MvarInv, Inv', NEW p \in Slots, create_next(p)
    PROVE  MInv' /\ PlaceStep
<1>0. /\ prog \in [Slots -> ProgRec] /\ prog[p] \in ProgRec /\ Sensible(p) /\ ProgTypes
      /\ Lasting /\ SleepersQueue /\ Waits /\ Types /\ OwnHandles(p) /\ Pids /\ NobodyYet
  BY DEF MvarInv, MInv, ProgTypes, Inv
<1>1. PICK q \in Slots :
        /\ prog[p].pc = "close" /\ prog[p].todo # <<>> /\ ctx' = ctx
        /\ \/ /\ procs[q].pid = 0 /\ Create(q)
              /\ prog' = [prog EXCEPT ![p].todo = Tail(@), ![q] = Head(prog[p].todo)]
           \/ prog' = [prog EXCEPT ![p].todo = <<>>] /\ UNCHANGED vars
  <2> DEFINE free == {x \in Slots : procs[x].pid = 0}
  <2>1. free # {} => First(free) \in free
    BY FirstOfSome
  <2>2. QED
    BY <2>1 DEF create_next, Closed
<1>2. prog[p].role = "shell" /\ p = First(Slots) /\ procs[p].pid # 0 /\ procs[p].at = None
  <2>1. prog[p].role = "shell"
    BY <1>0, <1>1 DEF Sensible
  <2>2. QED
    BY <1>0, <2>1 DEF Sensible, Waits, InTeam
<1>3. ctx.in_use /\ ~NotStarted
  <2>1. ctx.in_use
    BY <1>0, <1>1 DEF NobodyYet
  <2>2. \A x \in Slots \ {p} : prog[x].role # "shell"
    BY <1>2 DEF MvarInv, MInv, Sensible
  <2>3. QED
    BY <1>1, <2>1, <2>2 DEF NotStarted
<1>4. /\ Head(prog[p].todo) \in Member /\ Tail(prog[p].todo) \in Seq(Member)
      /\ <<>> \in Seq(Member)
  BY <1>0, <1>1, EmptySeq, HeadTailProperties DEF ProgRec
<1>5. CASE procs[q].pid = 0 /\ Create(q)
           /\ prog' = [prog EXCEPT ![p].todo = Tail(@), ![q] = Head(prog[p].todo)]
  <2> DEFINE r == [prog[p] EXCEPT !.todo = Tail(prog[p].todo)]
  <2>1. q # p /\ prog[q] = NoProg
    BY <1>2, <1>5, NoProgType DEF MvarInv, MInv, Sensible
  <2>2. PICK m \in Member : m = Head(prog[p].todo)
    BY <1>4
  <2>3. /\ m \in ProgRec /\ m.role \in {"writer", "reader"} /\ m.pc = "open_empty"
        /\ m.empty = 0 /\ m.full = 0 /\ m.value = None /\ m.todo = <<>>
        /\ (m.role = "writer" => m.letter \in Letters)
    BY MemberType
  <2>4. prog' = [[prog EXCEPT ![p] = r] EXCEPT ![q] = m]
    BY <1>0, <1>5, <2>1, <2>2
  <2>5. /\ r \in ProgRec /\ r.role = prog[p].role /\ r.pc = "close" /\ r.value = prog[p].value
        /\ r.empty = prog[p].empty /\ r.full = prog[p].full
    BY <1>0, <1>1, <1>4 DEF ProgRec
  <2> HIDE DEF r
  <2>6. /\ prog'[p] = r /\ prog'[q] = m /\ prog' \in [Slots -> ProgRec]
        /\ \A x \in Slots \ {p, q} : prog'[x] = prog[x]
    BY <1>0, <2>1, <2>3, <2>4, <2>5
  <2>7. /\ \A x \in Slots \ {q} : procs'[x] = procs[x]
        /\ procs'[q].pid = next_pid /\ next_pid # 0 /\ procs'[q].at = None
        /\ UNCHANGED <<sems, handles>>
    BY <1>0, <1>5 DEF Create, Types, Pids, NoProc
  <2>8. Sensible(p)' /\ OwnHandles(p)'
    BY <1>0, <1>1, <1>2, <2>1, <2>5, <2>6, <2>7 DEF Sensible, InTeam, OwnHandles
  <2>9. Sensible(q)' /\ OwnHandles(q)'
    BY <2>3, <2>6, <2>7 DEF Sensible, InTeam, OwnHandles
  <2>10. ASSUME NEW x \in Slots \ {p, q} PROVE Sensible(x)' /\ OwnHandles(x)'
    BY <2>6, <2>7, OtherPrograms
  <2>11. ProgTypes' /\ Lasting'
    BY <1>0, <1>1, <2>6, <2>7 DEF ProgTypes, Lasting
  <2>12. SleepersQueue'
    BY <1>0, <1>5, <2>7 DEF SleepersQueue, Live
  <2>13. \A x \in Slots \ {q} : Asleep(x)' <=> Asleep(x)
    BY <2>7 DEF Asleep, SleepsOn, Waiting
  <2>14. Waits'
    BY <1>0, <1>2, <2>6, <2>7 DEF Waits, InTeam
  <2>15. /\ ~Holds(p)' /\ ~Fills(p)' /\ ~Fills(p) /\ ~Holds(q)' /\ ~Fills(q)' /\ ~Fills(q)
         /\ \A x \in Slots \ {p, q} : (Holds(x)' <=> Holds(x)) /\ (Fills(x)' <=> Fills(x))
    BY <1>1, <2>1, <2>3, <2>5, <2>6, <2>13, NoProgType DEF Holds, Fills, Is, InTeam
  <2>16. OneUnit'
    BY <2>7, <2>15, SameUnits
  <2>17. ~NotStarted' /\ ctx'.in_use
    BY <1>1, <1>3, <2>3, <2>5, <2>6 DEF NotStarted
  <2>18. NobodyYet'
    BY <2>17 DEF NobodyYet
  <2>19. Box' = Box
    BY <1>1, <2>7, <2>11, <2>15, SameBox
  <2>20. Got' = Got
    <3>1. \A x \in Slots : prog'[x].value = prog[x].value
      BY <2>1, <2>3, <2>5, <2>6, NoProgType
    <3>2. QED
      BY <3>1 DEF Got
  <2>21. QED
    BY <2>8, <2>9, <2>10, <2>11, <2>12, <2>14, <2>16, <2>18, <2>19, <2>20 DEF MInv, PlaceStep
<1>6. CASE prog' = [prog EXCEPT ![p].todo = <<>>] /\ UNCHANGED vars
  <2> DEFINE r == [prog[p] EXCEPT !.todo = <<>>]
  <2>1. prog' = [prog EXCEPT ![p] = r]
    BY <1>0, <1>6
  <2>2. /\ r \in ProgRec /\ r.role = prog[p].role /\ r.pc = "close" /\ r.value = prog[p].value
        /\ r.empty = prog[p].empty /\ r.full = prog[p].full
    BY <1>0, <1>1, <1>4 DEF ProgRec
  <2> HIDE DEF r
  <2>3. prog'[p] = r /\ \A x \in Slots \ {p} : prog'[x] = prog[x]
    BY <1>0, <2>1
  <2>4. Sensible(p)'
    BY <1>0, <1>1, <1>2, <1>6, <2>2, <2>3 DEF Sensible, InTeam, vars
  <2>5. /\ ProgTypes' /\ Lasting' /\ SleepersQueue' /\ Waits'
        /\ \A x \in Slots : Sensible(x)' /\ OwnHandles(x)'
        /\ \A x \in Slots \ {p} : (Holds(x)' <=> Holds(x)) /\ (Fills(x)' <=> Fills(x))
    BY <1>0, <1>1, <1>2, <1>6, <2>1, <2>2, <2>4, ProgramStep DEF ProgTypes
  <2>6. ~Holds(p)' /\ ~Fills(p)' /\ ~Fills(p)
    BY <1>1, <2>2, <2>3 DEF Holds, Fills, Is
  <2>7. OneUnit'
    BY <1>6, <2>5, <2>6, SameUnits DEF vars
  <2>8. ~NotStarted' /\ ctx'.in_use
    BY <1>1, <1>3, <2>2, <2>3 DEF NotStarted
  <2>9. NobodyYet'
    BY <2>8 DEF NobodyYet
  <2>10. Box' = Box
    BY <1>1, <1>6, <2>5, <2>6, SameBox DEF vars
  <2>11. Got' = Got
    BY <2>2, <2>3 DEF Got
  <2>12. QED
    BY <2>5, <2>7, <2>9, <2>10, <2>11 DEF MInv, PlaceStep
<1>7. QED
  BY <1>1, <1>5, <1>6

-----------------------------------------------------------------------------
(* The refinement *)

\* At the prompt, with no semaphore: the place is empty.
LEMMA MvarStart == MvarInit => Inv /\ MInv /\ Place!Init
<1> SUFFICES ASSUME MvarInit PROVE Inv /\ MInv /\ Place!Init
  OBVIOUS
<1>0. /\ Init /\ ctx = [in_use |-> FALSE, value |-> None]
      /\ prog = [p \in Slots |-> IF procs[p].pid = 1
                                 THEN [NoProg EXCEPT !.role = "shell", !.pc = "prompt"]
                                 ELSE NoProg]
      /\ procs[First(Slots)].pid = 1
  BY DEF MvarInit
<1>1. Inv
  BY <1>0, InitInv
<1>2. PICK p \in Slots : procs = [q \in Slots |-> IF q = p THEN [NoProc EXCEPT !.pid = 1] ELSE NoProc]
  BY <1>0 DEF Init
<1>3. First(Slots) \in Slots
  BY FirstOfSome, MvarAssumption
<1>4. /\ \A q \in Slots : procs[q].pid = (IF q = p THEN 1 ELSE 0) /\ procs[q].at = None
      /\ p = First(Slots)
  BY <1>0, <1>2, <1>3 DEF NoProc
<1> DEFINE sh == [NoProg EXCEPT !.role = "shell", !.pc = "prompt"]
<1>5. /\ sh \in ProgRec /\ sh.role = "shell" /\ sh.pc = "prompt" /\ sh.value = None
      /\ sh.empty = 0 /\ sh.full = 0 /\ sh.todo = <<>>
  <2>1. \A f \in ProgRec : LET a == [f EXCEPT !.role = "shell", !.pc = "prompt"]
                           IN  /\ a \in ProgRec /\ a.role = "shell" /\ a.pc = "prompt"
                               /\ a.value = f.value /\ a.empty = f.empty /\ a.full = f.full
                               /\ a.todo = f.todo
    BY DEF ProgRec
  <2>2. QED
    BY <2>1, NoProgType
<1> HIDE DEF sh
<1>6. \A q \in Slots : prog[q] = IF q = p THEN sh ELSE NoProg
  BY <1>0, <1>4 DEF sh
<1>7. prog = [q \in Slots |-> IF q = p THEN sh ELSE NoProg]
  BY <1>0, <1>4 DEF sh
<1>8. ProgTypes
  BY <1>0, <1>5, <1>7, NoProgType DEF ProgTypes
<1>9. \A q \in Slots : Sensible(q) /\ OwnHandles(q)
  BY <1>4, <1>5, <1>6, NoProgType DEF Sensible, OwnHandles, InTeam
<1>10. \A s \in Sems : sems[s] = Freed
  BY <1>0 DEF Init
<1>11. Freed.used = FALSE /\ Freed.waiters = <<>> /\ Freed.count = 0
  BY DEF Freed
<1>12. Lasting /\ SleepersQueue /\ Waits
  BY <1>4, <1>10, <1>11 DEF Lasting, SleepersQueue, Waits, Members, Distinct
<1>13. \A q \in Slots : ~InTeam(q) /\ ~Holds(q) /\ ~Fills(q)
  BY <1>5, <1>6, NoProgType DEF InTeam, Holds, Fills, Is
<1>14. sems["empty"].count = 0 /\ sems["full"].count = 0
  BY <1>10, <1>11, MvarAssumption
<1>15. OneUnit
  BY <1>13, <1>14 DEF OneUnit
<1>16. NobodyYet
  BY <1>5, <1>6, <1>13, <1>14, NoProgType DEF NobodyYet
<1>17. Box = <<>>
  BY <1>1, <1>12, <1>13, <1>14, ValueForm DEF Box
<1>18. Got = [q \in Slots |-> None]
  BY <1>5, <1>6, NoProgType DEF Got
<1>19. Place!Init
  BY <1>17, <1>18 DEF Place!Init, Box, Got
<1>20. QED
  BY <1>1, <1>8, <1>9, <1>12, <1>15, <1>16, <1>19 DEF MInv

\* Every step is a step of the place, or none.
LEMMA MvarSteps == MvarInv /\ [MvarNext]_mvars => MvarInv' /\ [Place!Next]_<<Box, Got>>
<1> SUFFICES ASSUME MvarInv, [MvarNext]_mvars PROVE MvarInv' /\ [Place!Next]_<<Box, Got>>
  OBVIOUS
<1>1. [Next]_vars
  BY MvarUsesSemaphores DEF mvars, vars
<1>2. Inv' /\ Enough'
  BY <1>1, NextInv, SituationStays DEF MvarInv, Enough
<1>3. CASE UNCHANGED mvars
  <2>1. UNCHANGED <<sems, handles, procs, next_pid, due, may, prog, ctx>>
    BY <1>3 DEF mvars
  <2>2. \A p \in Slots : (Asleep(p)' <=> Asleep(p)) /\ (InTeam(p)' <=> InTeam(p))
    BY <2>1 DEF Asleep, SleepsOn, Waiting, InTeam
  <2>3. \A p \in Slots : (Holds(p)' <=> Holds(p)) /\ (Fills(p)' <=> Fills(p))
    BY <2>1, <2>2 DEF Holds, Fills, Is
  <2>4. \A p \in Slots : Sensible(p)' /\ OwnHandles(p)'
    BY <2>1, OtherPrograms
  <2>5. ProgTypes' /\ Lasting' /\ SleepersQueue' /\ Waits'
    BY <2>1, <2>2 DEF MvarInv, MInv, ProgTypes, Lasting, SleepersQueue, Waits, Live
  <2>6. OneUnit'
    BY <2>1, <2>3, SameUnits
  <2>7. NotStarted' => NotStarted
    BY <2>1 DEF NotStarted
  <2>8. NobodyYet'
    BY <2>1, <2>2, <2>7, NobodyFrame
  <2>9. Box' = Box
    BY <1>2, <2>1, <2>3, <2>5, SameBox
  <2>10. Got' = Got
    BY <2>1 DEF Got
  <2>11. QED
    BY <1>2, <2>4, <2>5, <2>6, <2>8, <2>9, <2>10 DEF MvarInv, MInv
<1>4. ASSUME MvarNext PROVE MInv' /\ PlaceStep
  <2>1. PICK p \in Slots : Step(p) \/ kill_member(p) \/ take_handle(p)
    BY <1>4 DEF MvarNext
  <2>2. CASE wait(p)
    <3>1. handles[WaitsFor(p)].sem \in Sems
      BY <2>2, RoleSemaphores DEF wait
    <3>2. QED
      BY <1>2, <2>2, <3>1, TakeUnitStep, FallAsleepStep
  <2>3. CASE post(p)
    <3>1. handles[Posts(p)].sem \in Sems
      BY <2>3, RoleSemaphores DEF post
    <3>2. QED
      BY <1>2, <2>3, <3>1, HandOverStep
  <2>4. CASE mvar_start(p) \/ launched(p) \/ write_value(p) \/ read_value(p) \/ print_value(p)
    BY <2>4, StartStep, LaunchedStep, WriteStep, ReadStep, PrintStep
  <2>5. CASE open_empty(p) \/ open_full(p) \/ close_handle(p) \/ take_handle(p)
    BY <1>2, <2>5, OpenEmptyStep, OpenFullStep, CloseHandleStep, TakeHandleStep
  <2>6. CASE give_up(p) \/ kill_member(p) \/ create_next(p) \/ wait_returns(p)
    BY <1>2, <2>6, GiveUpStep, KillMemberStep, CreateNextStep, ReturnStep
  <2>7. QED
    BY <2>1, <2>2, <2>3, <2>4, <2>5, <2>6 DEF Step
<1>5. QED
  BY <1>2, <1>3, <1>4 DEF MvarInv, PlaceStep

\* The two semaphores of mvar.c make a place for one value as long as there is memory for
\* whoever waits: no writer overwrites a value that nobody has read, no value is read twice
\* or before it was written, for any number of writers, readers and handles, whoever cannot
\* start or is killed.
THEOREM MvarIsOnePlace == MvarSpec => ImplementsOnePlace
<1> DEFINE J == Enough => MvarInv
<1>1. MvarInit => J /\ Place!Init
  BY MvarStart DEF MvarInv
<1>2. J /\ [MvarNext]_mvars => J' /\ [("no_memory" \notin may) => Place!Next]_<<Box, Got>>
  <2> SUFFICES ASSUME J, [MvarNext]_mvars
               PROVE  J' /\ [("no_memory" \notin may) => Place!Next]_<<Box, Got>>
    OBVIOUS
  <2>1. CASE Enough
    BY <2>1, MvarSteps
  <2>2. CASE ~Enough
    <3>1. [Next]_vars
      BY MvarUsesSemaphores DEF mvars, vars
    <3>2. ~Enough'
      BY <2>2, <3>1, SituationStays DEF Enough
    <3>3. QED
      BY <2>2, <3>2 DEF Enough
  <2>3. QED
    BY <2>1, <2>2
<1> HIDE DEF J
<1>3. QED
  BY <1>1, <1>2, PTL DEF MvarSpec, ImplementsOnePlace
=============================================================================
