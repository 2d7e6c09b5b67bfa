--------------------------- MODULE CothreadProofs ---------------------------
(***************************************************************************)
(* Proofs about the cothread runtime, for every pool size and every set of *)
(* semaphores.                                                             *)
(***************************************************************************)
EXTENDS Cothread, Lemmas, TLAPS

StateOf == {"not_active", "blocked", "ready", "running"}
Link == Handle \cup {Null}
SemOf == [set : {"yes", "no"}, head : Link, tail : Link]

-----------------------------------------------------------------------------
(* What an update of a semaphore leaves it.                                *)

\* Both ends of a semaphore's list of waiters set, as block_running and
\* signal set them.
LEMMA SemEnds ==
    ASSUME NEW f \in [Semaphore -> SemOf], NEW s \in Semaphore, NEW a \in Link, NEW b \in Link
    PROVE  [f EXCEPT ![s].head = a, ![s].tail = b] \in [Semaphore -> SemOf]
  BY Zenon DEF SemOf

-----------------------------------------------------------------------------
(* How the queue operations keep "queue lists exactly the handles in k".   *)

\* Queueing a handle as it enters the state.
LEMMA ListsAppend ==
    ASSUME NEW q \in Seq(Handle), NEW st \in [Handle -> StateOf], NEW k \in StateOf,
           NEW h \in Handle, Lists(q, st, k), st[h] # k
    PROVE  Lists(Append(q, h), [st EXCEPT ![h] = k], k)
  BY DEF Lists

\* Taking the first entry out as it leaves the state.
LEMMA ListsPop ==
    ASSUME NEW q \in Seq(Handle), NEW st \in [Handle -> StateOf], NEW k \in StateOf,
           NEW k2 \in StateOf, k2 # k, Lists(q, st, k), q # << >>
    PROVE  /\ q[1] \in Handle /\ st[q[1]] = k
           /\ SubSeq(q, 2, Len(q)) \in Seq(Handle)
           /\ Lists(SubSeq(q, 2, Len(q)), [st EXCEPT ![q[1]] = k2], k)
<1> DEFINE r == SubSeq(q, 2, Len(q))
<1>1. Len(q) \in Nat /\ Len(q) >= 1 /\ \A i \in 1 .. Len(q) : q[i] \in Handle
  OBVIOUS
<1>2. r \in Seq(Handle) /\ Len(r) = Len(q) - 1 /\ \A i \in 1 .. Len(r) : r[i] = q[i + 1]
  <2>1. Tail(q) \in Seq(Handle) /\ Len(Tail(q)) = Len(q) - 1
        /\ \A i \in 1 .. Len(Tail(q)) : Tail(q)[i] = q[i + 1]
    BY Popped
  <2>2. r = Tail(q)
    BY TailSlice
  <2> QED BY <2>1, <2>2, Zenon
<1>3. q[1] \in Handle /\ st[q[1]] = k
  BY <1>1 DEF Lists
<1>. HIDE DEF r
<1>4. \A i \in 1 .. Len(r) : [st EXCEPT ![q[1]] = k2][r[i]] = k
  BY <1>1, <1>2, <1>3 DEF Lists
<1>5. ASSUME NEW h \in Handle, [st EXCEPT ![q[1]] = k2][h] = k
      PROVE  \E i \in 1 .. Len(r) : r[i] = h
  <2>1. h # q[1] /\ st[h] = k BY <1>3, <1>5
  <2>2. PICK i \in 1 .. Len(q) : q[i] = h BY <2>1 DEF Lists
  <2>3. i - 1 \in 1 .. Len(r) /\ r[i - 1] = h BY <1>1, <1>2, <2>1, <2>2
  <2> QED BY <2>3
<1>6. \A i, j \in 1 .. Len(r) : r[i] = r[j] => i = j
  BY <1>1, <1>2 DEF Lists
<1>7. Lists(r, [st EXCEPT ![q[1]] = k2], k)
  BY <1>4, <1>5, <1>6 DEF Lists
<1> QED BY <1>2, <1>3, <1>7 DEF r

\* Removing any entry as it leaves the state.
LEMMA ListsWithout ==
    ASSUME NEW q \in Seq(Handle), NEW st \in [Handle -> StateOf], NEW k \in StateOf,
           NEW k2 \in StateOf, k2 # k, NEW h \in Handle, Lists(q, st, k), st[h] = k
    PROVE  /\ Without(q, h) \in Seq(Handle)
           /\ Lists(Without(q, h), [st EXCEPT ![h] = k2], k)
<1> DEFINE at == CHOOSE i \in 1 .. Len(q) : q[i] = h
           r == [j \in 1 .. Len(q) - 1 |-> IF j < at THEN q[j] ELSE q[j + 1]]
<1>1. Len(q) \in Nat /\ \A i \in 1 .. Len(q) : q[i] \in Handle
  OBVIOUS
<1>2. \E i \in 1 .. Len(q) : q[i] = h
  BY DEF Lists
<1>3. at \in 1 .. Len(q) /\ q[at] = h
  BY <1>2
<1>4. Without(q, h) = r
  BY <1>2 DEF Without
<1>. HIDE DEF at
<1>5. r \in Seq(Handle) /\ Len(r) = Len(q) - 1
  BY <1>1, <1>3
<1>6. \A j \in 1 .. Len(r) : r[j] = IF j < at THEN q[j] ELSE q[j + 1]
  BY <1>5
<1>. HIDE DEF r
<1>7. ASSUME NEW j \in 1 .. Len(r), r[j] = h PROVE FALSE
  <2>1. CASE j < at BY <1>1, <1>3, <1>5, <1>6, <1>7, <2>1 DEF Lists
  <2>2. CASE j >= at
    <3>1. q[j + 1] = h /\ j + 1 \in 1 .. Len(q) BY <1>1, <1>3, <1>5, <1>6, <1>7, <2>2
    <3> QED BY <1>3, <2>2, <3>1 DEF Lists
  <2> QED BY <1>3, <1>5, <2>1, <2>2
<1>8. \A i \in 1 .. Len(r) : [st EXCEPT ![h] = k2][r[i]] = k
  BY <1>1, <1>3, <1>5, <1>6, <1>7 DEF Lists
<1>9. ASSUME NEW g \in Handle, [st EXCEPT ![h] = k2][g] = k
      PROVE  \E i \in 1 .. Len(r) : r[i] = g
  <2>1. g # h /\ st[g] = k BY <1>9
  <2>2. PICK i \in 1 .. Len(q) : q[i] = g BY <2>1 DEF Lists
  <2>3. CASE i < at BY <1>1, <1>3, <1>5, <1>6, <2>2, <2>3
  <2>4. CASE i > at
    <3>1. i - 1 \in 1 .. Len(r) /\ r[i - 1] = g BY <1>1, <1>3, <1>5, <1>6, <2>2, <2>4
    <3> QED BY <3>1
  <2> QED BY <1>3, <2>1, <2>2, <2>3, <2>4
<1>10. ASSUME NEW i \in 1 .. Len(r), NEW j \in 1 .. Len(r), r[i] = r[j] PROVE i = j
  <2> DEFINE f(x) == IF x < at THEN x ELSE x + 1
  <2>1. f(i) \in 1 .. Len(q) /\ f(j) \in 1 .. Len(q) /\ q[f(i)] = q[f(j)]
    BY <1>1, <1>3, <1>5, <1>6, <1>10
  <2>2. f(i) = f(j) BY <2>1 DEF Lists
  <2> QED BY <1>3, <1>5, <2>2
<1>11. Lists(r, [st EXCEPT ![h] = k2], k)
  BY <1>8, <1>9, <1>10 DEF Lists
<1> QED BY <1>4, <1>5, <1>11

\* A handle that is in another state before and after leaves the list alone.
LEMMA ListsFrame ==
    ASSUME NEW q \in Seq(Handle), NEW st \in [Handle -> StateOf], NEW k \in StateOf,
           NEW k2 \in StateOf, k2 # k, NEW h \in Handle, Lists(q, st, k), st[h] # k
    PROVE  Lists(q, [st EXCEPT ![h] = k2], k)
  BY DEF Lists

-----------------------------------------------------------------------------
(* The inductive invariant.                                                *)

\* With every queued cothread ready, take_next takes the first entry.
LEMMA TakeFirst ==
    ASSUME NEW q \in Seq(Handle), NEW st \in [Handle -> StateOf],
           Lists(q, st, "ready"), q # << >>, TakeNext(q, st)
    PROVE  SwitchTo(q[1], SubSeq(q, 2, Len(q)), st)
<1>1. Len(q) \in Nat /\ Len(q) >= 1
  OBVIOUS
<1>2. Takeable(q, st) = 1 .. Len(q)
  BY DEF Takeable, Lists
<1>3. PICK i \in 1 .. Len(q) : /\ \A j \in 1 .. Len(q) : i <= j
                               /\ SwitchTo(q[i], SubSeq(q, i + 1, Len(q)), st)
  BY <1>1, <1>2 DEF TakeNext
<1>4. i = 1
  BY <1>1, <1>3
<1> QED
  BY <1>3, <1>4

\* Every conjunct is needed: a signal may only wake a blocked cothread that no
\* queue lists (Pointers), and a switch relies on the queue listing ready ones.
IInv == TypeOK /\ OneRunning /\ Queues /\ RootQueued /\ Pointers

\* The part of the invariant a switch has to establish, for a new state function
\* st in which the switching cothread no longer runs.
LEMMA SwitchKeeps ==
    ASSUME TypeOK, NEW q \in Seq(Handle), NEW st \in [Handle -> StateOf],
           Lists(q, st, "ready"), q # << >>,
           \A h \in Handle : st[h] # "running",
           st[Root] = "ready",
           NEW f \in Seq(Handle), Lists(f, st, "not_active"), free' = f,
           TakeNext(q, st)
    PROVE  /\ running' \in Handle /\ state' \in [Handle -> StateOf] /\ sched' \in Seq(Handle)
           /\ OneRunning' /\ Queues' /\ RootQueued'
           /\ \A h \in Handle : state'[h] = "blocked" <=> st[h] = "blocked"
<1> DEFINE h == q[1]
           r == SubSeq(q, 2, Len(q))
<1>1. SwitchTo(h, r, st)
  BY TakeFirst
<1>2. /\ h \in Handle /\ st[h] = "ready" /\ r \in Seq(Handle)
      /\ Lists(r, [st EXCEPT ![h] = "running"], "ready")
  BY ListsPop, Zenon DEF StateOf
<1>3. Lists(f, [st EXCEPT ![h] = "running"], "not_active")
  BY <1>2, ListsFrame, Zenon DEF StateOf
<1>. HIDE DEF h, r
<1>4. /\ running' = h /\ sched' = r /\ state' = [st EXCEPT ![h] = "running"]
  BY <1>1, <1>2 DEF SwitchTo, TypeOK
<1>5. state' \in [Handle -> StateOf]
  BY <1>4 DEF StateOf
<1>6. OneRunning'
  BY <1>2, <1>4 DEF OneRunning
<1>7. RootQueued'
  BY <1>2, <1>4, CothreadAssumption DEF RootQueued, Root, Handle
<1>8. Queues'
  BY <1>2, <1>3, <1>4 DEF Queues, Lists
<1>9. \A g \in Handle : state'[g] = "blocked" <=> st[g] = "blocked"
  BY <1>2, <1>4
<1> QED
  BY <1>2, <1>4, <1>5, <1>6, <1>7, <1>8, <1>9

\* The pointers depend on the states only through "blocked".
LEMMA PointersFrame ==
    ASSUME TypeOK, Pointers, next_blocked' = next_blocked, sem' = sem,
           \A h \in Handle : state[h] = "blocked" => state'[h] = "blocked"
    PROVE  Pointers'
  BY DEF TypeOK, Pointers

\* The state that microkit_cothread_init leaves satisfies the invariant.
LEMMA InitHolds == Init => IInv
<1> SUFFICES ASSUME Init PROVE IInv
  OBVIOUS
<1> USE CothreadAssumption DEF Root, Null, Handle
<1>1. TypeOK BY DEF Init, TypeOK
<1>2. OneRunning /\ RootQueued BY DEF Init, OneRunning, RootQueued
<1>3. Lists(sched, state, "ready") BY DEF Init, Lists
<1>4. Lists(free, state, "not_active")
  <2>1. free \in Seq(Handle) /\ Len(free) = MaxCothreads - 1
        /\ \A i \in 1 .. Len(free) : free[i] = i
    <3>1. free \in Seq(Handle) BY <1>1 DEF TypeOK
    <3>2. DOMAIN free = 1 .. MaxCothreads - 1 /\ \A i \in DOMAIN free : free[i] = i BY DEF Init
    <3>3. Len(free) \in Nat /\ DOMAIN free = 1 .. Len(free) BY <3>1, Elements
    <3>4. MaxCothreads - 1 = Len(free) BY <3>2, <3>3, MaxCothreads - 1 \in Nat
    <3> QED BY <3>1, <3>2, <3>3, <3>4
  <2>2. \A h \in Handle : state[h] = IF h = 0 THEN "running" ELSE "not_active" BY DEF Init
  <2>3. \A i \in 1 .. Len(free) : state[free[i]] = "not_active" BY <2>1, <2>2
  <2>4. \A h \in Handle : state[h] = "not_active" => h \in 1 .. Len(free) /\ free[h] = h
    BY <2>1, <2>2
  <2> QED BY <2>1, <2>3, <2>4 DEF Lists
<1>5. Pointers BY DEF Init, Pointers
<1> QED BY <1>1, <1>2, <1>3, <1>4, <1>5 DEF IInv, Queues

\* microkit_cothread_spawn moves one handle from the free to the scheduling queue.
LEMMA SpawnKeeps == IInv /\ Spawn => IInv'
<1> SUFFICES ASSUME IInv, Spawn PROVE IInv'
  OBVIOUS
<1> USE DEF IInv
<1> DEFINE h == Head(free)
<1>1. state \in [Handle -> StateOf] /\ free \in Seq(Handle) /\ sched \in Seq(Handle)
  BY DEF TypeOK, StateOf
<1>2. h = free[1] /\ Tail(free) = SubSeq(free, 2, Len(free)) /\ free # << >>
  BY <1>1, TailSlice DEF Spawn
<1>3. /\ h \in Handle /\ state[h] = "not_active" /\ Tail(free) \in Seq(Handle)
      /\ Lists(Tail(free), [state EXCEPT ![h] = "ready"], "not_active")
  BY <1>1, <1>2, ListsPop, Zenon DEF StateOf, Queues
<1>4. Lists(Append(sched, h), [state EXCEPT ![h] = "ready"], "ready")
  BY <1>1, <1>3, ListsAppend, Zenon DEF StateOf, Queues
<1>. HIDE DEF h
<1>5. /\ free' = Tail(free) /\ state' = [state EXCEPT ![h] = "ready"]
      /\ next_blocked' = [next_blocked EXCEPT ![h] = Null] /\ sched' = Append(sched, h)
      /\ UNCHANGED <<running, sem>>
  BY DEF Spawn, h
<1>6. TypeOK'
  BY <1>1, <1>3, <1>5 DEF TypeOK
<1>7. OneRunning' /\ RootQueued'
  BY <1>1, <1>3, <1>5 DEF OneRunning, RootQueued
<1>8. Queues'
  BY <1>3, <1>4, <1>5 DEF Queues, Lists
<1>9. Pointers'
  BY <1>1, <1>3, <1>5 DEF Pointers, TypeOK, Null, Handle
<1> QED BY <1>6, <1>7, <1>8, <1>9

\* microkit_cothread_yield queues the caller and runs the first of the queue.
LEMMA YieldKeeps == IInv /\ Yield => IInv'
<1> SUFFICES ASSUME IInv, Yield PROVE IInv'
  OBVIOUS
<1> USE DEF IInv
<1> DEFINE st == [state EXCEPT ![running] = "ready"]
           q == Append(sched, running)
<1>1. /\ state \in [Handle -> StateOf] /\ free \in Seq(Handle) /\ sched \in Seq(Handle)
      /\ running \in Handle /\ state[running] = "running"
  BY DEF TypeOK, StateOf, OneRunning
<1>2. st \in [Handle -> StateOf] /\ q \in Seq(Handle) /\ q # << >>
  BY <1>1 DEF StateOf
<1>3. Lists(q, st, "ready")
  BY <1>1, ListsAppend, Zenon DEF StateOf, Queues
<1>4. Lists(free, st, "not_active")
  BY <1>1, ListsFrame, Zenon DEF StateOf, Queues
<1>5. (\A h \in Handle : st[h] # "running") /\ st[Root] = "ready"
  BY <1>1, CothreadAssumption DEF OneRunning, RootQueued, Root, Handle
<1>6. TakeNext(q, st) /\ free' = free /\ next_blocked' = next_blocked /\ sem' = sem
  BY DEF Yield
<1>7. \A h \in Handle : state[h] = "blocked" => st[h] = "blocked"
  BY <1>1
<1>. HIDE DEF st, q
<1>8. /\ running' \in Handle /\ state' \in [Handle -> StateOf] /\ sched' \in Seq(Handle)
      /\ OneRunning' /\ Queues' /\ RootQueued'
      /\ \A h \in Handle : state'[h] = "blocked" <=> st[h] = "blocked"
  BY <1>1, <1>2, <1>3, <1>4, <1>5, <1>6, SwitchKeeps
<1>9. Pointers'
  BY <1>6, <1>7, <1>8, PointersFrame
<1>10. TypeOK'
  BY <1>6, <1>8 DEF TypeOK, StateOf
<1> QED BY <1>8, <1>9, <1>10

\* A worker runs, so the root is ready and queued.
LEMMA RootReady ==
    ASSUME IInv, running # Root
    PROVE  state[Root] = "ready" /\ sched # << >>
<1>1. Root \in Handle BY CothreadAssumption DEF Root, Handle
<1>2. state[Root] = "ready" BY <1>1 DEF IInv, OneRunning, RootQueued
<1>3. \E i \in 1 .. Len(sched) : sched[i] = Root BY <1>1, <1>2 DEF IInv, Queues, Lists
<1> QED BY <1>2, <1>3

\* release frees a handle that is ready or running, and switches if it is running.
LEMMA DestroyKeeps ==
    ASSUME IInv, NEW h \in Handle, Destroy(h)
    PROVE  IInv'
<1> USE DEF IInv
<1> DEFINE st == [state EXCEPT ![h] = "not_active"]
           q == Without(sched, h)
           f == Append(free, h)
<1>1. /\ state \in [Handle -> StateOf] /\ free \in Seq(Handle) /\ sched \in Seq(Handle)
      /\ running \in Handle /\ h # Root /\ state[h] \in {"ready", "running"}
      /\ free' = f /\ next_blocked' = next_blocked /\ sem' = sem
  BY DEF TypeOK, StateOf, Destroy
<1>2. st \in [Handle -> StateOf] /\ f \in Seq(Handle)
  BY <1>1 DEF StateOf
<1>3. Lists(f, st, "not_active")
  BY <1>1, ListsAppend, Zenon DEF StateOf, Queues
<1>4. q \in Seq(Handle) /\ Lists(q, st, "ready")
  <2>1. CASE state[h] = "ready"
    BY <1>1, <2>1, ListsWithout, Zenon DEF StateOf, Queues
  <2>2. CASE state[h] = "running"
    <3>1. q = sched BY <1>1, <2>2 DEF Without, Queues, Lists
    <3>2. Lists(sched, st, "ready") BY <1>1, <2>2, ListsFrame DEF StateOf, Queues
    <3> QED BY <1>1, <3>1, <3>2
  <2> QED BY <1>1, <2>1, <2>2
<1>5. \A g \in Handle : state[g] = "blocked" <=> st[g] = "blocked"
  BY <1>1
<1>6. CASE h = running
  <2>1. TakeNext(q, st) BY <1>6 DEF Destroy
  <2>2. \A g \in Handle : st[g] # "running" BY <1>1, <1>6 DEF OneRunning
  <2>3. state[Root] = "ready" /\ Root \in Handle
    BY <1>1, <1>6, RootReady, CothreadAssumption DEF Root, Handle
  <2>4. st[Root] = "ready" BY <1>1, <2>3
  <2>5. q # << >>
    <3>1. \E i \in 1 .. Len(q) : q[i] = Root BY <1>4, <2>3, <2>4 DEF Lists
    <3> QED BY <1>4, <3>1
  <2>. HIDE DEF st, q, f
  <2>6. /\ running' \in Handle /\ state' \in [Handle -> StateOf] /\ sched' \in Seq(Handle)
        /\ OneRunning' /\ Queues' /\ RootQueued'
        /\ \A g \in Handle : state'[g] = "blocked" <=> st[g] = "blocked"
    BY <1>1, <1>2, <1>3, <1>4, <2>1, <2>2, <2>4, <2>5, SwitchKeeps
  <2>7. Pointers' BY <1>1, <1>5, <2>6, PointersFrame
  <2>8. TypeOK' BY <1>1, <1>2, <2>6 DEF TypeOK, StateOf
  <2> QED BY <2>6, <2>7, <2>8
<1>7. CASE h # running
  <2>1. state' = st /\ sched' = q /\ running' = running
    BY <1>7 DEF Destroy
  <2>2. OneRunning' /\ RootQueued'
    BY <1>1, <1>7, <2>1, CothreadAssumption DEF OneRunning, RootQueued, Root, Handle
  <2>3. Pointers' BY <1>1, <1>5, <2>1, PointersFrame
  <2>. HIDE DEF st, q, f
  <2>4. Queues' BY <1>1, <1>3, <1>4, <2>1 DEF Queues, Lists
  <2>5. TypeOK' BY <1>1, <1>2, <1>4, <2>1 DEF TypeOK, StateOf
  <2> QED BY <2>2, <2>3, <2>4, <2>5
<1> QED BY <1>6, <1>7

\* block_running links the caller, to which nothing points yet, and switches.
LEMMA BlockKeeps ==
    ASSUME IInv, NEW s \in Semaphore, Block(s)
    PROVE  IInv'
<1> USE DEF IInv
<1> DEFINE st == [state EXCEPT ![running] = "blocked"]
<1>1. /\ state \in [Handle -> StateOf] /\ free \in Seq(Handle) /\ sched \in Seq(Handle)
      /\ running \in Handle /\ running # Root /\ state[running] = "running" /\ free' = free
  BY DEF TypeOK, StateOf, OneRunning, Block
<1>2. st \in [Handle -> StateOf] /\ TakeNext(sched, st)
  BY <1>1 DEF StateOf, Block
<1>3. Lists(sched, st, "ready") /\ Lists(free, st, "not_active")
  BY <1>1, ListsFrame, Zenon DEF StateOf, Queues
<1>4. (\A h \in Handle : st[h] # "running") /\ st[Root] = "ready" /\ sched # << >>
  BY <1>1, RootReady, CothreadAssumption DEF OneRunning, Root, Handle
<1>5. /\ \A h \in Handle : state[h] = "blocked" => st[h] = "blocked"
      /\ st[running] = "blocked"
  BY <1>1
<1>. HIDE DEF st
<1>6. /\ running' \in Handle /\ state' \in [Handle -> StateOf] /\ sched' \in Seq(Handle)
      /\ OneRunning' /\ Queues' /\ RootQueued'
      /\ \A h \in Handle : state'[h] = "blocked" <=> st[h] = "blocked"
  BY <1>1, <1>2, <1>3, <1>4, SwitchKeeps
<1>7. /\ \A t \in Semaphore : sem[t].head # running
      /\ \A h \in Handle : next_blocked[h] # running
      /\ running # Null
  BY <1>1 DEF Pointers, Null, Handle
<1>8. CASE sem[s].head = Null
  <2>1. /\ sem' = [sem EXCEPT ![s].head = running, ![s].tail = running]
        /\ next_blocked' = [next_blocked EXCEPT ![running] = Null]
    BY <1>8 DEF Block
  <2>2. TypeOK'
    <3>1. sem \in [Semaphore -> SemOf] BY DEF TypeOK, SemOf, Link
    <3>2. running \in Link BY <1>1 DEF Link
    <3>3. sem' \in [Semaphore -> SemOf] BY <2>1, <3>1, <3>2, SemEnds, Zenon
    <3>4. next_blocked' \in [Handle -> Handle \cup {Null}] BY <1>1, <2>1 DEF TypeOK
    <3> QED BY <1>1, <1>6, <3>3, <3>4 DEF TypeOK, StateOf, SemOf, Link
  <2>3. Pointers' BY <1>1, <1>5, <1>6, <1>7, <1>8, <2>1 DEF Pointers, TypeOK
  <2> QED BY <1>6, <2>2, <2>3
<1>9. CASE sem[s].head # Null
  <2>1. /\ sem' = [sem EXCEPT ![s].tail = running]
        /\ next_blocked' = [next_blocked EXCEPT ![running] = Null, ![sem[s].tail] = running]
    BY <1>9 DEF Block
  <2>2. TypeOK' BY <1>1, <1>6, <2>1 DEF TypeOK, StateOf
  <2>3. \A t \in Semaphore : sem'[t].head = sem[t].head
    BY <2>1 DEF TypeOK
  <2>4. \A h \in Handle : next_blocked'[h] = IF h = sem[s].tail THEN running
                                             ELSE IF h = running THEN Null ELSE next_blocked[h]
    BY <1>1, <2>1 DEF TypeOK
  <2>5. \A h \in Handle : state[h] = "blocked" => state'[h] = "blocked"
    BY <1>5, <1>6
  <2>6. state'[running] = "blocked"
    BY <1>1, <1>5, <1>6
  <2>7. Pointers'
    <3>0. /\ \A h \in Handle : next_blocked[h] \in Handle \cup {Null}
          /\ \A t \in Semaphore : sem[t].head \in Handle \cup {Null}
      BY DEF TypeOK
    <3>1. \A t \in Semaphore : sem'[t].head # Null => state'[sem'[t].head] = "blocked"
      BY <3>0, <2>3, <2>5 DEF Pointers
    <3>2. \A h \in Handle : next_blocked'[h] # Null => state'[next_blocked'[h]] = "blocked"
      BY <3>0, <2>4, <2>5, <2>6 DEF Pointers
    <3>3. \A t, u \in Semaphore : sem'[t].head = sem'[u].head /\ sem'[t].head # Null => t = u
      BY <2>3 DEF Pointers
    <3>4. \A t \in Semaphore, h \in Handle : sem'[t].head # Null => sem'[t].head # next_blocked'[h]
      BY <1>7, <2>3, <2>4 DEF Pointers
    <3>5. \A g, h \in Handle : next_blocked'[g] = next_blocked'[h] /\ next_blocked'[g] # Null => g = h
      BY <1>7, <2>4 DEF Pointers
    <3> QED BY <3>1, <3>2, <3>3, <3>4, <3>5 DEF Pointers
  <2> QED BY <1>6, <2>2, <2>7
<1> QED BY <1>8, <1>9

\* signal_one unlinks the head waiter and runs it; the signaller is queued.
LEMMA SignalWakesKeeps ==
    ASSUME IInv, NEW s \in Semaphore, SignalWakes(s)
    PROVE  IInv'
<1> USE DEF IInv
<1> DEFINE head == sem[s].head
           st == [state EXCEPT ![running] = "ready"]
<1>1. /\ state \in [Handle -> StateOf] /\ free \in Seq(Handle) /\ sched \in Seq(Handle)
      /\ running \in Handle /\ state[running] = "running"
      /\ head \in Handle /\ state[head] = "blocked"
  BY DEF TypeOK, StateOf, OneRunning, SignalWakes, Pointers
<1>2. /\ sem' = [sem EXCEPT ![s].head = next_blocked[head],
                            ![s].tail = IF next_blocked[head] = Null THEN Null ELSE @]
      /\ next_blocked' = [next_blocked EXCEPT ![head] = Null]
      /\ running' = head /\ state' = [st EXCEPT ![head] = "running"]
      /\ sched' = Append(sched, running) /\ free' = free
  BY <1>1 DEF SignalWakes
<1>. HIDE DEF head
<1>3. st \in [Handle -> StateOf] /\ st[head] = "blocked" /\ sched' \in Seq(Handle)
  BY <1>1, <1>2 DEF StateOf
<1>4. Lists(sched', st, "ready") /\ Lists(free, st, "not_active")
  BY <1>1, <1>2, ListsAppend, ListsFrame, Zenon DEF StateOf, Queues
<1>. HIDE DEF st
<1>5. Lists(sched', state', "ready") /\ Lists(free, state', "not_active")
  BY <1>1, <1>2, <1>3, <1>4, ListsFrame DEF StateOf
<1>6. Queues' BY <1>2, <1>5 DEF Queues, Lists
<1>7. OneRunning' /\ RootQueued'
  <2>1. /\ Root \in Handle
        /\ \A h \in Handle : state'[h] = IF h = head THEN "running"
                                        ELSE IF h = running THEN "ready" ELSE state[h]
    BY <1>1, <1>2, <1>3, CothreadAssumption DEF st, Root, Handle
  <2> QED BY <1>1, <1>2, <2>1 DEF OneRunning, RootQueued
<1>8. TypeOK'
  <2>1. running' \in Handle /\ free' \in Seq(Handle)
    BY <1>1, <1>2 DEF TypeOK
  <2>2. state' \in [Handle -> StateOf] BY <1>2, <1>3 DEF StateOf
  <2>3. next_blocked' \in [Handle -> Handle \cup {Null}] BY <1>1, <1>2 DEF TypeOK
  <2>4. sem' \in [Semaphore -> [set : {"yes", "no"}, head : Handle \cup {Null},
                                tail : Handle \cup {Null}]]
    <3> DEFINE n == next_blocked[head]
               t == IF n = Null THEN Null ELSE sem[s].tail
    <3>1. n \in Handle \cup {Null} /\ t \in Handle \cup {Null} BY <1>1 DEF TypeOK
    <3>2. sem' = [sem EXCEPT ![s].head = n, ![s].tail = t] BY <1>2 DEF TypeOK
    <3>3. sem \in [Semaphore -> SemOf] BY DEF TypeOK, SemOf, Link
    <3>. HIDE DEF n, t
    <3>4. n \in Link /\ t \in Link BY <3>1 DEF Link
    <3>5. sem' \in [Semaphore -> SemOf] BY <3>2, <3>3, <3>4, SemEnds, Zenon
    <3> QED BY <3>5 DEF SemOf, Link
  <2> QED BY <1>3, <2>1, <2>2, <2>3, <2>4 DEF TypeOK, StateOf
<1>9. \A h \in Handle : h # head /\ state[h] = "blocked" => state'[h] = "blocked"
  BY <1>1, <1>2 DEF st
<1>10. Pointers'
  <2>0. /\ \A h \in Handle : next_blocked[h] \in Handle \cup {Null}
        /\ \A t \in Semaphore : sem[t].head \in Handle \cup {Null}
        /\ head = sem[s].head /\ head \in Handle /\ head # Null
    <3>1. head \in Handle /\ head # Null BY <1>1 DEF Null, Handle
    <3>2. head = sem[s].head BY DEF head
    <3>3. \A h \in Handle : next_blocked[h] \in Handle \cup {Null} BY DEF TypeOK
    <3>4. \A t \in Semaphore : sem[t].head \in Handle \cup {Null} BY DEF TypeOK
    <3> QED BY <3>1, <3>2, <3>3, <3>4
  <2>1. \A t \in Semaphore : sem'[t].head = IF t = s THEN next_blocked[head] ELSE sem[t].head
    BY <1>2 DEF TypeOK
  <2>2. \A h \in Handle : next_blocked'[h] = IF h = head THEN Null ELSE next_blocked[h]
    BY <1>1, <1>2 DEF TypeOK
  <2>3. \A t \in Semaphore : sem'[t].head # Null => state'[sem'[t].head] = "blocked"
    BY <2>0, <2>1, <1>9 DEF Pointers
  <2>4. \A h \in Handle : next_blocked'[h] # Null => state'[next_blocked'[h]] = "blocked"
    BY <2>0, <2>2, <1>9 DEF Pointers
  <2>5. \A t, u \in Semaphore : sem'[t].head = sem'[u].head /\ sem'[t].head # Null => t = u
    BY <2>0, <2>1 DEF Pointers
  <2>6. \A t \in Semaphore, h \in Handle : sem'[t].head # Null => sem'[t].head # next_blocked'[h]
    BY <2>0, <2>1, <2>2 DEF Pointers
  <2>7. \A g, h \in Handle : next_blocked'[g] = next_blocked'[h] /\ next_blocked'[g] # Null => g = h
    BY <2>0, <2>2 DEF Pointers
  <2> QED BY <2>3, <2>4, <2>5, <2>6, <2>7 DEF Pointers
<1> QED BY <1>6, <1>7, <1>8, <1>10

-----------------------------------------------------------------------------
\* Every call keeps the invariant.
LEMMA IInvKept == IInv /\ [Next]_vars => IInv'
<1> SUFFICES ASSUME IInv, [Next]_vars PROVE IInv'
  OBVIOUS
<1>1. CASE Spawn BY <1>1, SpawnKeeps
<1>2. CASE Yield BY <1>2, YieldKeeps
<1>3. ASSUME NEW h \in Handle, Destroy(h) PROVE IInv' BY <1>3, DestroyKeeps
<1>4. ASSUME NEW s \in Semaphore, Block(s) PROVE IInv' BY <1>4, BlockKeeps
<1>5. ASSUME NEW s \in Semaphore, SignalWakes(s) PROVE IInv' BY <1>5, SignalWakesKeeps
<1>6. ASSUME NEW s \in Semaphore, WaitSet(s) \/ SignalSticks(s) PROVE IInv'
  <2>1. /\ UNCHANGED <<running, state, next_blocked, free, sched>>
        /\ \E v \in {"yes", "no"} : sem' = [sem EXCEPT ![s].set = v]
    BY <1>6 DEF WaitSet, SignalSticks
  <2>2. sem \in [Semaphore -> SemOf]
    BY DEF IInv, TypeOK, SemOf, Link
  <2>3. sem' \in [Semaphore -> SemOf] /\ \A t \in Semaphore : sem'[t].head = sem[t].head
    <3>1. PICK v \in {"yes", "no"} : sem' = [sem EXCEPT ![s].set = v]
      BY <2>1, Zenon
    <3>2. sem' \in [Semaphore -> SemOf] BY <3>1, <2>2 DEF SemOf
    <3>3. \A t \in Semaphore : sem'[t].head = sem[t].head BY <3>1, <2>2 DEF SemOf
    <3> QED BY <3>2, <3>3
  <2>4. TypeOK' BY <2>1, <2>3 DEF IInv, TypeOK, SemOf, Link
  <2>5. Pointers' BY <2>1, <2>3 DEF IInv, Pointers
  <2>6. OneRunning' /\ Queues' /\ RootQueued'
    BY <2>1 DEF IInv, OneRunning, Queues, Lists, RootQueued
  <2> QED BY <2>4, <2>5, <2>6 DEF IInv
<1>7. CASE UNCHANGED vars
  BY <1>7 DEF IInv, TypeOK, OneRunning, Queues, Lists, RootQueued, Pointers, vars
<1> QED BY <1>1, <1>2, <1>3, <1>4, <1>5, <1>6, <1>7 DEF Next

\* Exactly one cothread is running, the scheduling queue lists the ready ones and
\* the free queue the inactive ones, each once, the root is always running or
\* queued, and no two list pointers lead to the same waiter: in every state of a
\* runtime of any size, whatever sequence of calls its cothreads make.
THEOREM CothreadsSafe == Spec => [](TypeOK /\ OneRunning /\ Queues /\ RootQueued /\ Pointers)
  BY InitHolds, IInvKept, PTL DEF Spec, IInv

-----------------------------------------------------------------------------
(* The lists of waiters.  What next_blocked links is recursive in the code   *)
(* and in Waiter; the proof carries the lists themselves, as sequences.      *)

\* lists holds the waiters of each semaphore, oldest first, as the code links
\* them: head and tail are its ends, and a sticky signal has no waiters beside it;
EndsAgree(lists) ==
  \A s \in Semaphore :
    /\ sem[s].head = IF Len(lists[s]) = 0 THEN Null ELSE lists[s][1]
    /\ sem[s].tail = IF Len(lists[s]) = 0 THEN Null ELSE lists[s][Len(lists[s])]
    /\ sem[s].set = "yes" => Len(lists[s]) = 0

\* next_blocked leads from each waiter to the next;
LinksAgree(lists) ==
  \A s \in Semaphore : \A i \in 1 .. Len(lists[s]) :
    next_blocked[lists[s][i]] = IF i = Len(lists[s]) THEN Null ELSE lists[s][i + 1]

\* exactly the blocked cothreads wait;
BlockedWait(lists) ==
  /\ \A s \in Semaphore : \A i \in 1 .. Len(lists[s]) : state[lists[s][i]] = "blocked"
  /\ \A h \in Handle : state[h] = "blocked" =>
       \E s \in Semaphore : \E i \in 1 .. Len(lists[s]) : lists[s][i] = h

\* and each in one place.
EachOnce(lists) ==
  \A s, t \in Semaphore : \A i \in 1 .. Len(lists[s]), j \in 1 .. Len(lists[t]) :
    lists[s][i] = lists[t][j] => s = t /\ i = j

Linked(lists) == EndsAgree(lists) /\ LinksAgree(lists) /\ BlockedWait(lists) /\ EachOnce(lists)

HasLists == \E lists \in [Semaphore -> Seq(Handle)] : Linked(lists)

\* NULL_HANDLE is no handle.
LEMMA NullApart == Null \notin Handle
  BY DEF Null, Handle

\* What the lists hold.
LEMMA ListsTyped ==
    ASSUME NEW lists \in [Semaphore -> Seq(Handle)]
    PROVE  \A s \in Semaphore : /\ lists[s] \in Seq(Handle) /\ Len(lists[s]) \in Nat
                                /\ \A i \in 1 .. Len(lists[s]) : lists[s][i] \in Handle
  OBVIOUS

\* A call that links and unlinks nobody keeps the lists.
LEMMA LinkedFrame ==
    ASSUME NEW lists \in [Semaphore -> Seq(Handle)], Linked(lists), sem' = sem,
           \A h \in Handle : state[h] = "blocked" <=> state'[h] = "blocked",
           \A h \in Handle : state[h] = "blocked" => next_blocked'[h] = next_blocked[h]
    PROVE  Linked(lists)'
<1>1. \A s \in Semaphore : \A i \in 1 .. Len(lists[s]) : lists[s][i] \in Handle
  BY ListsTyped
<1>2. EndsAgree(lists)' BY SMTT(20) DEF Linked, EndsAgree
<1>3. LinksAgree(lists)' BY <1>1 DEF Linked, LinksAgree, BlockedWait
<1>4. BlockedWait(lists)' BY <1>1 DEF Linked, BlockedWait
<1>5. EachOnce(lists)' BY DEF Linked, EachOnce
<1> QED BY <1>2, <1>3, <1>4, <1>5 DEF Linked

\* block_running blocks the caller and nobody else.
LEMMA BlockStates ==
    ASSUME IInv, NEW s \in Semaphore, Block(s)
    PROVE  /\ running \in Handle /\ state[running] = "running"
           /\ \A h \in Handle : state'[h] = "blocked" <=> state[h] = "blocked" \/ h = running
<1> USE DEF IInv
<1> DEFINE st == [state EXCEPT ![running] = "blocked"]
<1>1. /\ state \in [Handle -> StateOf] /\ free \in Seq(Handle) /\ sched \in Seq(Handle)
      /\ running \in Handle /\ running # Root /\ state[running] = "running" /\ free' = free
  BY DEF TypeOK, StateOf, OneRunning, Block
<1>2. st \in [Handle -> StateOf] /\ TakeNext(sched, st)
  BY <1>1 DEF StateOf, Block
<1>3. Lists(sched, st, "ready") /\ Lists(free, st, "not_active")
  BY <1>1, ListsFrame, Zenon DEF StateOf, Queues
<1>4. (\A h \in Handle : st[h] # "running") /\ st[Root] = "ready" /\ sched # << >>
  BY <1>1, RootReady, CothreadAssumption DEF OneRunning, Root, Handle
<1>5. \A h \in Handle : st[h] = "blocked" <=> state[h] = "blocked" \/ h = running
  BY <1>1
<1>. HIDE DEF st
<1>6. \A h \in Handle : state'[h] = "blocked" <=> st[h] = "blocked"
  BY <1>1, <1>2, <1>3, <1>4, SwitchKeeps
<1> QED BY <1>1, <1>5, <1>6

\* block_running puts the caller at the end of the list of its semaphore.
LEMMA BlockLinks ==
    ASSUME IInv, NEW lists \in [Semaphore -> Seq(Handle)], Linked(lists),
           NEW s \in Semaphore, Block(s)
    PROVE  HasLists'
<1> DEFINE n == Len(lists[s])
<1>1. /\ running \in Handle /\ state[running] = "running" /\ TypeOK /\ Null \notin Handle
      /\ \A h \in Handle : state'[h] = "blocked" <=> state[h] = "blocked" \/ h = running
  BY BlockStates, NullApart DEF IInv
<1>2. /\ \A t \in Semaphore : lists[t] \in Seq(Handle) /\ Len(lists[t]) \in Nat
      /\ \A t \in Semaphore : \A i \in 1 .. Len(lists[t]) :
           lists[t][i] \in Handle /\ lists[t][i] # running
  BY <1>1, ListsTyped DEF Linked, BlockedWait
<1>0. PICK new \in [Semaphore -> Seq(Handle)] : new = [lists EXCEPT ![s] = Append(@, running)]
  <2>1. Append(lists[s], running) \in Seq(Handle) BY <1>1, <1>2
  <2> QED BY <2>1, Zenon
<1>3. /\ \A t \in Semaphore : t # s => new[t] = lists[t]
      /\ Len(new[s]) = n + 1 /\ new[s][n + 1] = running 
      /\ \A i \in 1 .. n : new[s][i] = lists[s][i]
  BY <1>0, <1>1, <1>2
<1>4. /\ \A t \in Semaphore : t # s => sem'[t] = sem[t]
      /\ sem'[s].head = new[s][1] /\ sem'[s].tail = running /\ sem'[s].set = "no"
  <2>1. sem[s].set = "no" BY DEF Block
  <2>2. CASE n = 0
    <3>1. sem[s].head = Null BY <2>2 DEF Linked, EndsAgree
    <3>2. sem' = [sem EXCEPT ![s].head = running, ![s].tail = running] BY <3>1 DEF Block
    <3> QED BY <1>1, <1>3, <2>1, <2>2, <3>2 DEF TypeOK
  <2>3. CASE n # 0
    <3>1. n >= 1 /\ sem[s].head = lists[s][1] BY <1>2, <2>3 DEF Linked, EndsAgree
    <3>2. sem[s].head # Null /\ new[s][1] = lists[s][1] BY <1>1, <1>2, <1>3, <3>1
    <3>3. sem' = [sem EXCEPT ![s].tail = running] BY <3>2 DEF Block
    <3> QED BY <1>1, <2>1, <3>1, <3>2, <3>3 DEF TypeOK
  <2> QED BY <2>2, <2>3
<1>5. /\ next_blocked'[running] = Null
      /\ n >= 1 => next_blocked'[lists[s][n]] = running
      /\ \A h \in Handle : h # running /\ (n >= 1 => h # lists[s][n])
           => next_blocked'[h] = next_blocked[h]
  <2>0. next_blocked \in [Handle -> Handle \cup {Null}] BY <1>1 DEF TypeOK
  <2>1. CASE n = 0
    <3>1. sem[s].head = Null BY <1>2, <2>1 DEF Linked, EndsAgree
    <3>2. next_blocked' = [next_blocked EXCEPT ![running] = Null] BY <3>1 DEF Block
    <3> QED BY <1>1, <2>1, <3>2 DEF TypeOK
  <2>2. CASE n >= 1
    <3>1. sem[s].head = lists[s][1] /\ sem[s].tail = lists[s][n] BY <1>2, <2>2 DEF Linked, EndsAgree
    <3>2. sem[s].head # Null BY <1>1, <1>2, <2>2, <3>1
    <3>3. next_blocked' = [next_blocked EXCEPT ![running] = Null, ![lists[s][n]] = running]
      BY <3>1, <3>2 DEF Block
    <3>4. lists[s][n] \in Handle /\ lists[s][n] # running BY <1>2, <2>2
    <3> DEFINE last == lists[s][n]
    <3>. HIDE DEF last
    <3>5. /\ next_blocked'[running] = Null /\ next_blocked'[last] = running
          /\ \A h \in Handle : h # running /\ h # last => next_blocked'[h] = next_blocked[h]
      BY <1>1, <2>0, <3>3, <3>4 DEF last
    <3> QED BY <2>2, <3>5 DEF last
  <2> QED BY <1>2, <2>1, <2>2
<1>6. ASSUME NEW t \in Semaphore
      PROVE  /\ sem'[t].head = IF Len(new[t]) = 0 THEN Null ELSE new[t][1]
             /\ sem'[t].tail = IF Len(new[t]) = 0 THEN Null ELSE new[t][Len(new[t])]
             /\ sem'[t].set = "yes" => Len(new[t]) = 0
  <2>1. CASE t = s BY <1>2, <1>3, <1>4, <2>1
  <2>2. CASE t # s
    <3>1. sem'[t] = sem[t] /\ new[t] = lists[t] BY <1>3, <1>4, <2>2
    <3>2. /\ sem[t].head = IF Len(lists[t]) = 0 THEN Null ELSE lists[t][1]
          /\ sem[t].tail = IF Len(lists[t]) = 0 THEN Null ELSE lists[t][Len(lists[t])]
          /\ sem[t].set = "yes" => Len(lists[t]) = 0
      BY DEF Linked, EndsAgree
    <3> QED BY <3>1, <3>2
  <2> QED BY <2>1, <2>2
<1>7. ASSUME NEW t \in Semaphore, NEW i \in 1 .. Len(new[t])
      PROVE  /\ state'[new[t][i]] = "blocked"
             /\ next_blocked'[new[t][i]] = IF i = Len(new[t]) THEN Null ELSE new[t][i + 1]
  <2>1. CASE t # s
    <3>1. new[t] = lists[t] /\ lists[t][i] \in Handle /\ lists[t][i] # running
          /\ i \in 1 .. Len(lists[t])
      BY <1>2, <1>3, <2>1
    <3>2. n >= 1 => lists[t][i] # lists[s][n] BY <1>2, <2>1, <3>1 DEF Linked, EachOnce
    <3>3. next_blocked'[lists[t][i]] = next_blocked[lists[t][i]] BY <1>5, <3>1, <3>2
    <3>4. state'[lists[t][i]] = "blocked" BY <1>1, <3>1 DEF Linked, BlockedWait
    <3> QED BY <3>1, <3>3, <3>4 DEF Linked, LinksAgree
  <2>2. CASE t = s /\ i = n + 1 BY <1>1, <1>3, <1>5, <2>2
  <2>3. CASE t = s /\ i \in 1 .. n
    <3>1. new[s][i] = lists[s][i] /\ lists[s][i] \in Handle /\ lists[s][i] # running
      BY <1>2, <1>3, <2>3
    <3>2. state'[new[s][i]] = "blocked" BY <1>1, <2>3, <3>1, SMTT(40) DEF Linked, BlockedWait
    <3>3. CASE i = n BY <1>2, <1>3, <1>5, <2>3, <3>1, <3>2, <3>3
    <3>4. CASE i # n
      <4>1. i + 1 \in 1 .. n /\ n \in 1 .. n /\ i \in 1 .. n BY <1>2, <2>3, <3>4
      <4>2. lists[s][i] # lists[s][n] BY <3>4, <4>1 DEF Linked, EachOnce
      <4>3. next_blocked'[lists[s][i]] = lists[s][i + 1]
        <5>1. next_blocked'[lists[s][i]] = next_blocked[lists[s][i]] BY <1>5, <3>1, <4>2
        <5> QED BY <3>4, <4>1, <5>1 DEF Linked, LinksAgree
      <4> QED BY <1>2, <1>3, <2>3, <3>1, <3>2, <4>1, <4>3
    <3> QED BY <3>3, <3>4
  <2> QED BY <1>2, <1>3, <2>1, <2>2, <2>3
<1>8. ASSUME NEW h \in Handle, state'[h] = "blocked"
      PROVE  \E t \in Semaphore : \E i \in 1 .. Len(new[t]) : new[t][i] = h
  <2>1. CASE h = running
    <3>1. n + 1 \in 1 .. Len(new[s]) BY <1>2, <1>3
    <3> QED BY <1>3, <2>1, <3>1
  <2>2. CASE h # running
    <3>1. PICK t \in Semaphore : \E i \in 1 .. Len(lists[t]) : lists[t][i] = h
      BY <1>1, <1>8, <2>2 DEF Linked, BlockedWait
    <3>2. PICK i \in 1 .. Len(lists[t]) : lists[t][i] = h BY <3>1
    <3>3. CASE t = s BY <1>2, <1>3, <3>2, <3>3
    <3>4. CASE t # s BY <1>3, <3>2, <3>4
    <3> QED BY <3>3, <3>4
  <2> QED BY <2>1, <2>2
<1>9. ASSUME NEW t \in Semaphore, NEW u \in Semaphore,
             NEW i \in 1 .. Len(new[t]), NEW j \in 1 .. Len(new[u]), new[t][i] = new[u][j]
      PROVE  t = u /\ i = j
  <2>1. \A v \in Semaphore : \A k \in 1 .. Len(new[v]) :
          \/ v = s /\ k = n + 1 /\ new[v][k] = running
          \/ k \in 1 .. Len(lists[v]) /\ new[v][k] = lists[v][k] /\ lists[v][k] # running
    <3>1. ASSUME NEW v \in Semaphore, v # s, NEW k \in 1 .. Len(new[v])
          PROVE  k \in 1 .. Len(lists[v]) /\ new[v][k] = lists[v][k] /\ lists[v][k] # running
      BY <1>2, <1>3, <3>1
    <3>2. ASSUME NEW k \in 1 .. Len(new[s])
          PROVE  \/ k = n + 1 /\ new[s][k] = running
                 \/ k \in 1 .. n /\ new[s][k] = lists[s][k] /\ lists[s][k] # running
      BY <1>2, <1>3
    <3> QED BY <3>1, <3>2
  <2>2. \/ t = s /\ i = n + 1 /\ new[t][i] = running
        \/ i \in 1 .. Len(lists[t]) /\ new[t][i] = lists[t][i] /\ lists[t][i] # running
    BY <2>1
  <2>3. \/ u = s /\ j = n + 1 /\ new[u][j] = running
        \/ j \in 1 .. Len(lists[u]) /\ new[u][j] = lists[u][j] /\ lists[u][j] # running
    BY <2>1
  <2> QED BY <1>9, <2>2, <2>3 DEF Linked, EachOnce
<1>10. Linked(new)'
  <2>1. EndsAgree(new)' BY <1>6 DEF EndsAgree
  <2>2. LinksAgree(new)' BY <1>7 DEF LinksAgree
  <2>3. BlockedWait(new)' BY <1>7, <1>8 DEF BlockedWait
  <2>4. EachOnce(new)' BY <1>9 DEF EachOnce
  <2> QED BY <2>1, <2>2, <2>3, <2>4 DEF Linked
<1> QED BY <1>10 DEF HasLists

\* signal_one takes the first waiter out of the list of its semaphore.
LEMMA SignalWakesLinks ==
    ASSUME IInv, NEW lists \in [Semaphore -> Seq(Handle)], Linked(lists),
           NEW s \in Semaphore, SignalWakes(s)
    PROVE  HasLists'
<1> DEFINE n == Len(lists[s])
           head == lists[s][1]
<1>1. /\ TypeOK /\ Null \notin Handle /\ running \in Handle /\ state[running] = "running"
      /\ \A t \in Semaphore : lists[t] \in Seq(Handle) /\ Len(lists[t]) \in Nat
      /\ \A t \in Semaphore : \A i \in 1 .. Len(lists[t]) : lists[t][i] \in Handle
  BY NullApart, ListsTyped DEF IInv, TypeOK, OneRunning
<1>2. /\ n >= 1 /\ 1 \in 1 .. n
      /\ sem[s].head = head /\ head \in Handle /\ state[head] = "blocked"
      /\ next_blocked[head] = IF n = 1 THEN Null ELSE lists[s][2]
  <2>1. n # 0 /\ sem[s].head = head BY DEF SignalWakes, Linked, EndsAgree
  <2>2. n >= 1 /\ 1 \in 1 .. n BY <1>1, <2>1
  <2>3. state[head] = "blocked" BY <2>2 DEF Linked, BlockedWait
  <2>4. next_blocked[head] = IF n = 1 THEN Null ELSE lists[s][2]
    <3>1. next_blocked[lists[s][1]] = IF 1 = n THEN Null ELSE lists[s][1 + 1]
      BY <2>2, Zenon DEF Linked, LinksAgree
    <3> QED BY <3>1
  <2> QED BY <1>1, <2>1, <2>2, <2>3, <2>4
<1>3. PICK new \in [Semaphore -> Seq(Handle)] : new = [lists EXCEPT ![s] = Tail(@)]
  <2>1. Tail(lists[s]) \in Seq(Handle) BY <1>1, <1>2, Popped
  <2> QED BY <2>1, Zenon
<1>4. /\ \A t \in Semaphore : t # s => new[t] = lists[t]
      /\ Len(new[s]) = n - 1
      /\ \A i \in 1 .. n - 1 : new[s][i] = lists[s][i + 1]
  <2>1. /\ Len(Tail(lists[s])) = n - 1
        /\ \A i \in 1 .. Len(Tail(lists[s])) : Tail(lists[s])[i] = lists[s][i + 1]
    BY <1>1, <1>2, Popped
  <2>2. new[s] = Tail(lists[s]) /\ \A t \in Semaphore : t # s => new[t] = lists[t]
    BY <1>3
  <2> QED BY <2>1, <2>2
<1>5. /\ \A t \in Semaphore : t # s => sem'[t] = sem[t]
      /\ sem'[s].head = IF n = 1 THEN Null ELSE lists[s][2]
      /\ sem'[s].tail = IF n = 1 THEN Null ELSE lists[s][n]
      /\ sem'[s].set = "no"
  <2>1. /\ sem' = [sem EXCEPT ![s].head = next_blocked[head],
                              ![s].tail = IF next_blocked[head] = Null THEN Null ELSE @]
        /\ sem[s].set = "no"
    BY <1>2 DEF SignalWakes
  <2>2. sem[s].tail = lists[s][n] BY <1>2 DEF Linked, EndsAgree
  <2>3. n # 1 => lists[s][2] # Null
    <3>0. n \in Nat /\ n >= 1 BY <1>1, <1>2
    <3>1. \A m \in Nat : m >= 1 /\ m # 1 => 2 \in 1 .. m OBVIOUS
    <3> QED BY <1>1, <3>0, <3>1, Zenon
  <2>4. sem \in [Semaphore -> SemOf] BY <1>1 DEF TypeOK, SemOf, Link
  <2> QED BY <1>2, <2>1, <2>2, <2>3, <2>4 DEF SemOf
<1>6. /\ \A h \in Handle : h # head => next_blocked'[h] = next_blocked[h]
      /\ \A h \in Handle : state'[h] = "blocked" <=> state[h] = "blocked" /\ h # head
  <2>1. /\ next_blocked' = [next_blocked EXCEPT ![head] = Null]
        /\ state' = [state EXCEPT ![running] = "ready", ![head] = "running"]
    BY <1>2 DEF SignalWakes
  <2> QED BY <1>1, <1>2, <2>1 DEF TypeOK
<1>. HIDE DEF head
<1>7. \A t \in Semaphore : \A i \in 1 .. Len(new[t]) :
        LET j == IF t = s THEN i + 1 ELSE i
        IN /\ j \in 1 .. Len(lists[t]) /\ new[t][i] = lists[t][j] /\ lists[t][j] # head
           /\ lists[t][j] \in Handle
  <2>1. \A t \in Semaphore : \A j \in 1 .. Len(lists[t]) : lists[t][j] = head => t = s /\ j = 1
    BY <1>1, <1>2, SMTT(40) DEF head, Linked, EachOnce
  <2>2. ASSUME NEW i \in 1 .. Len(new[s])
        PROVE  i + 1 \in 1 .. n /\ new[s][i] = lists[s][i + 1] /\ i + 1 # 1
    BY <1>1, <1>2, <1>4
  <2>3. ASSUME NEW t \in Semaphore, t # s, NEW i \in 1 .. Len(new[t])
        PROVE  i \in 1 .. Len(lists[t]) /\ new[t][i] = lists[t][i]
    BY <1>4, <2>3
  <2> QED BY <1>1, <2>1, <2>2, <2>3, ZenonT(40)
<1>8. ASSUME NEW t \in Semaphore
      PROVE  /\ sem'[t].head = IF Len(new[t]) = 0 THEN Null ELSE new[t][1]
             /\ sem'[t].tail = IF Len(new[t]) = 0 THEN Null ELSE new[t][Len(new[t])]
             /\ sem'[t].set = "yes" => Len(new[t]) = 0
  <2>1. CASE t # s BY <1>4, <1>5, <2>1 DEF Linked, EndsAgree
  <2>2. CASE t = s
    <3>1. CASE n = 1
      <4>1. Len(new[s]) = 0 BY <1>4, <3>1
      <4> QED BY <1>5, <2>2, <3>1, <4>1
    <3>2. CASE n # 1
      <4>1. n - 1 \in 1 .. n - 1 /\ 1 \in 1 .. n - 1 /\ n - 1 + 1 = n /\ Len(new[s]) # 0
        BY <1>1, <1>2, <1>4, <3>2
      <4>2. new[s][1] = lists[s][2] /\ new[s][Len(new[s])] = lists[s][n]
        BY <1>4, <4>1
      <4> QED BY <1>5, <2>2, <3>2, <4>1, <4>2
    <3> QED BY <3>1, <3>2
  <2> QED BY <2>1, <2>2
<1>9. ASSUME NEW t \in Semaphore, NEW i \in 1 .. Len(new[t])
      PROVE  /\ state'[new[t][i]] = "blocked"
             /\ next_blocked'[new[t][i]] = IF i = Len(new[t]) THEN Null ELSE new[t][i + 1]
  <2> DEFINE j == IF t = s THEN i + 1 ELSE i
  <2>1. /\ j \in 1 .. Len(lists[t]) /\ new[t][i] = lists[t][j] /\ lists[t][j] # head
        /\ lists[t][j] \in Handle
    BY <1>7
  <2>2. i = Len(new[t]) <=> j = Len(lists[t]) BY <1>1, <1>2, <1>4
  <2>3. i # Len(new[t]) => new[t][i + 1] = lists[t][j + 1] BY <1>1, <1>2, <1>4
  <2>. HIDE DEF j
  <2>4. state'[lists[t][j]] = "blocked" BY <1>6, <2>1 DEF Linked, BlockedWait
  <2>5. next_blocked'[lists[t][j]] = next_blocked[lists[t][j]] BY <1>6, <2>1
  <2> QED BY <2>1, <2>2, <2>3, <2>4, <2>5 DEF Linked, LinksAgree
<1>10. ASSUME NEW h \in Handle, state'[h] = "blocked"
       PROVE  \E t \in Semaphore : \E i \in 1 .. Len(new[t]) : new[t][i] = h
  <2>1. state[h] = "blocked" /\ h # head BY <1>6, <1>10
  <2>2. PICK t \in Semaphore : \E i \in 1 .. Len(lists[t]) : lists[t][i] = h
    BY <2>1 DEF Linked, BlockedWait
  <2>3. PICK i \in 1 .. Len(lists[t]) : lists[t][i] = h BY <2>2
  <2>4. CASE t # s
    <3>1. i \in 1 .. Len(new[t]) /\ new[t][i] = h BY <1>4, <2>3, <2>4
    <3> QED BY <3>1
  <2>5. CASE t = s
    <3>1. i # 1 BY <2>1, <2>3, <2>5 DEF head
    <3>2. i - 1 \in 1 .. Len(new[t]) /\ new[t][i - 1] = h BY <1>1, <1>4, <2>3, <2>5, <3>1
    <3> QED BY <3>2
  <2> QED BY <2>4, <2>5
<1>11. ASSUME NEW t \in Semaphore, NEW u \in Semaphore,
              NEW i \in 1 .. Len(new[t]), NEW j \in 1 .. Len(new[u]), new[t][i] = new[u][j]
       PROVE  t = u /\ i = j
  <2> DEFINE a == IF t = s THEN i + 1 ELSE i
             b == IF u = s THEN j + 1 ELSE j
  <2>1. a \in 1 .. Len(lists[t]) /\ b \in 1 .. Len(lists[u]) /\ lists[t][a] = lists[u][b]
    BY <1>7, <1>11
  <2>2. t = u /\ a = b BY <2>1 DEF Linked, EachOnce
  <2> QED BY <1>1, <2>2
<1>12. Linked(new)'
  <2>1. EndsAgree(new)' BY <1>8 DEF EndsAgree
  <2>2. LinksAgree(new)' BY <1>9 DEF LinksAgree
  <2>3. BlockedWait(new)' BY <1>9, <1>10 DEF BlockedWait
  <2>4. EachOnce(new)' BY <1>11 DEF EachOnce
  <2> QED BY <2>1, <2>2, <2>3, <2>4 DEF Linked
<1> QED BY <1>12 DEF HasLists

\* Every call keeps the lists.
LEMMA ListsKept == IInv /\ IInv' /\ HasLists /\ [Next]_vars => HasLists'
<1> SUFFICES ASSUME IInv, IInv', HasLists, [Next]_vars PROVE HasLists'
  OBVIOUS
<1>1. PICK lists \in [Semaphore -> Seq(Handle)] : Linked(lists)
  BY DEF HasLists
<1>2. TypeOK /\ state \in [Handle -> StateOf] /\ running \in Handle
  BY DEF IInv, TypeOK, StateOf
<1>3. CASE Spawn
  <2>1. Head(free) \in Handle /\ state[Head(free)] = "not_active"
    <3>1. Len(free) \in Nat /\ Len(free) >= 1 /\ Head(free) = free[1]
      BY <1>2, <1>3 DEF Spawn, TypeOK
    <3>2. free[1] \in Handle BY <1>2, <3>1 DEF TypeOK
    <3>3. \A i \in 1 .. Len(free) : state[free[i]] = "not_active" BY DEF IInv, Queues, Lists
    <3> QED BY <3>1, <3>2, <3>3
  <2>2. /\ sem' = sem
        /\ state' = [state EXCEPT ![Head(free)] = "ready"]
        /\ next_blocked' = [next_blocked EXCEPT ![Head(free)] = Null]
    BY <1>3 DEF Spawn
  <2>3. \A h \in Handle : state[h] = "blocked" <=> state'[h] = "blocked"
    BY <1>2, <2>1, <2>2
  <2>4. \A h \in Handle : state[h] = "blocked" => next_blocked'[h] = next_blocked[h]
    BY <1>2, <2>1, <2>2 DEF TypeOK
  <2> QED BY <1>1, <1>2, <2>2, <2>3, <2>4, LinkedFrame, SMTT(20) DEF HasLists
<1>4. ASSUME NEW h \in Handle, Yield \/ Destroy(h) PROVE HasLists'
  <2>1. /\ sem' = sem /\ next_blocked' = next_blocked
        /\ \E q, st : /\ \A g \in Handle : st[g] = "blocked" <=> state[g] = "blocked"
                      /\ st \in [Handle -> StateOf]
                      /\ TakeNext(q, st) \/ state' = st
                      /\ \A i \in 1 .. Len(q) : q[i] \in Handle /\ st[q[i]] # "blocked"
    <3>1. CASE Yield
      <4> DEFINE q == Append(sched, running)
                 st == [state EXCEPT ![running] = "ready"]
      <4>1. /\ Lists(q, st, "ready") /\ q \in Seq(Handle) /\ st \in [Handle -> StateOf]
            /\ \A g \in Handle : st[g] = "blocked" <=> state[g] = "blocked"
        <5>1. state[running] = "running" /\ sched \in Seq(Handle) /\ Lists(sched, state, "ready")
          BY <1>2 DEF IInv, OneRunning, TypeOK, Queues
        <5>2. Lists(q, st, "ready") BY <1>2, <5>1, ListsAppend DEF StateOf
        <5> QED BY <1>2, <5>1, <5>2 DEF StateOf
      <4>2. \A i \in 1 .. Len(q) : q[i] \in Handle /\ st[q[i]] # "blocked"
        <5>1. \A i \in 1 .. Len(q) : st[q[i]] = "ready" BY <4>1 DEF Lists
        <5>2. \A i \in 1 .. Len(q) : q[i] \in Handle BY <4>1
        <5> QED BY <5>1, <5>2
      <4>3. sem' = sem /\ next_blocked' = next_blocked /\ TakeNext(q, st) BY <3>1 DEF Yield
      <4>. HIDE DEF q, st
      <4> QED BY <4>1, <4>2, <4>3, SMTT(20)
    <3>2. CASE Destroy(h)
      <4> DEFINE q == Without(sched, h)
                 st == [state EXCEPT ![h] = "not_active"]
      <4>1. /\ q \in Seq(Handle) /\ Lists(q, st, "ready") /\ st \in [Handle -> StateOf]
            /\ \A g \in Handle : st[g] = "blocked" <=> state[g] = "blocked"
        <5>1. state[h] \in {"ready", "running"} /\ sched \in Seq(Handle) /\ Lists(sched, state, "ready")
          BY <3>2 DEF Destroy, IInv, TypeOK, Queues
        <5>2. CASE state[h] = "ready" BY <1>2, <5>1, <5>2, ListsWithout, Zenon DEF StateOf
        <5>3. CASE state[h] = "running"
          <6>1. q = sched BY <1>2, <5>1, <5>3 DEF Without, Lists
          <6>2. Lists(sched, st, "ready") BY <1>2, <5>1, <5>3, ListsFrame DEF StateOf
          <6> QED BY <1>2, <5>1, <5>3, <6>1, <6>2 DEF StateOf
        <5> QED BY <5>1, <5>2, <5>3
      <4>2. \A i \in 1 .. Len(q) : q[i] \in Handle /\ st[q[i]] # "blocked"
        <5>1. \A i \in 1 .. Len(q) : st[q[i]] = "ready" BY <4>1 DEF Lists
        <5>2. \A i \in 1 .. Len(q) : q[i] \in Handle BY <4>1
        <5> QED BY <5>1, <5>2
      <4>3. sem' = sem /\ next_blocked' = next_blocked /\ (TakeNext(q, st) \/ state' = st)
        BY <3>2 DEF Destroy
      <4>. HIDE DEF q, st
      <4> QED BY <4>1, <4>2, <4>3, Zenon
    <3> QED BY <1>4, <3>1, <3>2, Zenon
  <2>2. PICK q, st : /\ \A g \in Handle : st[g] = "blocked" <=> state[g] = "blocked"
                     /\ st \in [Handle -> StateOf]
                     /\ TakeNext(q, st) \/ state' = st
                     /\ \A i \in 1 .. Len(q) : q[i] \in Handle /\ st[q[i]] # "blocked"
    BY <2>1
  <2>3. \A g \in Handle : state[g] = "blocked" <=> state'[g] = "blocked"
    <3>1. CASE state' = st BY <2>2, <3>1
    <3>2. CASE TakeNext(q, st)
      <4>1. state[Root] # "blocked" /\ Root \in Handle
        BY CothreadAssumption DEF IInv, RootQueued, Root, Handle
      <4>2. \E g \in Handle : state' = [st EXCEPT ![g] = "running"] /\ st[g] # "blocked"
        BY <2>2, <3>2, <4>1 DEF TakeNext, SwitchTo, Takeable
      <4> QED BY <2>2, <4>2
    <3> QED BY <2>2, <3>1, <3>2
  <2> QED BY <1>1, <1>2, <2>1, <2>3, LinkedFrame DEF HasLists
<1>5. ASSUME NEW s \in Semaphore, WaitSet(s) \/ SignalSticks(s) PROVE HasLists'
  <2>1. /\ state' = state /\ next_blocked' = next_blocked
        /\ \A t \in Semaphore : /\ sem'[t].head = sem[t].head /\ sem'[t].tail = sem[t].tail
                                /\ sem'[t].set = "yes" => sem[t].set = "yes" \/ sem[t].head = Null
    <3>1. sem \in [Semaphore -> SemOf] BY <1>2 DEF TypeOK, SemOf, Link
    <3>2. CASE WaitSet(s) BY <3>1, <3>2 DEF WaitSet, SemOf
    <3>3. CASE SignalSticks(s) BY <3>1, <3>3 DEF SignalSticks, SemOf
    <3> QED BY <1>5, <3>2, <3>3
  <2>2. \A t \in Semaphore : sem[t].head = Null => Len(lists[t]) = 0
    BY <1>1, NullApart, ListsTyped DEF Linked, EndsAgree
  <2>3. EndsAgree(lists)' BY <1>1, <2>1, <2>2 DEF Linked, EndsAgree
  <2>4. LinksAgree(lists)' BY <1>1, <2>1 DEF Linked, LinksAgree
  <2>5. BlockedWait(lists)' /\ EachOnce(lists)' BY <1>1, <2>1 DEF Linked, BlockedWait, EachOnce
  <2> QED BY <2>3, <2>4, <2>5 DEF HasLists, Linked
<1>6. ASSUME NEW s \in Semaphore, Block(s) PROVE HasLists'
  BY <1>1, <1>6, BlockLinks
<1>7. ASSUME NEW s \in Semaphore, SignalWakes(s) PROVE HasLists'
  BY <1>1, <1>7, SignalWakesLinks
<1>8. CASE UNCHANGED vars
  BY <1>1, <1>2, <1>8, LinkedFrame DEF vars, HasLists
<1> QED
  BY <1>2, <1>3, <1>4, <1>5, <1>6, <1>7, <1>8 DEF Next

-----------------------------------------------------------------------------
(* The lists are the chains that the links make: the counting and the       *)
(* induction along the links use the library facts.                         *)

LOCAL INSTANCE SetLemmas

\* The k-th link of a list of at most MaxCothreads waiters, from 0.
Nth(list) == [k \in 0 .. MaxCothreads |-> IF k < Len(list) THEN list[k + 1] ELSE Null]

\* Following the links from head visits the waiters in the order of the list.
LEMMA WaiterIsList ==
    ASSUME TypeOK, NEW lists \in [Semaphore -> Seq(Handle)], Linked(lists), NEW s \in Semaphore
    PROVE  Waiter(s) = Nth(lists[s])
<1> DEFINE list == lists[s]
           Body(w) == [k \in 0 .. MaxCothreads |->
                        IF k = 0 THEN sem[s].head
                        ELSE IF w[k - 1] = Null THEN Null ELSE next_blocked[w[k - 1]]]
           g == Nth(list)
           w == Waiter(s)
<1>0. /\ list \in Seq(Handle) /\ Len(list) \in Nat /\ Null \notin Handle
      /\ \A i \in 1 .. Len(list) : list[i] \in Handle
  BY NullApart, ListsTyped
<1>1. /\ sem[s].head = IF Len(list) = 0 THEN Null ELSE list[1]
      /\ \A i \in 1 .. Len(list) :
           next_blocked[list[i]] = IF i = Len(list) THEN Null ELSE list[i + 1]
  BY DEF Linked, EndsAgree, LinksAgree
<1>. HIDE DEF list
<1>2. \A k \in 0 .. MaxCothreads : g[k] = IF k < Len(list) THEN list[k + 1] ELSE Null
  BY DEF Nth
<1>3. g = Body(g)
  <2>1. ASSUME NEW k \in 0 .. MaxCothreads
        PROVE  g[k] = IF k = 0 THEN sem[s].head
                      ELSE IF g[k - 1] = Null THEN Null ELSE next_blocked[g[k - 1]]
    <3>1. CASE k = 0 BY <1>0, <1>1, <1>2, <3>1, CothreadAssumption
    <3>2. CASE k > 0
      <4>1. k - 1 \in 0 .. MaxCothreads /\ k - 1 + 1 = k BY <3>2, CothreadAssumption
      <4>2. CASE k - 1 < Len(list)
        <5>1. g[k - 1] = list[k] /\ k \in 1 .. Len(list) BY <1>0, <1>1, <1>2, <3>2, <4>1, <4>2
        <5> QED BY <1>0, <1>1, <1>2, <3>2, <5>1
      <4>3. CASE k - 1 >= Len(list) BY <1>0, <1>1, <1>2, <3>2, <4>1, <4>3
      <4> QED BY <1>0, <4>2, <4>3
    <3> QED BY <3>1, <3>2
  <2>2. g = [k \in 0 .. MaxCothreads |-> g[k]] BY DEF Nth
  <2> QED BY <2>1, <2>2
<1>4. w = CHOOSE f : f = Body(f)
  BY DEF Waiter
<1>5. w = Body(w)
  <2>. HIDE DEF Body
  <2> QED BY <1>3, <1>4, Zenon
<1>. HIDE DEF g, w
<1>6. \A k \in 0 .. MaxCothreads : w[k] = g[k]
  <2>1. SUFFICES ASSUME NEW j \in 0 .. MaxCothreads, w[j] # g[j] PROVE FALSE
    OBVIOUS
  <2> DEFINE T == {k \in 0 .. MaxCothreads : w[k] # g[k]}
  <2>2. T \in SUBSET Nat /\ T # {} BY <2>1, CothreadAssumption
  <2>3. PICK m \in T : \A k \in T : m <= k BY <2>2, LeastNat
  <2>4. CASE m = 0 BY <1>3, <1>5, <2>3, <2>4
  <2>5. CASE m # 0
    <3>1. m \in 0 .. MaxCothreads /\ m - 1 \in 0 .. MaxCothreads /\ ~(m <= m - 1)
      BY <2>3, <2>5, CothreadAssumption
    <3>2. w[m - 1] = g[m - 1] BY <2>3, <3>1
    <3>3. w[m] = g[m] BY <1>3, <1>5, <2>5, <3>1, <3>2
    <3> QED BY <2>3, <3>3
  <2> QED BY <2>4, <2>5
<1>7. w = [k \in 0 .. MaxCothreads |-> w[k]] /\ g = [k \in 0 .. MaxCothreads |-> g[k]]
  BY <1>3, <1>5
<1> QED BY <1>6, <1>7 DEF g, w, list

\* A list of distinct handles is no longer than the pool.
LEMMA ShortList ==
    ASSUME NEW list \in Seq(Handle),
           \A i, j \in 1 .. Len(list) : list[i] = list[j] => i = j
    PROVE  Len(list) <= MaxCothreads
<1>1. Len(list) \in Nat /\ \A i \in 1 .. Len(list) : list[i] \in Handle
  BY Elements
<1>2. MaxCothreads \in Nat /\ IsFiniteSet(Handle) /\ Cardinality(Handle) = MaxCothreads
  BY FS_Interval, CothreadAssumption, SMTT(20) DEF Handle
<1> QED BY <1>1, <1>2, Pigeonhole, Zenon

\* The lists give WaiterChains.
LEMMA ListsAreChains ==
    ASSUME TypeOK, NEW lists \in [Semaphore -> Seq(Handle)], Linked(lists)
    PROVE  WaiterChains
<1> DEFINE Place == Semaphore \X (0 .. MaxCothreads)
           list == [s \in Semaphore |-> Waiter(s)]
           At(p) == list[p[1]][p[2]]
<1>1. /\ \A s \in Semaphore : lists[s] \in Seq(Handle) /\ Len(lists[s]) \in Nat
      /\ \A s \in Semaphore : \A i \in 1 .. Len(lists[s]) : lists[s][i] \in Handle
      /\ Null \notin Handle /\ MaxCothreads \in Nat
  BY NullApart, ListsTyped, CothreadAssumption
<1>2. ASSUME NEW s \in Semaphore PROVE Len(lists[s]) <= MaxCothreads
  <2>1. \A i, j \in 1 .. Len(lists[s]) : lists[s][i] = lists[s][j] => i = j
    BY DEF Linked, EachOnce
  <2> QED BY <1>1, <2>1, ShortList
<1>3. \A s \in Semaphore, k \in 0 .. MaxCothreads :
        list[s][k] = IF k < Len(lists[s]) THEN lists[s][k + 1] ELSE Null
  BY WaiterIsList, Zenon DEF Nth
<1>. HIDE DEF list
<1>4. ASSUME NEW s \in Semaphore
      PROVE  /\ list[s][MaxCothreads] = Null
             /\ sem[s].head = Null <=> sem[s].tail = Null
             /\ sem[s].tail # Null => /\ next_blocked[sem[s].tail] = Null
                                      /\ \E k \in 0 .. MaxCothreads : At(<<s, k>>) = sem[s].tail
             /\ sem[s].set = "yes" => sem[s].head = Null
  <2>1. list[s][MaxCothreads] = Null BY <1>1, <1>2, <1>3
  <2>2. CASE Len(lists[s]) = 0 BY <2>1, <2>2 DEF Linked, EndsAgree
  <2>3. CASE Len(lists[s]) # 0
    <3> DEFINE n == Len(lists[s])
    <3>1. n >= 1 /\ n \in 1 .. n /\ n - 1 \in 0 .. MaxCothreads /\ n - 1 < n /\ 1 \in 1 .. n
      BY <1>1, <1>2, <2>3
    <3>2. /\ sem[s].head = lists[s][1] /\ sem[s].tail = lists[s][n]
          /\ next_blocked[lists[s][n]] = Null /\ sem[s].set # "yes"
      BY <2>3, <3>1 DEF Linked, EndsAgree, LinksAgree
    <3>3. At(<<s, n - 1>>) = sem[s].tail BY <1>3, <3>1, <3>2
    <3>4. sem[s].head # Null /\ sem[s].tail # Null BY <1>1, <3>1, <3>2
    <3> QED BY <2>1, <3>1, <3>2, <3>3, <3>4
  <2> QED BY <2>2, <2>3
<1>5. ASSUME NEW h \in Handle
      PROVE  state[h] = "blocked" <=> \E p \in Place : At(p) = h
  <2>1. ASSUME state[h] = "blocked" PROVE \E p \in Place : At(p) = h
    <3>1. PICK s \in Semaphore : \E i \in 1 .. Len(lists[s]) : lists[s][i] = h
      BY <2>1 DEF Linked, BlockedWait
    <3>2. PICK i \in 1 .. Len(lists[s]) : lists[s][i] = h BY <3>1
    <3>3. i - 1 \in 0 .. MaxCothreads /\ i - 1 < Len(lists[s]) /\ i - 1 + 1 = i
      BY <1>1, <1>2, <3>2
    <3>4. <<s, i - 1>> \in Place /\ At(<<s, i - 1>>) = h BY <1>3, <3>2, <3>3
    <3> QED BY <3>4
  <2>2. ASSUME NEW p \in Place, At(p) = h PROVE state[h] = "blocked"
    <3>1. p[1] \in Semaphore /\ p[2] \in 0 .. MaxCothreads OBVIOUS
    <3>2. p[2] < Len(lists[p[1]]) /\ lists[p[1]][p[2] + 1] = h BY <1>1, <1>3, <2>2, <3>1
    <3>3. p[2] + 1 \in 1 .. Len(lists[p[1]]) BY <1>1, <3>1, <3>2
    <3> QED BY <3>1, <3>2, <3>3 DEF Linked, BlockedWait
  <2> QED BY <2>1, <2>2
<1>6. ASSUME NEW p \in Place, NEW q \in Place, At(p) = At(q), At(p) # Null PROVE p = q
  <2>1. p[1] \in Semaphore /\ p[2] \in 0 .. MaxCothreads /\ p = <<p[1], p[2]>> OBVIOUS
  <2>2. q[1] \in Semaphore /\ q[2] \in 0 .. MaxCothreads /\ q = <<q[1], q[2]>> OBVIOUS
  <2>3. p[2] + 1 \in 1 .. Len(lists[p[1]]) /\ q[2] + 1 \in 1 .. Len(lists[q[1]])
        /\ lists[p[1]][p[2] + 1] = lists[q[1]][q[2] + 1]
    BY <1>1, <1>3, <1>6, <2>1, <2>2
  <2>4. p[1] = q[1] /\ p[2] + 1 = q[2] + 1 BY <2>1, <2>2, <2>3 DEF Linked, EachOnce
  <2> QED BY <2>1, <2>2, <2>4
<1> QED BY <1>4, <1>5, <1>6 DEF WaiterChains, list

\* The waiters of each semaphore form a chain from head to tail, every blocked
\* cothread is in exactly one chain, and a sticky signal has no waiters beside
\* it, for every pool and every set of semaphores: no waiter is lost by the
\* links that Wait and Signal rewrite, or woken for another's signal.
THEOREM CothreadChains == Spec => []WaiterChains
<1>1. Init => HasLists
  <2> SUFFICES ASSUME Init PROVE HasLists
    OBVIOUS
  <2>1. [s \in Semaphore |-> << >>] \in [Semaphore -> Seq(Handle)]
    OBVIOUS
  <2>2. Linked([s \in Semaphore |-> << >>])
    BY DEF Init, Linked, EndsAgree, LinksAgree, BlockedWait, EachOnce
  <2> QED BY <2>1, <2>2, Zenon DEF HasLists
<1>2. IInv /\ HasLists => WaiterChains
  BY ListsAreChains DEF IInv, HasLists
<1> QED
  BY <1>1, <1>2, InitHolds, IInvKept, ListsKept, PTL DEF Spec

=============================================================================
