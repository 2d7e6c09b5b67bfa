------------------------------ MODULE Cothread ------------------------------
(***************************************************************************)
(* lerux-cothread: stackful cothreads of one kernel thread.  Every step is *)
(* a call the running cothread makes; a call that switches stacks ends in  *)
(* the cothread it switches to.  The waiters of a semaphore are a list     *)
(* through next_blocked, as in the code; the free and scheduling queues    *)
(* are sequences.  Channel semaphores and user semaphores run the same     *)
(* code; recv_ntfn is a signal that only the root makes.                   *)
(***************************************************************************)
EXTENDS Integers, Sequences

CONSTANTS MaxCothreads,   \* MAX_COTHREADS, the root included
          Semaphore       \* the semaphores, channel semaphores among them

ASSUME CothreadAssumption == MaxCothreads \in Nat \ {0}

Root == 0                 \* ROOT_HANDLE
Null == -1                \* NULL_HANDLE
Handle == 0 .. MaxCothreads - 1

VARIABLES running, state, next_blocked, free, sched,
          sem             \* per semaphore: sticky signal, head and tail of its waiters

vars == <<running, state, next_blocked, free, sched, sem>>

\* Mutant: one more handle in the free queue than there are slots.
InitOneTooMany ==
  /\ running = Root
  /\ state = [h \in Handle |-> IF h = Root THEN "running" ELSE "not_active"]
  /\ next_blocked = [h \in Handle |-> Null]
  /\ free = [i \in 1 .. MaxCothreads |-> i]
  /\ sched = << >>
  /\ sem = [s \in Semaphore |-> [set |-> "no", head |-> Null, tail |-> Null]]

\* microkit_cothread_init.
Init ==
  /\ running = Root
  /\ state = [h \in Handle |-> IF h = Root THEN "running" ELSE "not_active"]
  /\ next_blocked = [h \in Handle |-> Null]
  /\ free = [i \in 1 .. MaxCothreads - 1 |-> i]
  /\ sched = << >>
  /\ sem = [s \in Semaphore |-> [set |-> "no", head |-> Null, tail |-> Null]]

-----------------------------------------------------------------------------
\* take_next: the first entry of queue that is the root or ready in st; an
\* exhausted queue means the root.
Takeable(queue, st) == {i \in 1 .. Len(queue) : queue[i] = Root \/ st[queue[i]] = "ready"}

SwitchTo(h, queue, st) ==
  /\ running' = h
  /\ state' = [st EXCEPT ![h] = "running"]
  /\ sched' = queue

TakeNext(queue, st) ==
  \/ Takeable(queue, st) = {} /\ SwitchTo(Root, << >>, st)
  \/ \E i \in Takeable(queue, st) :
       /\ \A j \in Takeable(queue, st) : i <= j
       /\ SwitchTo(queue[i], SubSeq(queue, i + 1, Len(queue)), st)

\* microkit_cothread_spawn with a free slot; a full pool changes nothing.
Spawn ==
  /\ free # << >>
  /\ free' = Tail(free)
  /\ state' = [state EXCEPT ![Head(free)] = "ready"]
  /\ next_blocked' = [next_blocked EXCEPT ![Head(free)] = Null]
  /\ sched' = Append(sched, Head(free))
  /\ UNCHANGED <<running, sem>>

\* Mutant: a cothread that yields does not queue itself.
YieldUnqueued ==
  /\ TakeNext(sched, [state EXCEPT ![running] = "ready"])
  /\ UNCHANGED <<next_blocked, free, sem>>

Yield ==
  /\ TakeNext(Append(sched, running), [state EXCEPT ![running] = "ready"])
  /\ UNCHANGED <<next_blocked, free, sem>>

\* retain: the queue without handle h, which is in it at most once (Queues).
Without(queue, h) ==
  IF \E i \in 1 .. Len(queue) : queue[i] = h
    THEN LET at == CHOOSE i \in 1 .. Len(queue) : queue[i] = h
         IN [j \in 1 .. Len(queue) - 1 |-> IF j < at THEN queue[j] ELSE queue[j + 1]]
    ELSE queue

\* Mutant: the handle stays in the scheduling queue.
DestroyStillQueued(h) ==
  /\ h # Root /\ state[h] \in {"ready", "running"}
  /\ free' = Append(free, h)
  /\ IF h = running
       THEN TakeNext(sched, [state EXCEPT ![h] = "not_active"])
       ELSE state' = [state EXCEPT ![h] = "not_active"] /\ UNCHANGED <<running, sched>>
  /\ UNCHANGED <<next_blocked, sem>>

\* microkit_cothread_destroy, which the return of an entry also is.
Destroy(h) ==
  /\ h # Root /\ state[h] \in {"ready", "running"}
  /\ free' = Append(free, h)
  /\ IF h = running
       THEN TakeNext(Without(sched, h), [state EXCEPT ![h] = "not_active"])
       ELSE /\ state' = [state EXCEPT ![h] = "not_active"]
            /\ sched' = Without(sched, h)
            /\ UNCHANGED running
  /\ UNCHANGED <<next_blocked, sem>>

\* A wait that finds a sticky signal consumes it ...
WaitSet(s) ==
  /\ sem[s].set = "yes"
  /\ sem' = [sem EXCEPT ![s].set = "no"]
  /\ UNCHANGED <<running, state, next_blocked, free, sched>>

\* Mutant: a second waiter is linked behind the head instead of the tail.
BlockBehindHead(s) ==
  /\ sem[s].set = "no" /\ running # Root
  /\ IF sem[s].head = Null
       THEN /\ sem' = [sem EXCEPT ![s].head = running, ![s].tail = running]
            /\ next_blocked' = [next_blocked EXCEPT ![running] = Null]
       ELSE /\ sem' = [sem EXCEPT ![s].tail = running]
            /\ next_blocked' = [next_blocked EXCEPT ![running] = Null, ![sem[s].head] = running]
  /\ TakeNext(sched, [state EXCEPT ![running] = "blocked"])
  /\ UNCHANGED free

\* ... and any other wait links the running worker at the tail and switches.
Block(s) ==
  /\ sem[s].set = "no" /\ running # Root
  /\ IF sem[s].head = Null
       THEN /\ sem' = [sem EXCEPT ![s].head = running, ![s].tail = running]
            /\ next_blocked' = [next_blocked EXCEPT ![running] = Null]
       ELSE /\ sem' = [sem EXCEPT ![s].tail = running]
            /\ next_blocked' = [next_blocked EXCEPT ![running] = Null, ![sem[s].tail] = running]
  /\ TakeNext(sched, [state EXCEPT ![running] = "blocked"])
  /\ UNCHANGED free

\* signal_one without a waiter: the signal sticks (once).
SignalSticks(s) ==
  /\ sem[s].head = Null
  /\ sem' = [sem EXCEPT ![s].set = "yes"]
  /\ UNCHANGED <<running, state, next_blocked, free, sched>>

\* signal_one with one: the signaller queues itself and the head waiter runs.
SignalWakes(s) ==
  /\ sem[s].set = "no" /\ sem[s].head # Null
  /\ LET head == sem[s].head
         next == next_blocked[head]
     IN /\ sem' = [sem EXCEPT ![s].head = next,
                              ![s].tail = IF next = Null THEN Null ELSE @]
        /\ next_blocked' = [next_blocked EXCEPT ![head] = Null]
        /\ running' = head
        /\ state' = [state EXCEPT ![running] = "ready", ![head] = "running"]
        /\ sched' = Append(sched, running)
  /\ UNCHANGED free

-----------------------------------------------------------------------------
\* A cothread leaves the processor: what every worker and handler does in time.
GiveUp == Yield \/ Destroy(running) \/ \E s \in Semaphore : Block(s)

Next == \/ Spawn
        \/ Yield
        \/ \E h \in Handle : Destroy(h)
        \/ \E s \in Semaphore : WaitSet(s) \/ Block(s) \/ SignalSticks(s) \/ SignalWakes(s)

Spec == Init /\ [][Next]_vars

\* No cothread of the repository computes forever without a wait or a return.
FairSpec == Spec /\ WF_vars(GiveUp)

-----------------------------------------------------------------------------
(* Properties.                                                              *)

\* Handles, states and links are in range.
TypeOK ==
  /\ running \in Handle
  /\ state \in [Handle -> {"not_active", "blocked", "ready", "running"}]
  /\ next_blocked \in [Handle -> Handle \cup {Null}]
  /\ free \in Seq(Handle) /\ sched \in Seq(Handle)
  /\ sem \in [Semaphore -> [set : {"yes", "no"}, head : Handle \cup {Null},
                            tail : Handle \cup {Null}]]

\* Exactly the cothread that the kernel thread executes is marked Running.
OneRunning == \A h \in Handle : state[h] = "running" <=> h = running

\* queue lists the cothreads that st puts in state k, each once.
Lists(queue, st, k) ==
  /\ \A i \in 1 .. Len(queue) : st[queue[i]] = k
  /\ \A h \in Handle : st[h] = k => \E i \in 1 .. Len(queue) : queue[i] = h
  /\ \A i, j \in 1 .. Len(queue) : queue[i] = queue[j] => i = j

\* The scheduling queue holds each ready cothread once and nothing else, and the
\* free queue each inactive handle once: no push can find its queue full, no
\* handle is lost or given out twice, and take_next never has to skip an entry.
Queues == Lists(sched, state, "ready") /\ Lists(free, state, "not_active")

\* The root is always running or queued, so take_next never falls back on it.
RootQueued == state[Root] \in {"running", "ready"}

\* Every list pointer leads to a blocked cothread, and no two pointers to the
\* same one: a signal wakes a cothread that nothing else can wake as well.
Pointers ==
  /\ \A s \in Semaphore : sem[s].head # Null => state[sem[s].head] = "blocked"
  /\ \A h \in Handle : next_blocked[h] # Null => state[next_blocked[h]] = "blocked"
  /\ \A s, t \in Semaphore : sem[s].head = sem[t].head /\ sem[s].head # Null => s = t
  /\ \A s \in Semaphore, h \in Handle : sem[s].head # Null => sem[s].head # next_blocked[h]
  /\ \A g, h \in Handle : next_blocked[g] = next_blocked[h] /\ next_blocked[g] # Null => g = h

\* Waiter(s)[k] is the k-th waiter of s, from 0, or Null past the last.
Waiter(s) ==
  LET w[k \in 0 .. MaxCothreads] ==
        IF k = 0 THEN sem[s].head
        ELSE LET prev == w[k - 1] IN IF prev = Null THEN Null ELSE next_blocked[prev]
  IN w

\* The list of each semaphore is a chain from head to tail of distinct blocked
\* cothreads, every blocked cothread is on exactly one, and a semaphore with a
\* waiter holds no sticky signal: no waiter is lost or woken for another's signal.
WaiterChains ==
  LET Place == Semaphore \X (0 .. MaxCothreads)
      list == [s \in Semaphore |-> Waiter(s)]
      At(p) == list[p[1]][p[2]]
  IN /\ \A s \in Semaphore :
          /\ list[s][MaxCothreads] = Null
          /\ sem[s].head = Null <=> sem[s].tail = Null
          /\ sem[s].tail # Null => /\ next_blocked[sem[s].tail] = Null
                                   /\ \E k \in 0 .. MaxCothreads : At(<<s, k>>) = sem[s].tail
          /\ sem[s].set = "yes" => sem[s].head = Null
     /\ \A h \in Handle : state[h] = "blocked" <=> \E p \in Place : At(p) = h
     /\ \A p \in Place : At(p) # Null => \A q \in Place : At(q) = At(p) => p = q

\* A ready cothread is eventually run (or destroyed), although a signal lets its
\* waiter run ahead of everything queued.
NoStarvation == \A h \in Handle : []<>(state[h] # "ready")

=============================================================================
