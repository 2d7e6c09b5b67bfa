---------------------------- MODULE SerialProofs ----------------------------
(***************************************************************************)
(* Proofs about the serial transmit path, for every number of clients and  *)
(* every queue size, in every interleaving of the domains.                 *)
(***************************************************************************)
EXTENDS SerialTransmit, Lemmas, SetLemmas, TLAPS

-----------------------------------------------------------------------------
(* The inductive invariant.                                                *)

\* The bounds that a local keeps from one access of shared memory to the next.
WorkersOK ==
  \A c \in Clients : worker[c].pc \in {"put", "request", "kick", "wait"} => worker[c].left >= 1
VirtOK ==
  /\ virt.pc \notin {"recv", "loop"} => virt.at \in Clients
  /\ virt.pc = "recv" => virt.mode = "provide" /\ virt.batch = {}
  /\ virt.pc \in {"free", "ask", "recheck", "move"} =>
       1 <= virt.count /\ virt.count <= Len(clientQ[virt.at])
  /\ virt.pc = "move" => Enough
DrainsOK == driver.pc # "recv" => driver.drains >= 1
LocalsOK == WorkersOK /\ VirtOK /\ DrainsOK

\* The virtualiser has bytes to announce to the driver.
WillNotify == \/ virt.pc \in {"move", "notify"}
              \/ virt.mode = "resume" /\ virt.moved # {}

\* Bytes in the driver queue are drained, or announced, or about to be.
DriverTold == driverQ # << >> => driver.badge \/ driver.pc = "drain" \/ WillNotify

\* The request of ask is still up, or the driver has taken it down and pokes.
Asked == virt.pc = "recheck" => driverWant \/ driver.pc = "poke" \/ Driver \in virt.badge

\* The driver is going to poke the virtualiser.
Armed == \/ Driver \in virt.badge
         \/ driver.pc = "poke"
         \/ driverWant /\ \/ driverQ # << >>
                          \/ driver.pc \in {"require", "cancel"}
                          \/ driver.pc = "drain" /\ driver.transferred

\* The clients from where the loop stands.
Later == {c \in Clients : IF virt.pc = "loop" THEN c >= virt.at ELSE c > virt.at}

\* Every pending client is visited by the running resume loop, or the driver pokes.
Resumable == \/ virt.pending = {}
             \/ Armed
             \/ virt.pc # "recv" /\ virt.mode = "resume" /\ virt.pending \subseteq Later

\* A client whose bytes the virtualiser is going to look at.
Known(c) == \/ worker[c].pc \in {"put", "request", "kick", "done"}
            \/ c \in virt.badge
            \/ c \in virt.pending
            \/ virt.pc = "length" /\ virt.at = c
            \/ c \in virt.batch /\ (virt.mode = "provide" => c \in Later)

\* What the move in progress has counted of client c's bytes.
Counted(c) == IF virt.at = c /\ virt.pc \in {"free", "ask", "recheck", "move"}
                THEN virt.count ELSE 0

\* Bytes that no move has counted belong to a client that is going to be looked at.
ClientsKnown == \A c \in Clients : Len(clientQ[c]) > Counted(c) => Known(c)

Inv == TypeOK /\ LocalsOK /\ InOrder /\ DriverTold /\ Asked /\ Resumable /\ ClientsKnown

-----------------------------------------------------------------------------
(* Steps.                                                                  *)

\* The steps of the path, whatever the priorities let run.
LEMMA Steps ==
    ASSUME [Next]_vars
    PROVE  \/ \E c \in Clients : \/ \E n \in 1 .. MaxLine : Say(c, n)
                               \/ Put(c) \/ PutFull(c) \/ RequestSignal(c) \/ Kick(c)
                               \/ Wake(c) \/ RecvNtfn(c)
           \/ Notified \/ Visit \/ EndLoop \/ Length \/ Free \/ Ask \/ Recheck \/ Move
           \/ NotifyDriver \/ Require \/ Cancel \/ Poke
           \/ \E irq \in BOOLEAN : DrainStart(irq)
           \/ Drain \/ DrainEnd \/ DriverRequire \/ DriverCancel \/ DriverPoke
           \/ UNCHANGED vars
  BY Zenon DEF Next, NewMessage, Worker, Virtualiser, DriverStep

\* The next client of a loop is the first of those it has still to visit.
LEMMA NextVisit ==
    ASSUME ToVisit # {}
    PROVE  /\ Min(ToVisit) \in ToVisit /\ Min(ToVisit) \in Clients
           /\ \A c \in ToVisit : Min(ToVisit) <= c
<1>1. ToVisit \in SUBSET Nat /\ ToVisit \subseteq Clients
  BY SerialAssumption DEF ToVisit, Clients
<1>2. PICK m \in ToVisit : \A c \in ToVisit : m <= c
  BY <1>1, LeastNat
<1> QED BY <1>1, <1>2, Zenon DEF Min

-----------------------------------------------------------------------------
(* Type correctness.                                                       *)

\* Every step keeps the queues within their capacity.
LEMMA QueuesKept ==
    ASSUME TypeOK, LocalsOK, [Next]_vars
    PROVE  QueuesOK'
<1>1. QueuesOK BY DEF TypeOK
<1>2. ASSUME UNCHANGED queues PROVE QueuesOK'
  BY <1>1, <1>2 DEF QueuesOK, queues
<1>3. ASSUME NEW c \in Clients, Put(c) PROVE QueuesOK'
  <2>1. worker[c].sent \in 0 .. Numbers - 1 BY DEF TypeOK, WorkerLocals
  <2> QED BY SerialAssumption, <1>1, <1>3, <2>1 DEF QueuesOK, Put
<1>4. ASSUME NEW c \in Clients, RequestSignal(c) PROVE QueuesOK'
  BY <1>1, <1>4 DEF QueuesOK, RequestSignal
<1>5. CASE Ask BY <1>1, <1>5 DEF QueuesOK, Ask
<1>6. CASE Move
  <2>1. virt.at \in Clients BY <1>6 DEF LocalsOK, VirtOK, Move
  <2> DEFINE q == clientQ[virt.at]
  <2>2. q \in Seq(0 .. Numbers - 1) /\ q # << >> BY <1>1, <1>6, <2>1 DEF QueuesOK, Move
  <2>3. Head(q) \in 0 .. Numbers - 1 /\ Tail(q) \in Seq(0 .. Numbers - 1)
    BY <2>2, Popped, Zenon
  <2>9. Len(q) \in Nat /\ Len(Tail(q)) = Len(q) - 1 BY <2>2, Popped
  <2>10. Len(q) <= ClientCap BY <1>1, <2>1 DEF QueuesOK
  <2>11. Len(Tail(q)) <= ClientCap BY SerialAssumption, <2>9, <2>10
  <2>. HIDE DEF q
  <2>4. <<virt.at, Head(q)>> \in (Clients \cup {Driver}) \X (0 .. Numbers - 1) BY <2>1, <2>3
  <2>5. driverQ' = Append(driverQ, <<virt.at, Head(q)>>) /\ clientQ' = [clientQ EXCEPT ![virt.at] = Tail(q)]
    BY <1>6 DEF Move, q
  <2>6. driverQ' \in Seq((Clients \cup {Driver}) \X (0 .. Numbers - 1)) /\ Len(driverQ') <= DriverCap
    BY SerialAssumption, <1>1, <1>6, <2>4, <2>5, SMTT(20) DEF QueuesOK, Move
  <2>7. \A c \in Clients : Len(clientQ'[c]) <= ClientCap
    BY <1>1, <2>1, <2>5, <2>11 DEF QueuesOK
  <2>8. clientQ' \in [Clients -> Seq(0 .. Numbers - 1)]
    BY <1>1, <2>3, <2>5, Zenon DEF QueuesOK
  <2> QED BY <1>1, <1>6, <2>6, <2>7, <2>8 DEF QueuesOK, Move
<1>7. CASE Cancel BY <1>1, <1>7 DEF QueuesOK, Cancel
<1>8. CASE Drain
  <2>1. \A e \in 0 .. Numbers - 1 : (e + 1) % Numbers \in 0 .. Numbers - 1
    BY SerialAssumption, ModDiv
  <2>2. emitted' \in [Clients -> 0 .. Numbers - 1] BY <1>1, <1>8, <2>1 DEF QueuesOK, Drain
  <2>3. driverQ' \in Seq((Clients \cup {Driver}) \X (0 .. Numbers - 1)) /\ Len(driverQ') <= DriverCap
    BY SerialAssumption, <1>1, <1>8 DEF QueuesOK, Drain
  <2> QED BY <1>1, <1>8, <2>2, <2>3 DEF QueuesOK, Drain
<1>9. CASE DriverCancel BY <1>1, <1>9, Zenon DEF QueuesOK, DriverCancel
<1> QED
  BY <1>2, <1>3, <1>4, <1>5, <1>6, <1>7, <1>8, <1>9, Steps, Zenon
  DEF vars, Say, PutFull, Kick, Wake, RecvNtfn, Notified, Visit, EndLoop, Length, Free, Recheck,
      NotifyDriver, Require, Poke, DrainStart, DrainEnd, DriverRequire, DriverPoke

\* Every step keeps the locals of the clients in range.
LEMMA WorkersKept ==
    ASSUME TypeOK, LocalsOK, [Next]_vars
    PROVE  worker' \in [Clients -> WorkerLocals]
<1>1. worker \in [Clients -> WorkerLocals] BY DEF TypeOK
<1>2. ASSUME UNCHANGED worker PROVE worker' \in [Clients -> WorkerLocals] BY <1>1, <1>2
<1>3. ASSUME NEW c \in Clients, NEW u \in WorkerLocals, worker' = [worker EXCEPT ![c] = u]
      PROVE  worker' \in [Clients -> WorkerLocals]
  BY <1>1, <1>3
<1>4. ASSUME NEW c \in Clients, NEW n \in 1 .. MaxLine, Say(c, n)
      PROVE  worker' \in [Clients -> WorkerLocals]
  <2>1. n \in 0 .. MaxLine BY SerialAssumption
  <2>2. [worker[c] EXCEPT !.pc = "put", !.left = n] \in WorkerLocals
    BY <1>1, <2>1, Zenon DEF WorkerLocals
  <2> QED BY <1>3, <1>4, <2>2, Zenon DEF Say
<1>5. ASSUME NEW c \in Clients, Put(c) PROVE worker' \in [Clients -> WorkerLocals]
  <2> DEFINE w == worker[c]
  <2>1. w \in WorkerLocals /\ w.pc = "put" BY <1>1, <1>5 DEF Put
  <2>2. w.left >= 1 BY <2>1 DEF LocalsOK, WorkersOK
  <2>. HIDE DEF w
  <2>3. w.left - 1 \in 0 .. MaxLine BY SerialAssumption, <2>1, <2>2 DEF WorkerLocals
  <2>4. (w.sent + 1) % Numbers \in 0 .. Numbers - 1
    <3>1. w.sent \in 0 .. Numbers - 1 BY <2>1 DEF WorkerLocals
    <3>2. w.sent + 1 \in Int /\ Numbers \in Nat \ {0} BY SerialAssumption, <3>1
    <3> QED BY <3>2, ModDiv, Zenon
  <2>5. [w EXCEPT !.pc = IF w.left = 1 THEN "done" ELSE "put", !.left = w.left - 1,
                  !.sent = (w.sent + 1) % Numbers] \in WorkerLocals
    BY <2>1, <2>3, <2>4, Zenon DEF WorkerLocals
  <2>6. worker' = [worker EXCEPT ![c] = [w EXCEPT
                     !.pc = IF w.left = 1 THEN "done" ELSE "put", !.left = w.left - 1,
                     !.sent = (w.sent + 1) % Numbers]]
    BY <1>5 DEF Put, w
  <2> QED BY <1>3, <2>5, <2>6, Zenon
<1>6. ASSUME NEW c \in Clients, PutFull(c) PROVE worker' \in [Clients -> WorkerLocals]
  <2>1. [worker[c] EXCEPT !.pc = "request"] \in WorkerLocals BY <1>1 DEF WorkerLocals
  <2> QED BY <1>3, <1>6, <2>1, Zenon DEF PutFull
<1>7. ASSUME NEW c \in Clients, RequestSignal(c) PROVE worker' \in [Clients -> WorkerLocals]
  <2>1. [worker[c] EXCEPT !.pc = "kick"] \in WorkerLocals BY <1>1 DEF WorkerLocals
  <2> QED BY <1>3, <1>7, <2>1, Zenon DEF RequestSignal
<1>8. ASSUME NEW c \in Clients, Kick(c) PROVE worker' \in [Clients -> WorkerLocals]
  <2>1. [worker[c] EXCEPT !.pc = IF @ = "kick" THEN "wait" ELSE "idle"] \in WorkerLocals
    BY <1>1 DEF WorkerLocals
  <2> QED BY <1>3, <1>8, <2>1, Zenon DEF Kick
<1>9. ASSUME NEW c \in Clients, Wake(c) PROVE worker' \in [Clients -> WorkerLocals]
  <2>1. [worker[c] EXCEPT !.pc = "put", !.semaphore = FALSE] \in WorkerLocals
    BY <1>1, Zenon DEF WorkerLocals
  <2> QED BY <1>3, <1>9, <2>1, Zenon DEF Wake
<1>10. ASSUME NEW c \in Clients, RecvNtfn(c) PROVE worker' \in [Clients -> WorkerLocals]
  <2>1. [worker[c] EXCEPT !.badge = FALSE, !.semaphore = TRUE] \in WorkerLocals
    BY <1>1, Zenon DEF WorkerLocals
  <2> QED BY <1>3, <1>10, <2>1, Zenon DEF RecvNtfn
<1>11. CASE Poke
  <2>1. virt.at \in Clients BY <1>11 DEF LocalsOK, VirtOK, Poke
  <2>2. [worker[virt.at] EXCEPT !.badge = TRUE] \in WorkerLocals BY <1>1, <2>1 DEF WorkerLocals
  <2> QED BY <1>3, <1>11, <2>1, <2>2, Zenon DEF Poke
<1> QED
  BY <1>2, <1>4, <1>5, <1>6, <1>7, <1>8, <1>9, <1>10, <1>11, Steps, Zenon
  DEF vars, Notified, Visit, EndLoop, Length, Free, Ask, Recheck, Move, NotifyDriver, Require,
      Cancel, DrainStart, Drain, DrainEnd, DriverRequire, DriverCancel, DriverPoke

\* Every step keeps the locals of the virtualiser in range.
LEMMA VirtKept ==
    ASSUME TypeOK, LocalsOK, [Next]_vars
    PROVE  virt' \in VirtLocals
<1>1. virt \in VirtLocals BY DEF TypeOK
<1>2. ASSUME UNCHANGED virt PROVE virt' \in VirtLocals BY <1>1, <1>2
<1>3. ASSUME NEW c \in Clients, Kick(c) PROVE virt' \in VirtLocals
  BY <1>1, <1>3 DEF Kick, VirtLocals
<1>4. CASE Notified BY <1>1, <1>4, Zenon DEF Notified, VirtLocals
<1>5. CASE Visit
  <2>1. Min(ToVisit) \in Clients BY <1>5, NextVisit DEF Visit
  <2> QED BY <1>1, <1>5, <2>1, Zenon DEF Visit, VirtLocals
<1>6. CASE EndLoop BY <1>1, <1>6, Zenon DEF EndLoop, VirtLocals
<1>7. CASE Length
  <2>1. virt.at \in Clients BY <1>7 DEF Length, LocalsOK, VirtOK
  <2>2. Len(clientQ[virt.at]) \in 0 .. ClientCap
    BY SerialAssumption, <2>1, Elements DEF TypeOK, QueuesOK
  <2> QED BY <1>1, <1>7, <2>2 DEF Length, VirtLocals
<1>8. CASE Free BY <1>1, <1>8 DEF Free, VirtLocals
<1>9. CASE Ask BY <1>1, <1>9 DEF Ask, VirtLocals
<1>10. CASE Recheck
  <2>1. virt.at \in Clients BY <1>10 DEF Recheck, LocalsOK, VirtOK
  <2>2. 0 \in 0 .. ClientCap BY SerialAssumption
  <2> QED BY <1>1, <1>10, <2>1, <2>2, Zenon DEF Recheck, LeavePending, VirtLocals
<1>11. CASE Move
  <2>1. virt.at \in Clients /\ virt.count >= 1 BY <1>11 DEF Move, LocalsOK, VirtOK
  <2>2. virt.count - 1 \in 0 .. ClientCap BY SerialAssumption, <1>1, <2>1 DEF VirtLocals
  <2>3. virt' = AfterMove BY <1>11 DEF Move
  <2> QED BY <1>1, <2>1, <2>2, <2>3 DEF AfterMove, VirtLocals
<1>12. CASE NotifyDriver BY <1>1, <1>12 DEF NotifyDriver, VirtLocals
<1>13. CASE Require BY <1>1, <1>13 DEF Require, VirtLocals
<1>14. CASE Cancel BY <1>1, <1>14 DEF Cancel, VirtLocals
<1>15. CASE Poke BY <1>1, <1>15 DEF Poke, VirtLocals
<1>16. CASE DriverPoke BY <1>1, <1>16 DEF DriverPoke, VirtLocals
<1> QED
  BY <1>2, <1>3, <1>4, <1>5, <1>6, <1>7, <1>8, <1>9, <1>10, <1>11, <1>12, <1>13, <1>14, <1>15,
     <1>16, Steps, Zenon
  DEF vars, Say, Put, PutFull, RequestSignal, Wake, RecvNtfn, DrainStart, Drain, DrainEnd,
      DriverRequire, DriverCancel

\* Every step keeps the locals of the driver in range.
LEMMA DriverKept ==
    ASSUME TypeOK, LocalsOK, [Next]_vars
    PROVE  driver' \in DriverLocals
<1>1. driver \in DriverLocals BY DEF TypeOK
<1>2. ASSUME UNCHANGED driver PROVE driver' \in DriverLocals BY <1>1, <1>2
<1>3. ASSUME driver.pc # "recv" PROVE Drained \in DriverLocals
  <2>1. driver.drains - 1 \in 0 .. 3 BY <1>1, <1>3 DEF LocalsOK, DrainsOK, DriverLocals
  <2> QED BY <1>1, <2>1, Zenon DEF Drained, DriverLocals
<1>4. ASSUME NEW b \in BOOLEAN PROVE [driver EXCEPT !.badge = b] \in DriverLocals
  BY <1>1 DEF DriverLocals
<1>5. CASE EndLoop
  <2>1. (driver.badge \/ (virt.mode = "resume" /\ virt.moved # {})) \in BOOLEAN OBVIOUS
  <2> QED BY <1>4, <1>5, <2>1, Zenon DEF EndLoop
<1>6. CASE NotifyDriver BY <1>4, <1>6, Zenon DEF NotifyDriver
<1>7. ASSUME NEW irq \in BOOLEAN, DrainStart(irq) PROVE driver' \in DriverLocals
  <2> DEFINE d == (IF irq THEN 2 ELSE 0) + (IF driver.badge THEN 1 ELSE 0)
  <2>1. d \in 0 .. 3 BY <1>1 DEF DriverLocals
  <2>2. driver' = [driver EXCEPT !.pc = "drain", !.badge = FALSE, !.drains = d]
    BY <1>7 DEF DrainStart
  <2>. HIDE DEF d
  <2> QED BY <1>1, <2>1, <2>2 DEF DriverLocals
<1>8. CASE Drain BY <1>1, <1>8 DEF Drain, DriverLocals
<1>9. CASE DrainEnd
  <2>1. [driver EXCEPT !.pc = "require"] \in DriverLocals BY <1>1 DEF DriverLocals
  <2>2. Drained \in DriverLocals BY <1>3, <1>9 DEF DrainEnd
  <2> QED BY <1>9, <2>1, <2>2, Zenon DEF DrainEnd
<1>10. CASE DriverRequire
  <2>1. [driver EXCEPT !.pc = "cancel"] \in DriverLocals BY <1>1 DEF DriverLocals
  <2>2. Drained \in DriverLocals BY <1>3, <1>10 DEF DriverRequire
  <2> QED BY <1>10, <2>1, <2>2, Zenon DEF DriverRequire
<1>11. CASE DriverCancel BY <1>1, <1>11 DEF DriverCancel, DriverLocals
<1>12. CASE DriverPoke BY <1>3, <1>12 DEF DriverPoke
<1> QED
  BY <1>2, <1>5, <1>6, <1>7, <1>8, <1>9, <1>10, <1>11, <1>12, Steps, Zenon
  DEF vars, queues, Say, Put, PutFull, RequestSignal, Kick, Wake, RecvNtfn, Notified, Visit, Length, Free,
      Ask, Recheck, Move, Require, Cancel, Poke

\* A client that is not done has bytes left to put, whatever the step.
LEMMA WorkersOKKept ==
    ASSUME TypeOK, LocalsOK, [Next]_vars
    PROVE  WorkersOK'
<1>1. WorkersOK /\ worker \in [Clients -> WorkerLocals] BY DEF LocalsOK, TypeOK
<1>2. ASSUME UNCHANGED worker PROVE WorkersOK' BY <1>1, <1>2 DEF WorkersOK
<1>3. ASSUME NEW c \in Clients, NEW n \in 1 .. MaxLine, Say(c, n) PROVE WorkersOK'
  BY <1>1, <1>3 DEF Say, WorkersOK, WorkerLocals
<1>4. ASSUME NEW c \in Clients, Put(c) PROVE WorkersOK'
  <2>1. worker[c].left \in Nat /\ worker[c].left >= 1
    BY SerialAssumption, <1>1, <1>4 DEF WorkersOK, Put, WorkerLocals
  <2> QED BY <1>1, <1>4, <2>1 DEF Put, WorkersOK, WorkerLocals
<1>5. ASSUME NEW c \in Clients, PutFull(c) PROVE WorkersOK'
  BY <1>1, <1>5 DEF PutFull, WorkersOK, WorkerLocals
<1>6. ASSUME NEW c \in Clients, RequestSignal(c) PROVE WorkersOK'
  BY <1>1, <1>6 DEF RequestSignal, WorkersOK, WorkerLocals
<1>7. ASSUME NEW c \in Clients, Kick(c) PROVE WorkersOK'
  BY <1>1, <1>7 DEF Kick, WorkersOK, WorkerLocals
<1>8. ASSUME NEW c \in Clients, Wake(c) PROVE WorkersOK'
  BY <1>1, <1>8 DEF Wake, WorkersOK, WorkerLocals
<1>9. ASSUME NEW c \in Clients, RecvNtfn(c) PROVE WorkersOK'
  BY <1>1, <1>9 DEF RecvNtfn, WorkersOK, WorkerLocals
<1>10. CASE Poke BY <1>1, <1>10 DEF Poke, WorkersOK, WorkerLocals
<1> QED
  BY <1>2, <1>3, <1>4, <1>5, <1>6, <1>7, <1>8, <1>9, <1>10, Steps, Zenon
  DEF vars, Notified, Visit, EndLoop, Length, Free, Ask, Recheck, Move, NotifyDriver, Require,
      Cancel, DrainStart, Drain, DrainEnd, DriverRequire, DriverCancel, DriverPoke

\* A driver in its handler has a drain left to end, whatever the step.
LEMMA DrainsOKKept ==
    ASSUME TypeOK, LocalsOK, [Next]_vars
    PROVE  DrainsOK'
<1>1. DrainsOK /\ driver \in DriverLocals BY DEF LocalsOK, TypeOK
<1>2. ASSUME UNCHANGED driver PROVE DrainsOK' BY <1>1, <1>2 DEF DrainsOK
<1>3. CASE EndLoop BY <1>1, <1>3 DEF EndLoop, DrainsOK, DriverLocals
<1>4. CASE NotifyDriver BY <1>1, <1>4 DEF NotifyDriver, DrainsOK, DriverLocals
<1>5. ASSUME NEW irq \in BOOLEAN, DrainStart(irq) PROVE DrainsOK'
  BY <1>1, <1>5 DEF DrainStart, DrainsOK, DriverLocals
<1>6. CASE Drain BY <1>1, <1>6 DEF Drain, DrainsOK, DriverLocals
<1>7. ASSUME driver' = Drained PROVE DrainsOK'
  BY <1>1, <1>7 DEF Drained, DrainsOK, DriverLocals
<1>8. CASE DrainEnd
  <2>1. CASE driver' = [driver EXCEPT !.pc = "require"]
    BY <1>1, <1>8, <2>1 DEF DrainEnd, DrainsOK, DriverLocals
  <2> QED BY <1>7, <1>8, <2>1, Zenon DEF DrainEnd
<1>9. CASE DriverRequire
  <2>1. CASE driver' = [driver EXCEPT !.pc = "cancel"]
    BY <1>1, <1>9, <2>1 DEF DriverRequire, DrainsOK, DriverLocals
  <2> QED BY <1>7, <1>9, <2>1, Zenon DEF DriverRequire
<1>10. CASE DriverCancel BY <1>1, <1>10 DEF DriverCancel, DrainsOK, DriverLocals
<1>11. CASE DriverPoke BY <1>7, <1>11 DEF DriverPoke
<1> QED
  BY <1>2, <1>3, <1>4, <1>5, <1>6, <1>8, <1>9, <1>10, <1>11, Steps, Zenon
  DEF vars, Say, Put, PutFull, RequestSignal, Kick, Wake, RecvNtfn, Notified, Visit, Length,
      Free, Ask, Recheck, Move, Require, Cancel, Poke

\* Every step keeps what the virtualiser has counted: only it takes bytes from a
\* client, and only it puts bytes before the driver.
LEMMA VirtOKKept ==
    ASSUME TypeOK, LocalsOK, [Next]_vars
    PROVE  VirtOK'
<1>1. VirtOK /\ virt \in VirtLocals /\ QueuesOK BY DEF LocalsOK, TypeOK
<1>2. /\ \A c \in Clients : clientQ[c] \in Seq(0 .. Numbers - 1) /\ Len(clientQ[c]) \in Nat
      /\ Len(driverQ) \in Nat
  BY <1>1, Elements DEF QueuesOK
<1>3. ASSUME UNCHANGED <<virt, clientQ, driverQ>> PROVE VirtOK'
  BY <1>1, <1>3 DEF VirtOK, Enough
<1>4. ASSUME NEW c \in Clients, Put(c) PROVE VirtOK'
  <2>1. \A d \in Clients : Len(clientQ'[d]) >= Len(clientQ[d])
    <3>1. worker[c].sent \in 0 .. Numbers - 1 BY DEF TypeOK, WorkerLocals
    <3>2. Len(Append(clientQ[c], worker[c].sent)) = Len(clientQ[c]) + 1 BY <1>2, <3>1, Pushed
    <3> QED BY <1>1, <1>2, <1>4, <3>2 DEF Put, QueuesOK
  <2>2. \A d \in Clients : Len(clientQ'[d]) \in Nat
    BY QueuesKept, Elements DEF QueuesOK
  <2>3. virt' = virt /\ driverQ' = driverQ BY <1>4 DEF Put
  <2>4. virt.pc \notin {"recv", "loop"} => virt.at \in Clients BY <1>1 DEF VirtOK
  <2>5. virt.count \in Nat BY SerialAssumption, <1>1 DEF VirtLocals
  <2> QED BY <1>1, <1>2, <2>1, <2>2, <2>3, <2>4, <2>5 DEF VirtOK, Enough
<1>5. ASSUME NEW c \in Clients, Kick(c) PROVE VirtOK'
  BY <1>1, <1>5 DEF Kick, VirtOK, VirtLocals, queues, Enough
<1>6. CASE Notified BY <1>1, <1>6 DEF Notified, VirtOK, VirtLocals
<1>7. CASE Visit
  <2>1. Min(ToVisit) \in Clients BY <1>7, NextVisit DEF Visit
  <2> QED BY <1>1, <1>7, <2>1 DEF Visit, VirtOK, VirtLocals
<1>8. CASE EndLoop BY <1>1, <1>8 DEF EndLoop, VirtOK, VirtLocals
<1>9. CASE Length
  <2>1. virt.at \in Clients BY <1>1, <1>9 DEF Length, VirtOK
  <2>2. clientQ[virt.at] # << >> => Len(clientQ[virt.at]) >= 1 BY <1>2, <2>1, Elements
  <2>3. Len(clientQ[virt.at]) <= Len(clientQ[virt.at]) BY <1>2, <2>1
  <2> QED BY <1>1, <1>9, <2>1, <2>2, <2>3 DEF Length, VirtOK, VirtLocals, queues
<1>10. CASE Free BY <1>1, <1>10 DEF Free, VirtOK, VirtLocals, queues, Enough
<1>11. CASE Ask BY <1>1, <1>11 DEF Ask, VirtOK, VirtLocals
<1>12. CASE Recheck
  BY <1>1, <1>12 DEF Recheck, LeavePending, VirtOK, VirtLocals, queues, Enough
<1>13. CASE Move
  <2> DEFINE q == clientQ[virt.at]
  <2>1. virt.at \in Clients /\ 1 <= virt.count /\ virt.count <= Len(q) /\ Enough
    BY <1>1, <1>13 DEF Move, VirtOK
  <2>2. q \in Seq(0 .. Numbers - 1) /\ q # << >> /\ Len(q) \in Nat BY <1>2, <1>13, <2>1 DEF Move
  <2>3. Len(Tail(q)) = Len(q) - 1 BY <2>2, Popped
  <2>4. Len(driverQ') = Len(driverQ) + 1
    <3>1. Head(q) \in 0 .. Numbers - 1 BY <2>2, Popped
    <3>2. <<virt.at, Head(q)>> \in (Clients \cup {Driver}) \X (0 .. Numbers - 1) BY <2>1, <3>1
    <3> QED BY <1>1, <1>13, <3>2, Pushed DEF QueuesOK, Move, q
  <2>5. clientQ'[virt.at] = Tail(q) BY <1>1, <1>13, <2>1 DEF QueuesOK, Move
  <2>6. virt.count \in Nat BY SerialAssumption, <1>1 DEF VirtLocals
  <2>. HIDE DEF q
  <2>7. /\ virt'.at = virt.at /\ virt'.count = virt.count - 1
        /\ virt'.pc \in {"move", "next", "notify"}
        /\ virt'.pc = "move" => virt.count > 1
    BY <1>1, <1>13, <2>6 DEF Move, AfterMove, VirtLocals
  <2>8. Enough'
    BY SerialAssumption, <1>2, <2>1, <2>4, <2>6, <2>7 DEF Enough
  <2> QED BY <2>1, <2>2, <2>3, <2>5, <2>6, <2>7, <2>8 DEF VirtOK
<1>14. CASE NotifyDriver BY <1>1, <1>14 DEF NotifyDriver, VirtOK, VirtLocals
<1>15. CASE Require BY <1>1, <1>15 DEF Require, VirtOK, VirtLocals
<1>16. CASE Cancel BY <1>1, <1>16 DEF Cancel, VirtOK, VirtLocals
<1>17. CASE Poke BY <1>1, <1>17 DEF Poke, VirtOK, VirtLocals
<1>18. CASE Drain
  <2>1. Len(driverQ') <= Len(driverQ) /\ Len(driverQ') \in Nat
    <3>1. driverQ # << >> /\ driverQ' = Tail(driverQ) BY <1>18 DEF Drain
    <3> QED BY <1>1, <3>1, Popped DEF QueuesOK
  <2>2. virt' = virt /\ clientQ' = clientQ BY <1>18 DEF Drain
  <2>3. virt.count \in Nat BY SerialAssumption, <1>1 DEF VirtLocals
  <2>4. Enough => Enough' BY SerialAssumption, <1>2, <2>1, <2>2, <2>3 DEF Enough
  <2> QED BY <1>1, <2>2, <2>4 DEF VirtOK
<1>19. CASE DriverPoke BY <1>1, <1>19 DEF DriverPoke, VirtOK, VirtLocals, queues, Enough
<1> QED
  BY <1>3, <1>4, <1>5, <1>6, <1>7, <1>8, <1>9, <1>10, <1>11, <1>12, <1>13, <1>14, <1>15, <1>16,
     <1>17, <1>18, <1>19, Steps, Zenon
  DEF vars, queues, Say, PutFull, RequestSignal, Wake, RecvNtfn, DrainStart, DrainEnd,
      DriverRequire, DriverCancel

\* Type correctness and the bounds, together.
LEMMA TypesKept ==
    ASSUME TypeOK, LocalsOK, [Next]_vars
    PROVE  TypeOK' /\ LocalsOK'
  BY QueuesKept, WorkersKept, VirtKept, DriverKept, WorkersOKKept, DrainsOKKept, VirtOKKept
  DEF TypeOK, LocalsOK

-----------------------------------------------------------------------------
(* Nothing is forgotten.                                                   *)

\* The driver's side: a byte is never left in the driver queue unannounced.
LEMMA DriverToldKept ==
    ASSUME TypeOK, LocalsOK, DriverTold, [Next]_vars
    PROVE  DriverTold'
<1>1. driver \in DriverLocals /\ virt \in VirtLocals BY DEF TypeOK
<1>2. ASSUME UNCHANGED <<driverQ, virt, driver>> PROVE DriverTold'
  BY <1>2 DEF DriverTold, WillNotify
<1>3. ASSUME UNCHANGED <<driverQ, driver>>, WillNotify => WillNotify' PROVE DriverTold'
  BY <1>3 DEF DriverTold
<1>4. ASSUME NEW c \in Clients, Kick(c) PROVE DriverTold'
  BY <1>1, <1>3, <1>4 DEF Kick, queues, WillNotify, VirtLocals
<1>5. CASE Notified
  <2>1. virt.mode = "provide" BY <1>5 DEF Notified, LocalsOK, VirtOK
  <2> QED BY <1>1, <1>3, <1>5, <2>1 DEF Notified, queues, WillNotify, VirtLocals
<1>6. CASE Visit BY <1>1, <1>3, <1>6 DEF Visit, queues, WillNotify, VirtLocals
<1>7. CASE EndLoop
  <2>1. CASE virt.mode = "resume" /\ virt.moved # {}
    <3>1. driver'.badge BY <1>1, <1>7, <2>1 DEF EndLoop, DriverLocals
    <3> QED BY <3>1 DEF DriverTold
  <2>2. CASE ~(virt.mode = "resume" /\ virt.moved # {})
    <3>1. ~WillNotify BY <1>7, <2>2 DEF EndLoop, WillNotify
    <3>2. driverQ' = driverQ /\ driver'.pc = driver.pc /\ (driver.badge => driver'.badge)
      BY <1>1, <1>7 DEF EndLoop, queues, DriverLocals
    <3> QED BY <3>1, <3>2 DEF DriverTold
  <2> QED BY <2>1, <2>2
<1>8. CASE Length BY <1>1, <1>3, <1>8 DEF Length, queues, WillNotify, VirtLocals
<1>9. CASE Free BY <1>1, <1>3, <1>9 DEF Free, queues, WillNotify, VirtLocals
<1>10. CASE Ask BY <1>1, <1>3, <1>10 DEF Ask, WillNotify, VirtLocals
<1>11. CASE Recheck
  BY <1>1, <1>3, <1>11 DEF Recheck, LeavePending, queues, WillNotify, VirtLocals
<1>12. CASE Move
  <2>1. virt.at \in Clients /\ virt.count \in Nat /\ virt.count >= 1
    BY SerialAssumption, <1>1, <1>12 DEF Move, LocalsOK, VirtOK, VirtLocals
  <2>2. WillNotify' BY <1>1, <1>12, <2>1 DEF Move, AfterMove, WillNotify, VirtLocals
  <2> QED BY <2>2 DEF DriverTold
<1>13. CASE NotifyDriver
  <2>1. driver'.badge BY <1>1, <1>13 DEF NotifyDriver, DriverLocals
  <2> QED BY <2>1 DEF DriverTold
<1>14. CASE Require BY <1>1, <1>3, <1>14 DEF Require, queues, WillNotify, VirtLocals
<1>15. CASE Cancel BY <1>1, <1>3, <1>15 DEF Cancel, WillNotify, VirtLocals
<1>16. CASE Poke BY <1>1, <1>3, <1>16 DEF Poke, queues, WillNotify, VirtLocals
<1>17. ASSUME NEW irq \in BOOLEAN, DrainStart(irq) PROVE DriverTold'
  <2>1. driver'.pc = "drain" BY <1>1, <1>17 DEF DrainStart, DriverLocals
  <2> QED BY <2>1 DEF DriverTold
<1>18. CASE Drain
  <2>1. driver'.pc = "drain" BY <1>1, <1>18 DEF Drain, DriverLocals
  <2> QED BY <2>1 DEF DriverTold
<1>19. CASE DrainEnd
  <2>1. driverQ' = << >> BY <1>19 DEF DrainEnd, queues
  <2> QED BY <2>1 DEF DriverTold
<1>20. ASSUME UNCHANGED driverQ, driver.pc # "drain", WillNotify => WillNotify',
              driver'.badge = driver.badge
       PROVE  DriverTold'
  BY <1>20 DEF DriverTold
<1>21. ASSUME driver' = Drained PROVE driver'.badge = driver.badge
  BY <1>1, <1>21 DEF Drained, DriverLocals
<1>22. CASE DriverRequire
  <2>1. driver'.badge = driver.badge
    <3>1. CASE driver' = [driver EXCEPT !.pc = "cancel"] BY <1>1, <3>1 DEF DriverLocals
    <3> QED BY <1>21, <1>22, <3>1, Zenon DEF DriverRequire
  <2> QED BY <1>20, <1>22, <2>1 DEF DriverRequire, queues, WillNotify
<1>23. CASE DriverCancel BY <1>1, <1>20, <1>23 DEF DriverCancel, WillNotify, DriverLocals
<1>24. CASE DriverPoke
  <2>1. driver'.badge = driver.badge BY <1>21, <1>24 DEF DriverPoke
  <2> QED BY <1>1, <1>20, <1>24, <2>1 DEF DriverPoke, queues, WillNotify, VirtLocals
<1> QED
  BY <1>2, <1>4, <1>5, <1>6, <1>7, <1>8, <1>9, <1>10, <1>11, <1>12, <1>13, <1>14, <1>15, <1>16,
     <1>17, <1>18, <1>19, <1>22, <1>23, <1>24, Steps, Zenon
  DEF vars, queues, Say, Put, PutFull, RequestSignal, Wake, RecvNtfn

\* What the driver does with the request: its cancel is followed by its poke.
LEMMA AskedKept ==
    ASSUME TypeOK, Asked, [Next]_vars
    PROVE  Asked'
<1>1. driver \in DriverLocals /\ virt \in VirtLocals BY DEF TypeOK
<1>2. ASSUME UNCHANGED <<driverWant, virt>>, driver'.pc = driver.pc PROVE Asked'
  BY <1>2 DEF Asked
<1>3. ASSUME virt'.pc # "recheck" PROVE Asked' BY <1>3 DEF Asked
<1>4. ASSUME NEW c \in Clients, Kick(c) PROVE Asked'
  BY <1>1, <1>4 DEF Kick, queues, Asked, VirtLocals
<1>5. CASE Notified BY <1>1, <1>3, <1>5 DEF Notified, VirtLocals
<1>6. CASE Visit BY <1>1, <1>3, <1>6 DEF Visit, VirtLocals
<1>7. CASE EndLoop BY <1>1, <1>3, <1>7 DEF EndLoop, VirtLocals
<1>8. CASE Length BY <1>1, <1>3, <1>8 DEF Length, VirtLocals
<1>9. CASE Free BY <1>1, <1>3, <1>9 DEF Free, VirtLocals
<1>10. CASE Ask BY <1>10 DEF Ask, Asked
<1>11. CASE Recheck BY <1>1, <1>3, <1>11 DEF Recheck, LeavePending, VirtLocals
<1>12. CASE Move BY <1>1, <1>3, <1>12 DEF Move, AfterMove, VirtLocals
<1>13. CASE NotifyDriver BY <1>1, <1>3, <1>13 DEF NotifyDriver, VirtLocals
<1>14. CASE Require BY <1>1, <1>3, <1>14 DEF Require, VirtLocals
<1>15. CASE Cancel BY <1>1, <1>3, <1>15 DEF Cancel, VirtLocals
<1>16. CASE Poke BY <1>1, <1>3, <1>16 DEF Poke, VirtLocals
<1>17. ASSUME UNCHANGED <<driverWant, virt>>, driver.pc # "poke" PROVE Asked'
  BY <1>17 DEF Asked
<1>18. CASE DriverCancel BY <1>1, <1>18 DEF DriverCancel, Asked, DriverLocals
<1>19. CASE DriverPoke BY <1>1, <1>19 DEF DriverPoke, Asked, VirtLocals
<1>20. CASE Drain BY <1>17, <1>20 DEF Drain
<1>21. CASE DrainEnd BY <1>17, <1>21 DEF DrainEnd, queues
<1>22. CASE DriverRequire BY <1>17, <1>22 DEF DriverRequire, queues
<1>23. ASSUME NEW irq \in BOOLEAN, DrainStart(irq) PROVE Asked'
  BY <1>17, <1>23 DEF DrainStart, queues
<1> QED
  BY <1>2, <1>4, <1>5, <1>6, <1>7, <1>8, <1>9, <1>10, <1>11, <1>12, <1>13, <1>14, <1>15, <1>16,
     <1>18, <1>19, <1>20, <1>21, <1>22, <1>23, Steps, Zenon
  DEF vars, queues, Say, Put, PutFull, RequestSignal, Wake, RecvNtfn

\* A poke that is coming keeps coming until the virtualiser receives it.
LEMMA ArmedKept ==
    ASSUME TypeOK, Armed, [Next]_vars, ~Notified
    PROVE  Armed'
<1>1. driver \in DriverLocals /\ virt \in VirtLocals BY DEF TypeOK
<1>2. ASSUME virt.badge \subseteq virt'.badge, driver'.pc = driver.pc,
             driver'.transferred = driver.transferred, driverWant => driverWant',
             driverQ # << >> => driverQ' # << >>
      PROVE  Armed'
  BY <1>2 DEF Armed
<1>3. ASSUME NEW c \in Clients, Kick(c) PROVE Armed'
  BY <1>1, <1>2, <1>3 DEF Kick, queues, VirtLocals
<1>4. ASSUME NEW c \in Clients, Put(c) \/ PutFull(c) \/ RequestSignal(c) \/ Wake(c) \/ RecvNtfn(c)
                                \/ \E n \in 1 .. MaxLine : Say(c, n)
      PROVE  Armed'
  BY <1>2, <1>4, Zenon DEF Put, PutFull, RequestSignal, Wake, RecvNtfn, Say, queues
<1>5. CASE Visit BY <1>1, <1>2, <1>5 DEF Visit, queues, VirtLocals
<1>6. CASE EndLoop BY <1>1, <1>2, <1>6 DEF EndLoop, queues, VirtLocals, DriverLocals
<1>7. CASE Length BY <1>1, <1>2, <1>7 DEF Length, queues, VirtLocals
<1>8. CASE Free BY <1>1, <1>2, <1>8 DEF Free, queues, VirtLocals
<1>9. CASE Ask BY <1>1, <1>2, <1>9 DEF Ask, VirtLocals
<1>10. CASE Recheck BY <1>1, <1>2, <1>10 DEF Recheck, LeavePending, queues, VirtLocals
<1>11. CASE Move
  <2>1. driverQ \in Seq((Clients \cup {Driver}) \X (0 .. Numbers - 1)) BY DEF TypeOK, QueuesOK
  <2>2. driverQ' # << >> BY <1>11, <2>1 DEF Move
  <2>3. virt'.badge = virt.badge BY <1>1, <1>11 DEF Move, AfterMove, VirtLocals
  <2> QED BY <1>2, <1>11, <2>2, <2>3 DEF Move
<1>12. CASE NotifyDriver BY <1>1, <1>2, <1>12 DEF NotifyDriver, queues, VirtLocals, DriverLocals
<1>13. CASE Require BY <1>1, <1>2, <1>13 DEF Require, queues, VirtLocals
<1>14. CASE Cancel BY <1>1, <1>2, <1>14 DEF Cancel, VirtLocals
<1>15. CASE Poke BY <1>1, <1>2, <1>15 DEF Poke, queues, VirtLocals
<1>16. ASSUME NEW irq \in BOOLEAN, DrainStart(irq) PROVE Armed'
  BY <1>1, <1>16 DEF DrainStart, queues, Armed, DriverLocals
<1>17. CASE Drain BY <1>1, <1>17 DEF Drain, Armed, DriverLocals
<1>18. CASE DrainEnd BY <1>1, <1>18 DEF DrainEnd, queues, Armed, Drained, DriverLocals
<1>19. CASE DriverRequire BY <1>1, <1>19 DEF DriverRequire, queues, Armed, Drained, DriverLocals
<1>20. CASE DriverCancel BY <1>1, <1>20 DEF DriverCancel, Armed, DriverLocals
<1>21. CASE DriverPoke BY <1>1, <1>21 DEF DriverPoke, Armed, VirtLocals
<1>22. CASE UNCHANGED vars BY <1>2, <1>22 DEF vars, queues
<1> QED
  BY <1>3, <1>4, <1>5, <1>6, <1>7, <1>8, <1>9, <1>10, <1>11, <1>12, <1>13, <1>14, <1>15, <1>16,
     <1>17, <1>18, <1>19, <1>20, <1>21, <1>22, Steps, Zenon

\* The virtualiser's side: a pending client is always resumed.
LEMMA ResumableKept ==
    ASSUME TypeOK, LocalsOK, Asked, Resumable, [Next]_vars
    PROVE  Resumable'
<1>1. virt \in VirtLocals BY DEF TypeOK
<1>2. ASSUME virt'.pending = virt.pending, virt'.mode = virt.mode, virt'.at = virt.at,
             ~Notified,
             virt'.pc = virt.pc \/ {virt.pc, virt'.pc} \cap {"recv", "loop"} = {}
      PROVE  Resumable'
  BY <1>2, ArmedKept, Zenon DEF Resumable, Later
<1>3. ASSUME virt.pc # "recv" PROVE ~Notified BY <1>3 DEF Notified
<1>4. ASSUME UNCHANGED virt PROVE Resumable'
  <2>1. ~Notified BY <1>1, <1>4, Zenon DEF Notified, VirtLocals
  <2> QED BY <1>2, <1>4, <2>1
<1>5. ASSUME NEW c \in Clients, Kick(c) PROVE Resumable'
  <2>1. ~Notified
    BY <1>1, <1>5 DEF Kick, Notified, VirtLocals
  <2> QED BY <1>1, <1>2, <1>5, <2>1 DEF Kick, VirtLocals
<1>6. CASE Notified
  <2>1. CASE Driver \in virt.badge
    <3>1. virt'.pc = "loop" /\ virt'.mode = "resume" /\ virt'.at = 1 /\ virt'.pending = virt.pending
      BY <1>1, <1>6, <2>1 DEF Notified, VirtLocals
    <3>2. \A c \in Clients : c >= 1 BY DEF Clients
    <3>3. virt.pending \subseteq Clients BY <1>1 DEF VirtLocals
    <3> QED BY <3>1, <3>2, <3>3 DEF Resumable, Later
  <2>2. CASE Driver \notin virt.badge
    <3>1. virt'.pending = virt.pending /\ UNCHANGED <<driver, driverQ, driverWant>>
      BY <1>1, <1>6 DEF Notified, VirtLocals, queues
    <3>2. virt.pc = "recv" BY <1>6 DEF Notified
    <3> QED BY <2>2, <3>1, <3>2 DEF Resumable, Armed
  <2> QED BY <2>1, <2>2
<1>7. CASE Visit
  <2> DEFINE m == Min(ToVisit)
  <2>1. m \in ToVisit /\ m \in Clients /\ \A c \in ToVisit : m <= c BY <1>7, NextVisit DEF Visit
  <2>. HIDE DEF m
  <2>2. ~Notified BY <1>3, <1>7 DEF Visit
  <2>3. /\ virt'.at = m /\ virt'.pc \notin {"recv", "loop"} /\ virt'.mode = virt.mode
        /\ virt'.pending \subseteq virt.pending
        /\ virt.mode = "resume" => virt'.pending = virt.pending \ {m}
    BY <1>1, <1>7 DEF Visit, VirtLocals, m
  <2>4. CASE virt.pending = {} BY <2>3, <2>4 DEF Resumable
  <2>5. CASE Armed BY <2>2, <2>5, ArmedKept DEF Resumable
  <2>6. CASE virt.mode = "resume" /\ virt.pending \subseteq Later
    <3>1. virt.pending \subseteq ToVisit BY <1>1, <1>7, <2>6 DEF Visit, ToVisit, Later, VirtLocals
    <3>2. \A c \in virt.pending \ {m} : c \in Clients /\ c > m
      BY SerialAssumption, <1>1, <2>1, <3>1 DEF Clients, VirtLocals
    <3> QED BY <2>3, <2>6, <3>2 DEF Resumable, Later
  <2> QED BY <2>4, <2>5, <2>6 DEF Resumable
<1>8. CASE EndLoop
  <2>1. ~Notified BY <1>3, <1>8 DEF EndLoop
  <2>2. virt'.pending = virt.pending BY <1>1, <1>8 DEF EndLoop, VirtLocals
  <2>3. CASE virt.mode = "resume" /\ virt.pending \subseteq Later
    <3>1. virt.pending \subseteq ToVisit BY <1>1, <1>8, <2>3 DEF EndLoop, ToVisit, Later, VirtLocals
    <3> QED BY <1>8, <2>2, <3>1 DEF EndLoop, Resumable
  <2> QED BY <2>1, <2>2, <2>3, ArmedKept DEF Resumable
<1>9. CASE Length BY <1>1, <1>2, <1>3, <1>9 DEF Length, VirtLocals
<1>10. CASE Free BY <1>1, <1>2, <1>3, <1>10 DEF Free, VirtLocals
<1>11. CASE Ask BY <1>1, <1>2, <1>3, <1>11 DEF Ask, VirtLocals
<1>12. CASE Recheck
  <2>1. ~Notified BY <1>3, <1>12 DEF Recheck
  <2>2. CASE Enough BY <1>1, <1>2, <1>12, <2>1, <2>2 DEF Recheck, VirtLocals
  <2>3. CASE ~Enough
    <3>1. driverQ # << >>
      <4>1. virt.count \in Nat /\ virt.count <= DriverCap
        BY SerialAssumption, <1>1 DEF VirtLocals
      <4> QED BY SerialAssumption, <2>3, <4>1, Elements DEF Enough
    <3>2. Armed BY <1>12, <3>1 DEF Recheck, Asked, Armed
    <3> QED BY <2>1, <3>2, ArmedKept DEF Resumable
  <2> QED BY <2>2, <2>3
<1>13. CASE Move
  <2>1. virt'.pending = virt.pending /\ virt'.mode = virt.mode /\ virt'.at = virt.at
        /\ virt'.pc \in {"move", "next", "notify"} /\ virt.pc = "move"
    BY <1>1, <1>13 DEF Move, AfterMove, VirtLocals
  <2> QED BY <1>2, <1>3, <2>1
<1>14. CASE NotifyDriver BY <1>1, <1>2, <1>3, <1>14 DEF NotifyDriver, VirtLocals
<1>15. CASE Require BY <1>1, <1>2, <1>3, <1>15 DEF Require, VirtLocals
<1>16. CASE Cancel BY <1>1, <1>2, <1>3, <1>16 DEF Cancel, VirtLocals
<1>17. CASE Poke BY <1>1, <1>2, <1>3, <1>17 DEF Poke, VirtLocals
<1>18. CASE DriverPoke
  <2>1. Armed /\ Armed' BY <1>1, <1>18 DEF DriverPoke, Armed, VirtLocals
  <2> QED BY <2>1 DEF Resumable
<1> QED
  BY <1>4, <1>5, <1>6, <1>7, <1>8, <1>9, <1>10, <1>11, <1>12, <1>13, <1>14, <1>15, <1>16,
     <1>17, <1>18, Steps, Zenon
  DEF vars, Say, Put, PutFull, RequestSignal, Wake, RecvNtfn, DrainStart, Drain, DrainEnd,
      DriverRequire, DriverCancel

\* The clients' side: uncounted bytes belong to a client that is looked at again.
LEMMA ClientsKnownKept ==
    ASSUME TypeOK, LocalsOK, ClientsKnown, [Next]_vars
    PROVE  ClientsKnown'
<1>1. virt \in VirtLocals /\ VirtOK /\ QueuesOK /\ worker \in [Clients -> WorkerLocals]
  BY DEF TypeOK, LocalsOK
<1>2. \A c \in Clients : Len(clientQ[c]) \in Nat /\ clientQ[c] \in Seq(0 .. Numbers - 1)
  BY <1>1, Elements DEF QueuesOK
<1>3. virt.count \in Nat BY SerialAssumption, <1>1 DEF VirtLocals
<1>4. ASSUME UNCHANGED clientQ, virt'.at = virt.at, virt'.count = virt.count,
             virt'.pc = virt.pc \/ {virt.pc, virt'.pc} \subseteq {"free", "ask", "recheck", "move"}
             \/ {virt.pc, virt'.pc} \cap {"free", "ask", "recheck", "move"} = {}
      PROVE  \A c \in Clients : Len(clientQ'[c]) > Counted(c)' => Len(clientQ[c]) > Counted(c)
  BY <1>4, Zenon DEF Counted
<1>5. ASSUME virt.badge \subseteq virt'.badge, virt.pending \subseteq virt'.pending,
             virt'.batch = virt.batch, virt'.mode = virt.mode, virt'.at = virt.at,
             virt'.pc = virt.pc \/ {virt.pc, virt'.pc} \cap {"recv", "loop", "length"} = {}
      PROVE  \A c \in Clients : worker'[c].pc = worker[c].pc /\ Known(c) => Known(c)'
  BY <1>5, Zenon DEF Known, Later
<1>6. ASSUME UNCHANGED <<clientQ, virt>>, \A c \in Clients : worker'[c].pc = worker[c].pc
      PROVE  ClientsKnown'
  BY <1>4, <1>5, <1>6 DEF ClientsKnown
<1>7. ASSUME UNCHANGED <<clientQ, virt>>, NEW c \in Clients, NEW u,
             worker' = [worker EXCEPT ![c] = u],
             worker[c].pc \in {"put", "request", "kick", "done"} => u.pc \in {"put", "request", "kick", "done"}
      PROVE  ClientsKnown'
  <2>1. \A d \in Clients : Known(d) => Known(d)'
    BY <1>1, <1>7 DEF Known, Later
  <2> QED BY <1>4, <1>7, <2>1 DEF ClientsKnown
<1>8. ASSUME NEW c \in Clients, NEW n \in 1 .. MaxLine, Say(c, n) PROVE ClientsKnown'
  <2>1. worker[c] \in WorkerLocals BY <1>1
  <2>2. [worker[c] EXCEPT !.pc = "put", !.left = n].pc = "put" BY <2>1 DEF WorkerLocals
  <2> QED BY <1>7, <1>8, <2>2 DEF Say, queues
<1>9. ASSUME NEW c \in Clients, Put(c) PROVE ClientsKnown'
  <2>1. worker'[c].pc \in {"put", "done"} BY <1>1, <1>9 DEF Put, WorkerLocals
  <2>2. \A d \in Clients \ {c} : worker'[d] = worker[d] /\ clientQ'[d] = clientQ[d]
    BY <1>1, <1>9 DEF Put, QueuesOK
  <2>3. virt' = virt BY <1>9 DEF Put
  <2>4. Known(c)' BY <2>1 DEF Known
  <2>5. \A d \in Clients \ {c} : (Known(d) => Known(d)') /\ Counted(d)' = Counted(d)
    BY <2>2, <2>3 DEF Known, Later, Counted
  <2> QED BY <2>2, <2>4, <2>5 DEF ClientsKnown
<1>10. ASSUME NEW c \in Clients, PutFull(c) PROVE ClientsKnown'
  <2>1. [worker[c] EXCEPT !.pc = "request"].pc = "request" BY <1>1 DEF WorkerLocals
  <2> QED BY <1>7, <1>10, <2>1, Zenon DEF PutFull, queues
<1>11. ASSUME NEW c \in Clients, RequestSignal(c) PROVE ClientsKnown'
  <2>1. [worker[c] EXCEPT !.pc = "kick"].pc = "kick" BY <1>1 DEF WorkerLocals
  <2> QED BY <1>7, <1>11, <2>1, Zenon DEF RequestSignal
<1>12. ASSUME NEW c \in Clients, Wake(c) PROVE ClientsKnown'
  <2>1. [worker[c] EXCEPT !.pc = "put", !.semaphore = FALSE].pc = "put" BY <1>1 DEF WorkerLocals
  <2> QED BY <1>7, <1>12, <2>1, Zenon DEF Wake, queues
<1>13. ASSUME NEW c \in Clients, RecvNtfn(c) PROVE ClientsKnown'
  <2>1. [worker[c] EXCEPT !.badge = FALSE, !.semaphore = TRUE].pc = worker[c].pc
    BY <1>1 DEF WorkerLocals
  <2> QED BY <1>7, <1>13, <2>1 DEF RecvNtfn, queues
<1>14. ASSUME NEW c \in Clients, Kick(c) PROVE ClientsKnown'
  <2>1. /\ virt'.badge = virt.badge \cup {c} /\ virt'.pending = virt.pending /\ virt'.pc = virt.pc
        /\ virt'.batch = virt.batch /\ virt'.mode = virt.mode /\ virt'.at = virt.at
        /\ virt'.count = virt.count
    BY <1>1, <1>14 DEF Kick, VirtLocals
  <2>2. \A d \in Clients \ {c} : worker'[d] = worker[d] BY <1>1, <1>14 DEF Kick
  <2>3. \A d \in Clients : Known(d) => Known(d)' BY <1>5, <2>1, <2>2 DEF Known
  <2> QED BY <1>4, <1>14, <2>1, <2>3 DEF Kick, queues, ClientsKnown
<1>15. CASE Notified
  <2>1. /\ virt'.badge = {} /\ virt'.pending = virt.pending /\ virt'.pc = "loop"
        /\ virt'.batch = virt.badge /\ virt'.at = 1 /\ virt'.count = virt.count
        /\ virt.pc = "recv" /\ virt.batch = {}
    BY <1>1, <1>15 DEF Notified, VirtLocals, VirtOK
  <2>2. \A c \in Clients : c \in Later' BY <2>1 DEF Later, Clients
  <2>3. UNCHANGED <<clientQ, worker>> BY <1>15 DEF Notified, queues
  <2>4. \A c \in Clients : (Known(c) => Known(c)') /\ Counted(c) = 0
    BY <2>1, <2>2, <2>3 DEF Known, Counted
  <2>5. \A c \in Clients : Counted(c)' = 0 BY <2>1 DEF Counted
  <2> QED BY <2>3, <2>4, <2>5 DEF ClientsKnown
<1>16. CASE Visit
  <2>1. PICK m \in Clients : m = Min(ToVisit) /\ m \in ToVisit /\ \A c \in ToVisit : m <= c
    BY <1>16, NextVisit DEF Visit
  <2>2. /\ virt'.at = m /\ virt'.pc \in {"length", "require"} /\ virt'.mode = virt.mode
        /\ virt'.badge = virt.badge /\ virt'.batch = virt.batch
        /\ virt.pending \ {m} \subseteq virt'.pending
        /\ virt'.pc = "length" \/ virt'.pending = virt.pending
        /\ virt.mode = "provide" => virt'.pc = "length"
        /\ virt.pc \in {"loop", "next"}
    BY <1>1, <1>16, <2>1 DEF Visit, VirtLocals
  <2>3. UNCHANGED <<clientQ, worker>> BY <1>16 DEF Visit, queues
  <2>4. \A c \in Clients : c \in virt.batch /\ virt.mode = "provide" /\ c \in Later => c \in ToVisit
    BY <2>2 DEF ToVisit, Later
  <2>5. \A c \in Clients \ {m} : c \in ToVisit => c \in Later'
    BY SerialAssumption, <2>1, <2>2 DEF Later, Clients
  <2>6. \A c \in Clients \ {m} : Known(c) => Known(c)'
    BY <2>2, <2>3, <2>4, <2>5 DEF Known
  <2>7. Known(m) => Known(m)' BY <2>2, <2>3 DEF Known
  <2>8. \A c \in Clients : Counted(c) = 0 /\ Counted(c)' = 0 BY <2>2 DEF Counted
  <2> QED BY <2>3, <2>6, <2>7, <2>8 DEF ClientsKnown
<1>17. CASE EndLoop
  <2>1. /\ virt.pc \in {"loop", "next"} /\ virt'.pc \in {"recv", "loop"} /\ virt'.at = 1
        /\ virt'.badge = virt.badge /\ virt'.pending = virt.pending
        /\ virt.mode # "provide" => virt'.batch = virt.batch /\ virt'.pc = "loop"
    BY <1>1, <1>17 DEF EndLoop, VirtLocals
  <2>2. UNCHANGED <<clientQ, worker>> BY <1>17 DEF EndLoop, queues
  <2>3. \A c \in Clients : ~(c \in virt.batch /\ virt.mode = "provide" /\ c \in Later)
    BY <1>17, <2>1 DEF EndLoop, ToVisit, Later
  <2>4. virt'.pc = "loop" => \A c \in Clients : c \in Later' BY <2>1 DEF Later, Clients
  <2>5. \A c \in Clients : Known(c) => Known(c)' BY <2>1, <2>2, <2>3, <2>4 DEF Known
  <2>6. \A c \in Clients : Counted(c) = 0 /\ Counted(c)' = 0 BY <2>1 DEF Counted
  <2> QED BY <2>2, <2>5, <2>6 DEF ClientsKnown
<1>18. CASE Length
  <2>1. PICK a \in Clients : a = virt.at /\ virt.pc = "length" BY <1>1, <1>18 DEF Length, VirtOK
  <2>2. /\ virt'.at = a /\ virt'.badge = virt.badge /\ virt'.pending = virt.pending
        /\ virt'.batch = virt.batch /\ virt'.mode = virt.mode
        /\ virt'.count = Len(clientQ[a])
        /\ virt'.pc = IF clientQ[a] = << >> THEN "next" ELSE "free"
    BY <1>1, <1>18, <2>1 DEF Length, VirtLocals
  <2>3. UNCHANGED <<clientQ, worker>> BY <1>18 DEF Length, queues
  <2>4. Len(clientQ[a]) <= Counted(a)'
    <3>1. CASE clientQ[a] = << >> BY <2>2, <3>1 DEF Counted
    <3>2. CASE clientQ[a] # << >> BY <1>2, <2>1, <2>2, <3>2 DEF Counted
    <3> QED BY <3>1, <3>2
  <2>5. \A c \in Clients \ {a} : (Known(c) => Known(c)') /\ Counted(c) = 0 /\ Counted(c)' = 0
    BY <2>1, <2>2, <2>3 DEF Known, Later, Counted
  <2>6. Counted(a)' \in Nat BY <1>2, <2>1, <2>2 DEF Counted
  <2> QED BY <1>2, <2>1, <2>3, <2>4, <2>5, <2>6 DEF ClientsKnown
<1>19. ASSUME UNCHANGED <<clientQ, worker>>, virt'.count = virt.count, virt'.at = virt.at,
              virt'.badge = virt.badge, virt'.pending = virt.pending, virt'.batch = virt.batch,
              virt'.mode = virt.mode,
              \/ {virt.pc, virt'.pc} \subseteq {"free", "ask", "recheck", "move"}
              \/ {virt.pc, virt'.pc} \subseteq {"notify", "require", "cancel", "poke", "next"}
       PROVE  ClientsKnown'
  BY <1>4, <1>5, <1>19 DEF ClientsKnown
<1>20. CASE Free BY <1>1, <1>19, <1>20 DEF Free, queues, VirtLocals
<1>21. CASE Ask BY <1>1, <1>19, <1>21 DEF Ask, VirtLocals
<1>22. CASE Recheck
  <2>1. CASE Enough BY <1>1, <1>19, <1>22, <2>1 DEF Recheck, queues, VirtLocals
  <2>2. CASE ~Enough
    <3>1. /\ virt.pc = "recheck" /\ virt'.pc = "next" /\ virt'.pending = virt.pending \cup {virt.at}
          /\ virt'.at = virt.at /\ virt'.badge = virt.badge /\ virt'.batch = virt.batch
          /\ virt'.mode = virt.mode
      BY <1>1, <1>22, <2>2 DEF Recheck, LeavePending, VirtLocals
    <3>2. UNCHANGED <<clientQ, worker>> BY <1>22 DEF Recheck, queues
    <3>3. \A c \in Clients : Known(c) => Known(c)' BY <1>5, <3>1, <3>2
    <3>4. \A c \in Clients : c = virt.at => Known(c)' BY <3>1 DEF Known
    <3>5. \A c \in Clients : c # virt.at => Counted(c) = 0 /\ Counted(c)' = 0 BY <3>1 DEF Counted
    <3> QED BY <3>2, <3>3, <3>4, <3>5 DEF ClientsKnown
  <2> QED BY <2>1, <2>2
<1>23. CASE Move
  <2>1. PICK a \in Clients : a = virt.at /\ virt.pc = "move" /\ 1 <= virt.count
    BY <1>1, <1>23 DEF Move, VirtOK
  <2> DEFINE q == clientQ[a]
  <2>2. q \in Seq(0 .. Numbers - 1) /\ q # << >> BY <1>2, <1>23, <2>1 DEF Move
  <2>3. Len(q) \in Nat /\ Len(Tail(q)) = Len(q) - 1 BY <2>2, Popped
  <2>4. clientQ'[a] = Tail(q) /\ \A c \in Clients \ {a} : clientQ'[c] = clientQ[c]
    BY <1>1, <1>23, <2>1 DEF QueuesOK, Move
  <2>. HIDE DEF q
  <2>5. /\ virt'.at = a /\ virt'.badge = virt.badge /\ virt'.pending = virt.pending
        /\ virt'.batch = virt.batch /\ virt'.mode = virt.mode
        /\ virt'.count = virt.count - 1 /\ virt'.pc \in {"move", "next", "notify"}
        /\ virt.count > 1 => virt'.pc = "move"
    BY <1>1, <1>3, <1>23, <2>1 DEF Move, AfterMove, VirtLocals
  <2>6. worker' = worker BY <1>23 DEF Move
  <2>7. \A c \in Clients : Known(c) => Known(c)' BY <1>5, <2>1, <2>5, <2>6
  <2>8. \A c \in Clients \ {a} : Counted(c) = 0 /\ Counted(c)' = 0 BY <2>1, <2>5 DEF Counted
  <2>9. Counted(a) = virt.count /\ Counted(a)' = virt.count - 1
    BY <1>3, <2>1, <2>5 DEF Counted
  <2>10. Len(clientQ'[a]) > Counted(a)' => Len(clientQ[a]) > Counted(a)
    BY <1>3, <2>3, <2>4, <2>9 DEF q
  <2> QED BY <2>4, <2>7, <2>8, <2>10 DEF ClientsKnown
<1>24. CASE NotifyDriver BY <1>1, <1>19, <1>24 DEF NotifyDriver, queues, VirtLocals
<1>25. CASE Require BY <1>1, <1>19, <1>25 DEF Require, queues, VirtLocals
<1>26. CASE Cancel BY <1>1, <1>19, <1>26 DEF Cancel, VirtLocals
<1>27. CASE Poke
  <2>1. \A c \in Clients : worker'[c].pc = worker[c].pc
    <3>1. virt.at \in Clients BY <1>1, <1>27 DEF Poke, VirtOK
    <3> QED BY <1>1, <1>27, <3>1 DEF Poke, WorkerLocals
  <2>2. \A c \in Clients : Known(c) => Known(c)'
    BY <1>1, <1>5, <1>27, <2>1 DEF Poke, VirtLocals
  <2> QED BY <1>1, <1>4, <1>27, <2>2 DEF Poke, queues, VirtLocals, ClientsKnown
<1>28. CASE DriverPoke
  <2>1. \A c \in Clients : Known(c) => Known(c)' BY <1>1, <1>5, <1>28 DEF DriverPoke, VirtLocals
  <2> QED BY <1>1, <1>4, <1>28, <2>1 DEF DriverPoke, queues, VirtLocals, ClientsKnown
<1>29. CASE UNCHANGED <<clientQ, virt, worker>> BY <1>6, <1>29
<1> QED
  BY <1>8, <1>9, <1>10, <1>11, <1>12, <1>13, <1>14, <1>15, <1>16, <1>17, <1>18, <1>20, <1>21,
     <1>22, <1>23, <1>24, <1>25, <1>26, <1>27, <1>28, <1>29, Steps, Zenon
  DEF vars, queues, DrainStart, Drain, DrainEnd, DriverRequire, DriverCancel

-----------------------------------------------------------------------------
(* How many bytes of a client lie ahead of one in a queue.                 *)

\* A client's bytes among the first i of a queue are finitely many, ...
LEMMA AheadFinite ==
    ASSUME NEW q, NEW c, NEW i \in Nat
    PROVE  IsFiniteSet({j \in 1 .. i : q[j][1] = c})
<1>1. IsFiniteSet(1 .. i) BY FS_Interval
<1> QED BY <1>1, FS_Subset

\* ... so their count is a number, ...
LEMMA AheadNat ==
    ASSUME NEW q, NEW c, NEW i \in Nat
    PROVE  Ahead(q, c, i) \in Nat
  BY AheadFinite, FS_CardinalityType, Zenon DEF Ahead

\* ... an enqueue adds its byte at the end, ...
LEMMA AheadPushed ==
    ASSUME NEW S, NEW q \in Seq(S), NEW e \in S, NEW c
    PROVE  /\ \A i \in 0 .. Len(q) : Ahead(Append(q, e), c, i) = Ahead(q, c, i)
           /\ Ahead(Append(q, e), c, Len(q) + 1) =
                IF e[1] = c THEN Ahead(q, c, Len(q)) + 1 ELSE Ahead(q, c, Len(q))
<1> DEFINE r == Append(q, e)
           Set(p, i) == {j \in 1 .. i : p[j][1] = c}
<1>1. Len(q) \in Nat /\ r[Len(q) + 1] = e /\ \A i \in 1 .. Len(q) : r[i] = q[i] BY Pushed
<1>. HIDE DEF r
<1>2. \A i \in 0 .. Len(q) : Set(r, i) = Set(q, i) BY <1>1
<1>3. IsFiniteSet(Set(q, Len(q))) BY <1>1, AheadFinite, Zenon
<1>4. Len(q) + 1 \notin Set(q, Len(q)) BY <1>1
<1>5. CASE e[1] = c
  <2>1. Set(r, Len(q) + 1) = Set(q, Len(q)) \cup {Len(q) + 1} BY <1>1, <1>5
  <2>2. Cardinality(Set(r, Len(q) + 1)) = Cardinality(Set(q, Len(q))) + 1
    BY <1>3, <1>4, <2>1, FS_AddElement, Zenon
  <2> QED BY <1>2, <1>5, <2>2, Zenon DEF Ahead, r
<1>6. CASE e[1] # c
  <2>1. Set(r, Len(q) + 1) = Set(q, Len(q)) BY <1>1, <1>6
  <2> QED BY <1>2, <1>6, <2>1, Zenon DEF Ahead, r
<1> QED BY <1>5, <1>6

\* ... and a dequeue takes its byte from the front.
LEMMA AheadPopped ==
    ASSUME NEW S, NEW q \in Seq(S), q # << >>, NEW c, NEW i \in 0 .. Len(q) - 1
    PROVE  Ahead(q, c, i + 1) =
             IF q[1][1] = c THEN Ahead(Tail(q), c, i) + 1 ELSE Ahead(Tail(q), c, i)
<1> DEFINE r == Tail(q)
           A == {j \in 1 .. i : r[j][1] = c}
           B == {j + 1 : j \in A}
           f == [j \in A |-> j + 1]
           F == {j \in 1 .. i + 1 : q[j][1] = c}
<1>1. Len(q) \in Nat \ {0} /\ \A j \in 1 .. Len(q) - 1 : r[j] = q[j + 1] BY Popped
<1>. HIDE DEF r
<1>2. i \in Nat /\ i <= Len(q) - 1 BY <1>1
<1>3. IsFiniteSet(A) /\ Cardinality(A) \in Nat BY <1>2, AheadFinite, FS_CardinalityType
<1>4. f \in Bijection(A, B)
  BY DEF Bijection, Injection, Surjection, IsInjective
<1>5. IsFiniteSet(B) /\ Cardinality(B) = Cardinality(A)
  <2>1. ExistsBijection(A, B) BY <1>4 DEF ExistsBijection
  <2> QED BY <1>3, <2>1, FS_Bijection
<1>6. F \ {1} = B
  <2>1. \A j \in A : j + 1 \in F /\ j + 1 # 1 BY <1>1, <1>2
  <2>2. ASSUME NEW k \in F, k # 1 PROVE k \in B
    <3>1. k - 1 \in A /\ k = (k - 1) + 1 BY <1>1, <1>2, <2>2
    <3> QED BY <3>1
  <2> QED BY <2>1, <2>2
<1>7. 1 \notin B BY DEF B
<1>8. CASE q[1][1] = c
  <2>1. F = B \cup {1} BY <1>2, <1>6, <1>8
  <2>2. Cardinality(F) = Cardinality(B) + 1 BY <1>5, <1>7, <2>1, FS_AddElement, Zenon
  <2> QED BY <1>5, <1>8, <2>2, Zenon DEF Ahead, r
<1>9. CASE q[1][1] # c
  <2>1. F = B BY <1>6, <1>9
  <2> QED BY <1>5, <1>9, <2>1 DEF Ahead, r
<1> QED BY <1>8, <1>9

\* InOrder, for one client.
Stream(c) ==
  LET moved == Ahead(driverQ, c, Len(driverQ))
  IN /\ \A i \in 1 .. Len(driverQ) :
          driverQ[i][1] = c => driverQ[i][2] = (emitted[c] + Ahead(driverQ, c, i) - 1) % Numbers
     /\ \A i \in 1 .. Len(clientQ[c]) : clientQ[c][i] = (emitted[c] + moved + i - 1) % Numbers
     /\ worker[c].sent = (emitted[c] + moved + Len(clientQ[c])) % Numbers

\* The client appends its next number.
LEMMA StreamPut ==
    ASSUME TypeOK, NEW c \in Clients, Stream(c), Put(c)
    PROVE  Stream(c)'
<1> DEFINE q == clientQ[c]
           w == worker[c]
           M == Ahead(driverQ, c, Len(driverQ))
           e == emitted[c]
<1>1. q \in Seq(0 .. Numbers - 1) /\ w \in WorkerLocals /\ w.sent \in 0 .. Numbers - 1
  BY DEF TypeOK, QueuesOK, WorkerLocals
<1>2. Len(driverQ) \in Nat BY Elements DEF TypeOK, QueuesOK
<1>3. M \in Nat /\ e \in Int
  <2>1. M \in Nat BY <1>2, AheadNat
  <2> QED BY SerialAssumption, <2>1 DEF TypeOK, QueuesOK
<1>4. UNCHANGED <<driverQ, emitted>> /\ clientQ'[c] = Append(q, w.sent)
      /\ worker'[c].sent = (w.sent + 1) % Numbers
  BY <1>1 DEF Put, TypeOK, QueuesOK, WorkerLocals
<1>5. Len(q) \in Nat /\ Len(clientQ'[c]) = Len(q) + 1 /\ clientQ'[c][Len(q) + 1] = w.sent
      /\ \A i \in 1 .. Len(q) : clientQ'[c][i] = q[i]
  BY <1>1, <1>4, Pushed
<1>6. w.sent = (e + M + Len(q)) % Numbers /\ \A i \in 1 .. Len(q) : q[i] = (e + M + i - 1) % Numbers
  BY DEF Stream
<1>7. (Ahead(driverQ, c, Len(driverQ)))' = M /\ emitted'[c] = e BY <1>4 DEF Ahead
<1>8. \A i \in 1 .. Len(driverQ) : (Ahead(driverQ, c, i))' = Ahead(driverQ, c, i) BY <1>4 DEF Ahead
<1>9. \A i \in 1 .. Len(driverQ) :
        driverQ[i][1] = c => driverQ[i][2] = (e + Ahead(driverQ, c, i) - 1) % Numbers
  BY DEF Stream
<1>. HIDE DEF q, w, M, e
<1>10. e + M + (Len(q) + 1) - 1 = e + M + Len(q) BY <1>3, <1>5
<1>11. \A i \in 1 .. Len(q) + 1 : clientQ'[c][i] = (e + M + i - 1) % Numbers
  <2>1. \A i \in 1 .. Len(q) + 1 : i \in 1 .. Len(q) \/ i = Len(q) + 1 BY <1>5
  <2> QED BY <1>5, <1>6, <1>10, <2>1
<1>12. (w.sent + 1) % Numbers = (e + M + (Len(q) + 1)) % Numbers
  <2> DEFINE a == e + M + Len(q)
  <2>1. a \in Int /\ a + 1 = e + M + (Len(q) + 1) BY <1>3, <1>5
  <2>2. ((a % Numbers) + 1) % Numbers = (a + 1) % Numbers
    <3>1. Numbers \in Nat \ {0} BY SerialAssumption
    <3>2. a \in Int BY <2>1
    <3>. HIDE DEF a
    <3>3. \A k \in Int : ((a % Numbers) + k) % Numbers = (a + k) % Numbers BY <3>1, <3>2, ModSum, Zenon
    <3> QED BY <3>3
  <2> QED BY <1>6, <2>1, <2>2
<1> QED BY <1>4, <1>5, <1>7, <1>8, <1>9, <1>11, <1>12 DEF Stream, e

\* The virtualiser moves the oldest byte of the client's queue to the end of the driver's.
LEMMA StreamMove ==
    ASSUME TypeOK, VirtOK, NEW c \in Clients, Stream(c), Move
    PROVE  Stream(c)'
<1>1. PICK a \in Clients : a = virt.at BY DEF Move, VirtOK
<1> DEFINE q == clientQ[a]
           D == driverQ
           N == Len(driverQ)
           b == <<a, q[1]>>
           M == Ahead(D, c, N)
           e == emitted[c]
           S == (Clients \cup {Driver}) \X (0 .. Numbers - 1)
<1>2. q \in Seq(0 .. Numbers - 1) /\ q # << >> BY <1>1 DEF TypeOK, QueuesOK, Move
<1>3. Len(q) \in Nat \ {0} /\ q[1] \in 0 .. Numbers - 1 /\ Head(q) = q[1]
      /\ Len(Tail(q)) = Len(q) - 1 /\ \A i \in 1 .. Len(q) - 1 : Tail(q)[i] = q[i + 1]
  BY <1>2, Popped
<1>4. driverQ' = Append(D, b) /\ clientQ'[a] = Tail(q) /\ UNCHANGED <<emitted, worker>>
      /\ \A d \in Clients \ {a} : clientQ'[d] = clientQ[d]
  BY <1>1, <1>3, SMTT(20) DEF Move, TypeOK, QueuesOK
<1>5. D \in Seq(S) /\ b \in S BY <1>3 DEF TypeOK, QueuesOK
<1>6. b[1] = a /\ b[2] = q[1] OBVIOUS
<1>. HIDE DEF S, b
<1>7. /\ N \in Nat /\ Len(driverQ') = N + 1 /\ driverQ'[N + 1] = b
      /\ \A i \in 1 .. N : driverQ'[i] = D[i]
  BY <1>4, <1>5, Pushed
<1>8. /\ \A i \in 0 .. N : (Ahead(driverQ, c, i))' = Ahead(D, c, i)
      /\ (Ahead(driverQ, c, Len(driverQ)))' = IF a = c THEN M + 1 ELSE M
      /\ \A i \in {N + 1} : (Ahead(driverQ, c, i))' = IF a = c THEN M + 1 ELSE M
  BY <1>4, <1>5, <1>6, <1>7, AheadPushed
<1>9. M \in Nat /\ e \in Int
  <2>1. M \in Nat BY <1>7, AheadNat
  <2> QED BY SerialAssumption, <2>1 DEF TypeOK, QueuesOK
<1>10. \A i \in 1 .. N : D[i][1] = c => D[i][2] = (e + Ahead(D, c, i) - 1) % Numbers
  BY DEF Stream
<1>11. \A i \in 1 .. Len(clientQ[c]) : clientQ[c][i] = (e + M + i - 1) % Numbers BY DEF Stream
<1>12. worker[c].sent = (e + M + Len(clientQ[c])) % Numbers BY DEF Stream
<1>13. emitted'[c] = e /\ worker'[c].sent = worker[c].sent BY <1>4
<1>. HIDE DEF D, N, M, e
<1>14. \A i \in 1 .. N + 1 : i \in 1 .. N \/ i = N + 1 BY <1>7
<1>15. CASE a = c
  <2>. HIDE DEF q
  <2>1. \A i \in 1 .. Len(q) : q[i] = (e + M + i - 1) % Numbers BY <1>11, <1>15 DEF q
  <2>2. q[1] = (e + (M + 1) - 1) % Numbers
    <3>1. 1 \in 1 .. Len(q) /\ e + M + 1 - 1 = e + (M + 1) - 1 BY <1>3, <1>9
    <3> QED BY <2>1, <3>1
  <2>3. \A i \in 1 .. N + 1 : driverQ'[i][1] = c =>
          driverQ'[i][2] = (e + (Ahead(driverQ, c, i))' - 1) % Numbers
    <3>1. \A i \in 1 .. N : driverQ'[i][1] = c =>
            driverQ'[i][2] = (e + (Ahead(driverQ, c, i))' - 1) % Numbers
      <4>1. \A i \in 1 .. N : i \in 0 .. N BY <1>7
      <4> QED BY <1>7, <1>8, <1>10, <4>1
    <3>2. driverQ'[N + 1][2] = (e + (M + 1) - 1) % Numbers BY <1>6, <1>7, <2>2
    <3> QED BY <1>8, <1>14, <1>15, <3>1, <3>2
  <2>4. \A i \in 1 .. Len(Tail(q)) : Tail(q)[i] = (e + (M + 1) + i - 1) % Numbers
    <3>1. \A i \in 1 .. Len(q) - 1 : i + 1 \in 1 .. Len(q) /\ e + M + (i + 1) - 1 = e + (M + 1) + i - 1
      BY <1>3, <1>9
    <3>2. \A i \in 1 .. Len(q) - 1 : q[i + 1] = (e + M + (i + 1) - 1) % Numbers BY <2>1, <3>1
    <3> QED BY <1>3, <3>1, <3>2
  <2>5. worker[c].sent = (e + (M + 1) + Len(Tail(q))) % Numbers
    <3>1. e + (M + 1) + Len(Tail(q)) = e + M + Len(q) BY <1>3, <1>9
    <3> QED BY <1>12, <1>15, <3>1 DEF q
  <2> QED BY <1>4, <1>7, <1>8, <1>13, <1>15, <2>3, <2>4, <2>5 DEF Stream
<1>16. CASE a # c
  <2>1. \A i \in 1 .. N + 1 : driverQ'[i][1] = c =>
          driverQ'[i][2] = (e + (Ahead(driverQ, c, i))' - 1) % Numbers
    <3>1. \A i \in 1 .. N : i \in 0 .. N BY <1>7
    <3> QED BY <1>6, <1>7, <1>8, <1>10, <1>14, <1>16, <3>1
  <2> QED BY <1>4, <1>7, <1>8, <1>11, <1>12, <1>13, <1>16, <2>1, SMTT(40) DEF Stream
<1> QED BY <1>15, <1>16

\* The driver writes the oldest byte of its queue to the UART.
LEMMA StreamDrain ==
    ASSUME TypeOK, NEW c \in Clients, Stream(c), Drain
    PROVE  Stream(c)'
<1> DEFINE D == driverQ
           N == Len(driverQ)
           M == Ahead(D, c, N)
           e == emitted[c]
           S == (Clients \cup {Driver}) \X (0 .. Numbers - 1)
<1>1. D \in Seq(S) /\ D # << >> BY DEF TypeOK, QueuesOK, Drain
<1>. HIDE DEF S
<1>2. N \in Nat \ {0} /\ Head(D) = D[1] /\ Len(Tail(D)) = N - 1
      /\ \A i \in 1 .. N - 1 : Tail(D)[i] = D[i + 1]
  BY <1>1, Popped
<1>3. /\ driverQ' = Tail(D) /\ UNCHANGED <<clientQ, worker>>
      /\ emitted'[c] = IF D[1][1] = c THEN (e + 1) % Numbers ELSE e
  BY <1>2 DEF Drain, TypeOK, QueuesOK, Clients, Driver
<1>4. \A i \in 0 .. N - 1 : Ahead(driverQ', c, i) \in Nat
  <2>1. \A i \in 0 .. N - 1 : i \in Nat BY <1>2
  <2> QED BY <2>1, AheadNat
<1>5. \A i \in 0 .. N - 1 : Ahead(D, c, i + 1) =
                            Ahead(driverQ', c, i) + (IF D[1][1] = c THEN 1 ELSE 0)
  BY <1>1, <1>2, <1>3, <1>4, AheadPopped
<1>6. e \in Int BY SerialAssumption DEF TypeOK, QueuesOK
<1>7. \A i \in 1 .. N : D[i][1] = c => D[i][2] = (e + Ahead(D, c, i) - 1) % Numbers
  BY DEF Stream
<1>8. \A i \in 1 .. Len(clientQ[c]) : clientQ[c][i] = (e + M + i - 1) % Numbers BY DEF Stream
<1>9. worker[c].sent = (e + M + Len(clientQ[c])) % Numbers BY DEF Stream
<1>10. Len(clientQ[c]) \in Nat BY Elements DEF TypeOK, QueuesOK
<1>11. PICK P \in Nat : P = Ahead(driverQ', c, Len(driverQ'))
  BY <1>2, <1>3, <1>4
<1>12. M = P + (IF D[1][1] = c THEN 1 ELSE 0)
  <2>1. N - 1 \in 0 .. N - 1 /\ (N - 1) + 1 = N BY <1>2
  <2> QED BY <1>2, <1>3, <1>5, <1>11, <2>1
<1>13. \A i \in 1 .. N - 1 : i \in 0 .. N - 1 /\ i + 1 \in 1 .. N BY <1>2
<1>. HIDE DEF D, N, M, e
<1>14. CASE D[1][1] = c
  <2>1. \A k \in Int : (e + 1 + k) % Numbers = (((e + 1) % Numbers) + k) % Numbers
    <3>1. Numbers \in Nat \ {0} BY SerialAssumption
    <3> DEFINE x == e + 1
    <3>2. x \in Int BY <1>6
    <3>. HIDE DEF x
    <3>3. \A k \in Int : (x + k) % Numbers = ((x % Numbers) + k) % Numbers BY <3>1, <3>2, ModSum
    <3> QED BY <3>3 DEF x
  <2>2. \A i \in 1 .. N - 1 : driverQ'[i][1] = c =>
          driverQ'[i][2] = (((e + 1) % Numbers) + Ahead(driverQ', c, i) - 1) % Numbers
    <3> SUFFICES ASSUME NEW i \in 1 .. N - 1, driverQ'[i][1] = c
                 PROVE  driverQ'[i][2] = (((e + 1) % Numbers) + Ahead(driverQ', c, i) - 1) % Numbers
      OBVIOUS
    <3>1. PICK k \in Nat : k = Ahead(driverQ', c, i) BY <1>4, <1>13
    <3>2. Ahead(D, c, i + 1) = k + 1 BY <1>5, <1>13, <1>14, <3>1
    <3>3. driverQ'[i] = D[i + 1] BY <1>2, <1>3
    <3>4. driverQ'[i][2] = (e + (k + 1) - 1) % Numbers BY <1>7, <1>13, <3>2, <3>3
    <3>5. e + (k + 1) - 1 = e + 1 + (k - 1) /\ k - 1 \in Int BY <1>6
    <3>6. (e + 1) % Numbers \in Int BY SerialAssumption, <1>6, ModDiv
    <3>7. ((e + 1) % Numbers) + (k - 1) = ((e + 1) % Numbers) + k - 1 BY <3>6
    <3> QED BY <2>1, <3>1, <3>4, <3>5, <3>7
  <2>3. (e + 1) % Numbers \in Int BY SerialAssumption, <1>6, ModDiv
  <2>4. \A i \in 1 .. Len(clientQ[c]) : clientQ[c][i] = (((e + 1) % Numbers) + P + i - 1) % Numbers
    <3>1. \A i \in 1 .. Len(clientQ[c]) :
            /\ e + M + i - 1 = e + 1 + (P + i - 1) /\ P + i - 1 \in Int
            /\ ((e + 1) % Numbers) + (P + i - 1) = ((e + 1) % Numbers) + P + i - 1
      BY <1>6, <1>10, <1>12, <1>14, <2>3
    <3> QED BY <1>8, <2>1, <3>1
  <2>5. worker[c].sent = (((e + 1) % Numbers) + P + Len(clientQ[c])) % Numbers
    <3>1. /\ e + M + Len(clientQ[c]) = e + 1 + (P + Len(clientQ[c]))
          /\ P + Len(clientQ[c]) \in Int
      <4>1. \A l \in Nat : e + (P + 1) + l = e + 1 + (P + l) /\ P + l \in Int BY <1>6
      <4> QED BY <1>10, <1>12, <1>14, <4>1
    <3>2. ((e + 1) % Numbers) + (P + Len(clientQ[c])) = ((e + 1) % Numbers) + P + Len(clientQ[c])
      BY <1>10, <2>3
    <3> QED BY <1>9, <2>1, <3>1, <3>2
  <2> QED BY <1>2, <1>3, <1>11, <1>14, <2>2, <2>4, <2>5, SMTT(40) DEF Stream, N
<1>15. CASE D[1][1] # c
  <2>1. M = P BY <1>12, <1>15
  <2>2. \A i \in 1 .. N - 1 : driverQ'[i][1] = c =>
          driverQ'[i][2] = (e + Ahead(driverQ', c, i) - 1) % Numbers
    <3>1. \A i \in 1 .. N - 1 : Ahead(D, c, i + 1) = Ahead(driverQ', c, i)
      BY <1>4, <1>5, <1>13, <1>15
    <3>2. \A i \in 1 .. N - 1 : driverQ'[i] = D[i + 1] BY <1>2, <1>3
    <3> QED BY <1>7, <1>13, <3>1, <3>2
  <2> QED BY <1>2, <1>3, <1>8, <1>9, <1>11, <1>15, <2>1, <2>2 DEF Stream, N
<1> QED BY <1>14, <1>15

\* Every step keeps the bytes of every client in order.
LEMMA InOrderKept ==
    ASSUME TypeOK, LocalsOK, InOrder, [Next]_vars
    PROVE  InOrder'
<1>1. \A c \in Clients : Stream(c) BY DEF InOrder, Stream
<1>2. SUFFICES ASSUME NEW c \in Clients PROVE Stream(c)' BY DEF InOrder, Stream
<1>3. Stream(c) /\ worker \in [Clients -> WorkerLocals] BY <1>1 DEF TypeOK
<1>4. ASSUME UNCHANGED <<driverQ, emitted>>, clientQ'[c] = clientQ[c],
             worker'[c].sent = worker[c].sent
      PROVE  Stream(c)'
  BY <1>3, <1>4 DEF Stream, Ahead
<1>5. ASSUME UNCHANGED <<driverQ, clientQ, emitted, worker>> PROVE Stream(c)' BY <1>4, <1>5
<1>6. ASSUME NEW d \in Clients, NEW n \in 1 .. MaxLine, Say(d, n) PROVE Stream(c)'
  BY <1>3, <1>4, <1>6 DEF Say, queues, WorkerLocals
<1>7. ASSUME NEW d \in Clients, Put(d) PROVE Stream(c)'
  <2>1. CASE d = c BY <1>3, <1>7, <2>1, StreamPut
  <2>2. CASE d # c
    <3>1. clientQ'[c] = clientQ[c] /\ worker'[c] = worker[c]
      BY <1>3, <1>7, <2>2 DEF Put, TypeOK, QueuesOK
    <3> QED BY <1>4, <1>7, <3>1 DEF Put
  <2> QED BY <2>1, <2>2
<1>8. ASSUME NEW d \in Clients, PutFull(d) PROVE Stream(c)'
  BY <1>3, <1>4, <1>8 DEF PutFull, queues, WorkerLocals
<1>9. ASSUME NEW d \in Clients, RequestSignal(d) PROVE Stream(c)'
  BY <1>3, <1>4, <1>9 DEF RequestSignal, WorkerLocals
<1>10. ASSUME NEW d \in Clients, Kick(d) PROVE Stream(c)'
  BY <1>3, <1>4, <1>10 DEF Kick, queues, WorkerLocals
<1>11. ASSUME NEW d \in Clients, Wake(d) PROVE Stream(c)'
  BY <1>3, <1>4, <1>11 DEF Wake, queues, WorkerLocals
<1>12. ASSUME NEW d \in Clients, RecvNtfn(d) PROVE Stream(c)'
  BY <1>3, <1>4, <1>12 DEF RecvNtfn, queues, WorkerLocals
<1>13. CASE Poke BY <1>3, <1>4, <1>13 DEF Poke, queues, WorkerLocals
<1>14. CASE Move BY <1>3, <1>14, StreamMove DEF LocalsOK
<1>15. CASE Drain BY <1>3, <1>15, StreamDrain
<1> QED
  BY <1>5, <1>6, <1>7, <1>8, <1>9, <1>10, <1>11, <1>12, <1>13, <1>14, <1>15, Steps, Zenon
  DEF vars, queues, Notified, Visit, EndLoop, Length, Free, Ask, Recheck, NotifyDriver, Require,
      Cancel, DrainStart, DrainEnd, DriverRequire, DriverCancel, DriverPoke

-----------------------------------------------------------------------------
(* The theorems.                                                           *)

\* The zeroed shared memory and the begin string satisfy the invariant.
LEMMA InitInv == ASSUME Init PROVE Inv
<1>1. driverQ \in Seq((Clients \cup {Driver}) \X (0 .. Numbers - 1)) /\ Len(driverQ) = BeginLen
  <2>1. <<Driver, 0>> \in (Clients \cup {Driver}) \X (0 .. Numbers - 1) BY SerialAssumption, SMTT(20)
  <2>2. driverQ \in [1 .. BeginLen -> (Clients \cup {Driver}) \X (0 .. Numbers - 1)]
    BY <2>1 DEF Init
  <2> QED BY SerialAssumption, <2>2
<1>2. QueuesOK BY SerialAssumption, <1>1, SMTT(40) DEF Init, QueuesOK
<1>3. worker \in [Clients -> WorkerLocals] BY SerialAssumption, SMTT(40) DEF Init, WorkerLocals
<1>4. virt \in VirtLocals
  <2>1. 0 \in 0 .. ClientCap BY SerialAssumption
  <2> QED BY <2>1 DEF Init, VirtLocals
<1>5. driver \in DriverLocals
  <2>1. (BeginLen > 0) \in BOOLEAN BY SerialAssumption
  <2> QED BY <2>1, SMTT(40) DEF Init, DriverLocals
<1>6. TypeOK /\ LocalsOK
  BY <1>2, <1>3, <1>4, <1>5 DEF Init, TypeOK, LocalsOK, WorkersOK, VirtOK, DrainsOK
<1>7. DriverTold
  <2>1. driverQ # << >> => BeginLen > 0 BY SerialAssumption, <1>1, Elements
  <2> QED BY <2>1 DEF DriverTold, Init
<1>8. Asked /\ Resumable BY DEF Asked, Resumable, Init
<1>9. ClientsKnown BY SMTT(40) DEF ClientsKnown, Counted, Init
<1>10. InOrder
  <2> SUFFICES ASSUME NEW c \in Clients PROVE Stream(c) BY DEF InOrder, Stream
  <2>1. \A i \in 1 .. Len(driverQ) : driverQ[i][1] # c
    BY SerialAssumption, <1>1 DEF Init, Clients, Driver
  <2>2. Ahead(driverQ, c, Len(driverQ)) = 0
    <3>1. {j \in 1 .. Len(driverQ) : driverQ[j][1] = c} = {} BY <2>1
    <3> QED BY <3>1, FS_EmptySet DEF Ahead
  <2>3. 0 % Numbers = 0
    <3>1. 0 = Numbers * 0 + 0 /\ Numbers \in Nat \ {0} BY SerialAssumption
    <3> QED BY <3>1, ModUnique
  <2>4. clientQ[c] = << >> /\ Len(clientQ[c]) = 0 /\ emitted[c] = 0 /\ worker[c].sent = 0
    BY DEF Init
  <2>5. (emitted[c] + Ahead(driverQ, c, Len(driverQ)) + Len(clientQ[c])) % Numbers = 0
    BY <2>2, <2>3, <2>4
  <2> QED BY <2>1, <2>4, <2>5 DEF Stream
<1> QED BY <1>6, <1>7, <1>8, <1>9, <1>10 DEF Inv

\* Every step keeps the invariant.
LEMMA InvKept == ASSUME Inv, [Next]_vars PROVE Inv'
  BY TypesKept, DriverToldKept, AskedKept, ResumableKept, ClientsKnownKept, InOrderKept DEF Inv

\* At rest, nothing is left: every promise of the invariant to come back is void.
LEMMA InvFlushed == ASSUME Inv PROVE Flushed
<1> SUFFICES ASSUME Quiet PROVE /\ driverQ = << >> /\ virt.pending = {}
                               /\ \A c \in Clients : clientQ[c] = << >>
  BY DEF Flushed
<1>1. /\ virt.pc = "recv" /\ virt.badge = {} /\ virt.mode = "provide" /\ virt.batch = {}
      /\ driver.pc = "recv" /\ ~driver.badge
  BY DEF Quiet, VirtReady, DriverReady, Inv, LocalsOK, VirtOK
<1>2. driverQ = << >> BY <1>1 DEF Inv, DriverTold, WillNotify
<1>3. virt.pending = {} BY <1>1, <1>2 DEF Inv, Resumable, Armed
<1>4. ASSUME NEW c \in Clients PROVE clientQ[c] = << >>
  <2>1. ~Known(c) BY <1>1, <1>3 DEF Quiet, Known
  <2>2. Counted(c) = 0 BY <1>1 DEF Counted
  <2>3. ~(Len(clientQ[c]) > 0) BY <2>1, <2>2 DEF Inv, ClientsKnown
  <2>4. clientQ[c] \in Seq(0 .. Numbers - 1) BY DEF Inv, TypeOK, QueuesOK
  <2> QED BY <2>3, <2>4, Elements
<1> QED BY <1>2, <1>3, <1>4

\* move_client's asserts hold and every queue keeps its bound, with any number of
\* clients, any queue sizes and any interleaving of the domains.
THEOREM SerialSafe == Spec => [](TypeOK /\ NoPanic)
<1>1. Init => Inv BY InitInv
<1>2. Inv /\ [Next]_vars => Inv' BY InvKept
<1>3. Inv => TypeOK /\ NoPanic BY DEF Inv, LocalsOK, VirtOK, NoPanic
<1> QED BY <1>1, <1>2, <1>3, PTL DEF Spec

\* No byte of any client is lost, duplicated or reordered on its way through both
\* queues to the UART.
THEOREM SerialInOrder == Spec => []InOrder
<1>1. Init => Inv BY InitInv
<1>2. Inv /\ [Next]_vars => Inv' BY InvKept
<1>3. Inv => InOrder BY DEF Inv
<1> QED BY <1>1, <1>2, <1>3, PTL DEF Spec

\* No wake-up is lost: the request and second look of move_client, the driver's
\* cancel and notify, and the kicks of the clients never leave a byte behind.
THEOREM SerialFlushed == Spec => []Flushed
<1>1. Init => Inv BY InitInv
<1>2. Inv /\ [Next]_vars => Inv' BY InvKept
<1>3. Inv => Flushed BY InvFlushed
<1> QED BY <1>1, <1>2, <1>3, PTL DEF Spec
=============================================================================
