--------------------------- MODULE SerialTransmit ---------------------------
(***************************************************************************)
(* The serial transmit path: clients (the say loop of the shell, program   *)
(* and grok workers), the transmit virtualiser and the UART driver.  Each  *)
(* domain is one thread that takes the notification bits pending for it,   *)
(* runs its handler to the end, and waits again; domains interleave at     *)
(* every access of a shared queue, signal flag or notification.  A queue   *)
(* operation is one step (see Spsc).  With Strict the domains run at their *)
(* fixed priorities on the one core: driver over virtualiser over clients. *)
(*                                                                         *)
(* A byte is <<client, number>>; a client numbers its bytes modulo Numbers. *)
(***************************************************************************)
EXTENDS Integers, Sequences, FiniteSets, FiniteSetsExt

CONSTANTS NumClients,  \* clients are served in index order
          ClientCap,   \* bytes a client transmit queue holds
          DriverCap,   \* bytes the driver transmit queue holds
          MaxLine,     \* longest message one say call writes
          BeginLen,    \* length of the configured begin string, at most DriverCap
          Numbers,     \* modulus of the byte numbers
          Strict       \* TRUE: fixed priorities; FALSE: domains interleave freely

\* Every serial queue of an image has one size, so the driver's queue holds at
\* least what a client's does; init refuses a begin string that does not fit.
ASSUME SerialAssumption ==
  /\ NumClients \in Nat /\ MaxLine \in Nat /\ Numbers \in Nat \ {0}
  /\ DriverCap \in Nat /\ ClientCap \in 1 .. DriverCap /\ BeginLen \in 0 .. DriverCap

Clients == 1 .. NumClients
Driver == 0             \* the driver's channel at the virtualiser

VARIABLES clientQ, clientWant,  \* per client: queue and requested-signal flag
          driverQ, driverWant,  \* driver queue and its flag
          emitted,              \* per client: bytes written to the UART
          worker,               \* per client: worker and root of its domain
          virt, driver          \* virtualiser and driver, badges included

queues == <<clientQ, clientWant, driverQ, driverWant, emitted>>
vars == <<queues, worker, virt, driver>>

\* Shared memory is zeroed, and a zero flag asks for the signal.  The begin
\* string, bytes of no client, is in the driver queue before any client runs.
Init ==
  /\ clientQ = [c \in Clients |-> << >>] /\ clientWant = [c \in Clients |-> TRUE]
  /\ driverQ = [i \in 1 .. BeginLen |-> <<Driver, 0>>] /\ driverWant = TRUE
  /\ emitted = [c \in Clients |-> 0]
  /\ worker = [c \in Clients |->
                [pc |-> "idle", left |-> 0, sent |-> 0, badge |-> FALSE, semaphore |-> FALSE]]
  /\ virt = [pc |-> "recv", badge |-> {}, batch |-> {}, mode |-> "provide", at |-> 1,
             count |-> 0, moved |-> {}, pending |-> {}]
  /\ driver = [pc |-> "recv", badge |-> BeginLen > 0, drains |-> 0, transferred |-> FALSE]

-----------------------------------------------------------------------------
(* A client: its worker in say, and its root handler.                      *)

Say(c, n) ==
  /\ worker[c].pc = "idle"
  /\ worker' = [worker EXCEPT ![c] = [@ EXCEPT !.pc = "put", !.left = n]]
  /\ UNCHANGED <<queues, virt, driver>>

\* Mutant: the enqueue does not look for room.
PutUnchecked(c) ==
  /\ worker[c].pc = "put"
  /\ clientQ' = [clientQ EXCEPT ![c] = Append(@, worker[c].sent)]
  /\ LET w == worker[c]
     IN worker' = [worker EXCEPT ![c] = [w EXCEPT !.pc = IF w.left = 1 THEN "done" ELSE "put",
                     !.left = w.left - 1, !.sent = (w.sent + 1) % Numbers]]
  /\ UNCHANGED <<clientWant, driverQ, driverWant, emitted, virt, driver>>

\* serial_enqueue succeeds: the next byte, or the notify that ends the message.
Put(c) ==
  /\ worker[c].pc = "put" /\ Len(clientQ[c]) < ClientCap
  /\ clientQ' = [clientQ EXCEPT ![c] = Append(@, worker[c].sent)]
  /\ LET w == worker[c]
     IN worker' = [worker EXCEPT ![c] = [w EXCEPT !.pc = IF w.left = 1 THEN "done" ELSE "put",
                     !.left = w.left - 1, !.sent = (w.sent + 1) % Numbers]]
  /\ UNCHANGED <<clientWant, driverQ, driverWant, emitted, virt, driver>>

PutFull(c) ==
  /\ worker[c].pc = "put" /\ Len(clientQ[c]) = ClientCap
  /\ worker' = [worker EXCEPT ![c].pc = "request"]
  /\ UNCHANGED <<queues, virt, driver>>

\* serial_enqueue failed: the signal is requested ...
RequestSignal(c) ==
  /\ worker[c].pc = "request"
  /\ clientWant' = [clientWant EXCEPT ![c] = TRUE]
  /\ worker' = [worker EXCEPT ![c].pc = "kick"]
  /\ UNCHANGED <<clientQ, driverQ, driverWant, emitted, virt, driver>>

\* ... the virtualiser is notified (as at the end of a message) ...
Kick(c) ==
  /\ worker[c].pc \in {"kick", "done"}
  /\ virt' = [virt EXCEPT !.badge = @ \cup {c}]
  /\ worker' = [worker EXCEPT ![c].pc = IF @ = "kick" THEN "wait" ELSE "idle"]
  /\ UNCHANGED <<queues, driver>>

\* ... and the wait consumes a stored signal.
Wake(c) ==
  /\ worker[c].pc = "wait" /\ worker[c].semaphore
  /\ worker' = [worker EXCEPT ![c] = [@ EXCEPT !.pc = "put", !.semaphore = FALSE]]
  /\ UNCHANGED <<queues, virt, driver>>

\* The root, which runs when the worker does not, signals the channel.
RecvNtfn(c) ==
  /\ worker[c].badge /\ worker[c].pc \in {"idle", "wait"}
  /\ worker' = [worker EXCEPT ![c] = [@ EXCEPT !.badge = FALSE, !.semaphore = TRUE]]
  /\ UNCHANGED <<queues, virt, driver>>

-----------------------------------------------------------------------------
(* The transmit virtualiser.                                               *)

\* The clients the running loop has still to visit, in index order.
ToVisit == {c \in Clients : /\ IF virt.pc = "next" THEN c > virt.at ELSE c >= virt.at
                            /\ c \in CASE virt.mode = "resume" -> virt.pending
                                       [] virt.mode = "wake" -> virt.moved
                                       [] virt.mode = "provide" -> virt.batch}

Notified ==
  /\ virt.pc = "recv" /\ virt.badge # {}
  /\ virt' = [virt EXCEPT !.pc = "loop", !.batch = virt.badge, !.badge = {}, !.at = 1,
                          !.mode = IF Driver \in virt.badge THEN "resume" ELSE "provide"]
  /\ UNCHANGED <<queues, worker, driver>>

\* The next iteration of the loops of resume_pending and notified.
Visit ==
  /\ virt.pc \in {"loop", "next"} /\ ToVisit # {}
  /\ virt' = [virt EXCEPT !.at = Min(ToVisit),
                          !.pending = IF virt.mode = "resume" THEN @ \ {Min(ToVisit)} ELSE @,
                          !.pc = IF virt.mode = "wake" THEN "require" ELSE "length"]
  /\ UNCHANGED <<queues, worker, driver>>

\* resume_pending notifies once for everything it moved, then wakes; then come
\* the clients of the batch; then the next receive.
EndLoop ==
  /\ virt.pc \in {"loop", "next"} /\ ToVisit = {}
  /\ driver' = [driver EXCEPT !.badge = @ \/ (virt.mode = "resume" /\ virt.moved # {})]
  /\ virt' = [virt EXCEPT !.pc = IF virt.mode = "provide" THEN "recv" ELSE "loop", !.at = 1,
                          !.mode = IF virt.mode = "resume" THEN "wake" ELSE "provide",
                          !.moved = IF virt.mode = "resume" THEN @ ELSE {},
                          !.batch = IF virt.mode = "provide" THEN {} ELSE @]
  /\ UNCHANGED <<queues, worker>>

\* move_client: the counted length ...
Length ==
  /\ virt.pc = "length"
  /\ virt' = [virt EXCEPT !.count = Len(clientQ[virt.at]),
                          !.pc = IF clientQ[virt.at] = << >> THEN "next" ELSE "free"]
  /\ UNCHANGED <<queues, worker, driver>>

Enough == virt.count <= DriverCap - Len(driverQ)

\* Mutant: one byte too few of free space is taken for enough.
FreeOffByOne ==
  /\ virt.pc = "free"
  /\ virt' = [virt EXCEPT !.pc = IF virt.count <= DriverCap - Len(driverQ) + 1
                                   THEN "move" ELSE "ask"]
  /\ UNCHANGED <<queues, worker, driver>>

\* ... is compared with the driver's free space; too little requests a signal ...
Free ==
  /\ virt.pc = "free"
  /\ virt' = [virt EXCEPT !.pc = IF Enough THEN "move" ELSE "ask"]
  /\ UNCHANGED <<queues, worker, driver>>

Ask ==
  /\ virt.pc = "ask"
  /\ driverWant' = TRUE
  /\ virt' = [virt EXCEPT !.pc = "recheck"]
  /\ UNCHANGED <<clientQ, clientWant, driverQ, emitted, worker, driver>>

LeavePending == [virt EXCEPT !.pc = "next", !.pending = @ \cup {virt.at}, !.count = 0]

\* Mutant: the client is left for the driver's signal without a second look.
RecheckSkipped ==
  /\ virt.pc = "recheck"
  /\ virt' = LeavePending
  /\ UNCHANGED <<queues, worker, driver>>

\* ... and is compared again: still too little leaves the client pending.
Recheck ==
  /\ virt.pc = "recheck"
  /\ virt' = IF Enough THEN [virt EXCEPT !.pc = "move"] ELSE LeavePending
  /\ UNCHANGED <<queues, worker, driver>>

AfterMove == [virt EXCEPT !.count = @ - 1,
                !.moved = IF virt.count = 1 /\ virt.mode = "resume" THEN @ \cup {virt.at} ELSE @,
                !.pc = CASE virt.count > 1 -> "move"
                         [] virt.count = 1 /\ virt.mode = "resume" -> "next"
                         [] OTHER -> "notify"]

\* Mutant: the byte is copied and the client queue's head is not advanced.
MoveWithoutDequeue ==
  /\ virt.pc = "move" /\ clientQ[virt.at] # << >> /\ Len(driverQ) < DriverCap
  /\ driverQ' = Append(driverQ, <<virt.at, Head(clientQ[virt.at])>>)
  /\ virt' = AfterMove
  /\ UNCHANGED <<clientQ, clientWant, driverWant, emitted, worker, driver>>

\* One byte of the counted length; the asserts of the code are NoPanic below.
Move ==
  /\ virt.pc = "move" /\ clientQ[virt.at] # << >> /\ Len(driverQ) < DriverCap
  /\ driverQ' = Append(driverQ, <<virt.at, Head(clientQ[virt.at])>>)
  /\ clientQ' = [clientQ EXCEPT ![virt.at] = Tail(@)]
  /\ virt' = AfterMove
  /\ UNCHANGED <<clientWant, driverWant, emitted, worker, driver>>

\* Mutant: provide returns without waking the client.
NotifyDriverOnly ==
  /\ virt.pc = "notify"
  /\ driver' = [driver EXCEPT !.badge = TRUE]
  /\ virt' = [virt EXCEPT !.pc = "next"]
  /\ UNCHANGED <<queues, worker>>

\* provide: the driver is notified, then the client is woken.
NotifyDriver ==
  /\ virt.pc = "notify"
  /\ driver' = [driver EXCEPT !.badge = TRUE]
  /\ virt' = [virt EXCEPT !.pc = "require"]
  /\ UNCHANGED <<queues, worker>>

\* wake_client: the flag is tested, cancelled, and the client is notified.
Require ==
  /\ virt.pc = "require"
  /\ virt' = [virt EXCEPT !.pc = IF clientWant[virt.at] THEN "cancel" ELSE "next"]
  /\ UNCHANGED <<queues, worker, driver>>

Cancel ==
  /\ virt.pc = "cancel"
  /\ clientWant' = [clientWant EXCEPT ![virt.at] = FALSE]
  /\ virt' = [virt EXCEPT !.pc = "poke"]
  /\ UNCHANGED <<clientQ, driverQ, driverWant, emitted, worker, driver>>

Poke ==
  /\ virt.pc = "poke"
  /\ worker' = [worker EXCEPT ![virt.at].badge = TRUE]
  /\ virt' = [virt EXCEPT !.pc = "next"]
  /\ UNCHANGED <<queues, driver>>

-----------------------------------------------------------------------------
(* The driver: an interrupt runs drain_tx twice, its transmit channel once. *)

DrainStart(irq) ==
  /\ driver.pc = "recv" /\ (irq \/ driver.badge)
  /\ driver' = [driver EXCEPT !.pc = "drain", !.badge = FALSE,
                  !.drains = (IF irq THEN 2 ELSE 0) + (IF driver.badge THEN 1 ELSE 0)]
  /\ UNCHANGED <<queues, worker, virt>>

Drain ==
  /\ driver.pc = "drain" /\ driverQ # << >>
  /\ driverQ' = Tail(driverQ)
  /\ LET c == Head(driverQ)[1] IN
       emitted' = IF c = Driver THEN emitted ELSE [emitted EXCEPT ![c] = (@ + 1) % Numbers]
  /\ driver' = [driver EXCEPT !.transferred = TRUE]
  /\ UNCHANGED <<clientQ, clientWant, driverWant, worker, virt>>

\* The end of one drain_tx: the next one, or the end of the handler.
Drained == [driver EXCEPT !.drains = @ - 1, !.transferred = FALSE,
                          !.pc = IF driver.drains > 1 THEN "drain" ELSE "recv"]

DrainEnd ==
  /\ driver.pc = "drain" /\ driverQ = << >>
  /\ driver' = IF driver.transferred THEN [driver EXCEPT !.pc = "require"] ELSE Drained
  /\ UNCHANGED <<queues, worker, virt>>

DriverRequire ==
  /\ driver.pc = "require"
  /\ driver' = IF driverWant THEN [driver EXCEPT !.pc = "cancel"] ELSE Drained
  /\ UNCHANGED <<queues, worker, virt>>

DriverCancel ==
  /\ driver.pc = "cancel"
  /\ driverWant' = FALSE
  /\ driver' = [driver EXCEPT !.pc = "poke"]
  /\ UNCHANGED <<clientQ, clientWant, driverQ, emitted, worker, virt>>

DriverPoke ==
  /\ driver.pc = "poke"
  /\ virt' = [virt EXCEPT !.badge = @ \cup {Driver}]
  /\ driver' = Drained
  /\ UNCHANGED <<queues, worker>>

-----------------------------------------------------------------------------
(* Scheduling: the period of a domain equals its budget, so a domain runs   *)
(* exactly when no domain of higher priority is ready.                     *)

DriverReady == driver.pc # "recv" \/ driver.badge
VirtReady == virt.pc # "recv" \/ virt.badge # {}

Worker(c) == /\ Strict => ~DriverReady /\ ~VirtReady
             /\ Put(c) \/ PutFull(c) \/ RequestSignal(c) \/ Kick(c) \/ Wake(c) \/ RecvNtfn(c)

NewMessage(c) == /\ Strict => ~DriverReady /\ ~VirtReady
                 /\ \E n \in 1 .. MaxLine : Say(c, n)

Virtualiser == /\ Strict => ~DriverReady
               /\ \/ Notified \/ Visit \/ EndLoop \/ Length \/ Free \/ Ask \/ Recheck \/ Move
                  \/ NotifyDriver \/ Require \/ Cancel \/ Poke

DriverStep == DrainStart(FALSE) \/ Drain \/ DrainEnd \/ DriverRequire \/ DriverCancel
              \/ DriverPoke

Next == \/ \E c \in Clients : NewMessage(c) \/ Worker(c)
        \/ Virtualiser
        \/ DriverStep
        \/ DrainStart(TRUE)

Spec == Init /\ [][Next]_vars

\* Every handler ends, so a domain that is ready again and again runs again and
\* again: interrupts preempt it, but do not take all of the processor's time.
\* New messages and interrupts themselves are not promised.
Fairness == /\ \A c \in Clients : SF_vars(Worker(c))
            /\ SF_vars(Virtualiser)
            /\ WF_vars(DriverStep)

FairSpec == Spec /\ Fairness

-----------------------------------------------------------------------------
(* Properties.                                                             *)

\* The locals of a client's domain, of the virtualiser and of the driver.
WorkerLocals == [pc : {"idle", "put", "request", "kick", "wait", "done"}, left : 0 .. MaxLine,
                 sent : 0 .. Numbers - 1, badge : BOOLEAN, semaphore : BOOLEAN]

VirtLocals == [pc : {"recv", "loop", "next", "length", "free", "ask", "recheck", "move",
                     "notify", "require", "cancel", "poke"},
               badge : SUBSET (Clients \cup {Driver}), batch : SUBSET (Clients \cup {Driver}),
               mode : {"resume", "wake", "provide"}, at : Clients \cup {1},
               count : 0 .. ClientCap, moved : SUBSET Clients, pending : SUBSET Clients]

DriverLocals == [pc : {"recv", "drain", "require", "cancel", "poke"}, badge : BOOLEAN,
                 drains : 0 .. 3, transferred : BOOLEAN]

QueuesOK ==
  /\ clientQ \in [Clients -> Seq(0 .. Numbers - 1)]
  /\ \A c \in Clients : Len(clientQ[c]) <= ClientCap
  /\ driverQ \in Seq((Clients \cup {Driver}) \X (0 .. Numbers - 1)) /\ Len(driverQ) <= DriverCap
  /\ clientWant \in [Clients -> BOOLEAN] /\ driverWant \in BOOLEAN
  /\ emitted \in [Clients -> 0 .. Numbers - 1]

\* Queues stay within their capacity and every local within its range.
TypeOK == /\ QueuesOK
          /\ worker \in [Clients -> WorkerLocals]
          /\ virt \in VirtLocals
          /\ driver \in DriverLocals

\* The asserts of move_client hold: the counted client byte is present and the
\* counted driver space is present for every byte of the move.
NoPanic == virt.pc = "move" => virt.count <= Len(clientQ[virt.at]) /\ Enough

\* How many of the first i bytes of the driver queue are client c's.
Ahead(q, c, i) == Cardinality({j \in 1 .. i : q[j][1] = c})

\* Across both queues and every move of the virtualiser, no byte of a client is
\* lost, duplicated or reordered on its way to the UART: the bytes in flight
\* carry consecutive numbers, from the next to be emitted to the last sent.
InOrder ==
  \A c \in Clients :
    LET moved == Ahead(driverQ, c, Len(driverQ))
    IN /\ \A i \in 1 .. Len(driverQ) :
            driverQ[i][1] = c => driverQ[i][2] = (emitted[c] + Ahead(driverQ, c, i) - 1) % Numbers
       /\ \A i \in 1 .. Len(clientQ[c]) : clientQ[c][i] = (emitted[c] + moved + i - 1) % Numbers
       /\ worker[c].sent = (emitted[c] + moved + Len(clientQ[c])) % Numbers

\* No thread can run and nothing is pending: the system has come to rest.
Quiet == /\ ~VirtReady /\ ~DriverReady
         /\ \A c \in Clients : /\ worker[c].pc \in {"idle", "wait"}
                               /\ ~worker[c].badge /\ ~worker[c].semaphore

\* The path never comes to rest with bytes still queued, whatever the
\* interleaving: the request and second look of move_client meet the driver's
\* cancel and notify, so a pending client is always resumed.
Flushed == Quiet => /\ driverQ = << >> /\ virt.pending = {}
                    /\ \A c \in Clients : clientQ[c] = << >>

\* Under the fixed priorities a say call that has started comes to its end,
\* with interrupts and the other clients' messages arriving all the while: say
\* requests the signal after its failed enqueue and does not look again, and no
\* wake-up is lost all the same.
SayReturns == \A c \in Clients : []<>(worker[c].pc = "idle")

=============================================================================
