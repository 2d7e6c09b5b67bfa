--------------------------- MODULE SerialReceive ----------------------------
(***************************************************************************)
(* The serial receive path: the UART's FIFO and interrupt, the driver, the *)
(* receive virtualiser with its switch sequences, and the clients.  The    *)
(* domains run at their fixed priorities, driver over virtualiser over     *)
(* clients; bytes arrive at any moment.  A queue operation is one step.    *)
(*                                                                         *)
(* A byte is a digit 0 .. 9, Plain, Switch or Terminate: all that the      *)
(* virtualiser tells apart.                                                *)
(***************************************************************************)
EXTENDS Integers, Sequences, FiniteSets, SequencesExt

CONSTANTS NumClients, DriverCap, ClientCap,
          MaxDigits,   \* MAX_CLI_BASE_10
          Typeable,    \* the bytes that arrive
          MaxTyped,    \* bound on how many do
          FifoDepth, Trigger  \* of the UART; the trigger is at most the depth

Clients == 0 .. NumClients - 1
Plain == 10
Switch == 11
Terminate == 12
Byte == 0 .. 12
Digit(b) == b \in 0 .. 9

VARIABLES fifo, latch, masked,  \* UART FIFO, raised interrupt, delivered and not yet acked
          typed,                \* bytes that have arrived, in order
          driverQ, want,        \* driver receive queue and its requested-signal flag
          clientQ,              \* per client: published bytes
          driver, virt,         \* the two domains, badges included
          client,               \* per client: badge and control point
          got, dropped          \* bytes a client has read; whether a full queue cost a byte

uart == <<fifo, latch, masked, typed>>
queues == <<driverQ, want, clientQ>>
clients == <<client, got>>
vars == <<uart, queues, driver, virt, clients, dropped>>

Init ==
  /\ fifo = << >> /\ latch = FALSE /\ masked = FALSE /\ typed = << >>
  /\ driverQ = << >> /\ want = TRUE /\ clientQ = [c \in Clients |-> << >>]
  /\ driver = [todo |-> << >>, pc |-> "loop", enqueued |-> FALSE, blocked |-> FALSE, badge |-> {}]
  /\ virt = [pc |-> "recv", badge |-> FALSE, mode |-> "normal", digits |-> << >>,
             current |-> 0, local |-> << >>]
  /\ client = [c \in Clients |-> [pc |-> "recv", badge |-> FALSE]]
  /\ got = [c \in Clients |-> << >>] /\ dropped = FALSE

-----------------------------------------------------------------------------
(* The UART: the interrupt is raised when the count crosses the trigger,    *)
(* delivered once, and masked until it is acknowledged.                     *)

Arrive(b) ==
  /\ Len(typed) < MaxTyped /\ Len(fifo) < FifoDepth
  /\ fifo' = Append(fifo, b) /\ typed' = Append(typed, b)
  /\ latch' = (latch \/ Len(fifo) + 1 = Trigger)
  /\ UNCHANGED <<masked, queues, driver, virt, clients, dropped>>

Interrupt ==
  /\ latch /\ ~masked
  /\ masked' = TRUE
  /\ driver' = [driver EXCEPT !.badge = @ \cup {"irq"}]
  /\ UNCHANGED <<fifo, latch, typed, queues, virt, clients, dropped>>

-----------------------------------------------------------------------------
(* The driver: what its handler has still to do is a sequence of calls.     *)

\* Mutant: the FIFO is not read again after the interrupt is cleared.
HandlerDrainsOnce(bits) ==
  (IF "irq" \in bits THEN <<"drain_rx", "handle_interrupt", "irq_ack">> ELSE << >>)
  \o (IF "rx" \in bits THEN <<"drain_rx">> ELSE << >>)

Handler(bits) ==
  (IF "irq" \in bits THEN <<"drain_rx", "handle_interrupt", "drain_rx", "irq_ack">> ELSE << >>)
  \o (IF "rx" \in bits THEN <<"drain_rx">> ELSE << >>)

DriverNotified ==
  /\ driver.todo = << >> /\ driver.badge # {}
  /\ driver' = [driver EXCEPT !.todo = Handler(driver.badge), !.badge = {}]
  /\ UNCHANGED <<uart, queues, virt, clients, dropped>>

Doing(call) == driver.todo # << >> /\ Head(driver.todo) = call

HandleInterrupt ==
  /\ Doing("handle_interrupt")
  /\ latch' = FALSE
  /\ driver' = [driver EXCEPT !.todo = Tail(@)]
  /\ UNCHANGED <<fifo, masked, typed, queues, virt, clients, dropped>>

IrqAck ==
  /\ Doing("irq_ack")
  /\ masked' = FALSE
  /\ driver' = [driver EXCEPT !.todo = Tail(@)]
  /\ UNCHANGED <<fifo, latch, typed, queues, virt, clients, dropped>>

\* drain_rx: a byte of the FIFO while the queue has room.  Reading below the
\* trigger lowers the interrupt.
DrainRx ==
  /\ Doing("drain_rx") /\ driver.pc = "loop" /\ Len(driverQ) < DriverCap /\ fifo # << >>
  /\ driverQ' = Append(driverQ, Head(fifo))
  /\ fifo' = Tail(fifo)
  /\ latch' = (latch /\ Len(fifo) > Trigger)
  /\ driver' = [driver EXCEPT !.enqueued = TRUE]
  /\ UNCHANGED <<masked, typed, want, clientQ, virt, clients, dropped>>

\* Mutant: a full queue ends the loop and no signal is requested.
DrainRxFullSilently ==
  /\ Doing("drain_rx") /\ driver.pc = "loop" /\ Len(driverQ) = DriverCap
  /\ driver' = [driver EXCEPT !.blocked = TRUE, !.pc = "end"]
  /\ UNCHANGED <<uart, queues, virt, clients, dropped>>

\* A full queue requests the virtualiser's signal and ends the loop.
DrainRxFull ==
  /\ Doing("drain_rx") /\ driver.pc = "loop" /\ Len(driverQ) = DriverCap
  /\ want' = TRUE
  /\ driver' = [driver EXCEPT !.blocked = TRUE, !.pc = "end"]
  /\ UNCHANGED <<uart, driverQ, clientQ, virt, clients, dropped>>

DrainRxEmpty ==
  /\ Doing("drain_rx") /\ driver.pc = "loop" /\ Len(driverQ) < DriverCap /\ fifo = << >>
  /\ driver' = [driver EXCEPT !.pc = "end"]
  /\ UNCHANGED <<uart, queues, virt, clients, dropped>>

\* The end of drain_rx: notify for what was queued, cancel unless blocked.
DrainRxEnd ==
  /\ Doing("drain_rx") /\ driver.pc = "end"
  /\ virt' = [virt EXCEPT !.badge = @ \/ driver.enqueued]
  /\ want' = (want /\ ~(driver.enqueued /\ ~driver.blocked))
  /\ driver' = [driver EXCEPT !.todo = Tail(@), !.pc = "loop", !.enqueued = FALSE,
                              !.blocked = FALSE]
  /\ UNCHANGED <<uart, driverQ, clientQ, clients, dropped>>

-----------------------------------------------------------------------------
(* The receive virtualiser.  local holds the bytes written at the current   *)
(* client's local tail and not published; it is non-empty exactly when the  *)
(* code's transferred is true.                                              *)

VirtNotified ==
  /\ virt.pc = "recv" /\ virt.badge
  /\ virt' = [virt EXCEPT !.pc = "loop", !.badge = FALSE]
  /\ UNCHANGED <<uart, queues, driver, clients, dropped>>

Room == Len(clientQ[virt.current]) + Len(virt.local) < ClientCap

\* enqueue_current in state v of the virtualiser: a full queue drops the byte.
EnqueueCurrent(v, b) == IF Room THEN [v EXCEPT !.local = Append(@, b)] ELSE v

Reset(v) == [v EXCEPT !.mode = "normal", !.digits = << >>]

\* parse_client_index of a non-empty run of digits.
ClientIndex(digits) == FoldLeft(LAMBDA value, d : 10 * value + d, 0, digits)

\* Mutant: a fifth digit is pushed.
AcceptNumberUnbounded(b) ==
  IF b = Terminate /\ ClientIndex(virt.digits) \in Clients
    THEN [Reset(virt) EXCEPT !.current = ClientIndex(virt.digits), !.local = << >>]
    ELSE IF Digit(b) THEN [virt EXCEPT !.digits = Append(@, b)]
    ELSE Reset(virt)

\* accept_number, commit_number included: the switch takes the new client's tail.
AcceptNumber(b) ==
  IF b = Terminate /\ ClientIndex(virt.digits) \in Clients
    THEN [Reset(virt) EXCEPT !.current = ClientIndex(virt.digits), !.local = << >>]
    ELSE IF Digit(b) /\ Len(virt.digits) < MaxDigits THEN [virt EXCEPT !.digits = Append(@, b)]
    ELSE Reset(virt)

\* Mutant: any byte after the switch character is passed on.
AcceptSwitchedAny(b) ==
  IF Digit(b) THEN [virt EXCEPT !.mode = "number", !.digits = <<b>>]
  ELSE Reset(EnqueueCurrent(virt, b))

AcceptSwitched(b) ==
  IF Digit(b) THEN [virt EXCEPT !.mode = "number", !.digits = <<b>>]
  ELSE Reset(IF b = Switch THEN EnqueueCurrent(virt, b) ELSE virt)

AcceptNormal(b) ==
  IF b = Switch THEN [virt EXCEPT !.mode = "switched"] ELSE EnqueueCurrent(virt, b)

AcceptByte(b) == CASE virt.mode = "normal" -> AcceptNormal(b)
                   [] virt.mode = "switched" -> AcceptSwitched(b)
                   [] virt.mode = "number" -> AcceptNumber(b)

\* commit_number publishes and notifies what the old client was sent.
Commits(b) == virt.mode = "number" /\ b = Terminate /\ ClientIndex(virt.digits) \in Clients
Drops(b) == ~Room /\ CASE virt.mode = "normal" -> b # Switch
                       [] virt.mode = "switched" -> b = Switch
                       [] virt.mode = "number" -> FALSE

PublishLocal == clientQ' = [clientQ EXCEPT ![virt.current] = @ \o virt.local]
NotifyCurrent == client' = [client EXCEPT ![virt.current].badge = @ \/ virt.local # << >>]

RxByte ==
  /\ virt.pc = "loop" /\ driverQ # << >>
  /\ driverQ' = Tail(driverQ)
  /\ virt' = AcceptByte(Head(driverQ))
  /\ dropped' = (dropped \/ Drops(Head(driverQ)))
  /\ IF Commits(Head(driverQ)) THEN PublishLocal /\ NotifyCurrent ELSE UNCHANGED <<clientQ, client>>
  /\ UNCHANGED <<uart, want, driver, got>>

\* The end of rx_return: publish, then wake the driver, then the client.
RxPublish ==
  /\ virt.pc = "loop" /\ driverQ = << >>
  /\ PublishLocal
  /\ virt' = [virt EXCEPT !.pc = "full"]
  /\ UNCHANGED <<uart, driverQ, want, driver, clients, dropped>>

RxFull ==
  /\ virt.pc = "full"
  /\ virt' = [virt EXCEPT !.pc = IF Len(driverQ) = DriverCap THEN "client" ELSE "require"]
  /\ UNCHANGED <<uart, queues, driver, clients, dropped>>

RxRequire ==
  /\ virt.pc = "require"
  /\ virt' = [virt EXCEPT !.pc = IF want THEN "cancel" ELSE "client"]
  /\ UNCHANGED <<uart, queues, driver, clients, dropped>>

RxCancel ==
  /\ virt.pc = "cancel"
  /\ want' = FALSE
  /\ virt' = [virt EXCEPT !.pc = "driver"]
  /\ UNCHANGED <<uart, driverQ, clientQ, driver, clients, dropped>>

RxNotifyDriver ==
  /\ virt.pc = "driver"
  /\ driver' = [driver EXCEPT !.badge = @ \cup {"rx"}]
  /\ virt' = [virt EXCEPT !.pc = "client"]
  /\ UNCHANGED <<uart, queues, clients, dropped>>

RxNotifyClient ==
  /\ virt.pc = "client"
  /\ NotifyCurrent
  /\ virt' = [virt EXCEPT !.pc = "recv", !.local = << >>]
  /\ UNCHANGED <<uart, queues, driver, got, dropped>>

-----------------------------------------------------------------------------
(* A client takes every byte of its queue when it is notified.              *)

ClientNotified(c) ==
  /\ client[c].pc = "recv" /\ client[c].badge
  /\ client' = [client EXCEPT ![c] = [pc |-> "drain", badge |-> FALSE]]
  /\ UNCHANGED <<uart, queues, driver, virt, got, dropped>>

ClientDequeue(c) ==
  /\ client[c].pc = "drain"
  /\ IF clientQ[c] = << >>
       THEN client' = [client EXCEPT ![c].pc = "recv"] /\ UNCHANGED <<clientQ, got>>
       ELSE /\ clientQ' = [clientQ EXCEPT ![c] = Tail(@)]
            /\ got' = [got EXCEPT ![c] = Append(@, Head(clientQ[c]))]
            /\ UNCHANGED client
  /\ UNCHANGED <<uart, driverQ, want, driver, virt, dropped>>

-----------------------------------------------------------------------------
DriverReady == driver.todo # << >> \/ driver.badge # {}
VirtReady == virt.pc # "recv" \/ virt.badge

DriverStep == \/ DriverNotified \/ HandleInterrupt \/ IrqAck
              \/ DrainRx \/ DrainRxFull \/ DrainRxEmpty \/ DrainRxEnd

Virtualiser == /\ ~DriverReady
               /\ \/ VirtNotified \/ RxByte \/ RxPublish \/ RxFull \/ RxRequire \/ RxCancel
                  \/ RxNotifyDriver \/ RxNotifyClient

Client(c) == ~DriverReady /\ ~VirtReady /\ (ClientNotified(c) \/ ClientDequeue(c))

Next == \/ \E b \in Typeable : Arrive(b)
        \/ Interrupt
        \/ DriverStep
        \/ Virtualiser
        \/ \E c \in Clients : Client(c)

Spec == Init /\ [][Next]_vars

\* Every handler ends and arrivals are bounded, so each domain gets to run.
FairSpec == /\ Spec /\ WF_vars(Interrupt) /\ WF_vars(DriverStep) /\ WF_vars(Virtualiser)
            /\ \A c \in Clients : WF_vars(Client(c))

-----------------------------------------------------------------------------
(* Properties.                                                              *)

\* Queues stay within capacity and push_digit within the digits array.
TypeOK ==
  /\ fifo \in Seq(Byte) /\ Len(fifo) <= FifoDepth /\ {latch, masked, want, dropped} \subseteq BOOLEAN
  /\ driverQ \in Seq(Byte) /\ Len(driverQ) <= DriverCap
  /\ \A c \in Clients : clientQ[c] \in Seq(Byte) /\ Len(clientQ[c]) <= ClientCap
  /\ driver.badge \subseteq {"irq", "rx"} /\ Len(driver.todo) <= 5
  /\ virt.digits \in Seq(0 .. 9) /\ Len(virt.digits) <= MaxDigits /\ virt.current \in Clients
  /\ \A c \in Clients : client[c] \in [pc : {"recv", "drain"}, badge : BOOLEAN]

\* No domain can run and no interrupt can be delivered.
Quiet == /\ ~DriverReady /\ ~VirtReady /\ ~(latch /\ ~masked)
         /\ \A c \in Clients : client[c].pc = "recv" /\ ~client[c].badge

\* The path never rests with a byte in the UART's FIFO or in a queue: no byte
\* that arrives between a drain and the interrupt clear, or while the queue is
\* full, waits for a wake-up that does not come.
NoStuckByte == Quiet => /\ fifo = << >> /\ driverQ = << >>
                        /\ \A c \in Clients : clientQ[c] = << >>

\* What a typed stream sends where, by its tokens: a plain byte goes to the
\* current client, a doubled switch character is that character, a number of at
\* most MaxDigits digits between Switch and Terminate selects a client, and any
\* other sequence is swallowed up to and with its first wrong byte.
RECURSIVE Routes(_, _)
Routes(s, current) ==
  LET run == CHOOSE k \in 0 .. MaxDigits :
               /\ \A i \in 2 .. k + 1 : i <= Len(s) /\ Digit(s[i])
               /\ k = MaxDigits \/ Len(s) < k + 2 \/ ~Digit(s[k + 2])
      rest(n) == SubSeq(s, n + 1, Len(s))
      index == ClientIndex(SubSeq(s, 2, run + 1))
  IN CASE s = << >> -> << >>
       [] s # << >> /\ s[1] # Switch -> <<<<current, s[1]>>>> \o Routes(rest(1), current)
       [] s # << >> /\ s[1] = Switch /\ Len(s) < run + 2 -> << >>
       [] s # << >> /\ s[1] = Switch /\ Len(s) >= run + 2 ->
            CASE run = 0 /\ s[2] = Switch -> <<<<current, Switch>>>> \o Routes(rest(2), current)
              [] run > 0 /\ s[run + 2] = Terminate /\ index \in Clients -> Routes(rest(run + 2), index)
              [] OTHER -> Routes(rest(run + 2), current)

\* Unless a full client queue has dropped a byte, each client's stream is what
\* the typed stream routes to it, in order, across every switch of client.
RoutedAsTyped ==
  ~dropped =>
    LET routes == Routes(SubSeq(typed, 1, Len(typed) - Len(fifo) - Len(driverQ)), 0)
    IN \A c \in Clients :
         LET stream == SelectSeq(routes, LAMBDA r : r[1] = c)
             unpublished == IF virt.current = c /\ virt.pc = "loop" THEN virt.local ELSE << >>
         IN got[c] \o clientQ[c] \o unpublished = [i \in 1 .. Len(stream) |-> stream[i][2]]

\* Every byte that reaches the FIFO is taken out of it and out of the driver queue.
InputDrains == []<>(fifo = << >> /\ driverQ = << >>)

=============================================================================
