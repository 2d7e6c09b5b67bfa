------------------------------- MODULE MCPaths ------------------------------
(* Two paths through a virtualiser, one per behaviour: network transmit in   *)
(* every interleaving, and serial receive at the fixed priorities, with      *)
(* bursts longer than the queues.                                            *)
EXTENDS NetTransmit

VARIABLES part, fifo, latch, masked, typed, driverQ, rxWant, clientQ, driver, virt, client, got, dropped

\* A digit, the switch and the terminate character: a plain byte is treated in
\* every mode as one of the three is.
Rx == INSTANCE SerialReceive WITH want <- rxWant, NumClients <- 2, DriverCap <- 2, ClientCap <- 2, MaxDigits <- 1,
        Typeable <- {1, 11, 12}, MaxTyped <- 4, FifoDepth <- 2, Trigger <- 1

serial == <<fifo, latch, masked, typed, driverQ, rxWant, clientQ, driver, virt, client, got, dropped>>
all == <<part, vars, serial>>
NoSerial == /\ fifo = << >> /\ latch = 0 /\ masked = 0 /\ typed = 0 /\ driverQ = << >> /\ rxWant = 0 /\ clientQ = 0
            /\ driver = 0 /\ virt = 0 /\ client = 0 /\ got = 0 /\ dropped = 0
Start == Init /\ ((part = "net" /\ NoSerial) \/ (part = "serial" /\ Rx!Init))
InNet == part = "net" /\ UNCHANGED <<part, serial>>
InSerial == part = "serial" /\ UNCHANGED <<part, vars>>

\* The steps of SendOne(FALSE), and those of Interrupt.
NoRoom == At("driver", "transmit") /\ pd'["driver"].pc = "give_back" /\ sent' = sent
Interrupted == ~pd["driver"].badge /\ pd'["driver"].badge /\ ~At("virt", "notify_driver")

\* Every interleaving of two frames, of which buffer_ok refuses the second at most;
\* the device has no room until it has taken its first frame at most, and receive
\* interrupts come until the second is made.  A third frame is made in the buffer of
\* the first, while the second still waits for the driver.
ThirdReuses ==
  /\ \/ made' = made
     \/ Len(made) < 2 /\ made' \in {<<"frame">>, <<"frame", "frame">>, <<"frame", "empty">>}
     \/ made' = <<"frame", "frame", "frame">> /\ sent # << >> /\ ~(Empty("cactive") /\ Empty("dactive"))
  /\ NoRoom => sent = << >>
  /\ Interrupted => Len(made) < 2

Step == (InNet /\ Next /\ ThirdReuses) \/ (InSerial /\ Rx!Next)

\* The fairness of the two modules, each in its own part.
Runs == /\ Start /\ [][Step]_all
        /\ WF_all(InSerial /\ Rx!Interrupt)
        /\ WF_all((InSerial /\ Rx!DriverStep) \/ (InNet /\ Driver))
        /\ WF_all((InSerial /\ Rx!Virtualiser) \/ (InNet /\ Virt))
        /\ WF_all((InSerial /\ Rx!Client(0)) \/ (InNet /\ Client)) /\ WF_all(InSerial /\ Rx!Client(1))

\* Type correctness of both paths (NetTransmit, SerialReceive).
TypeCorrect == TypeOK /\ (part = "serial" => Rx!TypeOK)

\* Serial receive loses and misroutes nothing: no byte lies in the UART when the
\* system rests, since the handler that drains, clears and acknowledges never loses
\* the interrupt a later byte needs, and a client reads what was typed while it was
\* selected (NoStuckByte and RoutedAsTyped of SerialReceive).
Received == part = "serial" => Rx!NoStuckByte /\ Rx!RoutedAsTyped

\* Both paths keep emptying, so no wake-up between their domains is lost: the UART
\* and the driver's queue are drained again and again (SerialReceive), and all
\* buffers come back to the client (NetTransmit).
KeepsEmptying == []<>(CASE part = "serial" -> fifo = << >> /\ driverQ = << >>
                        [] part = "net" -> Emptied)
=============================================================================
