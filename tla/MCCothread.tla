----------------------------- MODULE MCCothread -----------------------------
(* The cothreads and a loop that waits on them, one part per behaviour: four *)
(* workers with two semaphores; and the say loops of two serial clients at   *)
(* the fixed priorities, with messages longer than their queues.             *)
EXTENDS Cothread

VARIABLES part, clientQ, clientWant, driverQ, driverWant, emitted, worker, virt, driver

Tx == INSTANCE SerialTransmit WITH NumClients <- 2, ClientCap <- 2, DriverCap <- 2,
        MaxLine <- 3, BeginLen <- 1, Numbers <- 2, Strict <- TRUE

path == <<clientQ, clientWant, driverQ, driverWant, emitted, worker, virt, driver>>
all == <<part, vars, path>>
NoPath == /\ clientQ = 0 /\ clientWant = 0 /\ driverQ = 0 /\ driverWant = 0
          /\ emitted = 0 /\ worker = 0 /\ virt = 0 /\ driver = 0
InCothreads == part = "cothreads" /\ UNCHANGED <<part, path>>
InPath == part = "say" /\ UNCHANGED <<part, vars>>

Step == (InCothreads /\ Next) \/ (InPath /\ Tx!Next)

\* The fairness of the two modules, each in its own part.
Runs == /\ \/ part = "cothreads" /\ Init /\ NoPath
           \/ part = "say" /\ Init /\ Tx!Init
        /\ [][Step]_all
        /\ WF_all((InCothreads /\ GiveUp) \/ (InPath /\ Tx!DriverStep))
        /\ \A c \in Tx!Clients : SF_all(InPath /\ Tx!Worker(c))
        /\ SF_all(InPath /\ Tx!Virtualiser)

\* Type correctness of both parts (Cothread, SerialTransmit).
TypeCorrect == TypeOK /\ (part = "say" => Tx!TypeOK)

\* A ready cothread is eventually run, although a signal lets its waiter run ahead
\* of everything queued (Cothread); and every say call returns, although it requests
\* the signal after its failed enqueue and does not look again (SerialTransmit).
RunsAndReturns == /\ NoStarvation
                  /\ \A c \in Tx!Clients : []<>(part = "say" => worker[c].pc = "idle")
=============================================================================
