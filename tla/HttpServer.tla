----------------------------- MODULE HttpServer -----------------------------
(***************************************************************************)
(* The HTTP server domain (userspace/pds/http-server): one listening TCP   *)
(* socket and one UDP socket over smoltcp, polled from notifications, and  *)
(* one answer, to the first request that is read as "GET ".                *)
(*                                                                         *)
(* smoltcp, the network driver and the clients are external.  A segment is *)
(* "syn", "get" (bytes beginning with a whole "GET "), "part" (fewer or    *)
(* other bytes) or "fin", with the connection it belongs to.  A client     *)
(* repeats what is not acknowledged: time stands still for this smoltcp    *)
(* (Instant::ZERO), which acknowledges bytes only together with an answer. *)
(***************************************************************************)
EXTENDS Integers, Sequences

CONSTANTS Loads,   \* per behaviour: composed (waits for boot_init), x86, what each client sends, how it leaves
          ROUNDS,  \* polls of one loop (the 2000, 4000, 500 and 20 of the code)
          RxMax    \* segments on the way to the server

VARIABLES dev,  \* wire: segments for the server; cli: the clients
          drv,  \* the domain: its TCP socket, served, and where it is
          q     \* load and badges

vars == <<dev, drv, q>>

Load == Loads[q.load]

Clients == DOMAIN Load.send

(* tcp: what the socket is and whose; rx: the bytes not read.  drive: a     *)
(* network badge that came with boot_init.                                  *)
NoSocket == [st |-> "none", of |-> 0, rx |-> <<>>]

(* init: the stack is built and primed at once, or left to boot_init. *)
Init ==
    \E l \in DOMAIN Loads :
        /\ q = [load |-> l, net |-> FALSE, boot |-> Loads[l].composed]
        /\ dev = [wire |-> <<>>,
                  cli |-> [c \in DOMAIN Loads[l].send |-> [st |-> "new", sent |-> FALSE, got |-> 0]]]
        /\ drv = [pc |-> IF Loads[l].composed THEN "idle" ELSE "prime", left |-> ROUNDS, drive |-> FALSE,
                  up |-> ~Loads[l].composed, tcp |-> NoSocket, served |-> FALSE]

----------------------------------------------------------------------------
(* ensure_listening_socket: the sockets are made once; one that is not open *)
(* listens again.  After a FIN the socket waits for a close that is never   *)
(* called, and stays open.                                                  *)
ensure_listening_socketMutant(s) ==  \* Mutant: a socket that was reset stays closed
    IF s.st = "none" THEN [NoSocket EXCEPT !.st = "listen"] ELSE s

ensure_listening_socket(s) ==
    IF s.st \in {"none", "closed"} THEN [NoSocket EXCEPT !.st = "listen"] ELSE s

(* serve_http_request: what was received is read, and answered only when it *)
(* begins with "GET ".                                                      *)
ReadsGet(s) == s.st \in {"open", "wait"} /\ s.rx = <<"get">>

serve_http_requestMutant(s) ==  \* Mutant: the method is not looked at
    [s |-> [s EXCEPT !.rx = <<>>], tx |-> s.rx # <<>>]

serve_http_request(s) == [s |-> [s EXCEPT !.rx = <<>>], tx |-> ReadsGet(s)]

(* iface.poll (external): what is on the wire goes to the socket.  A        *)
(* connection for which no socket listens is refused.                       *)
Receive(s, m) ==
    CASE m.t = "syn" /\ s.st = "listen" -> [s EXCEPT !.st = "open", !.of = m.of]
      [] m.t \in {"get", "part"} /\ s.st = "open" /\ s.of = m.of -> [s EXCEPT !.rx = <<m.t>>]
      [] m.t = "fin" /\ s.st = "open" /\ s.of = m.of -> [s EXCEPT !.st = "wait"]
      [] m.t = "rst" /\ s.st \in {"open", "wait"} /\ s.of = m.of -> [s EXCEPT !.st = "closed"]
      [] OTHER -> s

Delivered(s) ==
    LET f[n \in 0 .. Len(dev.wire)] == IF n = 0 THEN s ELSE Receive(f[n - 1], dev.wire[n])
    IN  f[Len(dev.wire)]

Told(cli, before, tx, after) ==
    [c \in Clients |->
        [cli[c] EXCEPT !.st = IF @ = "syn" /\ after.st = "open" /\ after.of = c THEN "open" ELSE @,
                       !.got = IF tx /\ before.of = c THEN @ + 1 ELSE @]]

(* Where the domain goes when a poll returns: the next poll of its loop, or *)
(* what follows the loop.                                                   *)
AfterPoll(d) ==
    CASE d.pc = "wait" -> IF d.served THEN [d EXCEPT !.pc = "flush", !.left = ROUNDS] ELSE d
      [] d.pc # "wait" /\ d.left > 1 -> [d EXCEPT !.left = @ - 1]
      [] d.pc = "prime" /\ d.left = 1 ->
             [d EXCEPT !.pc = IF Load.x86 THEN "wait" ELSE IF d.drive THEN "drive" ELSE "idle",
                       !.drive = FALSE, !.left = 1]
      [] d.pc = "drive" /\ d.left = 1 ->
             IF ~Load.x86 /\ d.served THEN [d EXCEPT !.pc = "flush", !.left = ROUNDS] ELSE [d EXCEPT !.pc = "idle"]
      [] d.pc = "flush" /\ d.left = 1 -> [d EXCEPT !.pc = "idle"]

(* poll: one pass of its loop.  Another follows while the device says that  *)
(* something is new, but not once the answer was given.                     *)
poll ==
    LET a == ensure_listening_socket(drv.tcp)
        b == IF drv.tcp.st = "none" \/ drv.served THEN [s |-> a, tx |-> FALSE] ELSE serve_http_request(a)
        c == Delivered(b.s)
        d == [drv EXCEPT !.tcp = c, !.served = @ \/ b.tx]
    IN  /\ dev' = [wire |-> <<>>, cli |-> Told(dev.cli, b.s, b.tx, c)]
        /\ drv' \in {AfterPoll(d)} \union (IF d.served THEN {} ELSE {d})

(* prime_net_stack, wait_for_inbound and drive_net poll; the domain takes   *)
(* no notification meanwhile.                                               *)
prime_net_stack == drv.pc = "prime" /\ poll /\ UNCHANGED q

wait_for_inbound == drv.pc \in {"wait", "flush"} /\ poll /\ UNCHANGED q

drive_net == drv.pc = "drive" /\ poll /\ UNCHANGED q

(* notified: boot_init starts the network once; a network badge before it   *)
(* is dropped, and after it drives the stack.                               *)
notified ==
    /\ drv.pc = "idle" /\ (q.net \/ q.boot)
    /\ q' = [q EXCEPT !.net = FALSE, !.boot = FALSE]
    /\ drv' = CASE q.boot -> [drv EXCEPT !.pc = "prime", !.left = ROUNDS, !.drive = q.net, !.up = TRUE]
                 [] ~q.boot /\ drv.up -> [drv EXCEPT !.pc = "drive", !.left = IF Load.x86 THEN ROUNDS ELSE 1]
                 [] ~q.boot /\ ~drv.up -> drv
    /\ UNCHANGED dev

Steps == prime_net_stack \/ wait_for_inbound \/ drive_net \/ notified

----------------------------------------------------------------------------
(* A client connects, sends its request, repeats what is not answered and   *)
(* leaves, with a FIN or a reset.  The driver announces every segment.      *)
Arrive(c, t, cli) ==
    /\ Len(dev.wire) < RxMax
    /\ \A n \in DOMAIN dev.wire : dev.wire[n] # [t |-> t, of |-> c]
    /\ dev' = [wire |-> Append(dev.wire, [t |-> t, of |-> c]), cli |-> [dev.cli EXCEPT ![c] = cli]]
    /\ q' = [q EXCEPT !.net = TRUE]
    /\ UNCHANGED drv

Connect(c) == dev.cli[c].st \in {"new", "syn"} /\ Arrive(c, "syn", [dev.cli[c] EXCEPT !.st = "syn"])

Request(c) ==
    /\ dev.cli[c].st = "open" /\ dev.cli[c].got = 0
    /\ Arrive(c, Load.send[c], [dev.cli[c] EXCEPT !.sent = TRUE])

Leave(c) ==
    /\ dev.cli[c].st = "open" /\ (c = 1 => dev.cli[c].got > 0)
    /\ Arrive(c, Load.leave, [dev.cli[c] EXCEPT !.st = "left"])

Network == \E c \in Clients : Connect(c) \/ Request(c) \/ Leave(c)

Next == Steps \/ Network

(* Client 1 keeps trying and the others do not stay. *)
Patient == Connect(1) \/ Request(1)

Leaves == \E c \in Clients \ {1} : Leave(c)

Spec == Init /\ [][Next]_vars /\ WF_vars(Steps) /\ SF_vars(Patient) /\ SF_vars(Leaves)

----------------------------------------------------------------------------
(* The type invariant. *)
TypeOK ==
    /\ drv.pc \in {"prime", "wait", "flush", "idle", "drive"} /\ drv.left \in 1 .. ROUNDS
    /\ drv.tcp.st \in {"none", "listen", "open", "wait", "closed"} /\ drv.served \in BOOLEAN
    /\ drv.pc \in {"prime", "wait", "flush", "drive"} => drv.up
    /\ Len(dev.wire) <= RxMax

(* At most one client is answered, once, and it sent a whole "GET "; the   *)
(* server logs an answer exactly when it gave it (serve_http_request).      *)
OneAnswer ==
    LET answered == {c \in Clients : dev.cli[c].got > 0}
    IN  /\ \A c \in answered : dev.cli[c].got = 1 /\ dev.cli[c].sent /\ Load.send[c] = "get"
        /\ \A c, e \in answered : c = e
        /\ drv.served <=> answered # {}

(* Client 1 asks, nobody was answered, and no client held the only socket   *)
(* by leaving with a FIN.                                                   *)
Busy == Load.leave = "rst" /\ ~drv.served
=============================================================================
