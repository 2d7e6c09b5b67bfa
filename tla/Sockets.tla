------------------------------ MODULE Sockets -------------------------------
(***************************************************************************)
(* The one socket of lerux-posix (Sockets<T>), the pipe below it           *)
(* (sddf-shell and sddf-agent net.rs over smoltcp, external), the TLS       *)
(* client session (lerux-tls over rustls, external) and the programs above  *)
(* them: a fetch, the echo of one line, and a server of one request.        *)
(* A blocking call is a loop with a budget of virtual milliseconds; one     *)
(* turn of the loop is one step, and the peer moves inside poll.            *)
(***************************************************************************)
EXTENDS Integers, Sequences

CONSTANTS Limit,      \* LIMIT_MS, the budget of one call
          Rounds,     \* turns of http_body
          PlainCap,   \* records read_plain returns at most
          RawCap,     \* records the raw buffer holds
          OutCap,     \* body records the caller's buffer holds
          ReqCap,     \* records the request buffer of the server holds
          Streams,    \* what a peer may send: sequences of records
          Images      \* the sets of programs an image may hold

VARIABLES sk,         \* the socket table, the pipe and the peer
          prog        \* the programs of the image, and the one that runs: its call,
                      \* where it goes on, its TLS session and what it has read

vars == <<sk, prog>>

\* Records a peer sends: the handshake, a header that declares n body records
\* (NoLength: none), a body record, the closing alert, and one that is invalid.
NoLength == 99
HeadRec(n) == [kind |-> "head", len |-> n]
Rec(kind) == [kind |-> kind, len |-> 0]

NewSession == [hello |-> FALSE, done |-> FALSE, in |-> << >>, plain |-> << >>, out |-> FALSE]
NoBody == -1
Idle(image) ==
  [image |-> image, pc |-> "idle", kind |-> "none", round |-> 0, asked |-> FALSE, raw |-> << >>,
   tls |-> NewSession, next |-> "none", ok |-> FALSE, body |-> NoBody]

Init ==
  /\ sk = [up |-> FALSE, phase |-> "Empty", tcp |-> "closed", armed |-> FALSE, left |-> 0,
           rx |-> << >>, peer |-> << >>]
  /\ prog \in {Idle(image) : image \in Images}

-----------------------------------------------------------------------------
(* The pipe: impl Tcp for Stack.                                            *)

MaySend == sk.tcp \in {"open", "peer_closed"}
MayRecv == sk.tcp \in {"open", "closing"}
IsOpen(t) == t # "closed"

\* iface.poll: what the peer does in one millisecond (external).
PeerMoves(s) ==
  LET goes == CASE s.tcp = "syn" -> {"syn", "open", "closed"}
                [] s.tcp = "listen" -> {"listen", "open"}
                [] s.tcp = "open" -> {"open", "peer_closed", "closed"}
                [] s.tcp = "closing" -> {"closing", "closed"}
                [] OTHER -> {s.tcp}
      most == IF s.tcp = "open" THEN Len(s.peer) ELSE 0
  IN {[s EXCEPT !.tcp = t, !.rx = @ \o SubSeq(s.peer, 1, n), !.peer = SubSeq(@, n + 1, Len(@))]
        : t \in goes, n \in 0 .. most}

\* Mutant: the clock moves on whatever the budget.
PollMutant(s) == {[s |-> t, more |-> TRUE] : t \in PeerMoves([s EXCEPT !.left = @ - 1])}

\* poll: a millisecond passes only within the budget; the answer is whether
\* the budget still holds afterwards.
Poll(s) ==
  IF s.left = 0 THEN {[s |-> s, more |-> FALSE]}
  ELSE {[s |-> t, more |-> t.left > 0] : t \in PeerMoves([s EXCEPT !.left = @ - 1])}

StartOp(s) == [s EXCEPT !.left = Limit]

\* finish: abort what is open.
Finish(s) == [s EXCEPT !.tcp = "closed", !.armed = FALSE, !.rx = << >>, !.peer = << >>]

-----------------------------------------------------------------------------
(* The table.  A call ends by setting next, where the program goes on, and  *)
(* ok; a failed call sends every program to "close".                        *)

Ends(p, ok) == [p EXCEPT !.ok = ok, !.pc = IF ok THEN p.next ELSE "close", !.next = "none"]
Calls(p, op, next) == [p EXCEPT !.pc = op, !.next = next]
\* start: a call begins with the whole budget.
Starts == sk' = IF prog'.next # "none" THEN StartOp(sk) ELSE sk

\* A call in the wrong phase returns its error at once (live, open).
InPhase(phase, step) == IF sk.phase = phase THEN step ELSE prog' = Ends(prog, FALSE) /\ UNCHANGED sk

\* One turn of a loop that polls: go on, or give up with ETIMEDOUT,
\* which leaves the table in the given phase.
Again(s, phase) ==
  \E r \in Poll(s) :
    IF r.more THEN sk' = r.s /\ UNCHANGED prog
    ELSE sk' = [r.s EXCEPT !.phase = phase] /\ prog' = Ends(prog, FALSE)

Closed(s) == [s EXCEPT !.phase = "Closed"]

\* wait_until_open, for connect and accept.
WaitUntilOpen ==
  /\ prog.pc = "wait_open"
  /\ IF MaySend THEN sk' = [sk EXCEPT !.phase = "Open"] /\ prog' = Ends(prog, TRUE)
     ELSE IF sk.armed /\ sk.tcp = "closed" THEN sk' = Closed(sk) /\ prog' = Ends(prog, FALSE)
     ELSE Again(sk, "Closed")

\* connect: the pipe may refuse, which leaves the table idle.
Connect ==
  prog.pc = "connect" /\ InPhase("Idle",
    \/ sk' = StartOp(sk) /\ prog' = Ends(prog, FALSE)
    \/ \E stream \in Streams :
         /\ sk' = [StartOp(sk) EXCEPT !.phase = "Connecting", !.tcp = "syn", !.armed = TRUE,
                                      !.peer = stream]
         /\ prog' = [prog EXCEPT !.pc = "wait_open"])

\* listen: the pipe may refuse the port.
Listen ==
  prog.pc = "listen" /\ InPhase("Idle",
    \/ UNCHANGED sk /\ prog' = Ends(prog, FALSE)
    \/ /\ sk' = [sk EXCEPT !.phase = "Listening", !.tcp = "listen", !.armed = TRUE]
       /\ prog' = Ends(prog, TRUE))

Accept ==
  prog.pc = "accept" /\ InPhase("Listening",
    /\ \E stream \in Streams : sk' = [StartOp(sk) EXCEPT !.peer = stream]
    /\ prog' = [prog EXCEPT !.pc = "wait_open"])

\* send: EAGAIN and a full buffer poll.
Send ==
  prog.pc = "send" /\ InPhase("Open",
    \/ MaySend /\ prog' = Ends(prog, TRUE) /\ UNCHANGED sk
    \/ Again(sk, "Open"))

\* recv: what has arrived, as far as the buffer goes; or 0 when the peer has
\* closed, which closes the table and fails every program.
Room(p) == IF p.kind = "serve" THEN ReqCap - Len(p.tls.in) ELSE Len(sk.rx)
Recv ==
  prog.pc = "recv" /\ InPhase("Open",
    IF sk.rx # << >>
    THEN LET n == IF Room(prog) < Len(sk.rx) THEN Room(prog) ELSE Len(sk.rx) IN
           /\ sk' = [sk EXCEPT !.rx = SubSeq(@, n + 1, Len(@))]
           /\ prog' = Ends([prog EXCEPT !.tls.in = @ \o SubSeq(sk.rx, 1, n)], TRUE)
    ELSE IF MayRecv THEN Again(sk, "Open")
    ELSE sk' = Closed(sk) /\ prog' = Ends(prog, FALSE))

\* shutdown: close the pipe and poll until it is closed; the table is closed
\* either way.
Shutdown ==
  prog.pc = "shutdown" /\ InPhase("Open",
    LET s == [sk EXCEPT !.tcp = IF @ = "closed" THEN @ ELSE "closing"] IN
      IF IsOpen(s.tcp) THEN Again(s, "Closed")
      ELSE sk' = [Closed(s) EXCEPT !.armed = FALSE] /\ prog' = Ends(prog, TRUE))

\* Mutant: the socket of a failed call is not closed.
CloseMutant ==
  /\ prog.pc = "close"
  /\ sk' = IF prog.ok THEN [Finish(sk) EXCEPT !.phase = "Empty"] ELSE sk
  /\ prog' = [prog EXCEPT !.pc = "report"]

\* close: finish the pipe and free the entry.
Close ==
  /\ prog.pc = "close"
  /\ sk' = [Finish(sk) EXCEPT !.phase = "Empty"]
  /\ prog' = [prog EXCEPT !.pc = "report"]

-----------------------------------------------------------------------------
(* The TLS session.                                                         *)

AppRecords(in) == CHOOSE n \in 0 .. Len(in) :
                    /\ \A i \in 1 .. n : in[i].kind \in {"head", "body"}
                    /\ n < Len(in) => in[n + 1].kind \notin {"head", "body"}

\* drive: say hello, answer the handshake, then take every application record;
\* the closing alert is seen by the next call.
Drive(t) ==
  LET n == AppRecords(t.in)
      is(kind) == t.in # << >> /\ Head(t.in).kind = kind
      gives(status, u) == [status |-> status, tls |-> u]
  IN IF ~t.hello THEN gives("WantSend", [t EXCEPT !.hello = TRUE, !.out = TRUE])
     ELSE IF ~t.done /\ t.in = << >> THEN gives("WantRecv", t)
     ELSE IF ~t.done /\ is("hs")
     THEN gives("WantSend", [t EXCEPT !.done = TRUE, !.out = TRUE, !.in = Tail(@)])
     ELSE IF ~t.done THEN gives("Error", t)
     ELSE IF n > 0 /\ n < Len(t.in) /\ t.in[n + 1].kind # "notify" THEN gives("Error", t)
     ELSE IF n > 0 THEN gives("Connected", [t EXCEPT !.plain = @ \o SubSeq(t.in, 1, n),
                                                     !.in = SubSeq(@, n + 1, Len(@))])
     ELSE IF t.in = << >> THEN gives("Connected", t)
     ELSE IF is("notify") THEN gives("Closed", t)
     ELSE gives("Error", t)

\* Mutant: the body is what has arrived when the header has.
CopyBodyMutant(raw) ==
  IF raw = << >> \/ raw[1].kind # "head" \/ raw[1].len > OutCap THEN NoBody
  ELSE IF Len(raw) - 1 < raw[1].len THEN Len(raw) - 1 ELSE raw[1].len

\* copy_body and content_length: the header, the length it declares, and that
\* much of a body; none while the body is short or when it does not fit.
CopyBody(raw) ==
  LET heads == {i \in 1 .. Len(raw) : raw[i].kind = "head"}
      split == CHOOSE i \in heads : \A j \in heads : i <= j
  IN IF heads = {} \/ raw[split].len = NoLength THEN NoBody
     ELSE IF Len(raw) - split < raw[split].len \/ raw[split].len > OutCap THEN NoBody
     ELSE raw[split].len

-----------------------------------------------------------------------------
(* The programs.                                                            *)

Fail(p) == [p EXCEPT !.ok = FALSE, !.pc = "close"]

\* web_fetch refuses a path that it cannot send.
Fits(kind) == IF kind = "web_fetch" THEN BOOLEAN ELSE {TRUE}

\* fetch_body, chat_echo, begin_listen and web_fetch; sockets() brings the
\* stack up on first use.
Begin(kind) ==
  /\ prog.pc = "idle" /\ kind \in prog.image /\ prog.kind # "served"
  /\ \E fits \in Fits(kind) :
       prog' = [prog EXCEPT !.kind = kind,
                            !.pc = IF ~fits THEN "report" ELSE IF sk.up THEN "socket" ELSE "up"]
  /\ sk' = [sk EXCEPT !.left = Limit]

\* bring_up: poll for a lease until the limit; a failure leaves no stack, and
\* the next program tries again.
BringUp ==
  /\ prog.pc = "up"
  /\ \/ sk' = [sk EXCEPT !.up = TRUE] /\ prog' = [prog EXCEPT !.pc = "socket"]
     \/ prog' = [prog EXCEPT !.pc = "report"] /\ UNCHANGED sk
     \/ sk.left > 0 /\ sk' = [sk EXCEPT !.left = @ - 1] /\ UNCHANGED prog

Socket ==
  /\ prog.pc = "socket"
  /\ IF sk.phase # "Empty" THEN prog' = [prog EXCEPT !.pc = "report"] /\ UNCHANGED sk
     ELSE /\ sk' = [sk EXCEPT !.phase = "Idle"]
          /\ prog' = CASE prog.kind = "serve" -> Calls(prog, "listen", "to_accept")
                       [] prog.kind = "chat" -> Calls(prog, "connect", "chat_send")
                       [] OTHER -> Calls(prog, "connect", "http")

\* One turn of http_body.
HttpBody ==
  /\ prog.pc = "http"
  /\ LET d == Drive(prog.tls)
         p == [prog EXCEPT !.tls = d.tls, !.round = @ + 1]
         sends(q) == Calls([q EXCEPT !.tls.out = FALSE], "send", "http")
         feeds(q) == Calls(q, "recv", "http")
         n == IF Len(d.tls.plain) < PlainCap THEN Len(d.tls.plain) ELSE PlainCap
         reads == [p EXCEPT !.raw = @ \o SubSeq(d.tls.plain, 1, n),
                            !.tls.plain = SubSeq(@, n + 1, Len(@))]
         asks == IF p.asked THEN p ELSE [p EXCEPT !.asked = TRUE, !.tls.out = TRUE]
     IN prog' = IF CopyBody(prog.raw) # NoBody
                THEN [prog EXCEPT !.ok = TRUE, !.body = CopyBody(prog.raw), !.pc = "close"]
                ELSE IF prog.round = Rounds \/ d.status \in {"Error", "Closed"} THEN Fail(prog)
                ELSE IF d.status = "WantSend" THEN sends(p)
                ELSE IF d.status = "WantRecv" THEN feeds(p)
                ELSE IF n > 0 THEN IF Len(reads.raw) > RawCap THEN Fail(p) ELSE reads
                ELSE IF asks.tls.out THEN sends(asks)
                ELSE feeds(asks)
  /\ Starts

\* chat_echo: one send, one recv; cmd_chat looks for the line in what came.
Chat ==
  /\ \/ prog.pc = "chat_send" /\ prog' = Calls(prog, "send", "chat_recv")
     \/ prog.pc = "chat_recv" /\ prog' = Calls(prog, "recv", "chat_got")
     \/ /\ prog.pc = "chat_got"
        /\ prog' = [prog EXCEPT !.pc = "close", !.ok = \E i \in 1 .. Len(prog.tls.in) :
                                                           prog.tls.in[i].kind = "echo"]
  /\ Starts

\* serve_one: accept, read_headers, the header, the body, shutdown.  A socket
\* that was served well is left closed, not freed.
HasHead(in) == \E i \in 1 .. Len(in) : in[i].kind = "head"
ServeOne ==
  /\ \/ prog.pc = "to_accept" /\ prog' = Calls(prog, "accept", "headers")
     \/ /\ prog.pc = "headers"
        /\ prog' = IF HasHead(prog.tls.in) THEN Calls(prog, "send", "send_body")
                   ELSE IF Len(prog.tls.in) = ReqCap THEN Fail(prog)
                   ELSE Calls(prog, "recv", "headers")
     \/ prog.pc = "send_body" /\ prog' = Calls(prog, "send", "to_shutdown")
     \/ prog.pc = "to_shutdown" /\ prog' = Calls(prog, "shutdown", "report")
  /\ Starts

\* What the program says; the worker goes on.  The server runs once per boot.
Report ==
  /\ prog.pc = "report"
  /\ prog' = [Idle(prog.image) EXCEPT !.kind = IF prog.kind = "serve" THEN "served" ELSE "none"]
  /\ UNCHANGED sk

\* The image of the server is left with the lines of its console.
ReadsLines == prog.pc = "idle" /\ prog.kind = "served" /\ UNCHANGED vars

Steps == WaitUntilOpen \/ Connect \/ Listen \/ Accept \/ Send \/ Recv \/ Shutdown \/ Close
         \/ BringUp \/ Socket \/ HttpBody \/ Chat \/ ServeOne \/ Report

Next == (\E kind \in {"fetch", "chat", "serve", "web_fetch"} : Begin(kind)) \/ Steps \/ ReadsLines

\* The worker runs; nothing is assumed of the peer.
Spec == Init /\ [][Next]_vars /\ WF_vars(Steps)

-----------------------------------------------------------------------------
\* The socket, its buffers and the program stay within their bounds.
TypeOK ==
  /\ sk.phase \in {"Empty", "Idle", "Listening", "Connecting", "Open", "Closed"}
  /\ sk.tcp \in {"closed", "syn", "listen", "open", "peer_closed", "closing"}
  /\ sk.left \in 0 .. Limit /\ prog.round \in 0 .. Rounds
  /\ Len(prog.raw) <= RawCap

\* Whatever the peer did, a program leaves the one socket free and its pipe
\* closed, so that the next socket() does not return EMFILE; the server's is
\* left closed.  While it runs, no call meets a phase it refuses.
SocketFreed ==
  /\ prog.pc = "idle" => sk.phase = (IF prog.kind = "served" /\ sk.phase # "Empty" THEN "Closed" ELSE "Empty")
                         /\ (sk.phase = "Empty" => sk.tcp = "closed" /\ ~sk.armed)
  /\ prog.pc = "socket" => sk.phase = "Empty"
  /\ prog.pc \in {"send", "recv", "shutdown"} => sk.phase = "Open"

\* A fetch that succeeds has the whole body the header declared, read in order
\* from this connection's peer; a response that was cut short, did not fit or was
\* invalid is an error.
WholeBody ==
  prog.body # NoBody =>
    /\ prog.ok
    /\ \E i \in 1 .. Len(prog.raw) :
         prog.raw[i].kind = "head" /\ prog.body = prog.raw[i].len /\ Len(prog.raw) - i >= prog.body
    /\ prog.body <= OutCap

\* Every program ends, with an error if the peer is silent: each call has its
\* budget, and http_body its rounds.
Busy == prog.pc # "idle"
ProgramEnds == []<>~Busy
=============================================================================
