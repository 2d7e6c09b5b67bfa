---------------------------- MODULE SerialServer ----------------------------
(***************************************************************************)
(* serial-driver, the UART behind protected calls of one byte, and the     *)
(* loggers of its clients.  The driver has the higher priority; its        *)
(* interrupt is the level of the receive FIFO.  Client 1 also reads: it    *)
(* drains the driver when it is told.                                      *)
(***************************************************************************)
EXTENDS Integers, Sequences, SequencesExt

CONSTANTS Fifo,      \* bytes of the UART's receive FIFO
          ReadBuf,   \* READ_BUF_SIZE
          Cap,       \* bytes of a line buffer
          Loads      \* [typed, texts]: bytes that arrive; the chunks each client's logger is given

VARIABLES dev,       \* the UART: rx, tx, and the line to the kernel: masked, badge
          drv,       \* HandlerImpl: buffer, notify, and whether notified is running
          q          \* the clients

vars == <<dev, drv, q>>

Clients == DOMAIN q.load.texts

\* init of the UART, and HandlerImpl::new.
Init ==
  /\ \E load \in Loads :
       q = [load |-> load, typed |-> 0, told |-> FALSE, draining |-> FALSE, got |-> << >>, given |-> [c \in DOMAIN load.texts |-> 0],
            line |-> [c \in DOMAIN load.texts |-> << >>], out |-> [c \in DOMAIN load.texts |-> << >>]]
  /\ dev = [rx |-> << >>, tx |-> << >>, masked |-> FALSE, badge |-> FALSE, came |-> << >>]
  /\ drv = [buffer |-> << >>, notify |-> TRUE, on |-> FALSE]

Idle == ~drv.on /\ ~dev.badge

-----------------------------------------------------------------------------
(* The driver.                                                              *)

is_full == Len(drv.buffer) = ReadBuf

\* read and write of the NS16550: a byte that is there, a byte once there is room.
uart_read(d) == [d EXCEPT !.rx = Tail(@), !.badge = FALSE]
uart_write(d, c, b) == [d EXCEPT !.tx = Append(@, [of |-> c, byte |-> b])]

\* notified drains the UART into the buffer while there is room.
Receive ==
  /\ dev.badge \/ drv.on
  /\ ~is_full /\ dev.rx # << >>
  /\ dev' = uart_read(dev)
  /\ drv' = [drv EXCEPT !.buffer = Append(@, Head(dev.rx)), !.on = TRUE]
  /\ UNCHANGED q

\* Then the line is acknowledged, and client 1 is told unless it was.
Acknowledge ==
  /\ dev.badge \/ drv.on
  /\ is_full \/ dev.rx = << >>
  /\ dev' = [dev EXCEPT !.masked = FALSE, !.badge = FALSE]
  /\ drv' = [drv EXCEPT !.on = FALSE, !.notify = FALSE]
  /\ q' = [q EXCEPT !.told = @ \/ drv.notify]

\* Mutant: a read does not ask for the next telling.
popMutant(d) == [d EXCEPT !.buffer = Tail(@)]

\* handle_request, Read: a byte that is taken asks to be told of the next.
pop(d) == [d EXCEPT !.buffer = Tail(@), !.notify = TRUE]

\* A told client reads until nothing is there.
Told == Idle /\ q.told /\ ~q.draining /\ q' = [q EXCEPT !.told = FALSE, !.draining = TRUE] /\ UNCHANGED <<dev, drv>>

Read ==
  /\ Idle /\ q.draining
  /\ IF drv.buffer = << >> THEN q' = [q EXCEPT !.draining = FALSE] /\ UNCHANGED drv
     ELSE q' = [q EXCEPT !.got = Append(@, Head(drv.buffer))] /\ drv' = pop(drv)
  /\ UNCHANGED dev

-----------------------------------------------------------------------------
(* The logger of a client: chunks become lines of at most Cap bytes, and    *)
(* each byte of a line is one call.  "u1" "u2" are a character of two       *)
(* bytes.                                                                   *)

utf8(line) == \A i \in DOMAIN line : /\ line[i] = "u1" => i < Len(line) /\ line[i + 1] = "u2"
                                     /\ line[i] = "u2" => i > 1 /\ line[i - 1] = "u1"

\* Mutant: a line that is no text is kept.
flushMutant(s) == IF s.line = << >> \/ ~utf8(s.line) THEN s ELSE [line |-> << >>, out |-> s.out \o Append(s.line, "nl")]

flush(s) == [line |-> << >>, out |-> IF s.line = << >> \/ ~utf8(s.line) THEN s.out ELSE s.out \o Append(s.line, "nl")]

push(line, chunk) ==
  FoldLeft(LAMBDA s, b : IF b \in {"nl", "cr"} THEN flush(s)
                         ELSE LET r == IF Len(s.line) = Cap THEN flush(s) ELSE s IN [r EXCEPT !.line = Append(@, b)],
           [line |-> line, out |-> << >>], chunk)

\* serial_write; the lines of a chunk go out before the next chunk.
Log(c) ==
  /\ Idle /\ ~(c = 1 /\ q.draining) /\ q.out[c] = << >> /\ q.given[c] < Len(q.load.texts[c])
  /\ LET r == push(q.line[c], q.load.texts[c][q.given[c] + 1]) IN
     q' = [q EXCEPT !.line[c] = r.line, !.out[c] = r.out, !.given[c] = @ + 1]
  /\ UNCHANGED <<dev, drv>>

\* handle_request, Write: the driver waits until the UART takes the byte.
Write(c) ==
  /\ Idle /\ ~(c = 1 /\ q.draining) /\ q.out[c] # << >>
  /\ dev' = uart_write(dev, c, Head(q.out[c]))
  /\ q' = [q EXCEPT !.out[c] = Tail(@)]
  /\ UNCHANGED drv

-----------------------------------------------------------------------------
\* The UART and the kernel (external): a byte that finds the FIFO full is lost.
Type ==
  /\ q.typed < q.load.typed
  /\ q' = [q EXCEPT !.typed = @ + 1]
  /\ dev' = IF Len(dev.rx) < Fifo THEN [dev EXCEPT !.rx = Append(@, q.typed), !.came = Append(@, q.typed)] ELSE dev
  /\ UNCHANGED drv

Interrupt == dev.rx # << >> /\ ~dev.masked /\ dev' = [dev EXCEPT !.masked = TRUE, !.badge = TRUE] /\ UNCHANGED <<drv, q>>

Steps == Receive \/ Acknowledge \/ Told \/ Read \/ (\E c \in Clients : Log(c) \/ Write(c)) \/ Interrupt
Next == Steps \/ Type
Spec == Init /\ [][Next]_vars /\ WF_vars(Steps)

-----------------------------------------------------------------------------
\* The buffer, the FIFO and the lines stay within their arrays.
TypeOK == /\ Len(drv.buffer) <= ReadBuf /\ Len(dev.rx) <= Fifo /\ drv.notify \in BOOLEAN
          /\ \A c \in Clients : Len(q.line[c]) <= Cap

\* What the UART received reaches the reader once and in order; a byte waits in
\* the buffer only for a reader that is told or draining, and in the UART only
\* for an interrupt that comes or for room.
ReadInOrder ==
  /\ q.got \o drv.buffer \o dev.rx = dev.came
  /\ Idle /\ drv.buffer # << >> => q.told \/ q.draining
  /\ dev.rx # << >> => ~dev.masked \/ dev.badge \/ drv.on

RECURSIVE Lines(_)
\* The lines of a text, whatever its chunks: it is cut at line ends and after
\* every Cap bytes of a line; empty pieces and pieces that are no text are left out.
Lines(t) ==
  LET Ends == {i \in DOMAIN t : t[i] \in {"nl", "cr"}}
      n == IF Ends = {} THEN Len(t) ELSE Min(Ends) - 1
      pieces == IF Ends # {} THEN (n + Cap - 1) \div Cap ELSE IF n = 0 THEN 0 ELSE (n - 1) \div Cap
      Piece(k) == SubSeq(t, (k - 1) * Cap + 1, IF k * Cap < n THEN k * Cap ELSE n)
      shown == FlattenSeq([k \in 1 .. pieces |-> IF utf8(Piece(k)) THEN Append(Piece(k), "nl") ELSE << >>])
  IN  IF Ends = {} THEN shown ELSE shown \o Lines(SubSeq(t, n + 2, Len(t)))

\* On the wire the bytes of one client are its lines, in order, however the text
\* was cut into chunks and however the clients' calls mix.
LinesKept ==
  \A c \in Clients :
    LET sent == SelectSeq(dev.tx, LAMBDA m : m.of = c) IN
    [i \in DOMAIN sent |-> sent[i].byte] \o q.out[c] = Lines(FlattenSeq(SubSeq(q.load.texts[c], 1, q.given[c])))

\* A byte or a line is on its way; but with the buffer full and more in the UART,
\* the level of the line keeps the driver running.
Busy == /\ ~(is_full /\ dev.rx # << >>)
        /\ dev.rx # << >> \/ drv.buffer # << >> \/ q.draining \/ \E c \in Clients : q.out[c] # << >>
=============================================================================
