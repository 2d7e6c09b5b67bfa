------------------------------- MODULE Emmc2 --------------------------------
(***************************************************************************)
(* emmc2-driver: the SD card of the RPi4, driven by polling the status     *)
(* register of the host controller (external).  Every status bit that is   *)
(* set when a wait succeeds is cleared, and a poll may run out at any time *)
(* before its bit is set.  Data is one value per sector.                   *)
(***************************************************************************)
EXTENDS Integers, Sequences, FiniteSets, Bitwise

CONSTANTS Rcas,      \* relative addresses a card may publish
          RcaUnit,   \* 2^16 of the argument register, scaled down
          CardSize,  \* sectors of the card
          Lbas,      \* sectors a client asks for
          Total,     \* requests in one behaviour
          Tries      \* rounds of the ACMD41 loop

VARIABLES dev,       \* host controller and card
          drv,       \* Emmc2 and the handler's place
          q          \* the client's rings, buffer and notifications

vars == <<dev, drv, q>>

\* identify_card and read_capacity; 8 may fail, 55/41 is the power-up loop.
InitCmds == <<0, 8, 55, 41, 2, 3, 7, 16, 55, 6, 9>>
Acmd41 == 4
DataCmd(i) == i \in {17, 24}

Init ==
  /\ \E r \in Rcas : dev = [rca |-> r, st |-> {}, cmd |-> 0, arg |-> 0, dat |-> "idle", rd |-> FALSE, buf |-> <<"none", 0>>,
                            masked |-> TRUE, disk |-> [s \in 0 .. CardSize - 1 |-> <<"card", s>>]]
  /\ drv = [pc |-> "send", step |-> 1, tries |-> 0, rca |-> 0, initialized |-> FALSE, cmd |-> 0, arg |-> 0,
            mask |-> {}, phase |-> "cmd", req |-> [op |-> "none", lba |-> 0], buf |-> <<"none", 0>>]
  /\ q = [reqs |-> << >>, owed |-> 0, data |-> <<"new", 0>>, badge |-> {}, asked |-> 0, ok |-> TRUE]

Goto(pc) == [drv EXCEPT !.pc = pc]
Ready == [drv EXCEPT !.pc = "idle", !.phase = "none"]

-----------------------------------------------------------------------------
(* send_cmd and wait_int.                                                   *)

Command == IF drv.req.op = "none" THEN InitCmds[drv.step] ELSE drv.cmd

\* The status is cleared and the command register written; a host whose data
\* lines are held goes on with the transfer it has.
Accept(c) ==
  LET d == [dev EXCEPT !.st = {}, !.cmd = c + 1] IN
  IF DataCmd(c) /\ dev.dat = "idle" THEN [d EXCEPT !.arg = drv.arg, !.rd = c = 17, !.dat = "asked"] ELSE d

\* Mutant: a data command does not wait for the data lines.
send_cmdMutant ==
  /\ drv.pc = "send"
  /\ \/ /\ dev.cmd = 0
        /\ dev' = Accept(Command)
        /\ drv' = [drv EXCEPT !.pc = "wait", !.mask = {"cmd"}]
     \/ dev.cmd # 0 /\ drv' = Goto("err") /\ UNCHANGED dev
  /\ UNCHANGED q

\* A command still in the host, or data lines still held, may outlast the poll.
send_cmd ==
  /\ drv.pc = "send"
  /\ LET free == dev.cmd = 0 /\ (DataCmd(Command) => dev.dat = "idle") IN
     \/ /\ free
        /\ dev' = Accept(Command)
        /\ drv' = [drv EXCEPT !.pc = "wait", !.mask = {"cmd"}]
     \/ ~free /\ drv' = Goto("err") /\ UNCHANGED dev
  /\ UNCHANGED q

\* Mutant: the error bit is not looked at.
wait_intMutant ==
  /\ drv.pc = "wait"
  /\ \/ /\ dev.st # {}
        /\ dev' = [dev EXCEPT !.st = {}] /\ drv' = Goto("next")
     \/ dev.st \cap (drv.mask \cup {"err"}) = {} /\ drv' = Goto("err") /\ UNCHANGED dev
  /\ UNCHANGED q

\* All the bits that are set are written back, not only those of the mask.
wait_int ==
  /\ drv.pc = "wait"
  /\ \/ /\ dev.st \cap (drv.mask \cup {"err"}) # {}
        /\ dev' = [dev EXCEPT !.st = {}] /\ drv' = Goto(IF "err" \in dev.st THEN "err" ELSE "next")
     \/ dev.st \cap (drv.mask \cup {"err"}) = {} /\ drv' = Goto("err") /\ UNCHANGED dev
  /\ UNCHANGED q

-----------------------------------------------------------------------------
(* init_card: a command that fails leaves the card uninitialised, and the   *)
(* domain serves all the same.                                              *)

Identify ==
  /\ drv.req.op = "none" /\ drv.pc \in {"next", "err"}
  /\ LET i == drv.step
         retry == i = Acmd41 /\ drv.tries + 1 < Tries
         sent == drv.pc = "next" IN
     \/ /\ sent /\ i = Len(InitCmds)
        /\ drv' = [Ready EXCEPT !.initialized = TRUE]
     \/ /\ sent \/ InitCmds[i] = 8 \/ i = Acmd41
        /\ i < Len(InitCmds) /\ (i = Acmd41 /\ ~sent => ~retry)
        /\ drv' = [drv EXCEPT !.pc = "send", !.step = i + 1,
                              !.rca = IF InitCmds[i] = 3 THEN dev.rca ELSE @]
     \/ /\ retry  \* the card is not ready, or the command failed
        /\ drv' = [drv EXCEPT !.pc = "send", !.step = i - 1, !.tries = @ + 1]
     \/ /\ ~sent /\ InitCmds[i] # 8 /\ i # Acmd41
        /\ drv' = Ready
  /\ dev' = IF drv'.pc = "idle" THEN [dev EXCEPT !.st = {}, !.masked = FALSE] ELSE dev
  /\ UNCHANGED q

-----------------------------------------------------------------------------
(* notified, drain_free_ring, process_one.                                  *)

Notified ==
  /\ drv.pc = "idle" /\ q.badge # {}
  /\ drv' = Goto("serve") /\ q' = [q EXCEPT !.badge = {}] /\ UNCHANGED dev

\* The argument of CMD17 and CMD24.
Argument(lba) == (drv.rca * RcaUnit) | lba

Serve ==
  /\ drv.pc = "serve" /\ q.reqs # << >>
  /\ LET r == Head(q.reqs) IN
     drv' = [drv EXCEPT !.req = r, !.pc = IF drv.initialized THEN "send" ELSE "err", !.phase = "cmd",
               !.cmd = IF r.op = "read" THEN 17 ELSE 24, !.arg = Argument(r.lba), !.buf = q.data]
  /\ q' = [q EXCEPT !.reqs = Tail(@)] /\ UNCHANGED dev

\* Mutant: the end of a written transfer is not awaited.
TransferMutant ==
  /\ drv.pc = "next" /\ drv.req.op # "none"
  /\ \/ /\ drv.phase = "cmd"
        /\ drv' = [drv EXCEPT !.pc = "wait", !.phase = "buf",
                              !.mask = IF drv.req.op = "read" THEN {"rdy", "xfer"} ELSE {"rdy"}]
        /\ UNCHANGED dev
     \/ /\ drv.phase = "buf" /\ drv.req.op = "read"
        /\ dev' = [dev EXCEPT !.dat = IF @ = "ready" THEN "drained" ELSE @]
        /\ drv' = [drv EXCEPT !.pc = "done", !.buf = dev.buf]
     \/ /\ drv.phase = "buf" /\ drv.req.op = "write"
        /\ dev' = IF dev.dat = "ready" THEN [dev EXCEPT !.dat = "filled", !.buf = drv.buf] ELSE dev
        /\ drv' = Goto("done")
  /\ UNCHANGED q

\* The data phase of read_sector and of write_sector, through the data port.
Transfer ==
  /\ drv.pc = "next" /\ drv.req.op # "none"
  /\ \/ /\ drv.phase = "cmd"
        /\ drv' = [drv EXCEPT !.pc = "wait", !.phase = "buf",
                              !.mask = IF drv.req.op = "read" THEN {"rdy", "xfer"} ELSE {"rdy"}]
        /\ UNCHANGED dev
     \/ /\ drv.phase = "buf" /\ drv.req.op = "read"
        /\ dev' = [dev EXCEPT !.dat = IF @ = "ready" THEN "drained" ELSE @]
        /\ drv' = [drv EXCEPT !.pc = "done", !.buf = dev.buf]
     \/ /\ drv.phase = "buf" /\ drv.req.op = "write"
        /\ dev' = IF dev.dat = "ready" THEN [dev EXCEPT !.dat = "filled", !.buf = drv.buf] ELSE dev
        /\ drv' = [drv EXCEPT !.pc = "wait", !.phase = "xfer", !.mask = {"xfer"}]
     \/ drv.phase = "xfer" /\ drv' = Goto("done") /\ UNCHANGED dev
  /\ UNCHANGED q

\* The status goes into the client's descriptor; only a read that succeeded is copied out.
Respond ==
  /\ drv.pc \in {"done", "err"} /\ drv.req.op # "none"
  /\ LET ok == drv.pc = "done" IN
     q' = [q EXCEPT !.ok = ok, !.owed = @ - 1, !.data = IF ok /\ drv.req.op = "read" THEN drv.buf ELSE @]
  /\ drv' = [drv EXCEPT !.pc = "serve", !.phase = "none", !.req = [op |-> "none", lba |-> 0]]
  /\ UNCHANGED dev

\* ack_interrupt and irq_ack close the handler.
Acknowledge ==
  /\ drv.pc = "serve" /\ q.reqs = << >>
  /\ dev' = [dev EXCEPT !.st = {}, !.masked = FALSE] /\ drv' = Goto("idle") /\ UNCHANGED q

-----------------------------------------------------------------------------
(* Host controller and card (external), and the one client of the rings.    *)

Card ==
  \/ /\ dev.cmd # 0 /\ dev' = [dev EXCEPT !.cmd = 0, !.st = @ \cup {"cmd"}]
  \/ /\ dev.cmd # 0 /\ dev' = [dev EXCEPT !.cmd = 0, !.st = @ \cup {"err"}]
  \/ /\ dev.dat = "asked" /\ dev.arg < CardSize /\ dev.cmd = 0 /\ "err" \notin dev.st
     /\ dev' = [dev EXCEPT !.dat = "ready", !.st = @ \cup {"rdy"},
                           !.buf = IF dev.rd THEN dev.disk[dev.arg] ELSE @]
  \/ /\ dev.dat = "asked" /\ dev.arg < CardSize /\ dev.cmd = 0 /\ "err" \notin dev.st /\ dev.rd
     /\ dev' = [dev EXCEPT !.dat = "ready", !.st = @ \cup {"rdy", "err"}, !.buf = <<"garbled", 0>>]
  \/ /\ dev.dat = "filled" /\ dev' = [dev EXCEPT !.dat = "idle", !.st = @ \cup {"xfer", "err"}]
  \/ /\ dev.dat \in {"drained", "filled"}
     /\ dev' = [dev EXCEPT !.dat = "idle", !.st = @ \cup {"xfer"},
                           !.disk = IF dev.dat = "filled" THEN [@ EXCEPT ![dev.arg] = dev.buf] ELSE @]

Device == Card /\ UNCHANGED <<drv, q>>

Interrupt ==
  /\ dev.st # {} /\ ~dev.masked
  /\ dev' = [dev EXCEPT !.masked = TRUE] /\ q' = [q EXCEPT !.badge = @ \cup {"irq"}] /\ UNCHANGED drv

\* The client has one buffer; it asks again when the last answer is there.
Ask ==
  /\ q.asked < Total /\ q.owed = 0
  /\ \E op \in {"read", "write"}, l \in Lbas :
       q' = [q EXCEPT !.reqs = <<[op |-> op, lba |-> l]>>, !.asked = @ + 1, !.owed = 1,
                      !.data = IF op = "write" THEN <<"new", q.asked + 1>> ELSE @, !.badge = @ \cup {"client"}]
  /\ UNCHANGED <<dev, drv>>

Steps == send_cmd \/ wait_int \/ Identify \/ Notified \/ Serve \/ Transfer \/ Respond \/ Acknowledge
Next == Steps \/ Device \/ Interrupt \/ Ask
Spec == Init /\ [][Next]_vars /\ WF_vars(Steps)

-----------------------------------------------------------------------------
\* The host controller, the card and the request hold known values.
TypeOK ==
  /\ drv.pc \in {"send", "wait", "next", "err", "idle", "serve", "done"}
  /\ drv.phase \in {"cmd", "buf", "xfer", "none"} /\ drv.step \in 1 .. Len(InitCmds) /\ drv.tries \in 0 .. Tries
  /\ dev.st \subseteq {"cmd", "rdy", "xfer", "err"} /\ dev.dat \in {"idle", "asked", "ready", "drained", "filled"}
  /\ q.owed \in 0 .. 1


\* A request is in hand, or the card is being identified.
Busy == q.owed > 0 \/ ~(drv.pc = "idle")
=============================================================================
