----------------------------- MODULE Bluetooth -----------------------------
(***************************************************************************)
(* swift-bt: one Bluetooth HCI reset over either of two xHCI controllers,  *)
(* which are tried in turn in one DMA area, and the line that tells how    *)
(* far the better attempt got.  Requests are commands (one ring for the    *)
(* controller) and control transfers (endpoint 0, whose ring starts again  *)
(* with every device); answers come through the event ring, polled until a *)
(* spin runs out.  The ring mechanics are those of Xhci and are here the   *)
(* positions requests and answers are matched by.                          *)
(***************************************************************************)
EXTENDS Integers, Sequences, SequencesExt

CONSTANTS Machines,  \* functions 1 .. 2 -> [id, starts, ports]: "absent", "foreign" or "live"; does it run;
                     \* of each port [plug, mps, cfg]: is there a device, does
                     \* endpoint 0 need another packet size, its configuration
          RingLast,  \* slots of a ring before its link
          Faults,    \* requests lost, late, refused or cut short
          Changes    \* port status events

VARIABLES dev, drv, q
vars == <<dev, drv, q>>

None == "none"
Commands == {"enable", "address", "eval", "disable", "configure", "resetep", "setdeq"}

Idle == [c |-> 0, port |-> 0, slot |-> FALSE, seen |-> FALSE, stop |-> 0, connected |-> 0, st |-> "start", ptr |-> 0,
         id |-> 0, short |-> FALSE, ret |-> "start", intr |-> "off", take |-> 0, cmd_i |-> 0, ep0_i |-> 0, dci |-> FALSE,
         text |-> [t |-> None, rank |-> 0, n |-> 0],
         res |-> <<None, None>>]

Init ==
  /\ \E m \in Machines, fw \in BOOLEAN : q = [m |-> m, fw |-> fw, faults |-> 0, changes |-> 0, wrong |-> FALSE,
                                              acked |-> FALSE, ids |-> 0, fails |-> << >>,
                                              best |-> [t |-> "halt", rank |-> 0, n |-> 0]]
  /\ dev = [on |-> [c \in 1 .. 2 |-> "firmware"], cmd |-> << >>, ep0 |-> << >>, ev |-> << >>, armed |-> FALSE, heard |-> FALSE,
            old |-> << >>]
  /\ drv = Idle

Ctl == q.m[drv.c]
At == Ctl.ports[drv.port]

-----------------------------------------------------------------------------
(* The panel line.                                                          *)

Halt == [t |-> "halt", rank |-> 0, n |-> 0]
Port(n, stop) == [t |-> "port", rank |-> stop, n |-> n]
Id == [t |-> "id", rank |-> 0, n |-> 0]
Event == [t |-> "event", rank |-> 0, n |-> 0]

\* PortStop: reset, slot, addr, desc are 0 .. 3.
later(a, b) == IF b > a THEN b ELSE a

\* Mutant: the last attempt is kept.
furtherMutant(left, right) == IF right.t = "halt" THEN left ELSE right

further(left, right) ==
  CASE left.t = "port" /\ right.t = "port" /\ (right.rank > left.rank \/ (right.rank = left.rank /\ right.n > left.n)) -> right
    [] left.t = "event" \/ right.t = "event" -> Event
    [] left.t = "id" \/ right.t = "id" -> Id
    [] left.t = "port" -> left
    [] OTHER -> right

\* Last HCI interface's first interrupt-IN endpoint: none, or its packet size.
find_hci_interrupt(cfg) ==
  LET one(s, d) == CASE d.t = "iface" -> [s EXCEPT !.on = d.bt]
                     [] d.t = "ep" /\ s.on /\ d.intr -> [on |-> FALSE, found |-> <<d.mps>>]
                     [] OTHER -> s IN
  FoldLeft(one, [on |-> FALSE, found |-> << >>], cfg).found

-----------------------------------------------------------------------------
(* Requests.                                                                *)

\* ensure_room, write_link and push_trb: the next place of a ring.
Push(i, n) == IF i + n > RingLast THEN n ELSE i + n

\* submit_cmd, and queue_control (two or three entries, answered at the last).
Sends(d, st) ==
  LET n == IF st = "setcfg" THEN 2 ELSE 3 IN
  IF st \in Commands THEN [d EXCEPT !.st = st, !.cmd_i = Push(@, 1), !.ptr = Push(d.cmd_i, 1), !.short = FALSE, !.id = q.ids + 1]
  ELSE [d EXCEPT !.st = st, !.ep0_i = Push(@, n), !.ptr = Push(d.ep0_i, n), !.short = FALSE, !.id = q.ids + 1]

Issue(d, st) ==
  LET r == Sends(d, st)  m == [st |-> st, ptr |-> r.ptr, id |-> r.id] IN
  /\ drv' = r
  /\ dev' = IF st \in Commands THEN [dev EXCEPT !.cmd = Append(@, m)] ELSE [dev EXCEPT !.ep0 = Append(@, m)]
  /\ q' = [q EXCEPT !.ids = @ + 1]

Ans(t, m, code, last) == [t |-> t, ptr |-> m.ptr, id |-> m.id, code |-> code, last |-> last, data |-> None]
Intr(code, data) == [t |-> "intr", ptr |-> 0, id |-> 0, code |-> code, last |-> TRUE, data |-> data]

\* What a controller that does not halt may still answer.
Left == [i \in DOMAIN dev.cmd |-> Ans("cmd", dev.cmd[i], "ok", TRUE)]
        \o [i \in DOMAIN dev.ep0 |-> Ans("xfer", dev.ep0[i], "ok", TRUE)]
        \o IF dev.armed /\ dev.heard THEN <<Intr("ok", "complete")>> ELSE << >>

\* halt: the run bit is cleared, and the wait for it may run out, which nobody is told.
\* The next attempt clears the rings.
halt(c, r) ==
  LET clear == [dev EXCEPT !.cmd = << >>, !.ep0 = << >>, !.ev = << >>, !.armed = FALSE, !.heard = FALSE] IN
  \/ dev' = [clear EXCEPT !.on[c] = IF @ = "ours" THEN "halted" ELSE @] /\ q' = r
  \/ /\ dev.on[c] = "ours" /\ r.faults < Faults
     /\ dev' = [clear EXCEPT !.on[c] = "stuck", !.old = Left] /\ q' = [r EXCEPT !.faults = @ + 1]

\* Mutant: a failed attempt leaves the controller running.
FailsMutant(d, f) ==
  LET best == further(q.best, f) IN
  /\ q' = [q EXCEPT !.fails = Append(@, f), !.best = best]
  /\ drv' = IF d.c = 1 THEN [Idle EXCEPT !.c = 2, !.st = "attempt"] ELSE [d EXCEPT !.st = "done", !.text = best]
  /\ UNCHANGED dev

\* poll_reset halts the controller whatever came out; reset_either then tries
\* the second one.
Fails(d, f) ==
  LET best == further(q.best, f) IN
  /\ drv' = IF d.c = 1 THEN [Idle EXCEPT !.c = 2, !.st = "attempt"] ELSE [d EXCEPT !.st = "done", !.text = best]
  /\ halt(d.c, [q EXCEPT !.fails = Append(@, f), !.best = best])

\* controllers_live and bring_up_text.
Start ==
  /\ drv.st = "start"
  /\ LET live == \E c \in 1 .. 2 : q.m[c].id = "live"  foreign == \E c \in 1 .. 2 : q.m[c].id = "foreign" IN
     drv' = CASE ~live -> [drv EXCEPT !.st = "done", !.text = [Halt EXCEPT !.t = IF foreign THEN "ver" ELSE "absent"]]
              [] live /\ ~q.fw -> [drv EXCEPT !.st = "done", !.text = [Halt EXCEPT !.t = "firmware"]]
              [] OTHER -> [drv EXCEPT !.c = 1, !.st = "attempt"]
  /\ UNCHANGED <<dev, q>>

\* attempt: capabilities, handoff, halt, reset, rings, run.
Attempt ==
  /\ drv.st = "attempt"
  /\ IF Ctl.id # "absent" /\ Ctl.starts
     THEN /\ dev' = [dev EXCEPT !.on[drv.c] = "ours"]
          /\ drv' = [drv EXCEPT !.st = "port"]
          /\ UNCHANGED q
     ELSE Fails(drv, Halt)

\* find_radio: the next port that has a device.
NextPort ==
  /\ drv.st = "port"
  /\ LET d == [drv EXCEPT !.port = @ + 1] IN
     IF d.port > Len(Ctl.ports) THEN Fails(drv, IF drv.seen THEN Id ELSE Port(drv.connected, drv.stop))
     ELSE IF ~Ctl.ports[d.port].plug THEN drv' = d /\ UNCHANGED <<dev, q>>
     ELSE \/ Issue([d EXCEPT !.connected = @ + 1], "enable")
          \/ /\ q.faults < Faults       \* the port does not come out of reset
             /\ drv' = [d EXCEPT !.connected = @ + 1, !.stop = later(@, 0)]
             /\ q' = [q EXCEPT !.faults = @ + 1]
             /\ UNCHANGED dev

-----------------------------------------------------------------------------
(* What follows an answer: ok or not.                                       *)

Disable(d) == IF d.slot THEN Issue(d, "disable") ELSE drv' = [d EXCEPT !.st = "port"] /\ UNCHANGED <<dev, q>>
note_device(d) == [d EXCEPT !.seen = TRUE]
NoDesc(d) == Disable([d EXCEPT !.stop = IF d.seen THEN @ ELSE later(@, 3)])

\* The interrupt endpoint in what came of the configuration.
Found(d) == find_hci_interrupt(SubSeq(At.cfg, 1, d.take))

\* device_descriptor, hci_config, bluetooth, arm_interrupt and send_reset; of the
\* recovery of an endpoint only a reset that is not answered is the end.
Then(d, st, ok) ==
  CASE st = "enable" -> IF ok THEN Issue([d EXCEPT !.slot = TRUE, !.ep0_i = 0], "address")
                        ELSE drv' = [d EXCEPT !.st = "port", !.stop = later(@, 1)] /\ UNCHANGED <<dev, q>>
    [] st = "address" -> IF ok THEN Issue(d, "desc8") ELSE Disable([d EXCEPT !.stop = later(@, 2)])
    [] st = "desc8" -> IF ok THEN Issue(d, IF At.mps THEN "eval" ELSE "desc18") ELSE NoDesc(d)
    [] st = "eval" -> IF ok THEN Issue(d, "desc18") ELSE NoDesc(d)
    [] st = "desc18" -> IF ok THEN Issue(d, "cfg9") ELSE NoDesc(d)
    [] st = "cfg9" -> IF ok THEN Issue(d, "cfg") ELSE Disable(note_device(d))
    [] st = "cfg" -> IF ok /\ Found(d) # << >> THEN Issue(d, "setcfg") ELSE Disable(note_device(d))
    [] st = "setcfg" -> IF ~ok THEN Disable(note_device(d))
                        ELSE IF Found(d)[1] = 0 THEN Fails(note_device(d), Event)
                        ELSE Issue(note_device(d), "configure")
    [] st = "disable" -> drv' = [d EXCEPT !.slot = FALSE, !.st = "port"] /\ UNCHANGED <<dev, q>>
    [] st = "configure" -> IF ok THEN drv' = [d EXCEPT !.st = "queue_intr"] /\ UNCHANGED <<dev, q>> ELSE Fails(d, Event)
    [] st = "hcireset" -> IF ok THEN drv' = [d EXCEPT !.st = "wait_intr"] /\ UNCHANGED <<dev, q>> ELSE Fails(d, Event)
    [] st = "resetep" -> IF ok THEN Issue(d, "setdeq") ELSE drv' = [d EXCEPT !.st = "recovered"] /\ UNCHANGED <<dev, q>>
    [] st = "setdeq" -> drv' = [d EXCEPT !.st = "recovered"] /\ UNCHANGED <<dev, q>>

\* The interrupt transfer is queued before the reset is sent.
queue_intr ==
  /\ drv.st = "queue_intr"
  /\ LET r == Sends([drv EXCEPT !.intr = "wait", !.dci = TRUE], "hcireset") IN
     /\ drv' = r
     /\ dev' = [dev EXCEPT !.armed = TRUE, !.ep0 = Append(@, [st |-> "hcireset", ptr |-> r.ptr, id |-> r.id])]
     /\ q' = [q EXCEPT !.ids = @ + 1]

\* A stall ends a transfer after the endpoint is recovered.
Recovered == drv.st = "recovered" /\ Then(drv, drv.ret, FALSE)

Waiting == drv.st \in Commands \cup {"desc8", "desc18", "cfg9", "cfg", "setcfg", "hcireset", "wait_intr"}
pop_event == [dev EXCEPT !.ev = Tail(@)]

\* Mutant: any completion of a command will do.
MatchesMutant(e) == IF drv.st \in Commands THEN e.t = "cmd" ELSE e.t = "xfer" /\ e.ptr = drv.ptr

\* wait_completion and take_control: is the event the one waited for?
Matches(e) == IF drv.st \in Commands THEN e.t = "cmd" /\ e.ptr = drv.ptr ELSE e.t = "xfer" /\ e.ptr = drv.ptr

\* Mutant: the interrupt event is passed over while a control transfer is awaited.
note_intrMutant(d, e) == IF d.st = "wait_intr" THEN [d EXCEPT !.intr = IF e.code = "ok" THEN e.data ELSE "failed"] ELSE d

note_intr(d, e) == [d EXCEPT !.intr = IF e.code = "ok" THEN e.data ELSE "failed"]

\* The first event of the ring: skipped, noted, or the end of the wait.
Skip == drv' = drv /\ dev' = pop_event /\ UNCHANGED q
Note(e) == drv' = note_intr(drv, e) /\ dev' = pop_event /\ UNCHANGED q
Pop ==
  /\ Waiting /\ drv.st # "wait_intr" /\ dev.ev # << >>
  /\ LET e == Head(dev.ev) IN
     IF e.t = "intr" /\ drv.st \notin Commands THEN Note(e)
     ELSE IF ~Matches(e) THEN Skip
     ELSE IF e.code = "short" /\ ~e.last THEN drv' = [drv EXCEPT !.short = TRUE] /\ dev' = pop_event /\ UNCHANGED q
     ELSE /\ drv' = [drv EXCEPT !.st = "took", !.ret = IF drv.st \in {"resetep", "setdeq"} THEN @ ELSE drv.st,
                                !.ptr = 0, !.short = FALSE, !.id = 0,
                                !.res = <<drv.st, IF e.code = "ok" /\ drv.short THEN "cut" ELSE e.code>>]
          /\ dev' = pop_event
          /\ q' = [q EXCEPT !.wrong = @ \/ e.id # drv.id]

\* data_stage, status_stage and transfer_failed: a stall is recovered from; a
\* descriptor cut short is refused, a configuration is used as far as it came.
Took ==
  /\ drv.st = "took"
  /\ LET st == drv.res[1]  code == drv.res[2]  d == [drv EXCEPT !.res = <<None, None>>] IN
     IF code = "stall" THEN Issue(d, "resetep")
     ELSE \E n \in IF st # "cfg" THEN {d.take} ELSE IF code = "cut" THEN 0 .. Len(At.cfg) ELSE {Len(At.cfg)} :
            Then([d EXCEPT !.take = n], st, \/ code = "ok" \/ (code = "cut" /\ st \in {"cfg", "hcireset"})
                                            \/ (st = "resetep" /\ code # "timeout"))

\* wait_intr and the end of send_reset.
WaitIntr ==
  /\ drv.st = "wait_intr"
  /\ IF drv.intr = "wait"
     THEN dev.ev # << >> /\ IF Head(dev.ev).t = "intr" THEN Note(Head(dev.ev)) ELSE Skip
     ELSE IF drv.intr = "complete"
          THEN /\ drv' = [drv EXCEPT !.st = "done", !.text = [Halt EXCEPT !.t = "ok"]]
               /\ halt(drv.c, q)
          ELSE Fails(drv, Event)

\* Nothing is left to answer.
Quiet == dev.cmd = << >> /\ dev.ep0 = << >> /\ ~(dev.armed /\ dev.heard)

\* The spin ran out: a command or transfer fails, whatever becomes of it later.
Timeout ==
  /\ Waiting /\ dev.ev = << >>
  /\ drv' = IF drv.st = "wait_intr" THEN [drv EXCEPT !.intr = IF @ = "wait" THEN "failed" ELSE @]
            ELSE [drv EXCEPT !.st = "took", !.ptr = 0, !.short = FALSE, !.id = 0, !.res = <<drv.st, "timeout">>,
                             !.ret = IF drv.st \in {"resetep", "setdeq"} THEN @ ELSE drv.st]
  /\ \/ Quiet /\ UNCHANGED q
     \/ ~Quiet /\ q.faults < Faults /\ q' = [q EXCEPT !.faults = @ + 1]
  /\ UNCHANGED dev

Steps == Start \/ Attempt \/ NextPort \/ queue_intr \/ Recovered \/ Pop \/ Took \/ WaitIntr \/ Timeout

-----------------------------------------------------------------------------
(* The controller and its devices (external).                               *)

Post(d, e) == [d EXCEPT !.ev = Append(@, e)]

\* Commands are served in order; a disabled slot and a reset endpoint drop its
\* transfers, and a slot that cannot be disabled was not enabled.
Command ==
  /\ dev.cmd # << >>
  /\ LET m == Head(dev.cmd)
         d == [dev EXCEPT !.cmd = Tail(@), !.ep0 = IF m.st \in {"disable", "resetep"} THEN << >> ELSE @] IN
     \/ dev' = Post(d, Ans("cmd", m, "ok", TRUE)) /\ UNCHANGED q
     \/ /\ q.faults < Faults
        /\ dev' = Post(IF m.st = "disable" THEN d ELSE [d EXCEPT !.ep0 = dev.ep0], Ans("cmd", m, "error", TRUE))
        /\ q' = [q EXCEPT !.faults = @ + 1]
  /\ UNCHANGED drv

\* A transfer ends well, short, with a stall or with an error.
Control ==
  /\ dev.ep0 # << >>
  /\ LET m == Head(dev.ep0)
         d == [dev EXCEPT !.ep0 = Tail(@), !.heard = @ \/ m.st = "hcireset"] IN
     \/ dev' = Post(d, Ans("xfer", m, "ok", TRUE)) /\ UNCHANGED q
     \/ /\ q.faults < Faults
        /\ q' = [q EXCEPT !.faults = @ + 1]
        /\ \/ dev' = Post(Post(d, Ans("xfer", m, "short", FALSE)), Ans("xfer", m, "ok", TRUE))
           \/ \E c \in {"stall", "error"} : dev' = Post([d EXCEPT !.heard = dev.heard], Ans("xfer", m, c, TRUE))
  /\ UNCHANGED drv

\* The radio answers the reset, before or after the transfer that carried it is
\* reported; or sends something else.
Radio ==
  /\ dev.armed /\ (dev.heard \/ (dev.ep0 # << >> /\ Head(dev.ep0).st = "hcireset"))
  /\ \/ /\ dev' = [Post(dev, Intr("ok", "complete")) EXCEPT !.armed = FALSE]
        /\ q' = [q EXCEPT !.acked = TRUE]
     \/ /\ q.faults < Faults /\ q' = [q EXCEPT !.faults = @ + 1]
        /\ \E code \in {"ok", "error"} :
             dev' = [Post(dev, Intr(code, "other")) EXCEPT !.armed = FALSE]
  /\ UNCHANGED drv

PortChange ==
  /\ q.changes < Changes /\ Waiting
  /\ dev' = Post(dev, [t |-> "portchange", ptr |-> 0, id |-> 0, code |-> "ok", last |-> TRUE, data |-> None])
  /\ q' = [q EXCEPT !.changes = @ + 1]
  /\ UNCHANGED drv

\* A controller that did not halt answers in the area of the second one.
Stray ==
  /\ dev.old # << >> /\ Waiting
  /\ dev' = [Post(dev, Head(dev.old)) EXCEPT !.old = Tail(@)]
  /\ q' = [q EXCEPT !.acked = @ \/ Head(dev.old).t = "intr"]
  /\ UNCHANGED drv

Device == Command \/ Control \/ Radio
Next == Steps \/ Device \/ PortChange \/ Stray
Spec == Init /\ [][Next]_vars /\ WF_vars(Steps) /\ WF_vars(Device)

-----------------------------------------------------------------------------
\* Ring indices, controller states and the bound on faults stay in range.
TypeOK == /\ drv.c \in 0 .. 2 /\ drv.stop \in 0 .. 3 /\ drv.cmd_i \in 0 .. RingLast /\ drv.ep0_i \in 0 .. RingLast
          /\ q.faults <= Faults /\ \A c \in 1 .. 2 : dev.on[c] \in {"firmware", "ours", "halted", "stuck"}

\* An answer taken for a request is that request's, late answers to requests
\* given up included, unless an earlier controller would not halt.
RightAnswer == q.wrong => dev.on[1] = "stuck"

\* Both controllers are given the same DMA area: one of them runs in it at most,
\* and none once the line is painted, but for one that was told to halt and did not.
OneMaster == /\ \A c \in 1 .. 2 : dev.on[c] = "ours" => c = drv.c
             /\ drv.st = "done" => \A c \in 1 .. 2 : dev.on[c] # "ours"

\* "reset ok" is painted only when the radio acknowledged the reset, and always
\* when it did and nothing went wrong.
Verdict ==
  drv.st = "done" =>
    /\ drv.text.t = "ok" => q.acked
    /\ q.acked /\ q.faults = 0 => drv.text.t = "ok"
    /\ q.faults = 0 /\ q.fw /\ (\E c \in 1 .. 2 : q.m[c].id = "live")
         /\ (\E c \in 1 .. 2 : q.m[c].id # "absent" /\ q.m[c].starts /\ \E p \in DOMAIN q.m[c].ports :
              /\ q.m[c].ports[p].plug /\ find_hci_interrupt(q.m[c].ports[p].cfg) \notin {<< >>, <<0>>}
              /\ \A o \in 1 .. p - 1 : ~q.m[c].ports[o].plug \/ find_hci_interrupt(q.m[c].ports[o].cfg) = << >>)
       => drv.text.t = "ok"

Rank(f) == CASE f.t = "halt" -> 0 [] f.t = "port" -> 1 + f.rank [] f.t = "id" -> 5 [] f.t = "event" -> 6
\* Two failed attempts show the one that got further.
Furthest == drv.st = "done" /\ Len(q.fails) = 2 =>
              drv.text \in Range(q.fails) /\ \A f \in Range(q.fails) : Rank(f) <= Rank(drv.text)

Busy == drv.st # "done"
=============================================================================
