-------------------------------- MODULE Xhci --------------------------------
(***************************************************************************)
(* console-driver's USB keyboard: the controller from bring-up over the    *)
(* ports to one boot keyboard, then its reports.  Three transfer rings     *)
(* with link entries and cycle bits, and the event ring, are modelled      *)
(* entry by entry; the controller and the keyboard are external.           *)
(***************************************************************************)
EXTENDS Integers, Sequences, FiniteSets, SequencesExt

CONSTANTS Buses,     \* sequences of ports, each "none" or the descriptors of its device
          RingLast,  \* of each ring, its last entry, kept for the link
          EvLen,     \* entries of the event ring
          Budget,    \* events one poll looks at
          Keys,      \* usages
          Slots,     \* key slots of a report
          Loads      \* [presses, changes, faults]: keys pressed or released, port changes, and
                     \* transfers and commands that fail or are late, in one behaviour

VARIABLES dev,       \* controller, DMA window, keyboard
          drv,       \* UsbKbd
          q          \* the interrupt, and what was typed

vars == <<dev, drv, q>>

Rings == {"cmd", "ep0", "intr"}
Zero(r) == [i \in 0 .. RingLast[r] |-> [t |-> "none", c |-> 0, x |-> 0]]
Start == [i |-> 0, c |-> 1]
NoWait == [ring |-> "cmd", ptr |-> 0, data |-> 0]

Init ==
  /\ \E bus \in Buses :
       dev = [bus |-> bus, run |-> FALSE, mem |-> [r \in Rings |-> Zero(r)], deq |-> [r \in Rings |-> Start],
              rung |-> {}, halted |-> {}, slot |-> FALSE, ev |-> [i \in 0 .. EvLen - 1 |-> [c |-> 0]],
              ep |-> Start, queued |-> 0, ehb |-> FALSE, change |-> {}, down |-> << >>, changed |-> FALSE,
              report |-> << >>, last |-> << >>, sent |-> [k \in Keys |-> 0], faults |-> 0, changes |-> 0]
  /\ drv = [pc |-> "find", r |-> [r \in Rings |-> Start], ev |-> Start, port |-> 0, step |-> "none", slot |-> FALSE,
            wait |-> NoWait, x |-> 0, got |-> 0, short |-> FALSE, res |-> "none", ep |-> "ep0", back |-> "fail", online |-> FALSE, op |-> FALSE, ready |-> FALSE,
            broken |-> FALSE, kbd |-> 0, cut |-> FALSE, down |-> << >>, left |-> 0]
  /\ \E load \in Loads : q = [load |-> load, badge |-> FALSE, typed |-> [k \in Keys |-> 0], presses |-> 0]

Goto(pc) == [drv EXCEPT !.pc = pc]

-----------------------------------------------------------------------------
(* start: the stages up to a running controller.  find, and caps to run,    *)
(* may fail; a failure stops the controller if its registers are known.     *)

Stages == [find |-> "bar", bar |-> "caps", caps |-> "handoff", handoff |-> "halt", halt |-> "reset",
           reset |-> "rings", rings |-> "msi", msi |-> "run", run |-> "connect"]

\* find_xhci looks for a controller; assign_bar gives it addresses.
Find ==
  /\ drv.pc \in {"find", "bar"}
  /\ \/ drv' = [drv EXCEPT !.pc = Stages[drv.pc], !.online = @ \/ drv.pc = "bar"]
     \/ drv.pc = "find" /\ drv' = Goto("none")
  /\ UNCHANGED <<dev, q>>

\* From the capability registers to the run bit; the firmware's handoff is not looked at.
BringUp ==
  /\ drv.pc \in {"caps", "handoff", "halt", "reset", "rings", "run"}
  /\ dev' = [dev EXCEPT !.run = drv.pc = "run"]
  /\ \/ drv' = [drv EXCEPT !.pc = Stages[drv.pc], !.op = @ \/ drv.pc = "caps"]
     \/ drv.pc # "handoff" /\ drv' = Goto("stop")
  /\ UNCHANGED q

program_msi ==
  /\ drv.pc = "msi"
  /\ drv' = Goto(Stages["msi"]) \/ drv' = Goto("stop")
  /\ UNCHANGED <<dev, q>>

\* Mutant: a controller that gave no keyboard is left running.
StopMutant == drv.pc = "stop" /\ drv' = [drv EXCEPT !.pc = "none", !.ready = FALSE] /\ UNCHANGED <<dev, q>>

Stop ==
  /\ drv.pc = "stop"
  /\ IF drv.online /\ drv.op
     THEN dev' = [dev EXCEPT !.run = FALSE] /\ drv' = [drv EXCEPT !.pc = "none", !.ready = FALSE]
     ELSE drv' = Goto("none") /\ UNCHANGED dev
  /\ UNCHANGED q

\* power_ports and wait_connect, whose result is not looked at.
Connect == drv.pc = "connect" /\ drv' = Goto("port") /\ UNCHANGED <<dev, q>>

\* reset_port clears what changed.
reset_port(p) == [dev EXCEPT !.change = @ \ {p}]

\* The loop of enumerate, and try_port up to the reset.
TryPort ==
  /\ drv.pc = "port"
  /\ IF drv.broken \/ drv.port = Len(dev.bus) THEN drv' = Goto("stop") /\ UNCHANGED dev
     ELSE LET p == drv.port + 1 IN
       \/ drv' = [drv EXCEPT !.port = p] /\ UNCHANGED dev
       \/ /\ dev.bus[p] # "none"
          /\ dev' = reset_port(p)
          /\ drv' = [drv EXCEPT !.port = p, !.pc = "issue", !.step = "enable"]
  /\ UNCHANGED q

-----------------------------------------------------------------------------
(* The rings.  A ring and the driver's place in it are a pair m, p.          *)

\* Mutant: the link does not turn the cycle.
write_linkMutant(m, p) == [m |-> [m EXCEPT ![p.i] = [t |-> "link", c |-> p.c, x |-> 0]], p |-> [i |-> 0, c |-> p.c]]

write_link(m, p) == [m |-> [m EXCEPT ![p.i] = [t |-> "link", c |-> p.c, x |-> 0]], p |-> [i |-> 0, c |-> 1 - p.c]]

ensure_room(m, p, n, last) == IF p.i + n > last THEN write_link(m, p) ELSE [m |-> m, p |-> p]

\* Entries ts of transfer x, one after the other.
push_trb(a, ts, x) ==
  [m |-> [j \in DOMAIN a.m |-> IF j - a.p.i \in 0 .. Len(ts) - 1 THEN [t |-> ts[j - a.p.i + 1], c |-> a.p.c, x |-> x]
                               ELSE a.m[j]],
   p |-> [a.p EXCEPT !.i = @ + Len(ts)]]

\* Queue ts on ring of d, ring the doorbell, and wait for its last entry.
Queue(d, b, ring, ts) ==
  LET a == ensure_room(d.mem[ring], b.r[ring], Len(ts), RingLast[ring])
      n == push_trb(a, ts, drv.x + 1) IN
  /\ dev' = [d EXCEPT !.mem[ring] = n.m, !.rung = @ \cup {ring}]
  /\ drv' = [b EXCEPT !.r[ring] = n.p, !.x = @ + 1, !.got = 0, !.short = FALSE,
               !.wait = [ring |-> ring, ptr |-> n.p.i - 1, data |-> IF Len(ts) = 3 THEN n.p.i - 2 ELSE -1]]

\* The next event, and the two sides after it is taken; the controller interrupts
\* again while the ring is not empty.
Event == dev.ev[drv.ev.i]
\* Mutant: the cycle is not turned at the end of the event ring.
pop_eventMutant == [i |-> (drv.ev.i + 1) % EvLen, c |-> drv.ev.c]
pop_event == [i |-> (drv.ev.i + 1) % EvLen, c |-> IF drv.ev.i + 1 = EvLen THEN 1 - drv.ev.c ELSE drv.ev.c]
HasEvent == Event.c = drv.ev.c
Popped == [dev EXCEPT !.queued = @ - 1, !.ehb = dev.queued > 1]
Again == [q EXCEPT !.badge = @ \/ dev.queued > 1]

\* ack_port_event.
AckPort(d) == [d EXCEPT !.change = @ \ {Event.port}]

-----------------------------------------------------------------------------
(* Commands and control transfers of one port, in order.                    *)

Commands == {"enable", "address", "evaluate", "configure", "disable", "reset_ep", "set_deq"}
After == [enable |-> "address", address |-> "desc8", evaluate |-> "desc18", desc18 |-> "cfg9", cfg9 |-> "cfg",
          setcfg |-> "setproto", setproto |-> "setidle", setidle |-> "configure"]
HasData(step) == step \in {"desc8", "desc18", "cfg9", "cfg"}

\* address clears the ring of endpoint 0, configure_interrupt that of the interrupt endpoint.
Cleared(step) ==
  LET ring == IF step = "address" THEN "ep0" ELSE "intr" IN
  IF step \in {"address", "configure"}
  THEN [d |-> [dev EXCEPT !.mem[ring] = Zero(ring)], b |-> [drv EXCEPT !.r[ring] = Start]]
  ELSE [d |-> dev, b |-> drv]

Issue ==
  /\ drv.pc = "issue"
  /\ LET c == Cleared(drv.step)
         b == [c.b EXCEPT !.pc = "wait"] IN
     IF drv.step \in Commands THEN Queue(c.d, b, "cmd", <<drv.step>>)
     ELSE Queue(c.d, b, "ep0", IF HasData(drv.step) THEN <<"setup", "data", "status">> ELSE <<"setup", "status">>)
  /\ UNCHANGED q

\* Mutant: any transfer event ends the wait.
OursMutant == (Event.t = "xfer") = (drv.wait.ring # "cmd") /\ Event.t # "port"

\* wait_completion and await_control look for their own entry.
Ours == IF drv.wait.ring = "cmd" THEN Event.t = "cmd" /\ Event.ptr = drv.wait.ptr
        ELSE Event.t = "xfer" /\ Event.ring = "ep0" /\ Event.ptr = drv.wait.ptr
OurData == drv.wait.ring = "ep0" /\ Event.t = "xfer" /\ Event.ring = "ep0" /\ Event.ptr = drv.wait.data

\* A short data stage is noted and the wait goes on; a failed one ends it.
Wait ==
  /\ drv.pc = "wait" /\ HasEvent
  /\ LET b == [drv EXCEPT !.ev = pop_event, !.short = @ \/ (OurData /\ Event.code = "short")]
         ends == [b EXCEPT !.pc = "after", !.got = Event.x,
                           !.res = IF Event.code = "ok" /\ drv.short THEN "short" ELSE Event.code] IN
     /\ dev' = IF Event.t = "port" THEN AckPort(Popped) ELSE Popped
     /\ drv' = IF Event.t = "port" THEN b
               ELSE IF Ours \/ (OurData /\ Event.code \notin {"ok", "short"}) THEN ends ELSE b
  /\ q' = Again

\* The spin runs out: a command that is not answered breaks the driver.
Timeout ==
  /\ drv.pc = "wait" /\ ~HasEvent /\ dev.faults < q.load.faults
  /\ drv' = [drv EXCEPT !.pc = "after", !.res = "silent", !.broken = @ \/ drv.wait.ring = "cmd"]
  /\ dev' = [dev EXCEPT !.faults = @ + 1] /\ UNCHANGED q

\* ctrl_in and its callers: a short answer will do for the whole configuration only.
Fine == drv.res = "ok" \/ (drv.res = "short" /\ drv.step = "cfg")

\* Mutant: the first boot keyboard hides a later one.
find_boot_keyboardMutant(cfg) ==
  LET eps == {i \in 2 .. Len(cfg) : cfg[i].t = "ep" /\ cfg[i].intr /\ cfg[i - 1].t = "iface" /\ cfg[i - 1].boot} IN
  IF eps = {} THEN 0 ELSE cfg[CHOOSE i \in eps : \A j \in eps : i <= j].addr

\* The interrupt endpoint of the last boot keyboard that has one; 0 is none.
find_boot_keyboard(cfg) ==
  LET f[i \in 0 .. Len(cfg)] ==
        IF i = 0 THEN [boot |-> FALSE, found |-> 0]
        ELSE LET a == f[i - 1]  d == cfg[i] IN
             CASE d.t = "iface" -> [a EXCEPT !.boot = d.boot]
               [] d.t = "ep" /\ a.boot /\ d.intr -> [boot |-> FALSE, found |-> d.addr]
               [] OTHER -> a
  IN f[Len(cfg)].found

\* configure_interrupt refuses an endpoint without a number and a packet too small for a report.
Fit == \A d \in Range(dev.bus[drv.port]) : d.t = "ep" /\ d.addr = drv.kbd => d.fit

Then(step) == [drv EXCEPT !.pc = "issue", !.step = step]
Fails == IF drv.slot THEN [Then("disable") EXCEPT !.slot = FALSE] ELSE Goto("port")

\* recover_endpoint: reset the endpoint, then move it to the driver's place in its ring.
Recover(b, ep, back) == [b EXCEPT !.pc = "issue", !.step = "reset_ep", !.ep = ep, !.back = back]

queue_intr(b) == Queue([dev EXCEPT !.report = << >>], b, "intr", <<"normal">>)

\* What each step does with its result: try_port, bind_keyboard and the calls below them.
Result ==
  /\ drv.pc = "after"
  /\ LET s == drv.step IN
     CASE s = "disable" -> drv' = Goto("port") /\ UNCHANGED dev
       [] s = "reset_ep" -> drv' = (IF drv.res = "silent" THEN Goto("recovered") ELSE Then("set_deq")) /\ UNCHANGED dev
       [] s = "set_deq" -> drv' = Goto("recovered") /\ UNCHANGED dev
       [] drv.wait.ring = "ep0" /\ drv.res = "stall" ->
            drv' = Recover(drv, "ep0", IF s = "setidle" THEN "configure" ELSE "fail") /\ UNCHANGED dev
       [] ~Fine -> drv' = Fails /\ UNCHANGED dev
       [] s = "desc8" -> (\E new \in BOOLEAN : drv' = Then(IF new THEN "evaluate" ELSE "desc18")) /\ UNCHANGED dev
       [] s = "cfg" -> /\ \E n \in 0 .. Len(dev.bus[drv.port]) :
                            /\ drv.res = "ok" => n = Len(dev.bus[drv.port])
                            /\ LET k == find_boot_keyboard(SubSeq(dev.bus[drv.port], 1, n)) IN
                               drv' = IF k = 0 THEN Fails ELSE [Then("setcfg") EXCEPT !.kbd = k, !.cut = n < Len(dev.bus[drv.port])]
                       /\ UNCHANGED dev
       [] s = "setidle" /\ ~Fit -> drv' = Fails /\ UNCHANGED dev
       [] s = "configure" -> queue_intr([drv EXCEPT !.pc = "idle", !.ready = TRUE])
       [] OTHER -> drv' = [Then(After[s]) EXCEPT !.slot = @ \/ s = "enable"] /\ UNCHANGED dev
  /\ UNCHANGED q

Recovered ==
  /\ drv.pc = "recovered"
  /\ IF drv.back = "poll" THEN IF drv.broken THEN drv' = Goto("ack") /\ UNCHANGED dev ELSE queue_intr(Goto("poll"))
     ELSE drv' = (IF drv.back = "fail" \/ ~Fit THEN Fails ELSE Then("configure")) /\ UNCHANGED dev
  /\ UNCHANGED q

-----------------------------------------------------------------------------
(* The interrupt: poll, then ack_irq.                                       *)

Notified ==
  /\ drv.pc = "idle" /\ q.badge
  /\ drv' = [drv EXCEPT !.pc = "poll", !.left = Budget] /\ q' = [q EXCEPT !.badge = FALSE] /\ UNCHANGED dev

Rollover == <<"rollover">>
\* Mutant: the keys of the last report are not remembered.
decodeMutant(r) == [new |-> IF r = Rollover THEN {} ELSE Range(r) \ Range(drv.down), down |-> drv.down]

\* hid::decode: the keys that the last report did not hold.
decode(r) == IF r = Rollover THEN [new |-> {}, down |-> drv.down] ELSE [new |-> Range(r) \ Range(drv.down), down |-> r]

Poll ==
  /\ drv.pc = "poll"
  /\ IF drv.left = 0 \/ ~HasEvent THEN drv' = Goto("ack") /\ UNCHANGED <<dev, q>>
     ELSE LET b == [drv EXCEPT !.ev = pop_event, !.left = @ - 1]
              r == decode(dev.report) IN
       IF Event.t # "xfer" \/ Event.ring # "intr"
       THEN dev' = (IF Event.t = "port" THEN AckPort(Popped) ELSE Popped) /\ drv' = b /\ q' = Again
       ELSE IF Event.code \in {"ok", "short"}
       THEN /\ dev' = Popped /\ drv' = [b EXCEPT !.down = r.down, !.pc = IF drv.broken THEN "ack" ELSE "requeue"]
            /\ q' = [Again EXCEPT !.typed = [k \in Keys |-> IF k \in r.new THEN @[k] + 1 ELSE @[k]]]
       ELSE dev' = Popped /\ drv' = Recover(b, "intr", "poll") /\ q' = Again

Requeue == drv.pc = "requeue" /\ queue_intr(Goto("poll")) /\ UNCHANGED q

ack_irq == drv.pc = "ack" /\ drv' = Goto("idle") /\ UNCHANGED <<dev, q>>

-----------------------------------------------------------------------------
(* The controller and the keyboard (external).                              *)

\* Where the controller is in a ring, links followed.
At(ring) == LET p == dev.deq[ring] IN
            IF dev.mem[ring][p.i].t = "link" /\ dev.mem[ring][p.i].c = p.c THEN [i |-> 0, c |-> 1 - p.c] ELSE p
Runs(ring) == dev.run /\ ring \in dev.rung \ dev.halted /\ dev.mem[ring][At(ring).i].c = At(ring).c

Xfer(ring, ptr, code, x) == [c |-> 0, t |-> "xfer", ring |-> ring, ptr |-> ptr, code |-> code, x |-> x, port |-> 0]
Post(d, evs) ==
  /\ d.queued + Len(evs) <= EvLen
  /\ LET pos(n) == (d.ep.i + n) % EvLen
         cyc(n) == IF d.ep.i + n >= EvLen THEN 1 - d.ep.c ELSE d.ep.c IN
     dev' = [d EXCEPT !.queued = @ + Len(evs), !.ehb = TRUE, !.ep = [i |-> pos(Len(evs)), c |-> cyc(Len(evs))],
               !.ev = [j \in DOMAIN @ |-> IF \E n \in 1 .. Len(evs) : pos(n - 1) = j
                         THEN LET n == CHOOSE n \in 1 .. Len(evs) : pos(n - 1) = j IN [evs[n] EXCEPT !.c = cyc(n - 1)]
                         ELSE @[j]]]
  /\ q' = [q EXCEPT !.badge = @ \/ ~dev.ehb] /\ UNCHANGED drv

\* set_deq carries the driver's place, where it stays while the driver waits.
Effect(d, t) ==
  CASE t = "address" -> [d EXCEPT !.slot = TRUE, !.deq["ep0"] = Start, !.halted = {}]
    [] t = "configure" -> [d EXCEPT !.deq["intr"] = Start]
    [] t = "disable" -> [d EXCEPT !.slot = FALSE, !.rung = @ \cap {"cmd"}]
    [] t = "reset_ep" -> [d EXCEPT !.halted = @ \ {drv.ep}, !.rung = @ \ {drv.ep}]
    [] t = "set_deq" -> [d EXCEPT !.deq[drv.ep] = drv.r[drv.ep]]
    [] OTHER -> d

\* An error stands for a slot of number 0 too, which enable_slot refuses likewise.
Command ==
  /\ Runs("cmd")
  /\ LET p == At("cmd")
         e == dev.mem["cmd"][p.i]
         d == [dev EXCEPT !.deq["cmd"] = [p EXCEPT !.i = @ + 1]]
         event(code) == [Xfer("cmd", p.i, code, e.x) EXCEPT !.t = "cmd"] IN
     \/ Post(Effect(d, e.t), <<event("ok")>>)
     \/ dev.faults < q.load.faults /\ Post([d EXCEPT !.faults = @ + 1], <<event("error")>>)

\* A control transfer: its entries at once, a short or failing data stage included.
Control ==
  /\ Runs("ep0") /\ dev.slot
  /\ LET p == At("ep0").i
         x == dev.mem["ep0"][p].x
         data == dev.mem["ep0"][p + 1].t = "data"
         end == IF data THEN p + 2 ELSE p + 1
         d == [dev EXCEPT !.deq["ep0"] = [At("ep0") EXCEPT !.i = end + 1]]
         stops == [dev EXCEPT !.halted = @ \cup {"ep0"}, !.faults = @ + 1] IN
     \/ Post(d, <<Xfer("ep0", end, "ok", x)>>)
     \/ /\ dev.faults < q.load.faults
        /\ \/ data /\ Post([d EXCEPT !.faults = @ + 1], <<Xfer("ep0", p + 1, "short", x), Xfer("ep0", end, "ok", x)>>)
           \/ \E at \in {p + 1, end}, code \in {"stall", "error"} : Post(stops, <<Xfer("ep0", at, code, x)>>)

Report ==
  /\ Runs("intr") /\ dev.slot /\ dev.changed
  /\ LET p == At("intr")
         x == dev.mem["intr"][p.i].x
         r == IF Len(dev.down) > Slots THEN Rollover ELSE dev.down
         d == [dev EXCEPT !.deq["intr"] = [p EXCEPT !.i = @ + 1], !.changed = FALSE, !.report = r,
                          !.last = IF r = Rollover THEN @ ELSE r,
                          !.sent = [k \in Keys |-> IF k \in Range(r) \ Range(dev.last) THEN @[k] + 1 ELSE @[k]]] IN
     \/ Post(d, <<Xfer("intr", p.i, "ok", x)>>)
     \/ /\ dev.faults < q.load.faults
        /\ Post([dev EXCEPT !.halted = @ \cup {"intr"}, !.faults = @ + 1], <<Xfer("intr", p.i, "stall", x)>>)

Press ==
  /\ drv.ready /\ q.presses < q.load.presses
  /\ \E k \in Keys : dev' = [dev EXCEPT !.down = IF k \in Range(@) THEN SelectSeq(@, LAMBDA j : j # k) ELSE Append(@, k),
                                        !.changed = TRUE]
  /\ q' = [q EXCEPT !.presses = @ + 1] /\ UNCHANGED drv

PortChange ==
  /\ dev.changes < q.load.changes
  /\ \E p \in DOMAIN dev.bus \ dev.change :
       /\ dev.run
       /\ Post([dev EXCEPT !.change = @ \cup {p}, !.changes = @ + 1],
               <<[Xfer("none", 0, "ok", 0) EXCEPT !.t = "port", !.port = p]>>)

Steps == \/ Find \/ BringUp \/ program_msi \/ Stop \/ Connect \/ TryPort \/ Issue \/ Wait \/ Timeout \/ Result \/ Recovered
         \/ Notified \/ Poll \/ Requeue \/ ack_irq
Device == Report \/ Command \/ Control
Next == Steps \/ Device \/ Press \/ PortChange
\* The controller answers all but the faults of the load.
Spec == Init /\ [][Next]_vars /\ WF_vars(Steps) /\ WF_vars(Device)

-----------------------------------------------------------------------------
Pending == {dev.ev[(drv.ev.i + n) % EvLen] : n \in 0 .. dev.queued - 1}

\* Rings, slots and the driver's position in the event ring stay in range.
TypeOK ==
  /\ \A r \in Rings : drv.r[r].i \in 0 .. RingLast[r] /\ dev.deq[r].i \in 0 .. RingLast[r]
  /\ dev.queued \in 0 .. EvLen /\ drv.ready \in BOOLEAN /\ dev.halted \subseteq {"ep0", "intr"}
  /\ drv.pc \in DOMAIN Stages \cup {"none", "stop", "connect", "port", "issue", "wait", "after", "recovered", "idle",
                                    "poll", "requeue", "ack"}
  /\ HasEvent = (dev.queued > 0)

\* A wait ends with the event of the transfer it queued last: late, short and
\* foreign events, and entries reused after a wrap or a new slot, never stand for it.
RightAnswer == ~drv.broken /\ drv.pc = "after" /\ drv.res # "silent" =>
                 drv.got = drv.x

\* A keyboard that is in use is the last boot keyboard of its device's whole
\* configuration (of as much of it as came), with an endpoint that takes a report, and
\* a controller without one is not left running.
KeyboardOrNothing ==
  /\ drv.pc = "none" => ~dev.run
  /\ drv.ready => Fit
  /\ drv.ready /\ ~drv.cut =>
       LET cfg == dev.bus[drv.port]
           owner(i) == CHOOSE j \in 1 .. i : cfg[j].t = "iface" /\ \A k \in j + 1 .. i : cfg[k].t # "iface"
           boots == {i \in DOMAIN cfg : cfg[i].t = "ep" /\ cfg[i].intr /\ cfg[owner(i)].boot} IN
       /\ dev.bus[drv.port] # "none"
       /\ \E i \in boots : /\ drv.kbd = cfg[i].addr /\ \A j \in boots : owner(j) <= owner(i)
                           /\ \A j \in boots : owner(j) = owner(i) => i <= j

\* A key is typed once for each report that newly holds it, in step with the reports:
\* no report is read twice, overwritten before it is read, or skipped.
TypedOnce ==
  \A k \in Keys : /\ dev.sent[k] - q.typed[k] \in {0, 1}
                  /\ dev.sent[k] # q.typed[k] => \E e \in Pending : e.t = "xfer" /\ e.ring = "intr" /\ e.code = "ok"

\* A change of a port stays to be seen only while its event is on the way, so that
\* the controller reports the next one.
ChangesSeen == \A p \in dev.change : \E e \in Pending : e.t = "port" /\ e.port = p

\* Bring-up is not over, or a report is on the way to a driver that is not broken.
Busy == ~(drv.pc = "none" \/ drv.broken \/ (drv.pc = "idle" /\ dev.queued = 0 /\ ~dev.changed))
=============================================================================
