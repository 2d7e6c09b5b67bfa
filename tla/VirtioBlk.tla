------------------------------ MODULE VirtioBlk -----------------------------
(***************************************************************************)
(* virtio-blk-driver (Kind "mmio") and the block half of virtio-pci-driver *)
(* (Kind "combo"), with hello as their client.  The drivers complete and   *)
(* issue in a different order, and the second one does not notify while it *)
(* handles the client's own notification.  hello runs only while the       *)
(* driver, which has the higher priority, has nothing to do.               *)
(***************************************************************************)
EXTENDS Integers, Sequences, FiniteSets

CONSTANTS Kinds,      \* subset of {"mmio", "combo"}
          Loads,      \* how many requests a client has in flight
          QueueSize,  \* requests the driver gives the device at a time
          Blocks,     \* blocks of the disk
          Polls,      \* rounds of wait_for_net
          Wakes       \* wakes for the network half, in one behaviour

VARIABLES dev,        \* virtio device: requests, used ring, interrupt status
          drv,        \* the handler and its pending map
          q           \* client rings, hello, notifications

vars == <<dev, drv, q>>

Ops == {"read", "write"}
Elems(s) == {s[i] : i \in DOMAIN s}

Init ==
  /\ \E k \in Kinds, n \in Loads :
       /\ dev = [work |-> << >>, used |-> << >>, bad |-> {}, isr |-> FALSE, masked |-> FALSE,
                 disk |-> [b \in Blocks |-> <<"disk", b>>]]
       /\ drv = [kind |-> k, pc |-> "idle", badge |-> {}, pending |-> << >>, progress |-> FALSE]
       /\ q = [load |-> n, free |-> << >>, used |-> << >>, badge |-> {}, wakes |-> 0,
               data |-> [r \in 1 .. n |-> <<"data", r>>], op |-> [r \in 1 .. n |-> "none"],
               block |-> [r \in 1 .. n |-> 0], done |-> {},
               hello |-> IF n = 1 THEN "boot" ELSE "issue", polls |-> 0, net |-> {}, told |-> FALSE]

Goto(pc) == [drv EXCEPT !.pc = pc]

-----------------------------------------------------------------------------
(* The handlers.  pending is a sequence of requests; its members are the    *)
(* tokens the device has.                                                   *)

\* A wake for the network half looks at the disk only while requests are in flight.
Notified ==
  /\ drv.pc = "idle" /\ q.badge # {}
  /\ LET own == q.badge \cap {"device", "client"} # {} \/ (drv.kind = "combo" /\ drv.pending # << >>) IN
     drv' = [drv EXCEPT !.badge = q.badge, !.progress = FALSE,
               !.pc = IF ~own THEN "idle" ELSE IF drv.kind = "mmio" THEN "complete" ELSE "issue"]
  /\ q' = [q EXCEPT !.badge = {}] /\ UNCHANGED dev

\* complete_one_used_request, until the used ring is empty; a status that is not OK
\* is a panic.
complete_used_requests ==
  /\ drv.pc = "complete"
  /\ IF dev.used = << >>
     THEN drv' = Goto(IF drv.kind = "mmio" THEN "issue" ELSE "notify") /\ UNCHANGED <<dev, q>>
     ELSE LET r == Head(dev.used) IN
          /\ dev' = [dev EXCEPT !.used = Tail(@)]
          /\ drv' = [drv EXCEPT !.pending = SelectSeq(@, LAMBDA x : x # r), !.progress = TRUE,
                                !.pc = IF r \in dev.bad THEN "dead" ELSE @]
          /\ q' = IF r \in dev.bad THEN q ELSE [q EXCEPT !.used = Append(@, r)]

\* Mutant: the device is given more than it has descriptors for.
MayIssueMutant == Len(drv.pending) <= QueueSize /\ q.free # << >>

MayIssue == Len(drv.pending) < QueueSize /\ q.free # << >>

issue_pending_requests ==
  /\ drv.pc = "issue"
  /\ IF ~MayIssue
     THEN drv' = Goto(IF drv.kind = "mmio" THEN "notify" ELSE "complete") /\ UNCHANGED <<dev, q>>
     ELSE LET r == Head(q.free) IN
          /\ q' = [q EXCEPT !.free = Tail(@)]
          /\ drv' = [drv EXCEPT !.pending = Append(@, r), !.progress = TRUE]
          /\ dev' = [dev EXCEPT !.work = Append(@, r)]

\* The combined driver leaves it to the client to look, if the client just called.
Tell ==
  /\ drv.pc = "notify"
  /\ q' = IF drv.progress /\ ~(drv.kind = "combo" /\ "client" \in drv.badge) THEN [q EXCEPT !.told = TRUE] ELSE q
  /\ drv' = Goto(IF drv.kind = "mmio" \/ drv.progress \/ drv.badge \cap {"device", "client"} # {}
                 THEN "ack" ELSE "idle")
  /\ UNCHANGED dev

\* ack_device_irq: the device's status first, then the kernel's mask.
AckDevice ==
  drv.pc = "ack" /\ dev' = [dev EXCEPT !.isr = FALSE] /\ drv' = Goto("unmask") /\ UNCHANGED q
AckIrq ==
  drv.pc = "unmask" /\ dev' = [dev EXCEPT !.masked = FALSE] /\ drv' = Goto("idle") /\ UNCHANGED q

-----------------------------------------------------------------------------
(* The device (external): any request it holds, in any order, well or with  *)
(* an error status.                                                         *)

Drop(s, i) == SubSeq(s, 1, i - 1) \o SubSeq(s, i + 1, Len(s))

Complete ==
  /\ \E i \in DOMAIN dev.work :
       LET r == dev.work[i]
           d == [dev EXCEPT !.work = Drop(@, i), !.used = Append(@, r), !.isr = TRUE] IN
       \/ dev' = [d EXCEPT !.bad = @ \cup {r}] /\ UNCHANGED q
       \/ /\ dev' = [d EXCEPT !.disk = IF q.op[r] = "write" THEN [@ EXCEPT ![q.block[r]] = q.data[r]] ELSE @]
          /\ q' = IF q.op[r] = "read" THEN [q EXCEPT !.data[r] = dev.disk[q.block[r]]] ELSE q
  /\ UNCHANGED drv

\* An unmasked line that is raised interrupts before the next step of any domain.
Interrupt ==
  /\ dev.isr /\ ~dev.masked
  /\ dev' = [dev EXCEPT !.masked = TRUE] /\ q' = [q EXCEPT !.badge = @ \cup {"device"}] /\ UNCHANGED drv

NetWake ==
  /\ q.wakes < Wakes /\ drv.kind = "combo" /\ q.hello # "boot"
  /\ q' = [q EXCEPT !.wakes = @ + 1, !.badge = @ \cup {"net"}] /\ UNCHANGED <<dev, drv>>

-----------------------------------------------------------------------------
(* hello: the network probe, then each read is issued, the driver notified  *)
(* and the used ring polled at once; later on each notification.            *)

Runs == drv.pc = "dead" \/ (drv.pc = "idle" /\ q.badge = {})

\* NetIo::poll: what the stack allows is sent, and an echo received.
PollNet(n) ==
  \E more \in SUBSET {"udp", "sent", "echo"} :
    q' = [n EXCEPT !.net = @ \cup (more \ (IF "sent" \in n.net THEN {} ELSE {"echo"})), !.polls = @ + 1]

\* wait_for_net gives up after its rounds.
WaitForNet ==
  /\ Runs /\ q.hello = "boot"
  /\ IF {"udp", "echo"} \subseteq q.net \/ q.polls = Polls THEN q' = [q EXCEPT !.hello = "issue"] ELSE PollNet(q)
  /\ UNCHANGED <<dev, drv>>

Next1 == Cardinality({r \in DOMAIN q.op : q.op[r] # "none"}) + 1

Issue ==
  /\ Runs /\ q.hello = "issue"
  /\ \E op \in Ops, b \in Blocks :
       /\ op = IF Next1 = 2 THEN "write" ELSE "read"
       /\ q' = [q EXCEPT !.free = Append(@, Next1), !.op[Next1] = op, !.block[Next1] = b,
                         !.badge = @ \cup {"client"}, !.hello = "poll"]
  /\ UNCHANGED <<dev, drv>>

\* Mutant: hello waits for a notification after issuing.
PollBlkMutant ==
  /\ Runs /\ q.hello = "poll"
  /\ q' = [q EXCEPT !.hello = IF Next1 <= q.load THEN "issue" ELSE "wait"]
  /\ UNCHANGED <<dev, drv>>

\* finish_blk_read after the issue.
PollBlk ==
  /\ Runs /\ q.hello = "poll"
  /\ q' = [q EXCEPT !.hello = IF Next1 <= q.load THEN "issue" ELSE "wait",
                    !.done = @ \cup Elems(q.used), !.used = << >>]
  /\ UNCHANGED <<dev, drv>>

\* handle_blk_driver.
HelloNotified ==
  /\ Runs /\ q.hello \in {"issue", "wait"} /\ q.told
  /\ q' = [q EXCEPT !.told = FALSE, !.done = @ \cup Elems(q.used), !.used = << >>]
  /\ UNCHANGED <<dev, drv>>

Driver == Notified \/ complete_used_requests \/ issue_pending_requests \/ Tell \/ AckDevice \/ AckIrq
Steps == Driver \/ WaitForNet \/ Issue \/ PollBlk \/ HelloNotified
Quiet == ~dev.isr \/ dev.masked
Prompt == (Quiet /\ Steps) \/ Interrupt
DeviceWorks == Quiet /\ Complete
Next == Prompt \/ DeviceWorks \/ (Quiet /\ NetWake)
Fairness == WF_vars(Prompt) /\ WF_vars(DeviceWorks)
Spec == Init /\ [][Next]_vars /\ Fairness

-----------------------------------------------------------------------------
\* The queues, the pending list and the program hold known values.
TypeOK ==
  /\ drv.pc \in {"idle", "complete", "issue", "notify", "ack", "unmask", "dead"}
  /\ q.badge \subseteq {"device", "client", "net"} /\ q.hello \in {"boot", "issue", "poll", "wait"}
  /\ q.net \subseteq {"udp", "sent", "echo"} /\ q.wakes \in 0 .. Wakes

\* A request is in exactly one place from its issue to its answer, the driver
\* knows all the device holds, and gives it no more than its queue takes, as long
\* as no request fails.
OnePlace == drv.pc # "dead" =>
  /\ LET places == <<Elems(q.free), Elems(drv.pending), Elems(q.used), q.done>> IN
       /\ \A i, j \in 1 .. 4 : i # j => places[i] \cap places[j] = {}
       /\ UNION {places[i] : i \in 1 .. 4} = {r \in DOMAIN q.op : q.op[r] # "none"}
  /\ Elems(drv.pending) = Elems(dev.work) \cup Elems(dev.used)
  /\ Len(drv.pending) = Len(dev.work) + Len(dev.used) /\ Len(drv.pending) <= QueueSize


\* hello's one read is still to come: with one request in flight the interrupt
\* that the acknowledgement clears is never another request's.
Busy == q.load = 1 /\ 1 \notin q.done /\ drv.pc # "dead"
=============================================================================
