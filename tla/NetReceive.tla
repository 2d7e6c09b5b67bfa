----------------------------- MODULE NetReceive -----------------------------
(***************************************************************************)
(* The network receive path: the virtio device and its interrupt, the      *)
(* driver, the receive virtualiser with its reference counts, the copier   *)
(* and the client's smoltcp device.  The domains run at their fixed        *)
(* priorities on the one core, driver over virtualiser over copier over    *)
(* client.  One queue operation, flag access or notification is one step,  *)
(* but for the virtualiser's enqueue on dfree: the driver writes that tail *)
(* too when it hands a buffer back, so the load and the store of the tail  *)
(* are two steps.  Where the driver's enqueue falls between them a buffer  *)
(* is lost (NetFreeQueue follows the counters); the model marks that step  *)
(* as torn and ends there.                                                 *)
(*                                                                         *)
(* Driver buffers go dfree -> driver -> dactive -> virtualiser -> vactive  *)
(* -> copier -> vfree -> virtualiser -> dfree; client buffers go           *)
(* cfree -> copier -> cactive -> client -> cfree.                          *)
(***************************************************************************)
EXTENDS Integers, Sequences, FiniteSets

CONSTANTS NumBufs, NumClientBufs,  \* capacity of a driver-side queue, of a client queue
          Posted,                  \* receive buffers posted to the device
          Kinds,                   \* the kinds of frame that arrive
          MaxFrames, MaxErrors     \* bounds on arrivals and on failing dev.receive calls

ASSUME NetReceiveAssumption ==
    /\ {NumBufs, NumClientBufs, Posted} \subseteq Nat \ {0}
    /\ {MaxFrames, MaxErrors} \subseteq Nat
    /\ Kinds \subseteq {"client", "broadcast", "other", "runt", "unfit"}

Buf == 0 .. NumBufs - 1
ClientBuf == 0 .. NumClientBufs - 1
None == -1
Queue == {"dfree", "dactive", "vfree", "vactive", "cfree", "cactive"}
Domain == {"driver", "virt", "copier", "client"}
Capacity(x) == IF x \in {"cfree", "cactive"} THEN NumClientBufs ELSE NumBufs

VARIABLES
  arrived,  \* the kinds of the frames that have arrived; a frame is its index here
  dev,      \* the device: used and posted buffers, interrupt raised, masked, errors so far
  q,        \* the six queues
  want,     \* the queues whose consumer has requested a signal
  mem,      \* the frame in each driver buffer and in each client buffer
  refs,     \* the virtualiser's reference counts
  pd,       \* the domains: control point, badge, buffers in hand, what was moved
  got,      \* the frames smoltcp has been given
  torn      \* the driver has enqueued on dfree inside the virtualiser's enqueue

vars == <<arrived, dev, q, want, mem, refs, pd, got, torn>>

(* up and down are the handlers' notes that a buffer went towards the client *)
(* (notify_copier, client_enqueued) or back (notify_driver, virt_enqueued).  *)
Idle(pc) == [pc |-> pc, q |-> "dfree", badge |-> {}, buf |-> None, cbuf |-> None,
             up |-> FALSE, down |-> FALSE]

Init ==
  /\ arrived = << >> /\ got = << >> /\ torn = FALSE
  /\ dev = [used |-> << >>, posted |-> Posted, irq |-> FALSE, masked |-> FALSE, errors |-> 0]
  /\ q = [x \in Queue |-> << >>] /\ want = Queue
  /\ mem = [buf |-> [b \in Buf |-> 0], cbuf |-> [b \in ClientBuf |-> 0]]
  /\ refs = [b \in Buf |-> 0]
  /\ pd = [driver |-> Idle("idle"), virt |-> [Idle("fill") EXCEPT !.buf = 0],
           copier |-> Idle("fill"), client |-> Idle("idle")]

-----------------------------------------------------------------------------
At(d, pc) == pd[d].pc = pc

\* Domain d at control point pc; a handler's locals are gone when it returns,
\* but notify_driver is a field of the virtualiser's handler.
Goto(d, pc) == IF pc = "idle" THEN [Idle(pc) EXCEPT !.badge = pd[d].badge,
                                                    !.down = d = "virt" /\ pd[d].down]
               ELSE [pd[d] EXCEPT !.pc = pc]
Go(d, pc) == pd' = [pd EXCEPT ![d] = Goto(d, pc)]
Empty(x) == q[x] = << >>
Full(x) == Len(q[x]) = Capacity(x)
Enqueue(x, b) == q' = [q EXCEPT ![x] = Append(@, b)]
Dequeue(x) == q' = [q EXCEPT ![x] = Tail(@)]

Producer(x) == CASE x = "dactive" -> "driver" [] x \in {"dfree", "vactive"} -> "virt"
                 [] x \in {"vfree", "cactive"} -> "copier" [] x = "cfree" -> "client"
Consumer(x) == CASE x = "dfree" -> "driver" [] x \in {"dactive", "vfree"} -> "virt"
                 [] x \in {"vactive", "cfree"} -> "copier" [] x = "cactive" -> "client"

\* Where the producer goes on after it has, or has not, signalled x.
After(x) == CASE x = "dactive" -> "recycle" [] x = "vactive" -> "provide"
              [] x = "cactive" -> "sig_virt" [] OTHER -> "idle"

\* if net_require_signal(x) { net_cancel_signal(x); notify }.  The test and the
\* cancel are one step: only the consumer writes the flag between them, and
\* what it writes is overwritten.
Require(d) ==
  /\ At(d, "require")
  /\ Go(d, IF pd[d].q \in want THEN "notify" ELSE After(pd[d].q))
  /\ want' = want \ {pd[d].q}
  /\ UNCHANGED <<arrived, dev, q, mem, refs, got, torn>>

\* The virtualiser clears notify_driver when it has notified.
Notify(d) ==
  /\ At(d, "notify")
  /\ LET x == pd[d].q
     IN  pd' = [pd EXCEPT ![d] = [Goto(d, After(x)) EXCEPT !.down = @ /\ x # "dfree"],
                          ![Consumer(x)].badge = @ \cup {"ntfn"}]
  /\ UNCHANGED <<arrived, dev, q, want, mem, refs, got, torn>>

\* The loop over x ends; the request for a signal, at pc, comes after.
Drained(d, x, pc) ==
  /\ Empty(x)
  /\ Go(d, pc)
  /\ UNCHANGED <<arrived, dev, q, want, mem, refs, got, torn>>

\* request_signal; the recheck, at pc, follows.
RequestSignal(d, x, pc) ==
  /\ want' = want \cup {x}
  /\ Go(d, pc)
  /\ UNCHANGED <<arrived, dev, q, mem, refs, got, torn>>

-----------------------------------------------------------------------------
(* The device, external: a frame fills a posted buffer and raises the       *)
(* interrupt, which is delivered once and masked until acknowledged.        *)

Arrive(k) ==
  /\ Len(arrived) < MaxFrames /\ dev.posted > 0
  /\ arrived' = Append(arrived, k)
  /\ dev' = [dev EXCEPT !.used = Append(@, Len(arrived) + 1), !.posted = @ - 1, !.irq = TRUE]
  /\ UNCHANGED <<q, want, mem, refs, pd, got, torn>>

Interrupt ==
  /\ dev.irq /\ ~dev.masked
  /\ dev' = [dev EXCEPT !.masked = TRUE]
  /\ pd' = [pd EXCEPT !.driver.badge = @ \cup {"irq"}]
  /\ UNCHANGED <<arrived, q, want, mem, refs, got, torn>>

-----------------------------------------------------------------------------
(* The driver: notified, receive and deliver_one.                           *)

Fits(f) == arrived[f] # "unfit"   \* region_ptr accepts the packet's length

DriverNotified ==
  /\ At("driver", "idle") /\ pd.driver.badge # {}
  /\ dev' = [dev EXCEPT !.irq = @ /\ "irq" \notin pd.driver.badge]
  /\ pd' = [pd EXCEPT !.driver.badge = {},
                      !.driver.pc = IF "irq" \in pd.driver.badge THEN "irq_ack" ELSE "can_recv"]
  /\ UNCHANGED <<arrived, q, want, mem, refs, got, torn>>

IrqAck ==
  /\ At("driver", "irq_ack")
  /\ dev' = [dev EXCEPT !.masked = FALSE]
  /\ Go("driver", "can_recv")
  /\ UNCHANGED <<arrived, q, want, mem, refs, got, torn>>

CanRecv ==
  /\ At("driver", "can_recv")
  /\ Go("driver", IF dev.used = << >> THEN "idle" ELSE IF Empty("dfree") THEN "request" ELSE "deliver")
  /\ UNCHANGED <<arrived, dev, q, want, mem, refs, got, torn>>

DriverRequest == At("driver", "request") /\ RequestSignal("driver", "dfree", "recheck")

DriverRecheck ==
  /\ At("driver", "recheck")
  /\ IF Empty("dfree") THEN Go("driver", "idle") /\ UNCHANGED want
     ELSE Go("driver", "can_recv") /\ want' = want \ {"dfree"}
  /\ UNCHANGED <<arrived, dev, q, mem, refs, got, torn>>

\* The frame leaves the device and is copied into the dequeued buffer.
Deliver ==
  /\ At("driver", "deliver") /\ ~Empty("dfree")
  /\ mem' = [mem EXCEPT !.buf[Head(q["dfree"])] = IF Fits(Head(dev.used)) THEN Head(dev.used) ELSE @]
  /\ pd' = [pd EXCEPT !.driver.buf = Head(q["dfree"]),
                      !.driver.pc = IF Fits(Head(dev.used)) THEN "deliver_active" ELSE "back"]
  /\ Dequeue("dfree")
  /\ dev' = [dev EXCEPT !.used = Tail(@)]
  /\ UNCHANGED <<arrived, want, refs, got, torn>>

\* dev.receive fails: the frame stays and the buffer goes back.
DeliverError ==
  /\ At("driver", "deliver") /\ ~Empty("dfree") /\ dev.errors < MaxErrors
  /\ dev' = [dev EXCEPT !.errors = @ + 1]
  /\ pd' = [pd EXCEPT !.driver.buf = Head(q["dfree"]), !.driver.pc = "back_out"]
  /\ Dequeue("dfree")
  /\ UNCHANGED <<arrived, want, mem, refs, got, torn>>

DeliverActive ==
  /\ At("driver", "deliver_active")
  /\ IF Full("dactive") THEN Go("driver", "back") /\ UNCHANGED q
     ELSE /\ Enqueue("dactive", pd.driver.buf)
          /\ pd' = [pd EXCEPT !.driver.buf = None, !.driver.pc = "require", !.driver.q = "dactive"]
  /\ UNCHANGED <<arrived, dev, want, mem, refs, got, torn>>

\* The virtualiser has loaded the tail of dfree and not yet stored it.
Storing == {"fill_store", "drop_store", "provide_store"}

\* Mutant: the buffer of a packet that was not delivered is forgotten.
BackForgotten ==
  /\ pd.driver.pc \in {"back", "back_out"}
  /\ torn' = (pd.virt.pc \in Storing)
  /\ pd' = [pd EXCEPT !.driver.buf = None, !.driver.pc = IF @ = "back" THEN "recycle" ELSE "idle"]
  /\ UNCHANGED <<arrived, dev, q, want, mem, refs, got>>

\* Mutant: a receive that failed recycles the device's buffer too.
BackRecycles ==
  /\ pd.driver.pc \in {"back", "back_out"}
  /\ torn' = (pd.virt.pc \in Storing)
  /\ IF Full("dfree") THEN UNCHANGED q ELSE Enqueue("dfree", pd.driver.buf)
  /\ pd' = [pd EXCEPT !.driver.buf = None, !.driver.pc = "recycle"]
  /\ UNCHANGED <<arrived, dev, want, mem, refs, got>>

\* net_enqueue_free by the driver, whose status is ignored.  Nothing of lower
\* priority runs inside it.
Back ==
  /\ pd.driver.pc \in {"back", "back_out"}
  /\ torn' = (pd.virt.pc \in Storing)
  /\ IF Full("dfree") THEN UNCHANGED q ELSE Enqueue("dfree", pd.driver.buf)
  /\ pd' = [pd EXCEPT !.driver.buf = None, !.driver.pc = IF @ = "back" THEN "recycle" ELSE "idle"]
  /\ UNCHANGED <<arrived, dev, want, mem, refs, got>>

Recycle ==
  /\ At("driver", "recycle")
  /\ dev' = [dev EXCEPT !.posted = @ + 1]
  /\ Go("driver", "can_recv")
  /\ UNCHANGED <<arrived, q, want, mem, refs, got, torn>>

-----------------------------------------------------------------------------
(* The receive virtualiser: init's fill, rx_return, then rx_provide.        *)

\* destination: a frame too short for an address, or for nobody here, is dropped.
Dest(f) == CASE arrived[f] = "client" -> "Client" [] arrived[f] = "broadcast" -> "Broadcast"
             [] OTHER -> "Drop"

\* The first half of the virtualiser's enqueue on dfree: the room is tested and the
\* tail loaded.  VirtFill, ReturnDriver and ProvideFree store the buffer there.
LoadTail(pc) ==
  /\ At("virt", pc) /\ ~Full("dfree")
  /\ pd' = [pd EXCEPT !.virt.pc = CASE pc = "fill" -> "fill_store" [] pc = "drop" -> "drop_store"
                                    [] pc = "provide_free" -> "provide_store"]
  /\ UNCHANGED <<arrived, dev, q, want, mem, refs, got, torn>>

\* net_buffers_init, one buffer after the other; the driver is told at the end.
VirtFill ==
  /\ At("virt", "fill_store")
  /\ Enqueue("dfree", pd.virt.buf)
  /\ pd' = [pd EXCEPT !.virt = IF @.buf + 1 < NumBufs THEN [@ EXCEPT !.buf = @ + 1, !.pc = "fill"]
                               ELSE [@ EXCEPT !.buf = None, !.pc = "require", !.q = "dfree"]]
  /\ UNCHANGED <<arrived, dev, want, mem, refs, got, torn>>

VirtNotified ==
  /\ At("virt", "idle") /\ pd.virt.badge # {}
  /\ pd' = [pd EXCEPT !.virt.badge = {}, !.virt.pc = "return"]
  /\ UNCHANGED <<arrived, dev, q, want, mem, refs, got, torn>>

\* forward_active takes a buffer of the driver's and looks at its frame.
ForwardActive ==
  /\ At("virt", "return") /\ ~Empty("dactive")
  /\ LET b == Head(q["dactive"])
     IN  pd' = [pd EXCEPT !.virt.buf = b,
                          !.virt.pc = IF Dest(mem.buf[b]) = "Drop" THEN "drop" ELSE "forward"]
  /\ Dequeue("dactive")
  /\ UNCHANGED <<arrived, dev, want, mem, refs, got, torn>>

\* enqueue_copier; a broadcast counts num_clients references, which is one.
EnqueueCopier ==
  /\ At("virt", "forward") /\ ~Full("vactive")
  /\ refs[pd.virt.buf] = 0
  /\ refs' = [refs EXCEPT ![pd.virt.buf] = 1]
  /\ Enqueue("vactive", pd.virt.buf)
  /\ pd' = [pd EXCEPT !.virt.buf = None, !.virt.up = TRUE, !.virt.pc = "return"]
  /\ UNCHANGED <<arrived, dev, want, mem, got, torn>>

\* Mutant: the driver is not told of a buffer that a dropped frame gave back.
ReturnDriverQuietly ==
  /\ At("virt", "drop_store")
  /\ Enqueue("dfree", pd.virt.buf)
  /\ pd' = [pd EXCEPT !.virt.buf = None, !.virt.pc = "return"]
  /\ UNCHANGED <<arrived, dev, want, mem, refs, got, torn>>

ReturnDriver ==
  /\ At("virt", "drop_store")
  /\ Enqueue("dfree", pd.virt.buf)
  /\ pd' = [pd EXCEPT !.virt.buf = None, !.virt.down = TRUE, !.virt.pc = "return"]
  /\ UNCHANGED <<arrived, dev, want, mem, refs, got, torn>>

VirtEndActive == At("virt", "return") /\ Drained("virt", "dactive", "request")
VirtRequestActive == At("virt", "request") /\ RequestSignal("virt", "dactive", "recheck")

VirtRecheckActive ==
  /\ At("virt", "recheck")
  /\ IF ~Empty("dactive") THEN Go("virt", "return") /\ want' = want \ {"dactive"}
     ELSE /\ IF pd.virt.up THEN pd' = [pd EXCEPT !.virt.pc = "require", !.virt.q = "vactive"]
             ELSE Go("virt", "provide")
          /\ UNCHANGED want
  /\ UNCHANGED <<arrived, dev, q, mem, refs, got, torn>>

\* Mutant: the reference is not given up.
ProvideKeepsReference ==
  /\ At("virt", "provide") /\ ~Empty("vfree")
  /\ pd' = [pd EXCEPT !.virt.buf = Head(q["vfree"]), !.virt.pc = "provide_free"]
  /\ Dequeue("vfree")
  /\ UNCHANGED <<arrived, dev, want, mem, refs, got, torn>>

\* rx_provide takes a returned buffer; the last reference sends it on.
Provide ==
  /\ At("virt", "provide") /\ ~Empty("vfree")
  /\ LET b == Head(q["vfree"])
     IN  /\ refs[b] # 0
         /\ refs' = [refs EXCEPT ![b] = @ - 1]
         /\ IF refs[b] = 1 THEN pd' = [pd EXCEPT !.virt.buf = b, !.virt.pc = "provide_free"]
            ELSE UNCHANGED pd
  /\ Dequeue("vfree")
  /\ UNCHANGED <<arrived, dev, want, mem, got, torn>>

ProvideFree ==
  /\ At("virt", "provide_store")
  /\ Enqueue("dfree", pd.virt.buf)
  /\ pd' = [pd EXCEPT !.virt.buf = None, !.virt.down = TRUE, !.virt.pc = "provide"]
  /\ UNCHANGED <<arrived, dev, want, mem, refs, got, torn>>

VirtEndFree == At("virt", "provide") /\ Drained("virt", "vfree", "request_free")
VirtRequestFree == At("virt", "request_free") /\ RequestSignal("virt", "vfree", "recheck_free")

VirtRecheckFree ==
  /\ At("virt", "recheck_free")
  /\ IF ~Empty("vfree") THEN Go("virt", "provide") /\ want' = want \ {"vfree"}
     ELSE /\ IF pd.virt.down THEN pd' = [pd EXCEPT !.virt.pc = "require", !.virt.q = "dfree"]
             ELSE Go("virt", "idle")
          /\ UNCHANGED want
  /\ UNCHANGED <<arrived, dev, q, mem, refs, got, torn>>

-----------------------------------------------------------------------------
(* The copier: init's fill of the client's free queue, then rx_return.      *)

\* net_buffers_init; nobody else uses the queue before the copier's first frame.
CopierFill ==
  /\ At("copier", "fill")
  /\ q' = [q EXCEPT !["cfree"] = [i \in 1 .. NumClientBufs |-> i - 1]]
  /\ pd' = [pd EXCEPT !.copier.pc = "idle"]
  /\ UNCHANGED <<arrived, dev, want, mem, refs, got, torn>>

CopierNotified ==
  /\ At("copier", "idle") /\ pd.copier.badge # {}
  /\ pd' = [pd EXCEPT !.copier = Idle("return")]
  /\ UNCHANGED <<arrived, dev, q, want, mem, refs, got, torn>>

\* copy_frame first takes a client buffer; without one the frame goes back unused.
TakeClientBuffer ==
  /\ At("copier", "return") /\ ~Empty("vactive") /\ ~Empty("cfree")
  /\ pd' = [pd EXCEPT !.copier.cbuf = Head(q["cfree"]), !.copier.pc = "copy"]
  /\ Dequeue("cfree")
  /\ UNCHANGED <<arrived, dev, want, mem, refs, got, torn>>

ReturnVirtBuffer ==
  /\ At("copier", "return") /\ ~Empty("vactive") /\ Empty("cfree")
  /\ pd' = [pd EXCEPT !.copier.buf = Head(q["vactive"]), !.copier.down = TRUE, !.copier.pc = "give_virt"]
  /\ Dequeue("vactive")
  /\ UNCHANGED <<arrived, dev, want, mem, refs, got, torn>>

Copy ==
  /\ At("copier", "copy") /\ ~Empty("vactive")
  /\ LET b == Head(q["vactive"])
     IN  /\ mem' = [mem EXCEPT !.cbuf[pd.copier.cbuf] = mem.buf[b]]
         /\ pd' = [pd EXCEPT !.copier.buf = b, !.copier.pc = "give_client"]
  /\ Dequeue("vactive")
  /\ UNCHANGED <<arrived, dev, want, refs, got, torn>>

GiveClient ==
  /\ At("copier", "give_client") /\ ~Full("cactive")
  /\ Enqueue("cactive", pd.copier.cbuf)
  /\ pd' = [pd EXCEPT !.copier.cbuf = None, !.copier.up = TRUE, !.copier.down = TRUE,
                      !.copier.pc = "give_virt"]
  /\ UNCHANGED <<arrived, dev, want, mem, refs, got, torn>>

GiveVirt ==
  /\ At("copier", "give_virt") /\ ~Full("vfree")
  /\ Enqueue("vfree", pd.copier.buf)
  /\ pd' = [pd EXCEPT !.copier.buf = None, !.copier.pc = "return"]
  /\ UNCHANGED <<arrived, dev, want, mem, refs, got, torn>>

CopierEnd == At("copier", "return") /\ Drained("copier", "vactive", "request")
CopierRequest == At("copier", "request") /\ RequestSignal("copier", "vactive", "recheck")

CopierRecheck ==
  /\ At("copier", "recheck")
  /\ IF ~Empty("vactive") THEN Go("copier", "return") /\ want' = want \ {"vactive"}
     ELSE /\ IF pd.copier.up THEN pd' = [pd EXCEPT !.copier.pc = "require", !.copier.q = "cactive"]
             ELSE Go("copier", "sig_virt")
          /\ UNCHANGED want
  /\ UNCHANGED <<arrived, dev, q, mem, refs, got, torn>>

\* signal_queues, second half.
SignalVirt ==
  /\ At("copier", "sig_virt")
  /\ IF pd.copier.down THEN pd' = [pd EXCEPT !.copier.pc = "require", !.copier.q = "vfree"]
     ELSE Go("copier", "idle")
  /\ UNCHANGED <<arrived, dev, q, want, mem, refs, got, torn>>

-----------------------------------------------------------------------------
(* The client polls: smoltcp calls Device::receive whenever it likes.       *)

\* Mutant: the descriptor read is left on the active queue.
ReceivePeeks ==
  /\ At("client", "idle") /\ ~Empty("cactive")
  /\ pd' = [pd EXCEPT !.client.cbuf = Head(q["cactive"]), !.client.pc = "give"]
  /\ got' = Append(got, mem.cbuf[Head(q["cactive"])])
  /\ UNCHANGED <<arrived, dev, q, want, mem, refs, torn>>

ClientReceive ==
  /\ At("client", "idle") /\ ~Empty("cactive")
  /\ pd' = [pd EXCEPT !.client.cbuf = Head(q["cactive"]), !.client.pc = "give"]
  /\ got' = Append(got, mem.cbuf[Head(q["cactive"])])
  /\ Dequeue("cactive")
  /\ UNCHANGED <<arrived, dev, want, mem, refs, torn>>

ClientGive ==
  /\ At("client", "give") /\ ~Full("cfree")
  /\ Enqueue("cfree", pd.client.cbuf)
  /\ pd' = [pd EXCEPT !.client.cbuf = None, !.client.pc = "require", !.client.q = "cfree"]
  /\ UNCHANGED <<arrived, dev, want, mem, refs, got, torn>>

\* The client's handler ignores its channels.
ClientNotified ==
  /\ At("client", "idle") /\ pd.client.badge # {}
  /\ pd' = [pd EXCEPT !.client.badge = {}]
  /\ UNCHANGED <<arrived, dev, q, want, mem, refs, got, torn>>

-----------------------------------------------------------------------------
Ready(d) == ~At(d, "idle") \/ pd[d].badge # {}
May(above) == \A a \in above : ~Ready(a)

Signal(d) == Require(d) \/ Notify(d)
Driver == \/ DriverNotified \/ IrqAck \/ CanRecv \/ DriverRequest \/ DriverRecheck \/ Deliver
          \/ DeliverActive \/ Back \/ Recycle \/ Signal("driver")
Virt == /\ May({"driver"})
        /\ \/ (\E pc \in {"fill", "drop", "provide_free"} : LoadTail(pc))
           \/ VirtFill \/ VirtNotified \/ ForwardActive \/ EnqueueCopier \/ ReturnDriver
           \/ VirtEndActive \/ VirtRequestActive \/ VirtRecheckActive \/ Provide
           \/ ProvideFree \/ VirtEndFree \/ VirtRequestFree \/ VirtRecheckFree \/ Signal("virt")
Copier == /\ May({"driver", "virt"})
          /\ \/ CopierFill \/ CopierNotified \/ TakeClientBuffer \/ ReturnVirtBuffer \/ Copy
             \/ GiveClient \/ GiveVirt \/ CopierEnd \/ CopierRequest \/ CopierRecheck \/ SignalVirt
             \/ Signal("copier")
Client == /\ May({"driver", "virt", "copier"})
          /\ ClientReceive \/ ClientGive \/ ClientNotified \/ Signal("client")

Next == /\ ~torn
        /\ \/ Interrupt \/ Driver \/ DeliverError \/ Virt \/ Copier \/ Client
           \/ \E k \in Kinds : Arrive(k)

(* Each domain is a thread the kernel keeps running while it is ready, and   *)
(* a raised, unmasked interrupt is delivered.                                *)
Fairness == /\ WF_vars(~torn /\ Interrupt) /\ WF_vars(~torn /\ Driver) /\ WF_vars(~torn /\ Virt)
            /\ WF_vars(~torn /\ Copier) /\ WF_vars(~torn /\ Client)

Spec == Init /\ [][Next]_vars /\ Fairness

-----------------------------------------------------------------------------
Points == {"idle", "fill", "fill_store", "drop_store", "provide_store", "require", "notify",
           "request", "recheck", "request_free", "recheck_free",
           "irq_ack", "can_recv", "deliver", "deliver_active", "back", "back_out", "recycle",
           "return", "forward", "drop", "provide", "provide_free", "copy", "give_client",
           "give_virt", "give", "sig_virt"}

\* Every variable has its type: no queue holds more than its capacity, no
\* reference count leaves u8's low end, the device has its posted buffers.
TypeOK ==
  /\ arrived \in Seq(Kinds) /\ want \subseteq Queue
  /\ \A x \in Queue : /\ q[x] \in Seq(IF x \in {"cfree", "cactive"} THEN ClientBuf ELSE Buf)
                      /\ Len(q[x]) <= Capacity(x)
  /\ \A b \in Buf : refs[b] \in 0 .. 1 /\ mem.buf[b] \in 0 .. Len(arrived)
  /\ \A d \in Domain : /\ pd[d].pc \in Points /\ pd[d].q \in Queue
                       /\ pd[d].buf \in Buf \cup {None} /\ pd[d].cbuf \in ClientBuf \cup {None}
  /\ dev.posted + Len(dev.used) <= Posted

\* None of the asserts on the path fails: a reference count is zero before a
\* buffer is lent and not zero when it comes back, every enqueue finds room,
\* and the copier's second dequeue finds the frame it saw.
NoPanic ==
  /\ At("virt", "forward") => refs[pd.virt.buf] = 0 /\ ~Full("vactive")
  /\ At("virt", "provide") /\ ~Empty("vfree") => refs[Head(q["vfree"])] # 0
  /\ pd.virt.pc \in {"fill", "drop", "provide_free"} \cup Storing => ~Full("dfree")
  /\ At("copier", "copy") => ~Empty("vactive")
  /\ At("copier", "give_client") => ~Full("cactive")
  /\ At("copier", "give_virt") => ~Full("vfree")
  /\ At("client", "give") => ~Full("cfree")

Holders(b, queues, field) ==
  Cardinality({<<x, i>> \in queues \X (1 .. NumBufs + NumClientBufs) :
                 i <= Len(q[x]) /\ q[x][i] = b})
  + Cardinality({d \in Domain : pd[d][field] = b})

Lent(b) == \/ \E x \in {"vactive", "vfree"} : \E i \in 1 .. Len(q[x]) : q[x][i] = b
           \/ pd.copier.buf = b

\* net_buffers_init has not come to buffer b.
Unfilled(b) == pd.virt.pc \in {"fill", "fill_store"} /\ b > pd.virt.buf

\* A buffer that has been handed out is in exactly one queue or one domain's
\* hands, and its reference count says whether the copier's side has it.
OneOwner ==
  /\ \A b \in Buf : /\ Holders(b, {"dfree", "dactive", "vfree", "vactive"}, "buf")
                        = IF Unfilled(b) THEN 0 ELSE 1
                    /\ (refs[b] = 1) <=> Lent(b)
  /\ \A b \in ClientBuf : Holders(b, {"cfree", "cactive"}, "cbuf")
                            = IF At("copier", "fill") THEN 0 ELSE 1

\* smoltcp is given frames addressed to it, each at most once, in the order
\* they arrived, with the bytes that arrived: nothing writes a buffer between
\* the device's copy and the client's.
InOrder ==
  /\ \A i \in 1 .. Len(got) : got[i] > 0 /\ Dest(got[i]) # "Drop"
  /\ \A i, j \in 1 .. Len(got) : i < j => got[i] < got[j]

\* The path keeps emptying: again and again every buffer is back on its free
\* queue and, unless a receive has failed, which leaves its frame to the next
\* interrupt, the device holds no frame.  The request, look again and signal
\* protocol of the queues loses no wake-up on the way.  It speaks of the runs in
\* which no enqueue on dfree is torn.
Drains == []<>(\/ torn
               \/ /\ dev.errors = 0 => dev.used = << >>
                  /\ Len(q["dfree"]) = NumBufs /\ Len(q["cfree"]) = NumClientBufs)

\* Until an enqueue on dfree is torn, no assert of the path fails and every buffer
\* is in exactly one queue or one domain's hands: no failing device, refused packet
\* or preemption at any other point loses a buffer or queues it twice.
BuffersOwned == ~torn => NoPanic /\ OneOwner
=============================================================================
