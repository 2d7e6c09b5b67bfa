---------------------------- MODULE NetTransmit -----------------------------
(***************************************************************************)
(* The network transmit path: the client's smoltcp token, the transmit     *)
(* virtualiser and the driver's transmit.  Buffers go cfree -> client ->   *)
(* cactive -> virtualiser -> dactive -> driver -> dfree -> virtualiser ->  *)
(* cfree.  One queue operation, flag access or notification is one step,   *)
(* and the three domains interleave freely.                                *)
(***************************************************************************)
EXTENDS Integers, Sequences

CONSTANTS NumBufs,     \* buffers of the client's region
          DriverCap,   \* capacity of the driver's queues
          Kinds,       \* "frame", and "empty" for a descriptor that buffer_ok refuses
          MaxFrames    \* bound on the frames the client makes

\* Every network queue of an image has NET_QUEUE_CAPACITY entries and the
\* client's region as many buffers, so the driver's queues hold all of them.
ASSUME NetAssumption == NumBufs \in Nat /\ DriverCap \in Nat /\ NumBufs <= DriverCap /\ MaxFrames \in Nat

Buf == 0 .. NumBufs - 1
None == -1
Queue == {"cfree", "cactive", "dfree", "dactive"}
Domain == {"client", "virt", "driver"}
Capacity(x) == IF x \in {"cfree", "cactive"} THEN NumBufs ELSE DriverCap

VARIABLES made,       \* the kinds of the frames made; a frame is its index here
          mem,        \* the frame in each buffer
          q, want,    \* the queues; those whose consumer has requested a signal
          pd,         \* the domains: control point, badge, buffer in hand, notes
          sent        \* the frames given to the device

vars == <<made, mem, q, want, pd, sent>>

(* up: a buffer was queued towards the driver (enqueued); down: one came     *)
(* back (notify_client of tx_return, returned); rejected: notify_client of   *)
(* tx_provide.                                                               *)
Idle(pc) == [pc |-> pc, badge |-> FALSE, buf |-> None, up |-> FALSE, down |-> FALSE,
             rejected |-> FALSE]

Init ==
  /\ made = << >> /\ sent = << >> /\ mem = [b \in Buf |-> 0]
  /\ q = [x \in Queue |-> << >>] /\ want = Queue
  /\ pd = [d \in Domain |-> Idle(CASE d = "client" -> "fill" [] d = "virt" -> "provide" [] OTHER -> "idle")]

-----------------------------------------------------------------------------
At(d, pc) == pd[d].pc = pc
Empty(x) == q[x] = << >>
Full(x) == Len(q[x]) = Capacity(x)

\* Domain d at control point pc; a handler's locals are gone when it returns.
Goto(d, pc) == IF pc = "idle" THEN [Idle(pc) EXCEPT !.badge = pd[d].badge]
               ELSE [pd[d] EXCEPT !.pc = pc]

\* Domain d takes the head of x, or gives the buffer it holds to x.
Take(d, x, pc) ==
  /\ ~Empty(x)
  /\ q' = [q EXCEPT ![x] = Tail(@)]
  /\ pd' = [pd EXCEPT ![d] = [pd[d] EXCEPT !.buf = Head(q[x]), !.pc = pc]]

\* then: its other locals after that.
Give(d, x, then) ==
  /\ ~Full(x)
  /\ q' = [q EXCEPT ![x] = Append(@, pd[d].buf)]
  /\ pd' = [pd EXCEPT ![d] = [then EXCEPT !.buf = None]]

\* The loop over a queue ends; the request for a signal comes after.
End(d, pc) ==
  /\ pd' = [pd EXCEPT ![d] = [pd[d] EXCEPT !.pc = pc]]
  /\ UNCHANGED <<made, mem, q, want, sent>>

\* request_signal on x, then, at pc, the look at the queue that follows it.
RequestSignal(d, x, pc) ==
  /\ want' = want \cup {x}
  /\ pd' = [pd EXCEPT ![d] = [pd[d] EXCEPT !.pc = pc]]
  /\ UNCHANGED <<made, mem, q, sent>>

\* require_signal and cancel_signal on x; then notify or go on at pc.
Require(d, x, wanted, notify, pc) ==
  /\ pd' = [pd EXCEPT ![d] = Goto(d, IF wanted /\ x \in want THEN notify ELSE pc)]
  /\ want' = IF wanted THEN want \ {x} ELSE want
  /\ UNCHANGED <<made, mem, q, sent>>

Notify(d, to, pc) ==
  /\ pd' = [pd EXCEPT ![d] = Goto(d, pc), ![to] = [pd[to] EXCEPT !.badge = TRUE]]
  /\ UNCHANGED <<made, mem, q, want, sent>>

-----------------------------------------------------------------------------
(* The client: net_buffers_init, then TxToken::consume for any frame while  *)
(* transmit sees a free buffer.                                             *)

\* Mutant: the descriptors are numbered from one.
FillFromOne ==
  /\ At("client", "fill")
  /\ q' = [q EXCEPT !["cfree"] = [i \in 1 .. NumBufs |-> i]]
  /\ pd' = [pd EXCEPT !["client"] = Goto("client", "idle")]
  /\ UNCHANGED <<made, mem, want, sent>>

Fill ==
  /\ At("client", "fill")
  /\ q' = [q EXCEPT !["cfree"] = [i \in 1 .. NumBufs |-> i - 1]]
  /\ pd' = [pd EXCEPT !["client"] = Goto("client", "idle")]
  /\ UNCHANGED <<made, mem, want, sent>>

Consume(k) ==
  /\ At("client", "idle") /\ Len(made) < MaxFrames
  /\ Take("client", "cfree", "queue")
  /\ made' = Append(made, k)
  /\ mem' = [mem EXCEPT ![Head(q["cfree"])] = Len(made) + 1]
  /\ UNCHANGED <<want, sent>>

QueueFrame == At("client", "queue") /\ Give("client", "cactive", [pd["client"] EXCEPT !.pc = "require", !.up = TRUE])
          /\ UNCHANGED <<made, mem, want, sent>>

ClientRequire == At("client", "require") /\ Require("client", "cactive", TRUE, "notify", "idle")
ClientNotify == At("client", "notify") /\ Notify("client", "virt", "idle")

\* The client's handler ignores its channels.
ClientNotified == At("client", "idle") /\ pd["client"].badge /\ pd' = [pd EXCEPT !["client"] = [pd["client"] EXCEPT !.badge = FALSE]]
                  /\ UNCHANGED <<made, mem, q, want, sent>>

-----------------------------------------------------------------------------
(* The virtualiser: notified is tx_return, then tx_provide; init is         *)
(* tx_provide alone.                                                        *)

VirtNotified ==
  /\ At("virt", "idle") /\ pd["virt"].badge
  /\ pd' = [pd EXCEPT !["virt"] = Idle("return")]
  /\ UNCHANGED <<made, mem, q, want, sent>>

TxReturn == At("virt", "return") /\ Take("virt", "dfree", "return_free")
            /\ UNCHANGED <<made, mem, want, sent>>

ReturnFree == At("virt", "return_free") /\ Give("virt", "cfree", [pd["virt"] EXCEPT !.pc = "return", !.down = TRUE])
              /\ UNCHANGED <<made, mem, want, sent>>

ReturnEnd == At("virt", "return") /\ Empty("dfree") /\ End("virt", "return_request")
ReturnRequest == At("virt", "return_request") /\ RequestSignal("virt", "dfree", "return_recheck")

ReturnRecheck ==
  /\ At("virt", "return_recheck")
  /\ pd' = [pd EXCEPT !["virt"] = [pd["virt"] EXCEPT !.pc = IF Empty("dfree") THEN "return_signal" ELSE "return"]]
  /\ want' = IF Empty("dfree") THEN want ELSE want \ {"dfree"}
  /\ UNCHANGED <<made, mem, q, sent>>

ReturnRequire == At("virt", "return_signal")
                 /\ Require("virt", "cfree", pd["virt"].down, "return_notify", "provide")
ReturnNotify == At("virt", "return_notify") /\ Notify("virt", "client", "provide")

\* Mutant: buffer_ok is not asked.
TxProvideUnasked ==
  /\ At("virt", "provide") /\ ~Empty("cactive") /\ ~Full("dactive")
  /\ Take("virt", "cactive", "push")
  /\ UNCHANGED <<made, mem, want, sent>>

\* buffer_ok decides where the buffer goes.  extract_offset and the region's
\* io_addr are inverse on a buffer of the region, so a buffer is its index.
TxProvide ==
  /\ At("virt", "provide") /\ ~Empty("cactive") /\ ~Full("dactive")
  /\ LET ok == made[mem[Head(q["cactive"])]] = "frame"
     IN  Take("virt", "cactive", IF ok THEN "push" ELSE "reject")
  /\ UNCHANGED <<made, mem, want, sent>>

Reject == At("virt", "reject") /\ Give("virt", "cfree", [pd["virt"] EXCEPT !.pc = "provide", !.rejected = TRUE])
          /\ UNCHANGED <<made, mem, want, sent>>

\* Mutant: the buffer is queued for the driver and also handed back.
PushTwice == At("virt", "push") /\ ~Full("dactive") /\ ~Full("cfree")
  /\ q' = [q EXCEPT !["dactive"] = Append(@, pd["virt"].buf), !["cfree"] = Append(@, pd["virt"].buf)]
  /\ pd' = [pd EXCEPT !["virt"] = [pd["virt"] EXCEPT !.pc = "provide", !.buf = None, !.up = TRUE]]
  /\ UNCHANGED <<made, mem, want, sent>>

Push == At("virt", "push") /\ Give("virt", "dactive", [pd["virt"] EXCEPT !.pc = "provide", !.up = TRUE])
        /\ UNCHANGED <<made, mem, want, sent>>

ProvideEnd == At("virt", "provide") /\ (Empty("cactive") \/ Full("dactive"))
              /\ End("virt", "provide_request")
ProvideRequest == At("virt", "provide_request")
                  /\ RequestSignal("virt", "cactive", "provide_recheck")

ProvideRecheck ==
  /\ At("virt", "provide_recheck")
  /\ LET again == ~Empty("cactive") /\ ~Full("dactive")
     IN  /\ pd' = [pd EXCEPT !["virt"] = [pd["virt"] EXCEPT !.pc = IF again THEN "provide" ELSE "signal_client"]]
         /\ want' = IF again THEN want \ {"cactive"} ELSE want
  /\ UNCHANGED <<made, mem, q, sent>>

ProvideRequire == At("virt", "signal_client")
                  /\ Require("virt", "cfree", pd["virt"].rejected, "notify_client", "signal_driver")
ProvideNotify == At("virt", "notify_client") /\ Notify("virt", "client", "signal_driver")

\* Mutant: the driver is told only when the client was not.
DriverRequireElse == At("virt", "signal_driver")
  /\ Require("virt", "dactive", pd["virt"].up /\ ~pd["virt"].rejected, "notify_driver", "idle")
DriverRequire == At("virt", "signal_driver")
                 /\ Require("virt", "dactive", pd["virt"].up, "notify_driver", "idle")
DriverNotify == At("virt", "notify_driver") /\ Notify("virt", "driver", "idle")

-----------------------------------------------------------------------------
(* The driver's transmit.                                                   *)

\* A receive interrupt also makes the driver's handler run transmit.
Interrupt ==
  /\ ~pd["driver"].badge
  /\ pd' = [pd EXCEPT !["driver"] = [pd["driver"] EXCEPT !.badge = TRUE]]
  /\ UNCHANGED <<made, mem, q, want, sent>>

DriverNotified ==
  /\ At("driver", "idle") /\ pd["driver"].badge
  /\ pd' = [pd EXCEPT !["driver"] = Idle("transmit")]
  /\ UNCHANGED <<made, mem, q, want, sent>>

\* send_one copies the frame to the device, unless the device has no room.
SendOne(room) ==
  /\ At("driver", "transmit") /\ Take("driver", "dactive", "give_back")
  /\ sent' = IF room THEN Append(sent, mem[Head(q["dactive"])]) ELSE sent
  /\ UNCHANGED <<made, mem, want>>

\* Mutant: the buffer is not given back.
GiveBackForgotten ==
  /\ At("driver", "give_back")
  /\ pd' = [pd EXCEPT !["driver"] = [pd["driver"] EXCEPT !.buf = None, !.pc = "transmit"]]
  /\ UNCHANGED <<made, mem, q, want, sent>>

GiveBack == At("driver", "give_back") /\ Give("driver", "dfree", [pd["driver"] EXCEPT !.pc = "transmit", !.down = TRUE])
            /\ UNCHANGED <<made, mem, want, sent>>

TransmitEnd == At("driver", "transmit") /\ Empty("dactive") /\ End("driver", "request")
TransmitRequest == At("driver", "request") /\ RequestSignal("driver", "dactive", "recheck")

TransmitRecheck ==
  /\ At("driver", "recheck")
  /\ pd' = [pd EXCEPT !["driver"] = [pd["driver"] EXCEPT !.pc = IF Empty("dactive") THEN "signal" ELSE "transmit"]]
  /\ want' = IF Empty("dactive") THEN want ELSE want \ {"dactive"}
  /\ UNCHANGED <<made, mem, q, sent>>

TransmitRequire == At("driver", "signal")
                   /\ Require("driver", "dfree", pd["driver"].down, "notify", "idle")
TransmitNotify == At("driver", "notify") /\ Notify("driver", "virt", "idle")

-----------------------------------------------------------------------------
Driver == \/ DriverNotified \/ (\E room \in BOOLEAN : SendOne(room)) \/ GiveBack
          \/ TransmitEnd \/ TransmitRequest \/ TransmitRecheck \/ TransmitRequire \/ TransmitNotify
Virt == \/ VirtNotified \/ TxReturn \/ ReturnFree \/ ReturnEnd \/ ReturnRequest \/ ReturnRecheck
        \/ ReturnRequire \/ ReturnNotify \/ TxProvide \/ Reject \/ Push
        \/ ProvideEnd \/ ProvideRequest \/ ProvideRecheck \/ ProvideRequire \/ ProvideNotify
        \/ DriverRequire \/ DriverNotify
Client == Fill \/ QueueFrame \/ ClientRequire \/ ClientNotify \/ ClientNotified

Next == Interrupt \/ Driver \/ Virt \/ Client \/ (\E k \in Kinds : Consume(k))

Spec == Init /\ [][Next]_vars /\ WF_vars(Driver) /\ WF_vars(Virt) /\ WF_vars(Client)

-----------------------------------------------------------------------------
\* The control points of each domain.
Points(d) ==
  CASE d = "client" -> {"fill", "idle", "queue", "require", "notify"}
    [] d = "virt" -> {"idle", "return", "return_free", "return_request", "return_recheck", "return_signal",
                      "return_notify", "provide", "reject", "push", "provide_request", "provide_recheck",
                      "signal_client", "notify_client", "signal_driver", "notify_driver"}
    [] OTHER -> {"idle", "transmit", "give_back", "request", "recheck", "signal", "notify"}

Locals(d) == [pc : Points(d), badge : BOOLEAN, buf : Buf \cup {None}, up : BOOLEAN, down : BOOLEAN, rejected : BOOLEAN]

\* Every variable has its type and no queue holds more than its capacity.
TypeOK ==
  /\ made \in Seq(Kinds) /\ sent \in Seq(Nat) /\ want \subseteq Queue /\ mem \in [Buf -> Nat]
  /\ q \in [Queue -> Seq(Buf)] /\ \A x \in Queue : Len(q[x]) <= Capacity(x)
  /\ DOMAIN pd = Domain /\ \A d \in Domain : pd[d] \in Locals(d)

\* No assert of the path fails: what was checked to have room still has it
\* when the buffer is queued, and the client's free queue takes every buffer
\* back.  Nor is the driver's free queue full when the driver, which ignores
\* the status, gives a buffer back.
NoPanic ==
  /\ At("client", "queue") => ~Full("cactive")
  /\ pd["virt"].pc \in {"return_free", "reject"} => ~Full("cfree")
  /\ At("virt", "push") => ~Full("dactive")
  /\ At("driver", "give_back") => ~Full("dfree")

\* A buffer is in exactly one place of one queue or in one domain's hands.
InQueues(b) == {p \in Queue \X (1 .. NumBufs) : p[2] <= Len(q[p[1]]) /\ q[p[1]][p[2]] = b}
InHands(b) == {d \in Domain : pd[d].buf = b}
One(S) == \E p \in S : S = {p}
OneOwner == ~At("client", "fill") =>
  \A b \in Buf : \/ (One(InQueues(b)) /\ InHands(b) = {})
                \/ (One(InHands(b)) /\ InQueues(b) = {})

\* When every domain rests and no notification is pending, nothing waits in a
\* queue: the request and second look of each consumer meet the producer's
\* cancel and notify in every interleaving.
Resting == \A d \in Domain : At(d, "idle") /\ ~pd[d].badge
NothingStranded == Resting => \A x \in Queue \ {"cfree"} : Empty(x)

\* The buffers are safe: no assert fails, each has one owner, none is stranded.
BuffersOwned == NoPanic /\ OneOwner /\ NothingStranded

\* The device is given the client's frames in the order they were made, each
\* at most once and none that buffer_ok refuses: no buffer is rewritten
\* between the client's copy and the driver's.
InOrder ==
  /\ \A i \in 1 .. Len(sent) : made[sent[i]] = "frame"
  /\ \A i, j \in 1 .. Len(sent) : i < j => sent[i] < sent[j]

\* All buffers are back on the client's free queue.
Emptied == Len(q["cfree"]) = NumBufs

\* Every frame the client makes leaves the path: again and again it is emptied,
\* so no wake-up between the three domains is lost in any interleaving.
Drains == []<>Emptied
=============================================================================
