------------------------------ MODULE FsSystem ------------------------------
(***************************************************************************)
(* A file command's way through the system: Files::exchange and the wake   *)
(* of the shell, the command and completion rings, the worker of fatfs     *)
(* with its block transfers, the block virtualiser and the block driver.   *)
(* What a command does to the volume is FatVolume's subject; here it is a  *)
(* number of transfers.  The four domains interleave freely.               *)
(***************************************************************************)
EXTENDS Integers, Sequences

CONSTANTS Capacity,      \* capacity of each of the six queues
          MaxTransfers,  \* transfers of one command
          MaxCommands,   \* bound on the commands the client issues
          Errors         \* whether the device may fail a transfer

Domain == {"client", "fatfs", "virt", "driver"}
Channel == {"fs", "blk", "virt"}    \* "virt" between virtualiser and driver
Queue == {"command", "completion", "creq", "cresp", "dreq", "dresp"}

VARIABLES q,        \* the queues: ids, or block requests and their outcomes
          badge,    \* per domain, the channels notified and not yet handled
          hand,     \* the channels notified() of fatfs has still to pass on
          sticky,   \* per cothread domain, the channel semaphores left set
          waits,    \* per cothread domain, the channel its worker is blocked on
          pc, id,   \* control points; the command the client has in flight
          wakes,    \* wakes left in exchange
          serving, left, ok,   \* the server's command, transfers to go, last outcome
          moved,    \* whether this round of pump moved anything
          missed, lost   \* exchanges that gave up; responses the driver dropped

vars == <<q, badge, hand, sticky, waits, pc, id, wakes, serving, left, ok, moved, missed, lost>>

None == 0

Init ==
  /\ q = [x \in Queue |-> << >>]
  /\ badge = [d \in Domain |-> {}] /\ hand = {}
  /\ sticky = [d \in {"client", "fatfs"} |-> {}] /\ waits = [d \in {"client", "fatfs"} |-> "none"]
  /\ pc = [client |-> "idle", fatfs |-> "transfer", virt |-> "idle", driver |-> "idle"]
  /\ id = None /\ wakes = 0 /\ serving = None /\ left \in 0 .. MaxTransfers /\ ok = TRUE
  /\ moved = FALSE /\ missed = 0 /\ lost = 0

-----------------------------------------------------------------------------
At(d, point) == pc[d] = point /\ (d \in {"client", "fatfs"} => waits[d] = "none")
Goto(d, point) == pc' = [pc EXCEPT ![d] = point]
Notify(d, ch) == badge' = [badge EXCEPT ![d] = @ \cup {ch}]
Put(x, v) == q' = [q EXCEPT ![x] = Append(@, v)]
Empty(x) == q[x] = << >>
Full(x) == Len(q[x]) = Capacity

\* microkit_cothread_wait_on_channel: a sticky signal is used up at once.
WaitOn(d, ch) ==
  IF ch \in sticky[d]
    THEN sticky' = [sticky EXCEPT ![d] = @ \ {ch}] /\ UNCHANGED waits
    ELSE waits' = [waits EXCEPT ![d] = ch] /\ UNCHANGED sticky

\* notified of the client: its worker waits on FS_CH inside wake_fs.
ClientNotified ==
  /\ waits.client = "fs" /\ "fs" \in badge.client
  /\ badge' = [badge EXCEPT !.client = {}] /\ waits' = [waits EXCEPT !.client = "none"]
  /\ UNCHANGED <<hand, q, sticky, pc, id, wakes, serving, left, ok, moved, missed, lost>>

\* Mutant: a notification for a channel the worker does not wait on is dropped.
FatfsNotifiedDrops ==
  /\ waits.fatfs # "none" /\ hand \cup badge.fatfs # {}
  /\ LET pending == IF hand # {} THEN hand ELSE badge.fatfs
         ch == IF "blk" \in pending THEN "blk" ELSE "fs"
     IN /\ hand' = pending \ {ch}
        /\ badge' = IF hand # {} THEN badge ELSE [badge EXCEPT !.fatfs = {}]
        /\ waits' = IF waits.fatfs = ch THEN [waits EXCEPT !.fatfs = "none"] ELSE waits
  /\ UNCHANGED <<q, sticky, pc, id, wakes, serving, left, ok, moved, missed, lost>>

\* notified of fatfs runs while the worker is blocked.  It passes BLK_CH on
\* before FS_CH; recv_ntfn switches to a worker that waits on the channel, and
\* the rest of the set is passed on when that worker blocks again.
FatfsNotified ==
  /\ waits.fatfs # "none" /\ hand \cup badge.fatfs # {}
  /\ LET pending == IF hand # {} THEN hand ELSE badge.fatfs
         ch == IF "blk" \in pending THEN "blk" ELSE "fs"
     IN /\ hand' = pending \ {ch}
        /\ badge' = IF hand # {} THEN badge ELSE [badge EXCEPT !.fatfs = {}]
        /\ IF waits.fatfs = ch
             THEN waits' = [waits EXCEPT !.fatfs = "none"] /\ UNCHANGED sticky
             ELSE sticky' = [sticky EXCEPT !.fatfs = @ \cup {ch}] /\ UNCHANGED waits
  /\ UNCHANGED <<q, pc, id, wakes, serving, left, ok, moved, missed, lost>>

-----------------------------------------------------------------------------
(* Files::exchange with the shell's wake_fs.                                *)

\* exchange: the next id, Flight::Waiting, the command on the ring,
\* or ENOMEM.
Issue ==
  /\ At("client", "idle") /\ id < MaxCommands
  /\ id' = id + 1 /\ wakes' = 2
  /\ IF Full("command") THEN UNCHANGED <<q, pc>>
                         ELSE Put("command", id + 1) /\ Goto("client", "wake")
  /\ UNCHANGED <<hand, badge, sticky, waits, serving, left, ok, moved, missed, lost>>

\* wake_fs: notify the server, wait for its channel.
Wake ==
  /\ At("client", "wake") /\ Notify("fatfs", "fs") /\ Goto("client", "wait")
  /\ UNCHANGED <<hand, q, sticky, waits, id, wakes, serving, left, ok, moved, missed, lost>>

\* Mutant: a wake that only polls.
WakePolls ==
  /\ At("client", "wait") /\ Goto("client", "take")
  /\ UNCHANGED <<hand, q, badge, sticky, waits, id, wakes, serving, left, ok, moved, missed, lost>>

WakeWait ==
  /\ At("client", "wait") /\ WaitOn("client", "fs") /\ Goto("client", "take")
  /\ UNCHANGED <<hand, q, badge, id, wakes, serving, left, ok, moved, missed, lost>>

\* take_match: one completion, which counts only with the id in flight.
TakeMatch ==
  /\ At("client", "take")
  /\ q' = [q EXCEPT !["completion"] = IF @ = << >> THEN @ ELSE Tail(@)]
  /\ wakes' = wakes - 1
  /\ IF ~Empty("completion") /\ Head(q["completion"]) = id
       THEN Goto("client", "idle") /\ UNCHANGED missed
       ELSE /\ Goto("client", IF wakes > 1 THEN "wake" ELSE "idle")
            /\ missed' = IF wakes > 1 THEN missed ELSE missed + 1
  /\ UNCHANGED <<hand, badge, sticky, waits, id, serving, left, ok, moved, lost>>

-----------------------------------------------------------------------------
(* The worker of fatfs: prepare, then wait, serve_one, complete.            *)

ServeWait ==
  /\ At("fatfs", "wait") /\ WaitOn("fatfs", "fs") /\ Goto("fatfs", "serve")
  /\ UNCHANGED <<hand, q, badge, id, wakes, serving, left, ok, moved, missed, lost>>

\* serve_one: one command for each signal; a handler makes some transfers.
ServeOne ==
  /\ At("fatfs", "serve")
  /\ IF Empty("command")
       THEN Goto("fatfs", "wait") /\ UNCHANGED <<q, serving, left>>
       ELSE /\ q' = [q EXCEPT !["command"] = Tail(@)]
            /\ serving' = Head(q["command"]) /\ left' \in 0 .. MaxTransfers
            /\ Goto("fatfs", "transfer")
  /\ UNCHANGED <<hand, badge, sticky, waits, id, wakes, ok, moved, missed, lost>>

\* Mutant: the requests of all transfers at once, with no test for room.
BlkEnqueueAll ==
  /\ At("fatfs", "transfer") /\ left > 0 /\ ok
  /\ q' = [q EXCEPT !["creq"] = @ \o [i \in 1 .. left |-> "request"]] /\ Goto("fatfs", "blk_notify")
  /\ UNCHANGED <<hand, badge, sticky, waits, id, wakes, serving, left, ok, moved, missed, lost>>

\* blk_transfer: a request, a notification, and waits until a response is there.
BlkEnqueue ==
  /\ At("fatfs", "transfer") /\ left > 0 /\ ok
  /\ IF Full("creq") THEN ok' = FALSE /\ UNCHANGED <<q, pc>>
                     ELSE Put("creq", "request") /\ Goto("fatfs", "blk_notify") /\ UNCHANGED ok
  /\ UNCHANGED <<hand, badge, sticky, waits, id, wakes, serving, left, moved, missed, lost>>

BlkNotify ==
  /\ At("fatfs", "blk_notify") /\ Notify("virt", "blk") /\ Goto("fatfs", "blk_wait")
  /\ UNCHANGED <<hand, q, sticky, waits, id, wakes, serving, left, ok, moved, missed, lost>>

BlkWait ==
  /\ At("fatfs", "blk_wait") /\ WaitOn("fatfs", "blk") /\ Goto("fatfs", "blk_take")
  /\ UNCHANGED <<hand, q, badge, id, wakes, serving, left, ok, moved, missed, lost>>

BlkDequeue ==
  /\ At("fatfs", "blk_take")
  /\ IF Empty("cresp")
       THEN Goto("fatfs", "blk_wait") /\ UNCHANGED <<q, left, ok>>
       ELSE /\ q' = [q EXCEPT !["cresp"] = Tail(@)]
            /\ ok' = (Head(q["cresp"]) = "ok") /\ left' = left - 1 /\ Goto("fatfs", "transfer")
  /\ UNCHANGED <<hand, badge, sticky, waits, id, wakes, serving, moved, missed, lost>>

\* prepare is done.
Prepared ==
  /\ At("fatfs", "transfer") /\ serving = None /\ (left = 0 \/ ~ok)
  /\ left' = 0 /\ Goto("fatfs", IF ok THEN "wait" ELSE "dead")
  /\ UNCHANGED <<hand, q, badge, sticky, waits, id, wakes, serving, ok, moved, missed, lost>>

\* complete: the answer on the ring; a full ring ends the worker.
Complete ==
  /\ At("fatfs", "transfer") /\ serving # None /\ (left = 0 \/ ~ok) /\ left' = 0
  /\ IF Full("completion") THEN Goto("fatfs", "dead") /\ UNCHANGED q
                           ELSE Put("completion", serving) /\ Goto("fatfs", "notify")
  /\ UNCHANGED <<hand, badge, sticky, waits, id, wakes, serving, ok, moved, missed, lost>>

\* Mutant: a second notification for each completion.
CompleteNotifyTwice ==
  /\ At("fatfs", "notify")
  /\ \/ Notify("client", "fs") /\ UNCHANGED <<pc, serving>>
     \/ Notify("client", "fs") /\ Goto("fatfs", IF ok THEN "wait" ELSE "dead") /\ serving' = None
  /\ UNCHANGED <<hand, q, sticky, waits, id, wakes, left, ok, moved, missed, lost>>

\* A worker whose transfer failed returns for good.
CompleteNotify ==
  /\ At("fatfs", "notify") /\ Notify("client", "fs") /\ serving' = None
  /\ Goto("fatfs", IF ok THEN "wait" ELSE "dead")
  /\ UNCHANGED <<hand, q, sticky, waits, id, wakes, left, ok, moved, missed, lost>>

-----------------------------------------------------------------------------
(* The virtualiser's pump and the driver's serve.                           *)

VirtNotified ==
  /\ At("virt", "idle") /\ badge.virt # {}
  /\ badge' = [badge EXCEPT !.virt = {}] /\ Goto("virt", "responses") /\ moved' = FALSE
  /\ UNCHANGED <<hand, q, sticky, waits, id, wakes, serving, left, ok, missed, lost>>

\* One entry from a queue to the next, then the notification of its consumer.
Move(from, to, next) ==
  /\ ~Empty(from) /\ ~Full(to)
  /\ q' = [q EXCEPT ![from] = Tail(@), ![to] = Append(@, Head(q[from]))]
  /\ moved' = TRUE /\ Goto("virt", next)
  /\ UNCHANGED <<hand, badge, sticky, waits, id, wakes, serving, left, ok, missed, lost>>

ForwardResponses == At("virt", "responses") /\ Move("dresp", "cresp", "notify_client")
ForwardRequests == At("virt", "requests") /\ Move("creq", "dreq", "notify_driver")

NotifyClient == At("virt", "notify_client") /\ Notify("fatfs", "blk") /\ Goto("virt", "responses")
                /\ UNCHANGED <<hand, q, sticky, waits, id, wakes, serving, left, ok, moved, missed, lost>>
NotifyDriver == At("virt", "notify_driver") /\ Notify("driver", "virt") /\ Goto("virt", "requests")
                /\ UNCHANGED <<hand, q, sticky, waits, id, wakes, serving, left, ok, moved, missed, lost>>

EndResponses ==
  /\ At("virt", "responses") /\ (Empty("dresp") \/ Full("cresp")) /\ Goto("virt", "requests")
  /\ UNCHANGED <<hand, q, badge, sticky, waits, id, wakes, serving, left, ok, moved, missed, lost>>

\* pump: another round when this one moved something.
EndRequests ==
  /\ At("virt", "requests") /\ (Empty("creq") \/ Full("dreq"))
  /\ Goto("virt", IF moved THEN "responses" ELSE "idle") /\ moved' = FALSE
  /\ UNCHANGED <<hand, q, badge, sticky, waits, id, wakes, serving, left, ok, missed, lost>>

DriverNotified ==
  /\ At("driver", "idle") /\ badge.driver # {}
  /\ badge' = [badge EXCEPT !.driver = {}] /\ Goto("driver", "serve")
  /\ UNCHANGED <<hand, q, sticky, waits, id, wakes, serving, left, ok, moved, missed, lost>>

\* Mutant: the request is answered and left on its queue.
DriverServePeeks ==
  /\ At("driver", "serve")
  /\ IF Empty("dreq")
       THEN Goto("driver", "idle") /\ UNCHANGED <<q, lost>>
       ELSE IF Full("dresp")
         THEN Goto("driver", "idle") /\ lost' = 1 /\ UNCHANGED q
         ELSE Put("dresp", "ok") /\ Goto("driver", "notify") /\ UNCHANGED lost
  /\ UNCHANGED <<hand, badge, sticky, waits, id, wakes, serving, left, ok, moved, missed>>

\* serve: dequeue, finish, and the response, lost when its queue is full.
DriverServe ==
  /\ At("driver", "serve")
  /\ IF Empty("dreq")
       THEN Goto("driver", "idle") /\ UNCHANGED <<q, lost>>
       ELSE \E outcome \in IF Errors THEN {"ok", "error"} ELSE {"ok"} :
              /\ q' = [q EXCEPT !["dreq"] = Tail(@),
                                !["dresp"] = IF Full("dresp") THEN @ ELSE Append(@, outcome)]
              /\ lost' = IF Full("dresp") THEN 1 ELSE lost
              /\ Goto("driver", IF Full("dresp") THEN "idle" ELSE "notify")
  /\ UNCHANGED <<hand, badge, sticky, waits, id, wakes, serving, left, ok, moved, missed>>

DriverNotify == At("driver", "notify") /\ Notify("virt", "virt") /\ Goto("driver", "serve")
                /\ UNCHANGED <<hand, q, sticky, waits, id, wakes, serving, left, ok, moved, missed, lost>>

-----------------------------------------------------------------------------
ClientSteps == Wake \/ WakeWait \/ TakeMatch \/ ClientNotified
FatfsSteps == \/ ServeWait \/ ServeOne \/ BlkEnqueue \/ BlkNotify \/ BlkWait \/ BlkDequeue
              \/ Prepared \/ Complete \/ CompleteNotify \/ FatfsNotified
VirtSteps == \/ VirtNotified \/ ForwardResponses \/ ForwardRequests \/ NotifyClient \/ NotifyDriver
             \/ EndResponses \/ EndRequests
DriverSteps == DriverNotified \/ DriverServe \/ DriverNotify

Next == \/ Issue \/ ClientSteps \/ FatfsSteps \/ VirtSteps \/ DriverSteps

Spec == Init /\ [][Next]_vars

\* Only the client may stop asking.  The rest is the kernel's scheduler: a
\* domain that can step does, because each of the four blocks when idle.
FairSpec ==
  Spec /\ WF_vars(ClientSteps) /\ WF_vars(FatfsSteps) /\ WF_vars(VirtSteps) /\ WF_vars(DriverSteps)

-----------------------------------------------------------------------------
\* Queues keep their capacity, channels and counters their ranges.
TypeOK ==
  /\ \A x \in Queue : Len(q[x]) <= Capacity
  /\ \A d \in Domain : badge[d] \subseteq Channel
  /\ waits \in [{"client", "fatfs"} -> {"none", "fs", "blk"}]
  /\ id \in 0 .. MaxCommands /\ serving \in 0 .. MaxCommands /\ left \in 0 .. MaxTransfers

\* No exchange misses: with the blocking wake of the shell, every wake that
\* returns finds the completion of the command in flight on the ring, so
\* FILE_ERR for a completion that did not arrive is never returned.
NoMiss ==
  /\ missed = 0
  /\ At("client", "take") => q["completion"] = <<id>>

\* One command in flight: while the server works on a command, touching the
\* share windows, the client is inside the exchange of that very command.
ShareOwned ==
  (serving # None /\ pc["fatfs"] # "notify") => serving = id /\ pc["client"] # "idle"

\* One transfer in flight: at most one request or response is anywhere in the
\* four queues, the driver never drops a response for want of room, and when
\* fatfs is not inside blk_transfer the transfer block is its own.
OneTransfer ==
  /\ lost = 0
  /\ Len(q["creq"]) + Len(q["dreq"]) + Len(q["dresp"]) + Len(q["cresp"]) <= 1
  /\ pc["fatfs"] \notin {"blk_notify", "blk_wait", "blk_take"} =>
       \A x \in {"creq", "cresp", "dreq", "dresp"} : Empty(x)

\* Every command is answered, by success or by an error status, unless the
\* worker of fatfs had returned: prepare failed, or an earlier transfer did.
Answered == []<>(pc["client"] = "idle" \/ pc["fatfs"] = "dead")

\* The comment on exchange: "Two wakes is the bound.  A third miss returns
\* errno 1 instead of spinning when the peer never completes."
ExchangeReturns == []<>(pc["client"] = "idle")
=============================================================================
