---------------------------- MODULE NetFreeQueue ----------------------------
(***************************************************************************)
(* The driver's receive free queue: the queue of Spsc with a second writer *)
(* of its tail.  The virtualiser produces it, in the steps of Spsc's       *)
(* producer; the driver consumes it, and also enqueues the descriptor it   *)
(* took when the device's receive fails.  The driver has the higher        *)
(* priority: its handler runs between any two steps of the virtualiser and *)
(* is not interrupted by it, so each of its calls is one step.             *)
(***************************************************************************)
EXTENDS Spsc

VARIABLE away  \* buffers on the way to the client and back

Buf == 0 .. Capacity - 1

\* After init's net_buffers_init.
FreeInit == /\ tail = Capacity % Word /\ head = 0 /\ slots = [b \in Buf |-> b] /\ away = {}
            /\ ppc = "idle" /\ form = "shared" /\ item = 0 /\ localTail = 0
            /\ cpc = "idle" /\ character = 0 /\ result = 0

\* enqueue by the virtualiser of a buffer that came back: the tail is loaded
\* and compared; EnqueueWrite and EnqueuePublish follow.
EnqueueLoad(b) ==
  /\ ppc = "idle" /\ b \in away /\ ~is_full(tail, head)
  /\ localTail' = tail /\ item' = b /\ away' = away \ {b} /\ ppc' = "write"
  /\ UNCHANGED <<tail, head, slots, form, consumer>>

\* deliver_one with a frame that is delivered.
DriverDeliver ==
  /\ ~is_empty(tail, head)
  /\ away' = away \cup {slots[index(head)]}
  /\ head' = advance(head)
  /\ UNCHANGED <<tail, slots, producer, consumer>>

\* deliver_one when dev.receive fails or the packet does not fit: dequeue,
\* then net_enqueue_free.
DriverBack ==
  /\ ~is_empty(tail, head)
  /\ head' = advance(head)
  /\ slots' = [slots EXCEPT ![index(tail)] = slots[index(head)]]
  /\ tail' = advance(tail)
  /\ UNCHANGED <<away, producer, consumer>>

FreeNext == \/ \E b \in Buf : EnqueueLoad(b)
            \/ (EnqueueWrite \/ EnqueuePublish) /\ UNCHANGED away
            \/ DriverDeliver \/ DriverBack

FreeSpec == FreeInit /\ [][FreeNext]_<<ring, away>>

-----------------------------------------------------------------------------
\* net_queue.rs: "The producer is the only writer of `tail`."  The tail the
\* virtualiser stores is one past the tail the queue has, so that the enqueue
\* in progress adds its buffer and disturbs no other.
ProducerOwnsTail == /\ ppc = "write" => tail = localTail
                    /\ ppc = "publish" => advance(tail) = localTail
=============================================================================
