-------------------------------- MODULE Spsc --------------------------------
(***************************************************************************)
(* One shared-memory queue of lerux-sddf (serial, net, blk, gpu and fs     *)
(* queues share this shape), one load or store of shared memory per step.  *)
(*                                                                         *)
(* The producer owns tail and the consumer owns head.  An enqueue loads    *)
(* the peer's head, writes the slot, and publishes the tail; the serial    *)
(* receive virtualiser uses the form that advances a local tail and        *)
(* publishes a batch later.  A dequeue loads the peer's tail, reads the    *)
(* slot, and publishes the head.                                           *)
(***************************************************************************)
EXTENDS Integers, Sequences

(* The index arithmetic of lerux-ring.  head and tail are free-running      *)
(* counters of one machine word (word16, word32, word64): Word is 2^w, the  *)
(* number of values of the word, and every counter lives in 0..Word-1.      *)

CONSTANTS Word,      \* number of values of the counter word, 2^w
          Capacity   \* number of slots of the ring

ASSUME WordAssumption == Word \in Nat \ {0}

ASSUME CapacityAssumption == Capacity \in 1 .. Word - 1

Cursor == 0 .. Word - 1

len(tail, head) == (tail - head) % Word

is_empty(tail, head) == tail = head

is_fullOffByOne(tail, head) == len(tail, head) > Capacity

is_full(tail, head) == len(tail, head) = Capacity

index(cursor) == cursor % Capacity

advanceUnwrapped(cursor) == cursor + 1

advance(cursor) == (cursor + 1) % Word

-----------------------------------------------------------------------------

CONSTANTS Item,
          Form   \* which enqueues the producer uses: "local" is
                 \* serial_enqueue_local, "shared" every other enqueue

ASSUME ItemAssumption == Item # {} /\ Form \subseteq {"shared", "local"}

VARIABLES tail, head,    \* the shared counters
          slots,         \* the shared slot array
          ppc,           \* producer: "idle", "write", "publish"
          form,          \* the form of the enqueue in progress
          item,          \* argument of the enqueue in progress
          localTail,     \* producer's tail; the shared tail lags it in a batch
          cpc,           \* consumer: "idle", "read", "publish"
          character,     \* the value read from the slot
          result         \* the value the last successful dequeue returned

producer == <<ppc, form, item, localTail>>
consumer == <<cpc, character, result>>
ring == <<tail, head, slots, producer, consumer>>

RingInit == /\ tail = 0 /\ head = 0
        /\ slots \in [0 .. Capacity - 1 -> Item]
        /\ ppc = "idle" /\ form = "shared" /\ item \in Item /\ localTail = 0
        /\ cpc = "idle" /\ character \in Item /\ result \in Item

-----------------------------------------------------------------------------
(* The producer.                                                           *)

\* Load of the consumer's head and the full check: a full ring returns -1.
EnqueueCheck(i, f) ==
    /\ ppc = "idle"
    /\ f = "shared" => localTail = tail      \* serial_enqueue starts from the shared tail
    /\ item' = i
    /\ form' = f
    /\ ppc' = IF is_full(localTail, head) THEN "idle" ELSE "write"
    /\ UNCHANGED <<tail, head, slots, localTail, consumer>>

\* Mutant: the slot is chosen after the tail has moved.
EnqueueWriteAfterAdvance ==
    /\ ppc = "write"
    /\ slots' = [slots EXCEPT ![index(advance(localTail))] = item]
    /\ localTail' = advance(localTail)
    /\ ppc' = IF form = "local" THEN "idle" ELSE "publish"
    /\ UNCHANGED <<tail, head, form, item, consumer>>

\* The slot store.  serial_enqueue_local returns here with its tail advanced.
EnqueueWrite ==
    /\ ppc = "write"
    /\ slots' = [slots EXCEPT ![index(localTail)] = item]
    /\ localTail' = advance(localTail)
    /\ ppc' = IF form = "local" THEN "idle" ELSE "publish"
    /\ UNCHANGED <<tail, head, form, item, consumer>>

\* The release store that ends serial_enqueue.
EnqueuePublish ==
    /\ ppc = "publish"
    /\ tail' = localTail
    /\ ppc' = "idle"
    /\ UNCHANGED <<head, slots, form, item, localTail, consumer>>

\* serial_update_shared_tail: the release store that ends a batch.
UpdateSharedTail ==
    /\ ppc = "idle" /\ localTail # tail
    /\ tail' = localTail
    /\ UNCHANGED <<head, slots, producer, consumer>>

-----------------------------------------------------------------------------
(* The consumer.                                                           *)

\* Load of the producer's tail and the empty check: an empty ring returns -1.
DequeueCheck ==
    /\ cpc = "idle"
    /\ ~ is_empty(tail, head)
    /\ cpc' = "read"
    /\ UNCHANGED <<tail, head, slots, producer, character, result>>

DequeueRead ==
    /\ cpc = "read"
    /\ character' = slots[index(head)]
    /\ cpc' = "publish"
    /\ UNCHANGED <<tail, head, slots, producer, result>>

DequeuePublish ==
    /\ cpc = "publish"
    /\ head' = advance(head)
    /\ result' = character
    /\ cpc' = "idle"
    /\ UNCHANGED <<tail, slots, producer, character>>

-----------------------------------------------------------------------------
Produce == \/ \E i \in Item, f \in Form : EnqueueCheck(i, f)
           \/ EnqueueWrite
           \/ EnqueuePublish
           \/ UpdateSharedTail

Consume == DequeueCheck \/ DequeueRead \/ DequeuePublish

RingNext == Produce \/ Consume

RingSpec == RingInit /\ [][RingNext]_ring

-----------------------------------------------------------------------------
(* Properties.                                                             *)

\* Type correctness: counters are machine words and slots hold items.
RingTypeOK == /\ tail \in Cursor /\ head \in Cursor /\ localTail \in Cursor
          /\ slots \in [0 .. Capacity - 1 -> Item]
          /\ ppc \in {"idle", "write", "publish"} /\ form \in {"shared", "local"}
          /\ cpc \in {"idle", "read", "publish"}
          /\ {item, character, result} \subseteq Item

\* The ring never holds more than its slots, counting what is staged behind the
\* shared tail, even while a stale head is being used for the full check.
Bounded == len(localTail, head) <= Capacity

\* While the consumer is reading a slot and the producer is writing one, they
\* are different slots: the two plain accesses of the data region never race.
NoSlotRace == (ppc = "write" /\ cpc = "read") => index(localTail) # index(head)

\* The items from counter a up to counter b.
Window(a, b) == [i \in 1 .. len(b, a) |-> slots[index((a + i - 1) % Word)]]

Abstract == INSTANCE Fifo WITH Bound <- Capacity, offer <- item,
                staged <- Window(tail, localTail), queue <- Window(head, tail),
                got <- result

\* The queue implements a bounded FIFO: no item lost, duplicated, reordered or
\* altered, across counter wrap-around and any interleaving of the two ends.
ImplementsFifo == Abstract!Spec

=============================================================================
