-------------------------------- MODULE Fifo --------------------------------
(***************************************************************************)
(* What a lerux-sddf queue promises its two ends: a bounded FIFO.  The     *)
(* producer offers an item, stages it when there is room, and commits what *)
(* it staged in one step; the consumer takes committed items in order.     *)
(***************************************************************************)
EXTENDS Naturals, Sequences

CONSTANTS Item, Bound

VARIABLES offer,   \* the item of the producer's enqueue call
          staged,  \* accepted, not yet visible to the consumer
          queue,   \* visible to the consumer
          got      \* the item the last successful dequeue returned

vars == <<offer, staged, queue, got>>

Init == /\ offer \in Item
        /\ staged = << >>
        /\ queue = << >>
        /\ got \in Item

Offer == /\ offer' \in Item
         /\ UNCHANGED <<staged, queue, got>>

Stage == /\ Len(queue) + Len(staged) < Bound
         /\ staged' = Append(staged, offer)
         /\ UNCHANGED <<offer, queue, got>>

Commit == /\ staged # << >>
          /\ queue' = queue \o staged
          /\ staged' = << >>
          /\ UNCHANGED <<offer, got>>

Take == /\ queue # << >>
        /\ got' = Head(queue)
        /\ queue' = Tail(queue)
        /\ UNCHANGED <<offer, staged>>

Next == Offer \/ Stage \/ Commit \/ Take

Spec == Init /\ [][Next]_vars

=============================================================================
