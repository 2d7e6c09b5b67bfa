------------------------------- MODULE MCSpsc -------------------------------
(* The queues in every interleaving, one part per behaviour: a power-of-two  *)
(* ring, as every image configures, over a short word so that the counters   *)
(* wrap many times; and the serial transmit path over two such queues, with  *)
(* one client, the virtualiser and the driver taking turns freely.  Every    *)
(* step moves one byte, so the parity of the byte numbers shows the first    *)
(* that is lost, doubled or out of place.                                    *)
EXTENDS Spsc, SerialTransmit

VARIABLE part

SomeItem == CHOOSE i \in Item : TRUE
Still == /\ slots = [s \in 0 .. Capacity - 1 |-> SomeItem]
         /\ item = SomeItem /\ character = SomeItem /\ result = SomeItem

Start == RingInit /\ Init /\ (part = "ring" \/ (part = "path" /\ Still))

Runs == /\ Start
        /\ [][/\ part' = part
              /\ \/ part = "ring" /\ RingNext /\ UNCHANGED vars
                 \/ part = "path" /\ Next /\ UNCHANGED ring]_<<part, ring, vars>>
=============================================================================
