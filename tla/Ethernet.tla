------------------------------ MODULE Ethernet ------------------------------
(***************************************************************************)
(* The two Ethernet drivers, a machine each.                               *)
(*                                                                         *)
(* sddf-e1000e-driver (Init, Next): the 82574 from its bring-up to the two *)
(* rings, with the device (external) and the virtualisers (NetReceive,     *)
(* NetTransmit) as its neighbours.  A frame is a number; Bad frames are    *)
(* those that publishable refuses.  A step is one queue, flag or ring      *)
(* operation.  The driver and the receive virtualiser both enqueue on the  *)
(* receive free queue: there the load of the tail and the store are two    *)
(* steps, and when the two meet a behaviour ends (torn; NetFreeQueue shows *)
(* what is lost).  Either may be the one that is interrupted: the image    *)
(* of the driver alone runs it over the virtualiser, the fetch image below *)
(* it.                                                                     *)
(*                                                                         *)
(* genet-driver (GenetInit, GenetNext): the two descriptor rings of the    *)
(* RPi4's Ethernet, between the controller (external) and the rings of one *)
(* client.  A client buffer is the frame it carries, or its own number.    *)
(* Producer and consumer indices wrap at IndexMod, a multiple of NumDesc.  *)
(***************************************************************************)
EXTENDS Integers, Sequences, FiniteSets

CONSTANTS RingLen,   \* descriptors of a ring
          TxBufs,    \* shared transmit buffers
          RxBufs,    \* shared receive buffers, also of genet's client
          Loads,     \* [tx, rx]: how many frames are sent and arrive
          Bad        \* arriving frames that are not published

VARIABLES nic,       \* the device: what is programmed, the rings, the cause, the wire
          drv,       \* Engine and the handler's place
          q          \* shared queues with their signal flags, and notifications

vars == <<nic, drv, q>>

Index == 0 .. RingLen - 1
next_index(i) == (i + 1) % RingLen
Blank == [frame |-> 0, dd |-> FALSE]
Elems(s) == {s[i] : i \in DOMAIN s}

Init ==
  /\ nic = [set |-> {}, on |-> FALSE, tdh |-> 0, tdt |-> 0, rdh |-> 0, rdt |-> 0,
            tx |-> [i \in Index |-> Blank], rx |-> [i \in Index |-> Blank],
            icr |-> FALSE, masked |-> TRUE, wire |-> << >>, came |-> 0]
  /\ drv = [pc |-> "claim", tail |-> 0, clean |-> 0, next |-> 0, buf |-> 0,
            frame |-> 0, returned |-> FALSE, dropped |-> {}, sent |-> 0]
  /\ \E load \in Loads : q = [load |-> load, txActive |-> << >>, txFree |-> [b \in 1 .. TxBufs |-> b], rxActive |-> << >>,
          rxFree |-> [b \in 1 .. RxBufs |-> b], wantTx |-> TRUE, wantTxFree |-> TRUE,
          wantRx |-> TRUE, wantRxFree |-> TRUE, badge |-> {}, told |-> {}, owes |-> {},
          made |-> 0, got |-> << >>, storing |-> 0, torn |-> FALSE]

Goto(pc) == [drv EXCEPT !.pc = pc]

-----------------------------------------------------------------------------
(* open: each stage does its writes or fails, and a failure stops the       *)
(* domain.  "window" is BAR0 with memory and bus master on, "pin" the       *)
(* interrupt pin with both message capabilities off.                        *)

\* Mutant: the window is not written again after the reset.
StagesMutant == [claim |-> "program", program |-> "reset", reset |-> "pin", window |-> "pin",
                 pin |-> "link", link |-> "mac", mac |-> "rings", rings |-> "paths"]

Stages == [claim |-> "program", program |-> "reset", reset |-> "window", window |-> "pin",
           pin |-> "link", link |-> "mac", mac |-> "rings", rings |-> "paths"]

\* What a stage leaves in the device; the reset reloads window, pin and address.
Effect(stage) ==
  CASE stage = "program" -> [nic EXCEPT !.set = @ \cup {"window", "pin"}]
    [] stage = "reset" -> [nic EXCEPT !.set = {}]
    [] stage = "rings" -> [nic EXCEPT !.set = @ \cup {"rings"}, !.rdt = RingLen - 1]
    [] stage = "claim" -> nic
    [] OTHER -> [nic EXCEPT !.set = @ \cup {stage}]

Open ==
  /\ drv.pc \in DOMAIN Stages
  /\ \/ nic' = Effect(drv.pc) /\ drv' = Goto(Stages[drv.pc])
     \/ drv' = Goto("dead") /\ UNCHANGED nic
  /\ UNCHANGED q

\* enable_paths, and the acknowledgements of init.
EnablePaths ==
  /\ drv.pc = "paths"
  /\ nic' = [nic EXCEPT !.on = TRUE, !.icr = FALSE, !.masked = FALSE]
  /\ drv' = Goto("idle") /\ UNCHANGED q

-----------------------------------------------------------------------------
(* The device.                                                              *)

Send ==
  /\ nic.on /\ nic.tdh # nic.tdt
  /\ nic' = [nic EXCEPT !.wire = Append(@, nic.tx[nic.tdh].frame), !.tx[nic.tdh].dd = TRUE,
                        !.tdh = next_index(@), !.icr = TRUE]
  /\ UNCHANGED <<drv, q>>

\* A frame that finds no descriptor is missed.
Arrive ==
  /\ nic.on /\ nic.came < q.load.rx
  /\ nic' = IF nic.rdh = nic.rdt THEN [nic EXCEPT !.came = @ + 1, !.icr = TRUE]
            ELSE [nic EXCEPT !.came = @ + 1, !.rx[nic.rdh] = [frame |-> nic.came + 1, dd |-> TRUE],
                             !.rdh = next_index(@), !.icr = TRUE]
  /\ UNCHANGED <<drv, q>>

\* The kernel takes the pin and masks it until irq_ack.
Interrupt ==
  /\ nic.icr /\ ~nic.masked
  /\ nic' = [nic EXCEPT !.masked = TRUE] /\ q' = [q EXCEPT !.badge = @ \cup {"irq"}]
  /\ UNCHANGED drv

-----------------------------------------------------------------------------
(* notified and transmit.                                                   *)

\* The cause register is read first.
Notified ==
  /\ drv.pc = "idle" /\ q.badge # {}
  /\ drv' = [drv EXCEPT !.pc = IF "irq" \in q.badge THEN "unmask" ELSE "tx", !.returned = FALSE]
  /\ nic' = IF "irq" \in q.badge THEN [nic EXCEPT !.icr = FALSE] ELSE nic
  /\ q' = [q EXCEPT !.badge = {}]

Unmask ==
  drv.pc = "unmask" /\ nic' = [nic EXCEPT !.masked = FALSE] /\ drv' = Goto("tx") /\ UNCHANGED q

TxDequeue ==
  /\ drv.pc = "tx"
  /\ IF q.txActive = << >> THEN drv' = Goto("txRequest") /\ UNCHANGED q
     ELSE /\ drv' = [drv EXCEPT !.pc = "submit", !.buf = Head(q.txActive).buf,
                                !.frame = Head(q.txActive).frame]
          /\ q' = [q EXCEPT !.txActive = Tail(@)]
  /\ UNCHANGED nic

\* reclaim_tx: the descriptors from clean on that the device has done with.
Reclaimed(clean) ==
  LET ahead(n) == (clean + n) % RingLen
      held == (drv.tail - clean) % RingLen
      n == CHOOSE n \in 0 .. held : /\ \A k \in 0 .. n - 1 : nic.tx[ahead(k)].dd
                                    /\ n < held => ~nic.tx[ahead(n)].dd
  IN ahead(n)

\* Mutant: the full test is off by one.
SubmitTxMutant(clean) ==
  /\ nic' = [nic EXCEPT !.tx[drv.tail] = [frame |-> drv.frame, dd |-> FALSE], !.tdt = next_index(drv.tail)]
  /\ drv' = [drv EXCEPT !.clean = clean, !.tail = next_index(@), !.sent = drv.frame,
                        !.buf = 0, !.frame = 0, !.returned = TRUE, !.pc = "tx"]

\* submit_tx: a full ring drops the frame.
SubmitTx(clean) ==
  LET full == next_index(drv.tail) = clean
      back == [drv EXCEPT !.clean = clean, !.sent = drv.frame, !.buf = 0, !.frame = 0,
                          !.returned = TRUE, !.pc = "tx"]
  IN IF full THEN drv' = [back EXCEPT !.dropped = @ \cup {drv.frame}] /\ UNCHANGED nic
     ELSE /\ nic' = [nic EXCEPT !.tx[drv.tail] = [frame |-> drv.frame, dd |-> FALSE],
                                !.tdt = next_index(drv.tail)]
          /\ drv' = [back EXCEPT !.tail = next_index(@)]

\* The shared descriptor goes back whatever became of the frame.
TxReturn ==
  /\ drv.pc = "submit"
  /\ SubmitTx(Reclaimed(drv.clean))
  /\ q' = [q EXCEPT !.txFree = Append(@, drv.buf)]

TxRequest ==
  drv.pc = "txRequest" /\ q' = [q EXCEPT !.wantTx = TRUE] /\ drv' = Goto("txCheck") /\ UNCHANGED nic

\* Mutant: a frame queued while the signal was being asked for is not looked for.
TxCheckMutant ==
  drv.pc = "txCheck" /\ drv' = Goto("txSignal") /\ UNCHANGED <<nic, q>>

TxCheck ==
  /\ drv.pc = "txCheck"
  /\ IF q.txActive # << >> THEN q' = [q EXCEPT !.wantTx = FALSE] /\ drv' = Goto("tx")
     ELSE drv' = Goto("txSignal") /\ UNCHANGED q
  /\ UNCHANGED nic

TxSignal ==
  /\ drv.pc = "txSignal"
  /\ q' = IF drv.returned /\ q.wantTxFree THEN [q EXCEPT !.wantTxFree = FALSE, !.told = @ \cup {"tx"}] ELSE q
  /\ drv' = Goto("rx") /\ UNCHANGED nic

-----------------------------------------------------------------------------
(* receive.                                                                 *)

RxDequeue ==
  /\ drv.pc = "rx"
  /\ IF q.rxFree = << >> THEN q' = [q EXCEPT !.wantRxFree = TRUE] /\ drv' = Goto("rxCheck")
     ELSE /\ drv' = [drv EXCEPT !.pc = "copy", !.buf = Head(q.rxFree)]
          /\ q' = [q EXCEPT !.rxFree = Tail(@)]
  /\ UNCHANGED nic

RxCheck ==
  /\ drv.pc = "rxCheck"
  /\ IF q.rxFree = << >> THEN drv' = Goto("idle") /\ UNCHANGED q
     ELSE drv' = Goto("rx") /\ q' = [q EXCEPT !.wantRxFree = FALSE]
  /\ UNCHANGED nic

\* Mutant: the done bit of the descriptor is left set.
RetireRxMutant == [nic EXCEPT !.rdt = drv.next]

\* retire_rx: the descriptor just read becomes the gap.
RetireRx == [nic EXCEPT !.rx[drv.next] = Blank, !.rdt = drv.next]

\* copy_rx: a refused frame is retired and the next one looked at; with none
\* left the tail of the free queue is loaded, to restore the shared buffer.
CopyRx ==
  /\ drv.pc = "copy"
  /\ LET d == nic.rx[drv.next] IN
       IF ~d.dd THEN drv' = Goto("restore") /\ UNCHANGED <<nic, q>>
       ELSE /\ nic' = RetireRx
            /\ drv' = [drv EXCEPT !.next = next_index(@),
                                  !.pc = IF d.frame \in Bad THEN "copy" ELSE "publish",
                                  !.frame = IF d.frame \in Bad THEN 0 ELSE d.frame]
            /\ UNCHANGED q

\* The store of restore_free.
restore_free ==
  /\ drv.pc = "restore"
  /\ q' = [q EXCEPT !.rxFree = Append(@, drv.buf), !.torn = (q.storing # 0)]
  /\ drv' = [drv EXCEPT !.pc = "idle", !.buf = 0] /\ UNCHANGED nic

Publish ==
  /\ drv.pc = "publish"
  /\ q' = [q EXCEPT !.rxActive = Append(@, [buf |-> drv.buf, frame |-> drv.frame])]
  /\ drv' = [drv EXCEPT !.pc = "rxSignal", !.buf = 0, !.frame = 0] /\ UNCHANGED nic

RxSignal ==
  /\ drv.pc = "rxSignal"
  /\ q' = IF q.wantRx THEN [q EXCEPT !.wantRx = FALSE, !.told = @ \cup {"rx"}] ELSE q
  /\ drv' = Goto("rx") /\ UNCHANGED nic

-----------------------------------------------------------------------------
(* The virtualisers (in full in NetTransmit and NetReceive): a frame to     *)
(* send, a received one taken and its buffer given back, each followed by a *)
(* look at the driver's flag; with nothing left to take they ask for the    *)
(* driver's signal.                                                         *)

Provide ==
  /\ q.txFree # << >> /\ q.made < q.load.tx
  /\ q' = [q EXCEPT !.txFree = Tail(@), !.made = @ + 1, !.owes = @ \cup {"tx"}, !.wantTxFree = TRUE,
                    !.txActive = Append(@, [buf |-> Head(q.txFree), frame |-> q.made + 1])]
  /\ UNCHANGED <<nic, drv>>

\* forward_active, and rx_provide or return_driver up to the load of the tail.
Consume ==
  /\ "rx" \in q.told /\ q.rxActive # << >> /\ q.storing = 0
  /\ q' = [q EXCEPT !.rxActive = Tail(@), !.storing = Head(q.rxActive).buf,
                    !.got = Append(@, Head(q.rxActive).frame)]
  /\ UNCHANGED <<nic, drv>>

\* The store of the enqueue.
return_driver ==
  /\ q.storing # 0
  /\ q' = [q EXCEPT !.rxFree = Append(@, q.storing), !.storing = 0, !.owes = @ \cup {"rx"},
                    !.torn = (drv.pc = "restore")]
  /\ UNCHANGED <<nic, drv>>

Sleep ==
  /\ q.told # {} /\ q.rxActive = << >> /\ q.storing = 0
  /\ q' = [q EXCEPT !.told = {}, !.wantRx = TRUE] /\ UNCHANGED <<nic, drv>>

Signal(side) ==
  /\ side \in q.owes
  /\ LET wanted == IF side = "tx" THEN q.wantTx ELSE q.wantRxFree
         r == [q EXCEPT !.owes = @ \ {side}, !.badge = IF wanted THEN @ \cup {side} ELSE @]
     IN q' = IF ~wanted THEN r
             ELSE IF side = "tx" THEN [r EXCEPT !.wantTx = FALSE] ELSE [r EXCEPT !.wantRxFree = FALSE]
  /\ UNCHANGED <<nic, drv>>

Driver == /\ ~q.torn
          /\ \/ Open \/ EnablePaths \/ Notified \/ Unmask \/ TxDequeue \/ TxReturn \/ TxRequest \/ TxCheck
             \/ TxSignal \/ RxDequeue \/ RxCheck \/ CopyRx \/ restore_free \/ Publish \/ RxSignal
Virt == ~q.torn /\ (Consume \/ return_driver)
Rests == ~q.torn /\ Sleep
Tells(side) == ~q.torn /\ Signal(side)
Sends == ~q.torn /\ Send
Interrupts == ~q.torn /\ Interrupt

Next == \/ Driver \/ Sends \/ Interrupts \/ Virt \/ Rests \/ (\E side \in {"tx", "rx"} : Tells(side))
        \/ (~q.torn /\ (Arrive \/ Provide))

\* Every domain is scheduled and the device sends and interrupts; nothing makes
\* a frame arrive or a client send.
Fairness == WF_vars(Driver) /\ WF_vars(Sends) /\ WF_vars(Interrupts)
            /\ WF_vars(Virt) /\ WF_vars(Rests)
            /\ \A side \in {"tx", "rx"} : WF_vars(Tells(side))

Spec == Init /\ [][Next]_vars /\ Fairness

-----------------------------------------------------------------------------
\* Indices stay in the ring and buffers in their queues.
TypeOK ==
  /\ nic.set \subseteq {"window", "pin", "link", "mac", "rings"}
  /\ {nic.tdh, nic.tdt, nic.rdh, nic.rdt, drv.tail, drv.clean, drv.next} \subseteq Index
  /\ drv.pc \in DOMAIN Stages \cup {"paths", "dead", "idle", "unmask", "tx", "submit", "txRequest",
                                    "txCheck", "txSignal",
                                    "rx", "rxCheck", "copy", "restore", "publish", "rxSignal"}
  /\ q.badge \subseteq {"irq", "tx", "rx"}

\* The paths run only in a device whose window, pin, link, address and rings
\* were all programmed after its reset.
EnabledIsReady == nic.on => nic.set = {"window", "pin", "link", "mac", "rings"}

Increasing(s) == \A i \in 1 .. Len(s) - 1 : s[i] < s[i + 1]
Held == {nic.tx[(nic.tdh + k) % RingLen].frame : k \in 0 .. ((nic.tdt - nic.tdh) % RingLen) - 1}

\* Every frame the driver took is on the wire, in the ring or was dropped by a
\* full ring, each once and in order: no descriptor is written before the device
\* is done with it.
TransmitRing ==
  /\ Increasing(nic.wire)
  /\ Elems(nic.wire) \cup Held \cup drv.dropped = 1 .. drv.sent
  /\ Len(nic.wire) + Cardinality(Held) + Cardinality(drv.dropped) = drv.sent

Bufs(s) == {s[i].buf : i \in DOMAIN s}

\* What virtualisers get are published frames in the order of arrival, each once;
\* and every shared buffer is in one place, until the two writers of the receive
\* free queue meet.
ReceiveRing ==
  /\ LET out == q.got \o [i \in DOMAIN q.rxActive |-> q.rxActive[i].frame] IN
       Increasing(out) /\ Elems(out) \cap Bad = {}
  /\ LET hand == (IF drv.pc \in {"copy", "restore", "publish"} THEN {drv.buf} ELSE {})
                 \cup (IF q.storing # 0 THEN {q.storing} ELSE {}) IN
       ~q.torn =>
       /\ Elems(q.rxFree) \cup Bufs(q.rxActive) \cup hand = 1 .. RxBufs
       /\ Len(q.rxFree) + Len(q.rxActive) + Cardinality(hand) = RxBufs
  /\ Len(q.txFree) + Len(q.txActive) + (IF drv.pc = "submit" THEN 1 ELSE 0) = TxBufs

Ready == drv.pc \notin DOMAIN Stages \cup {"paths", "dead"}
Busy == Ready /\ ~q.torn /\ (q.txActive # << >> \/ q.rxActive # << >> \/ \E i \in Index : nic.rx[i].dd)

\* Work does not lie: what clients queued is taken and what arrived is published,
\* although an interrupt clears all causes at once and notifications coalesce
\* (up to the meeting of the two writers).
Served == []<>~Busy

-----------------------------------------------------------------------------
(* genet-driver.                                                            *)

CONSTANTS NumDesc,   \* NUM_DESC
          IndexMod,  \* 2^16 of the indices, scaled down
          Frames,    \* frames the client sends
          Arrivals,  \* frames that arrive
          LowBits    \* what the low half of a received status may hold besides the marks

Descs == 0 .. NumDesc - 1
Slot(i) == i % NumDesc

\* Mutant: the index register is not wrapped.
Next1Mutant(i) == i + 1

Next1(i) == (i + 1) % IndexMod

\* A descriptor: whether the device owns it, its frame, and the low half of its status.
Desc(own, frame) == [own |-> own, frame |-> frame, low |-> 0]

\* After reset, phy_init (whose link may be down), set_mac, umac_enable, setup_rings.
GenetInit ==
  /\ nic = [tx |-> [i \in Descs |-> Desc(FALSE, 0)], rx |-> [i \in Descs |-> Desc(TRUE, 0)],
            txCons |-> 0, rxProd |-> 0, txProd |-> 0, rxCons |-> 0, wire |-> << >>, came |-> 0,
            irq |-> FALSE, masked |-> FALSE]
  /\ drv = [pc |-> "idle", badge |-> {}]
  /\ q = [txFree |-> << >>, txUsed |-> {}, rxFree |-> [b \in 1 .. RxBufs |-> b], rxUsed |-> << >>,
          lost |-> {}, badge |-> {}, sent |-> 0, accepted |-> << >>, told |-> FALSE]

GenetNotified ==
  /\ drv.pc = "idle" /\ q.badge # {}
  /\ drv' = [drv EXCEPT !.pc = "tx", !.badge = q.badge] /\ q' = [q EXCEPT !.badge = {}] /\ UNCHANGED nic

\* Mutant: the ring is not looked at before a descriptor is written.
transmitMutant(frame) ==
  /\ nic' = [nic EXCEPT !.tx[Slot(nic.txProd)] = Desc(TRUE, frame), !.txProd = Next1(@)]
  /\ q' = [q EXCEPT !.txFree = Tail(@), !.txUsed = @ \cup {frame}, !.accepted = Append(@, frame), !.told = TRUE]
  /\ UNCHANGED drv

\* A full ring refuses the frame, and the client's buffer, already taken, is lost with it.
transmit(frame) ==
  IF nic.tx[Slot(nic.txProd)].own
  THEN q' = [q EXCEPT !.txFree = Tail(@), !.lost = @ \cup {frame}] /\ drv' = Goto("rx") /\ UNCHANGED nic
  ELSE /\ nic' = [nic EXCEPT !.tx[Slot(nic.txProd)] = Desc(TRUE, frame), !.txProd = Next1(@)]
       /\ q' = [q EXCEPT !.txFree = Tail(@), !.txUsed = @ \cup {frame}, !.accepted = Append(@, frame),
                         !.told = TRUE]
       /\ UNCHANGED drv

pump_tx ==
  /\ drv.pc = "tx"
  /\ IF q.txFree = << >> THEN drv' = Goto("rx") /\ UNCHANGED <<nic, q>> ELSE transmit(Head(q.txFree))

\* Mutant: the consumer index stays.
receiveMutant == [nic EXCEPT !.rx[Slot(nic.rxCons)] = Desc(TRUE, 0)]

\* receive re-arms the descriptor; its length is what the low half holds.
receive == [nic EXCEPT !.rx[Slot(nic.rxCons)] = Desc(TRUE, 0), !.rxCons = Next1(@)]

pump_rx ==
  /\ drv.pc = "rx"
  /\ LET d == nic.rx[Slot(nic.rxCons)] IN
     IF q.rxFree = << >> \/ d.own \/ d.low = 0 THEN drv' = Goto("ack") /\ UNCHANGED <<nic, q>>
     ELSE /\ nic' = receive
          /\ q' = [q EXCEPT !.rxFree = Tail(@), !.rxUsed = Append(@, d.frame), !.told = TRUE]
          /\ UNCHANGED drv

\* ack_interrupts, check_tx_completions and irq_ack, when the device woke the driver.
Acknowledge ==
  /\ drv.pc = "ack"
  /\ nic' = IF "device" \notin drv.badge THEN nic
            ELSE [nic EXCEPT !.irq = FALSE, !.masked = FALSE,
                    !.tx = [i \in Descs |-> IF nic.tx[i].own THEN nic.tx[i]
                                            ELSE Desc(FALSE, 0)]]
  /\ drv' = Goto("idle") /\ UNCHANGED q

-----------------------------------------------------------------------------
(* The controller and the client (external).                                *)

GenetSend ==
  /\ nic.txCons # nic.txProd
  /\ nic' = [nic EXCEPT !.wire = Append(@, nic.tx[Slot(nic.txCons)].frame), !.tx[Slot(nic.txCons)].own = FALSE,
                        !.txCons = Next1(@), !.irq = TRUE]
  /\ UNCHANGED <<drv, q>>

\* The length goes into the high half of the status.
GenetArrive ==
  /\ nic.came < Arrivals
  /\ \E low \in LowBits :
       nic' = IF ~nic.rx[Slot(nic.rxProd)].own THEN [nic EXCEPT !.came = @ + 1]
              ELSE [nic EXCEPT !.came = @ + 1, !.rxProd = Next1(@), !.irq = TRUE,
                      !.rx[Slot(nic.rxProd)] = [own |-> FALSE, frame |-> nic.came + 1, low |-> low]]
  /\ UNCHANGED <<drv, q>>

GenetInterrupt ==
  /\ nic.irq /\ ~nic.masked
  /\ nic' = [nic EXCEPT !.masked = TRUE] /\ q' = [q EXCEPT !.badge = @ \cup {"device"}] /\ UNCHANGED drv

ClientSends ==
  /\ q.sent < Frames
  /\ q' = [q EXCEPT !.sent = @ + 1, !.txFree = Append(@, q.sent + 1), !.badge = @ \cup {"client"}]
  /\ UNCHANGED <<nic, drv>>

ClientTakes ==
  /\ q.told
  /\ q' = [q EXCEPT !.told = FALSE, !.rxUsed = << >>,
             !.rxFree = @ \o [i \in 1 .. Len(q.rxUsed) |-> i]]
  /\ UNCHANGED <<nic, drv>>

GenetSteps == GenetNotified \/ pump_tx \/ pump_rx \/ Acknowledge
GenetNext == GenetSteps \/ GenetSend \/ GenetArrive \/ GenetInterrupt \/ ClientSends \/ ClientTakes
GenetSpec == GenetInit /\ [][GenetNext]_vars /\ WF_vars(GenetSteps)

-----------------------------------------------------------------------------
\* The indices stay below their modulus and slots in the ring.
GenetTypeOK ==
  /\ drv.pc \in {"idle", "tx", "rx", "ack"} /\ q.badge \subseteq {"device", "client"}
  /\ {nic.txProd, nic.txCons, nic.rxProd, nic.rxCons} \subseteq 0 .. IndexMod - 1

InRing == (nic.txProd - nic.txCons) % IndexMod

\* The accepted frames are on the wire or in the ring, in order and each once, also
\* where the indices wrap; every frame the client sent is accepted, waiting or lost.
GenetTransmitRing ==
  /\ InRing <= NumDesc
  /\ nic.wire \o [k \in 1 .. InRing |-> nic.tx[Slot(nic.txCons + k - 1)].frame] = q.accepted
  /\ Elems(q.accepted) \cup q.lost \cup Elems(q.txFree) = 1 .. q.sent

\* Received frames are handed on in the order of arrival, and the driver's index
\* is never ahead of the controller's.
GenetReceiveRing ==
  /\ Increasing(q.rxUsed)
  /\ (nic.rxProd - nic.rxCons) % IndexMod <= NumDesc
  /\ Len(q.rxFree) + Len(q.rxUsed) = RxBufs
=============================================================================
