-------------------------------- MODULE Wifi --------------------------------
(***************************************************************************)
(* swift-mt7921, in two machines over the same state.                      *)
(*                                                                         *)
(* The bring-up of the radio (Init, Next): ownership, DMA rings, the       *)
(* firmware download under its semaphore, and the commands that start the  *)
(* MAC.  A command goes through one bounce buffer to a transmit ring and   *)
(* is answered on a receive ring by its sequence number.  Only stages and  *)
(* the order of the steps are kept of the register writes.                 *)
(*                                                                         *)
(* Joining a network (JoinInit, JoinNext): a key the console shell posts   *)
(* starts a scan, authentication, association, the four-way handshake, a   *)
(* DHCP lease and one ping, over a radio that loses, repeats and delays    *)
(* frames.  The access point, the DHCP server and the gateway are one      *)
(* external party.  A pairwise key is the tuple it is derived from; a      *)
(* frame under a key carries it, so that only its holder can read it.      *)
(***************************************************************************)
EXTENDS Integers, Sequences, SequencesExt

CONSTANTS RingN,      \* descriptors of a receive ring
          SeqMax,     \* sequence numbers 1 .. SeqMax (15 in the code)
          Images,     \* [pick, patch, ram]: is there an image for the chip; the regions of each, [chunks, skip]
          Events,     \* events nobody asked for
          Faults,     \* polls that time out, requests and answers that are late; frames lost or
                      \* repeated, handshake messages sent again, waits that end early
          Networks,   \* [ssid, psk] the shell may post; the first SSID's passphrase may be wrong
          Ap,         \* [ssid, psk] of the access point
          Posts,      \* keys posted
          AirMax      \* frames waiting for the station

VARIABLES dev, drv, q
vars == <<dev, drv, q>>

Rings == {"evt", "wa"}
TxRings == {"mcu", "fwdl"}
Slots == 0 .. RingN - 1
Stale == [seq |-> 0, id |-> 0, st |-> "phantom"]

-----------------------------------------------------------------------------
(* The order of the steps.  A poll names the stage that is painted when it  *)
(* fails; "sent" is whether the patch went through.                         *)

Polls == [set_own |-> <<"own", "clr_own">>, clr_own |-> <<"own", "chip">>, wfsys |-> <<"mac", "dma_disable">>,
          dma_disable |-> <<"mac", "rings">>, driver_own |-> <<"own", "sem_get">>, n9 |-> <<"mac", "eeprom">>]
Inits == <<"eeprom", "rts", "enable", "chan", "rxpath", "efuse">>
Regions(p) == IF p = "patch" THEN q.img.patch ELSE q.img.ram

Init ==
  /\ \E img \in Images : q = [img |-> img, faults |-> 0, events |-> 0, ids |-> 0, wrong |-> FALSE,
                              phantom |-> FALSE, got |-> FALSE, released |-> FALSE]
  /\ dev = [tx |-> [t \in TxRings |-> << >>], bounce |-> [id |-> 0, seq |-> 0, cmd |-> "none"], idx |-> [t \in TxRings |-> 0], done |-> [t \in TxRings |-> 0], replies |-> << >>, on |-> FALSE, sem |-> "free", n9 |-> FALSE,
            rx |-> [r \in Rings |-> [i \in Slots |-> [done |-> TRUE, m |-> Stale, buf |-> i]]], ri |-> [r \in Rings |-> 0],
            cpu |-> [r \in Rings |-> 0]]
  /\ drv = [pc |-> "set_own", stage |-> "boot", seq |-> 0, id |-> 0, index |-> 0, wait |-> "no", part |-> "patch", region |-> 1,
            chunk |-> 0, sent |-> TRUE, n9 |-> FALSE, head |-> [r \in Rings |-> 0], tail |-> [r \in Rings |-> 0],
            resp |-> Stale]

\* boot: an error stops the DMA and is painted.
Quits(d, stage) == /\ drv' = [d EXCEPT !.pc = "done", !.stage = stage, !.wait = "no"]
                   /\ dev' = [dev EXCEPT !.on = FALSE]

Poll ==
  /\ drv.wait = "no" /\ drv.pc \in DOMAIN Polls
  /\ \/ /\ drv' = [drv EXCEPT !.pc = Polls[drv.pc][2], !.n9 = @ \/ drv.pc = "n9"]
        /\ dev' = [dev EXCEPT !.n9 = @ \/ drv.pc = "n9"]
        /\ UNCHANGED q
     \/ q.faults < Faults /\ q' = [q EXCEPT !.faults = @ + 1] /\ Quits(drv, Polls[drv.pc][1])

\* chip and Images::pick.
Pick ==
  /\ drv.pc = "chip"
  /\ IF q.img.pick THEN drv' = [drv EXCEPT !.pc = "wfsys"] /\ UNCHANGED dev ELSE Quits(drv, "chip")
  /\ UNCHANGED q

\* Mutant: every descriptor but the last is armed, and the index stays 0.
SetRingsMutant ==
  /\ drv.pc = "rings"
  /\ dev' = [dev EXCEPT !.on = TRUE, !.cpu = [r \in Rings |-> RingN - 1],
                        !.rx = [r \in Rings |-> [i \in Slots |-> [done |-> i = RingN - 1, m |-> Stale, buf |-> i]]]]
  /\ drv' = [drv EXCEPT !.pc = "driver_own"]
  /\ UNCHANGED q

\* program, fill_rx, dma_enable, rebind: a receive ring has a buffer for every
\* descriptor but the last, which is marked done, and the host index is there.
SetRings ==
  /\ drv.pc = "rings"
  /\ dev' = [dev EXCEPT !.on = TRUE, !.cpu = [r \in Rings |-> RingN - 1],
                        !.rx = [r \in Rings |-> [i \in Slots |-> [done |-> i = RingN - 1, m |-> Stale, buf |-> i]]]]
  /\ drv' = [drv EXCEPT !.pc = "driver_own", !.head = [r \in Rings |-> RingN - 1]]
  /\ UNCHANGED q

-----------------------------------------------------------------------------
(* Commands.                                                                *)

\* scatter has a ring of its own.
TxOf(pc) == IF pc = "scatter" THEN "fwdl" ELSE "mcu"

next_seq(s) == (s % SeqMax) + 1

Cmds == {"sem_get", "dl", "finish", "sem_rel", "fw_start"} \cup Range(Inits)

\* post_mcu and scatter fill the bounce buffer and post_tx the descriptor.
Post ==
  /\ drv.wait = "no" /\ drv.pc \in Cmds \cup {"scatter"}
  /\ LET id == q.ids + 1  seq == IF drv.pc = "scatter" THEN drv.seq ELSE next_seq(drv.seq) IN
     /\ dev' = [dev EXCEPT !.bounce = [id |-> id, seq |-> seq, cmd |-> drv.pc], !.tx[TxOf(drv.pc)] = Append(@, id)]
     /\ drv' = [drv EXCEPT !.seq = seq, !.id = id, !.index = dev.idx[TxOf(drv.pc)], !.wait = "tx"]
     /\ q' = [q EXCEPT !.ids = id, !.released = @ \/ drv.pc = "sem_rel"]

\* What a step does next when its command succeeded, s being the patch status it read.
After(d, s) ==
  CASE d.pc = "sem_get" -> IF s = "is_dl" THEN [d EXCEPT !.part = "ram", !.pc = "dl", !.region = 1]
                           ELSE [d EXCEPT !.part = "patch", !.pc = "dl", !.region = 1]
    [] d.pc = "dl" -> [d EXCEPT !.pc = "scatter", !.chunk = 1]
    [] d.pc = "scatter" -> IF d.chunk < Regions(d.part)[d.region].chunks THEN [d EXCEPT !.chunk = @ + 1]
                           ELSE [d EXCEPT !.pc = "dl", !.region = @ + 1]
    [] d.pc = "finish" -> [d EXCEPT !.pc = "sem_rel"]
    [] d.pc = "sem_rel" -> [d EXCEPT !.part = "ram", !.pc = "dl", !.region = 1]
    [] d.pc = "fw_start" -> [d EXCEPT !.pc = "n9"]
    [] d.pc = "efuse" -> [d EXCEPT !.pc = "ready"]
    [] OTHER -> [d EXCEPT !.pc = Inits[1 + CHOOSE i \in DOMAIN Inits : Inits[i] = d.pc]]

\* The stage of a failed command.
StageOf(pc) == CASE pc \in {"sem_get", "sem_rel"} -> "sem" [] pc = "scatter" -> "scatter" [] pc = "fw_start" -> "start"
                 [] pc \in {"dl", "finish"} -> drv.part [] OTHER -> "mac"

\* Mutant: a failed patch is reported at once.
FailedMutant == IF drv.pc = "efuse" THEN drv' = [drv EXCEPT !.pc = "ready", !.wait = "no"] /\ UNCHANGED dev
                ELSE Quits(drv, StageOf(drv.pc))

\* load_patch gives the semaphore back before it reports a failed transfer;
\* an efuse that cannot be read leaves the default address.
Failed ==
  IF drv.part = "patch" /\ drv.pc \in {"dl", "scatter", "finish"}
  THEN drv' = [drv EXCEPT !.pc = "sem_rel", !.sent = FALSE, !.stage = StageOf(drv.pc), !.wait = "no"] /\ UNCHANGED dev
  ELSE IF drv.pc = "efuse" THEN drv' = [drv EXCEPT !.pc = "ready", !.wait = "no"] /\ UNCHANGED dev
  ELSE Quits(drv, StageOf(drv.pc))

\* load_patch and load_ram step over the regions: the RAM's skipped ones, and
\* past the last one.
NextRegion ==
  /\ drv.wait = "no" /\ drv.pc = "dl" /\ dev.on
  /\ LET rs == Regions(drv.part) IN
     IF drv.region > Len(rs) THEN drv' = [drv EXCEPT !.pc = IF drv.part = "patch" THEN "finish" ELSE "fw_start"] /\ UNCHANGED dev
     ELSE rs[drv.region].skip /\ drv.part = "ram" /\ drv' = [drv EXCEPT !.region = @ + 1] /\ UNCHANGED dev
  /\ UNCHANGED q

\* download of a region that is there.
Download ==
  /\ drv.pc = "dl" => drv.region <= Len(Regions(drv.part)) /\ ~(Regions(drv.part)[drv.region].skip /\ drv.part = "ram")
  /\ Post

\* wait_done: the descriptor is done, or the DMA index moved.
Sent ==
  /\ drv.wait = "tx" /\ (dev.done[TxOf(drv.pc)] = drv.id \/ dev.idx[TxOf(drv.pc)] # drv.index)
  /\ drv' = IF drv.pc = "scatter" THEN [After(drv, "") EXCEPT !.wait = "no"] ELSE [drv EXCEPT !.wait = "rx"]
  /\ UNCHANGED <<dev, q>>

\* Mutant: any event is the answer.
IsAnswerMutant(m) == TRUE
IsAnswer(m) == m.seq = drv.seq

\* Mutant: the descriptor is armed with the buffer it had.
TakenMutant(r) ==
  [dev EXCEPT !.rx[r][drv.head[r]] = [done |-> FALSE, m |-> Stale, buf |-> drv.head[r]], !.cpu[r] = (drv.head[r] + 1) % RingN]

\* poll_rx: take the descriptor at the tail, arm the one at the head with its
\* buffer.
Taken(r) ==
  [dev EXCEPT !.rx[r][drv.head[r]] = [done |-> FALSE, m |-> Stale, buf |-> dev.rx[r][drv.tail[r]].buf], !.cpu[r] = (drv.head[r] + 1) % RingN]
Moved(r) == [drv EXCEPT !.head[r] = (@ + 1) % RingN, !.tail[r] = (@ + 1) % RingN]

\* poll_mcu: the WA ring first once the firmware runs.
Ready(r) == dev.rx[r][drv.tail[r]].done
Polled == IF drv.n9 /\ Ready("wa") THEN "wa" ELSE "evt"

\* wait_seq, and what the answer leads to.
Answer ==
  /\ drv.wait = "rx" /\ Ready(Polled)
  /\ LET r == Polled  m == dev.rx[r][drv.tail[r]].m  d == [Moved(r) EXCEPT !.wait = "no"] IN
     /\ q' = [q EXCEPT !.phantom = @ \/ m.st = "phantom", !.wrong = @ \/ (IsAnswer(m) /\ m.id # drv.id),
                       !.got = @ \/ (IsAnswer(m) /\ drv.pc = "sem_get" /\ m.st = "not_dl")]
     /\ IF ~IsAnswer(m) THEN drv' = Moved(r) /\ dev' = Taken(r)
        ELSE CASE drv.pc = "sem_get" /\ m.st \notin {"is_dl", "not_dl"} -> drv' = [d EXCEPT !.pc = "quit", !.stage = "sem"] /\ dev' = Taken(r)
               [] drv.pc = "sem_rel" /\ m.st # "rel" -> drv' = [d EXCEPT !.pc = "quit", !.stage = "sem"] /\ dev' = Taken(r)
               [] drv.pc = "sem_rel" /\ ~drv.sent -> drv' = [d EXCEPT !.pc = "quit"] /\ dev' = Taken(r)
               [] drv.pc = "finish" /\ m.st # "ok" -> drv' = [d EXCEPT !.pc = "sem_rel", !.sent = FALSE, !.stage = "patch"] /\ dev' = Taken(r)
               [] OTHER -> drv' = After(d, m.st) /\ dev' = Taken(r)

Quit == drv.pc = "quit" /\ Quits(drv, drv.stage) /\ UNCHANGED q
Boots == drv.pc = "ready" /\ drv' = [drv EXCEPT !.pc = "done", !.stage = "wait"] /\ UNCHANGED <<dev, q>>

\* A spin ran out; nothing is left that would answer, or it is late.
Nothing == dev.replies = << >> /\ (\A t \in TxRings : dev.tx[t] = << >>) /\ \A r \in Rings : ~Ready(r)
Timeout ==
  /\ drv.wait # "no" /\ ~(drv.wait = "tx" /\ dev.done[TxOf(drv.pc)] = drv.id)
  /\ drv.wait = "rx" => \A r \in Rings : ~Ready(r)
  /\ \/ Nothing /\ UNCHANGED q
     \/ ~Nothing /\ q.faults < Faults /\ q' = [q EXCEPT !.faults = @ + 1]
  /\ Failed

Steps == Poll \/ Pick \/ SetRings \/ NextRegion \/ Download \/ Sent \/ Answer \/ Quit \/ Boots \/ Timeout

-----------------------------------------------------------------------------
(* The radio (external).                                                    *)

\* It reads the bounce buffer, which may hold a later command than the descriptor
\* it takes was posted for, and answers commands.
Fetch ==
  /\ dev.on
  /\ \E t \in TxRings : dev.tx[t] # << >> /\ LET m == dev.bounce
         status == CASE m.cmd = "sem_get" -> {"is_dl", "not_dl", "busy"} [] m.cmd = "sem_rel" -> {"rel"}
                     [] m.cmd = "finish" -> {"ok"} \cup (IF q.faults < Faults THEN {"bad"} ELSE {}) [] OTHER -> {"ok"} IN
     \E st \in status :
       /\ dev' = [dev EXCEPT !.tx[t] = Tail(@), !.done[t] = Head(dev.tx[t]), !.idx[t] = @ + 1,
                             !.sem = IF st = "not_dl" THEN "held" ELSE IF st = "rel" THEN "free" ELSE @,
                             !.replies = IF m.cmd = "scatter" THEN @ ELSE Append(@, [seq |-> m.seq, id |-> m.id, st |-> st])]
       /\ q' = [q EXCEPT !.faults = IF st = "bad" THEN @ + 1 ELSE @]
  /\ UNCHANGED drv

\* A ring is written where the host armed it.
Fill(r, m) == [dev EXCEPT !.rx[r][dev.ri[r]] = [done |-> TRUE, m |-> m, buf |-> dev.rx[r][dev.ri[r]].buf], !.ri[r] = (@ + 1) % RingN]
Room(r) == dev.on /\ dev.ri[r] # dev.cpu[r]

Reply ==
  /\ dev.replies # << >>
  /\ \E r \in (IF dev.n9 THEN Rings ELSE {"evt"}) : Room(r) /\ dev' = [Fill(r, Head(dev.replies)) EXCEPT !.replies = Tail(@)]
  /\ UNCHANGED <<drv, q>>

Unasked ==
  /\ q.events < Events /\ drv.wait = "rx"
  /\ \E r \in (IF dev.n9 THEN Rings ELSE {"evt"}) : Room(r) /\ dev' = Fill(r, [seq |-> 0, id |-> 0, st |-> "event"])
  /\ q' = [q EXCEPT !.events = @ + 1]
  /\ UNCHANGED drv

Device == Fetch \/ Reply
Next == Steps \/ Device \/ Unasked
Spec == Init /\ [][Next]_vars /\ WF_vars(Steps) /\ WF_vars(Device)

-----------------------------------------------------------------------------
\* The sequence number, the ring indices and the stage stay in range.
TypeOK == /\ drv.seq \in 0 .. SeqMax /\ \A r \in Rings : drv.head[r] \in Slots /\ drv.tail[r] \in Slots
          /\ drv.stage \in {"boot", "own", "chip", "mac", "sem", "patch", "scatter", "ram", "start", "wait"}

\* poll_rx takes only descriptors the radio filled, though a fresh ring has one
\* that says it is done; an armed descriptor has one of the RingN - 1 buffers,
\* and no two the same.
RxOwned == /\ ~q.phantom
           /\ drv.pc \notin {"set_own", "clr_own", "chip", "wfsys", "dma_disable", "rings"} =>
                \A r \in Rings, i \in Slots : dev.rx[r][i].done \/ dev.rx[r][i].buf < RingN - 1
           /\ \A r \in Rings, i, j \in Slots :
                i # j /\ ~dev.rx[r][i].done /\ ~dev.rx[r][j].done => dev.rx[r][i].buf # dev.rx[r][j].buf

\* The answer wait_seq accepts is to the command just sent, late answers and
\* unasked events included.
RightAnswer == ~q.wrong

\* A semaphore whose grant was read is given back whatever became of the transfer;
\* a grant later than the wait for it is not read, and stays.
SemGivenBack == drv.pc = "done" /\ q.got => q.released

Busy == drv.pc # "done"

-----------------------------------------------------------------------------
(* Joining a network.                                                       *)

NoKey == << >>
Waits == {"scan", "auth", "assoc", "m1", "m3", "offer", "ack", "echo"}

JoinInit ==
  /\ dev = [air |-> << >>, up |-> << >>, event |-> FALSE, beacons |-> 0,
            ap |-> [st |-> "idle", n |-> 0, replay |-> 0, ptk |-> NoKey, keyed |-> FALSE]]
  /\ drv = [pc |-> "idle", key |-> [ssid |-> "", psk |-> ""], shown |-> "wait", n |-> 0, tk |-> NoKey, replay |-> 0, pn |-> 1, addr |-> 0, clear |-> FALSE]
  /\ q = [page |-> [ssid |-> "", psk |-> ""], badge |-> FALSE, posts |-> 0, faults |-> 0, used |-> {}, reused |-> FALSE]

-----------------------------------------------------------------------------
(* The station.                                                             *)

\* derive_ptk: the pairwise master key, the AP's nonce and the station's.
derive_ptk(key, anonce, snonce) == <<key.ssid, key.psk, anonce, snonce>>

Fr(t, n, key) == [t |-> t, n |-> n, key |-> key]

\* Mutant: the packet number does not move.
next_pnMutant(pn) == pn
next_pn(pn) == pn + 1

\* tx_80211: the frame goes out, or the DMA index does not move.
Sends(d, f, pc, failed) ==
  \/ /\ drv' = [d EXCEPT !.pc = pc, !.pn = IF f.key # NoKey /\ f.t \notin {"m2", "m4"} THEN next_pn(@) ELSE @]
     /\ dev' = [dev EXCEPT !.up = Append(@, f), !.air = IF drv.pc \in Waits THEN Tail(@) ELSE @]
     /\ q' = IF f.key # NoKey /\ f.t \notin {"m2", "m4"}
             THEN [q EXCEPT !.used = @ \cup {<<f.key, d.pn>>}, !.reused = @ \/ <<f.key, d.pn>> \in q.used] ELSE q
  \/ /\ q.faults < Faults
     /\ drv' = [d EXCEPT !.pc = "idle", !.shown = failed]
     /\ dev' = [dev EXCEPT !.air = IF drv.pc \in Waits THEN Tail(@) ELSE @]
     /\ q' = [q EXCEPT !.faults = @ + 1]

\* Mutant: a later key is joined with the first passphrase.
NotifiedMutant ==
  /\ drv.pc = "idle" /\ q.badge
  /\ q' = [q EXCEPT !.badge = FALSE]
  /\ drv' = [drv EXCEPT !.pc = "scan", !.shown = "scan", !.key = IF drv.n = 0 THEN q.page ELSE @, !.n = @ + 1, !.clear = FALSE]
  /\ dev' = [dev EXCEPT !.beacons = 1]
\* notified, posted_key: the key on the page now.  start_scan clears nothing:
\* frames and events of an earlier attempt are still queued.
Notified ==
  /\ drv.pc = "idle" /\ q.badge
  /\ q' = [q EXCEPT !.badge = FALSE]
  /\ drv' = [drv EXCEPT !.pc = "scan", !.shown = "scan", !.key = q.page, !.n = @ + 1, !.clear = FALSE]
  /\ dev' = [dev EXCEPT !.beacons = 1]

Frame == Head(dev.air)
Drops == dev' = [dev EXCEPT !.air = Tail(@)] /\ UNCHANGED q
Stops == drv' = [drv EXCEPT !.pc = "idle"] /\ UNCHANGED q

\* find_ap: one frame of the data ring, then one event; the end of the scan
\* ends the search though frames may still be queued.
FindAp ==
  /\ drv.pc = "scan" /\ (dev.air # << >> \/ dev.event)
  /\ IF dev.air # << >> /\ Frame.t = "beacon" /\ Frame.key = <<drv.key.ssid>>
     THEN \* open_auth, or set_channel that failed
          \/ Sends([drv EXCEPT !.shown = "auth"], Fr("authreq", drv.n, NoKey), "auth", "auth")
          \/ /\ q.faults < Faults /\ q' = [q EXCEPT !.faults = @ + 1]
             /\ drv' = [drv EXCEPT !.pc = "idle"] /\ dev' = [dev EXCEPT !.air = Tail(@)]
     ELSE /\ dev' = [dev EXCEPT !.air = IF @ = << >> THEN @ ELSE Tail(@), !.event = FALSE]
          /\ IF dev.event THEN Stops ELSE UNCHANGED <<drv, q>>

\* wait_frame: auth_ok and assoc_ok; other frames are dropped.
Auth ==
  /\ drv.pc \in {"auth", "assoc"} /\ dev.air # << >>
  /\ CASE drv.pc = "auth" /\ Frame.t = "auth" -> Sends([drv EXCEPT !.shown = "assoc"], Fr("assocreq", drv.n, NoKey), "assoc", "assoc")
       [] drv.pc = "assoc" /\ Frame.t = "assoc" -> drv' = [drv EXCEPT !.pc = "m1", !.shown = "eapol"] /\ Drops
       [] OTHER -> Drops /\ UNCHANGED drv

\* Mutant: any EAPOL frame passes for message 3.
message3Mutant(f) == TRUE
\* message3: the MIC under our key.
message3(f) == f.t = "m3" /\ f.key = drv.tk

\* four_way: the first EAPOL frame must be the expected one; wait_eapol only
\* skips frames that are no EAPOL in clear.  Message 2 shows the key by its MIC.
FourWay ==
  /\ drv.pc \in {"m1", "m3"} /\ dev.air # << >>
  /\ CASE Frame.t \notin {"m1", "m3"} -> Drops /\ UNCHANGED drv
       [] drv.pc = "m1" /\ Frame.t = "m1" ->
            LET tk == derive_ptk(drv.key, Frame.n, drv.n) IN
            Sends([drv EXCEPT !.tk = tk], Fr("m2", drv.n, tk), "m3", "eapol")
       [] drv.pc = "m3" /\ message3(Frame) ->
            Sends(drv, Fr("m4", Frame.n, drv.tk), "discover", "eapol")
       [] OTHER -> Stops /\ dev' = [dev EXCEPT !.air = Tail(@)]

\* msdu, ccmp_decrypt: only our key opens a protected frame; one in clear passes.
msdu(f) == f.key \in {NoKey, drv.tk}

\* lease and echo.
Discover == drv.pc = "discover" /\ Sends([drv EXCEPT !.shown = "dhcp"], Fr("discover", 0, drv.tk), "offer", "dhcp")
Lease ==
  /\ drv.pc \in {"offer", "ack"} /\ dev.air # << >>
  /\ IF ~(Frame.t = drv.pc /\ msdu(Frame)) THEN Drops /\ UNCHANGED drv
     ELSE LET d == [drv EXCEPT !.clear = @ \/ Frame.key = NoKey] IN
          IF drv.pc = "offer" THEN Sends(d, Fr("request", Frame.n, drv.tk), "ack", "dhcp")
          ELSE Sends([d EXCEPT !.shown = "ping", !.addr = Frame.n], Fr("ping", Frame.n, drv.tk), "echo", "ping")
Echo ==
  /\ drv.pc = "echo" /\ dev.air # << >>
  /\ drv' = IF Frame.t = "reply" /\ msdu(Frame) THEN [drv EXCEPT !.pc = "idle", !.shown = "ok"] ELSE drv
  /\ Drops

\* A budget ran out: nothing is on its way, or it is late.
WaitEnds ==
  /\ drv.pc \in Waits /\ dev.air = << >> /\ ~(drv.pc = "scan" /\ dev.event)
  /\ \/ dev.up = << >> /\ dev.beacons = 0 /\ dev.ap.st = "idle" /\ UNCHANGED q
     \/ q.faults < Faults /\ q' = [q EXCEPT !.faults = @ + 1]
  /\ drv' = [drv EXCEPT !.pc = "idle"]
  /\ UNCHANGED dev

JoinSteps == Notified \/ FindAp \/ Auth \/ FourWay \/ Discover \/ Lease \/ Echo \/ WaitEnds

-----------------------------------------------------------------------------
(* External: the shell, the radio's firmware, the access point.             *)

Posted ==
  /\ q.posts < Posts
  /\ \E k \in Networks : q' = [q EXCEPT !.page = k, !.badge = TRUE, !.posts = @ + 1]
  /\ UNCHANGED <<dev, drv>>

InAir(d, f) == [d EXCEPT !.air = Append(@, f)]
AirRoom == Len(dev.air) < AirMax

\* The scan hears the access point and a neighbour, then reports its end.
Beacons ==
  /\ dev.beacons > 0
  /\ \/ dev.beacons = 1 /\ AirRoom /\ dev' = [InAir(dev, Fr("beacon", 0, <<"neighbour">>)) EXCEPT !.beacons = 2]
     \/ dev.beacons = 2 /\ AirRoom /\ dev' = [InAir(dev, Fr("beacon", 0, <<Ap.ssid>>)) EXCEPT !.beacons = 3]
     \/ dev.beacons = 3 /\ dev' = [dev EXCEPT !.beacons = 0, !.event = TRUE]
  /\ UNCHANGED <<drv, q>>

\* The access point answers the oldest frame it heard.
Hears ==
  /\ dev.up # << >> /\ AirRoom
  /\ LET f == Head(dev.up)  d == [dev EXCEPT !.up = Tail(@)]  a == dev.ap
         holds == a.keyed /\ f.key = a.ptk IN
     dev' = CASE f.t = "authreq" -> InAir([d EXCEPT !.ap.st = "idle", !.ap.keyed = FALSE, !.ap.ptk = NoKey], Fr("auth", f.n, NoKey))
              [] f.t = "assocreq" -> InAir([d EXCEPT !.ap.st = "m1", !.ap.n = @ + 1, !.ap.keyed = FALSE, !.ap.ptk = NoKey], Fr("assoc", f.n, NoKey))
              [] f.t = "m2" /\ a.st = "m2" /\ f.key = derive_ptk(Ap, a.n, f.n) ->
                   [d EXCEPT !.ap.st = "m3", !.ap.ptk = f.key]
              [] f.t = "m4" /\ a.st = "m4" /\ f.key = a.ptk -> [d EXCEPT !.ap.st = "idle", !.ap.keyed = TRUE]
              [] f.t = "discover" /\ holds -> InAir(d, Fr("offer", a.n, a.ptk))
              [] f.t = "request" /\ holds -> InAir(d, Fr("ack", f.n, a.ptk))
              [] f.t = "ping" /\ holds -> InAir(d, Fr("reply", f.n, a.ptk))
              [] OTHER -> d
  /\ UNCHANGED <<drv, q>>

\* It opens a half of the handshake, says it again, or gives up.
Handshake ==
  /\ \/ /\ dev.ap.st \in {"m1", "m3"} /\ AirRoom /\ UNCHANGED q
        /\ dev' = [InAir(dev, IF dev.ap.st = "m1" THEN Fr("m1", dev.ap.n, NoKey) ELSE Fr("m3", dev.ap.n, dev.ap.ptk))
                   EXCEPT !.ap.st = IF @ = "m1" THEN "m2" ELSE "m4"]
     \/ /\ dev.ap.st \in {"m2", "m4"} /\ dev.up = << >>
        /\ \/ q.faults < Faults /\ q' = [q EXCEPT !.faults = @ + 1] /\ dev' = [dev EXCEPT !.ap.st = IF @ = "m2" THEN "m1" ELSE "m3"]
           \/ dev.air = << >> /\ UNCHANGED q /\ dev' = [dev EXCEPT !.ap.st = "idle"]
  /\ UNCHANGED drv

\* A frame is lost or repeated in the air.
Air ==
  /\ q.faults < Faults /\ q' = [q EXCEPT !.faults = @ + 1]
  /\ \/ dev.up # << >> /\ dev' = [dev EXCEPT !.up = Tail(@)]
     \/ dev.air # << >> /\ dev' = [dev EXCEPT !.air = Tail(@)]
     \/ dev.air # << >> /\ AirRoom /\ dev' = [dev EXCEPT !.air = Append(@, Last(@))]
  /\ UNCHANGED drv

\* The awaited answer is heard in clear, of another network on the channel.
Overheard ==
  /\ drv.pc \in {"offer", "ack", "echo"} /\ AirRoom
  /\ q.faults < Faults /\ q' = [q EXCEPT !.faults = @ + 1]
  /\ dev' = InAir(dev, Fr(IF drv.pc = "echo" THEN "reply" ELSE drv.pc, 0, NoKey))
  /\ UNCHANGED drv

AccessPoint == Beacons \/ Hears \/ Handshake
JoinNext == JoinSteps \/ AccessPoint \/ Posted \/ Air \/ Overheard
JoinSpec == JoinInit /\ [][JoinNext]_vars /\ WF_vars(JoinSteps) /\ WF_vars(AccessPoint)

-----------------------------------------------------------------------------
\* The station waits for a known message, and the air holds a bounded number.
JoinTypeOK == /\ drv.pc \in Waits \cup {"idle", "discover"} /\ Len(dev.air) <= AirMax
          /\ drv.shown \in {"wait", "scan", "auth", "assoc", "eapol", "dhcp", "ping", "ok"}

\* After message 3 the access point derived the very key of this attempt, and
\* the address asked for and shown is the one it leased in this association,
\* unless an offer or a lease was taken from a frame in clear.
KeysAgree == /\ drv.pc \in {"discover", "offer", "ack", "echo"} => dev.ap.ptk = drv.tk /\ drv.key = Ap
             /\ (drv.pc = "echo" \/ drv.shown = "ok") /\ ~drv.clear => drv.addr = dev.ap.n

\* No packet number is used twice under one key.
NonceFresh == ~q.reused

\* Once the station rests, the network last posted is the one it tried.
LastKeyTried == drv.pc = "idle" /\ ~q.badge /\ q.posts > 0 => drv.key = q.page

Joining == drv.pc # "idle" \/ q.badge
=============================================================================
