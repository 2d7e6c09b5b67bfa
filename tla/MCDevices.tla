------------------------------ MODULE MCDevices -----------------------------
(* The device drivers, one part per behaviour: the 82574 and the RPi4        *)
(* Ethernet, the disks behind AHCI, the SD host, NVMe and virtio; and the    *)
(* laptop's USB keyboard, Bluetooth probe, the MAC of its wireless card and  *)
(* the association over it.                                                  *)
EXTENDS Integers, Sequences

VARIABLES part, dev, drv, q

v == <<part, dev, drv, q>>

\* One direction at a time up to the wrap of the ring, or one frame each way.
Eth == INSTANCE Ethernet WITH nic <- dev, RingLen <- 3, TxBufs <- 2, RxBufs <- 2, Bad <- {2},
         Loads <- {[tx |-> 4, rx |-> 0], [tx |-> 0, rx |-> 4], [tx |-> 1, rx |-> 1]},
         NumDesc <- 2, IndexMod <- 4, Frames <- 4, Arrivals <- 3, LowBits <- {0, 1}

\* A disk of two blocks and a half; whole, chunked, overlapping, refused requests.
R(op, off, block, count) == [id |-> 0, op |-> op, off |-> off, block |-> block, count |-> count]
Sata == INSTANCE Ahci WITH Sectors <- 5, SecPerBlock <- 2, BounceLen <- 2, DataLen <- 4, Total <- 2, QueueLen <- 2,
          Requests <- {R("read", 0, 0, 2), R("write", 1, 0, 1), R("write", 0, 0, 2), R("read", 2, 1, 1),
                       R("flush", 0, 0, 0), R("read", 0, 1, 2), R("write", 3, 0, 1), R("read", 0, 0, 0)}

Sd == INSTANCE Emmc2 WITH Rcas <- {0, 1}, RcaUnit <- 2, CardSize <- 4, Lbas <- {0, 2}, Total <- 2, Tries <- 2

\* Bare volumes and partition tables with and without the file, with deleted,
\* torn, unused and non-resident entries before it.
F(n, c, t) == [name |-> n, cluster |-> c, text |-> t]
N(n, u, w, t) == [name |-> n, inUse |-> u, whole |-> w, text |-> t]
Vol(fs, spc, files) == [fs |-> fs, spc |-> spc, files |-> files]
FatHas == Vol("fat", 1, <<F("other", 2, "no"), F("deleted", 3, "old"), F("want", 3, "yes")>>)
FatNot == Vol("fat", 1, <<F("other", 2, "no"), F("deleted", 3, "old")>>)
FatWide(c) == Vol("fat", 2, <<F("other", 4, "no"), F("want", c, "yes")>>)
NtfsHas == Vol("ntfs", 2, <<N("want", FALSE, TRUE, "old"), N("want", TRUE, FALSE, "torn"), N("want", TRUE, TRUE, "yes")>>)
NtfsNot == Vol("ntfs", 1, <<N("want", TRUE, TRUE, "none"), N("other", TRUE, TRUE, "no")>>)
Bare == Vol("raw", 1, << >>)
P(s, vol) == [start |-> s, vol |-> vol]
Disks == {[table |-> "none", parts |-> <<P(0, x)>>] : x \in {FatHas, FatNot, FatWide(2), FatWide(3), NtfsHas, NtfsNot, Bare}}
         \cup {[table |-> t, parts |-> <<P(10, x), P(0, Bare), P(20, y)>>] : t \in {"gpt", "bad"},
                 x \in {FatHas, FatNot, NtfsNot, Bare, Vol("fat", 1, << >>)}, y \in {FatHas, FatWide(3), NtfsHas, NtfsNot, Bare}}
Ssd == INSTANCE Nvme WITH Disks <- Disks, PerSector <- 2, Records <- 4, RecSectors <- 2

Virtio == INSTANCE VirtioBlk WITH Kinds <- {"mmio", "combo"}, Loads <- {1, 3}, QueueSize <- 2, Blocks <- {0},
            Polls <- 2, Wakes <- 1

\* A lone keyboard behind an empty port; a mouse beside a device of several
\* interfaces; a keyboard whose packets are too small.  Presses past the event ring, a port change, a lost answer.
Iface(b) == [t |-> "iface", boot |-> b, intr |-> FALSE, addr |-> 0, fit |-> FALSE]
Ep(a, i) == [t |-> "ep", boot |-> FALSE, intr |-> i, addr |-> a, fit |-> TRUE]
Keyboard == <<Iface(TRUE), Ep(1, TRUE)>>
Tiny == <<Iface(TRUE), [Ep(1, TRUE) EXCEPT !.fit = FALSE]>>
Mouse == <<Iface(FALSE), Ep(1, TRUE)>>
Combo == <<Iface(TRUE), Ep(1, TRUE), Iface(FALSE), Ep(2, TRUE), Iface(TRUE), Ep(3, FALSE), Ep(4, TRUE), Ep(5, TRUE),
           Iface(FALSE), Ep(6, TRUE)>>
Load(p, c, f) == [presses |-> p, changes |-> c, faults |-> f]
Usb == INSTANCE Xhci WITH Buses <- {<<"none", Keyboard>>, <<Mouse, Combo>>, <<Tiny>>}, EvLen <- 3, Budget <- 2,
         RingLast <- [cmd |-> 2, ep0 |-> 18, intr |-> 2], Keys <- {"a", "b"}, Slots <- 1,
         Loads <- {Load(2, 0, 1), Load(3, 0, 0), Load(1, 1, 0)}

\* Two controllers: the radio behind either, none, an absent or a foreign one.
BtIface(b) == [t |-> "iface", bt |-> b, intr |-> FALSE, mps |-> 0]
BtEp(i, m) == [t |-> "ep", bt |-> FALSE, intr |-> i, mps |-> m]
Plugged(m, c) == [plug |-> TRUE, mps |-> m, cfg |-> c]
Nothing == [plug |-> FALSE, mps |-> FALSE, cfg |-> << >>]
Pointer == Plugged(FALSE, <<BtIface(FALSE), BtEp(TRUE, 8)>>)
Radio == Plugged(TRUE, <<BtIface(TRUE), BtEp(FALSE, 64), BtEp(TRUE, 16), BtIface(FALSE), BtEp(TRUE, 8)>>)
NoSize == Plugged(FALSE, <<BtIface(TRUE), BtEp(TRUE, 0)>>)
Ctrl(id, s, p) == [id |-> id, starts |-> s, ports |-> p]
Bt == INSTANCE Bluetooth WITH RingLast <- 4, Faults <- 2, Changes <- 1,
        Machines <- {<<Ctrl("live", TRUE, <<Nothing, Pointer>>), Ctrl("live", TRUE, <<Radio>>)>>,
                     <<Ctrl("live", TRUE, <<Pointer, Radio>>), Ctrl("foreign", FALSE, << >>)>>,
                     <<Ctrl("absent", FALSE, << >>), Ctrl("foreign", TRUE, << >>)>>,
                     <<Ctrl("absent", FALSE, << >>), Ctrl("absent", FALSE, << >>)>>,
                     <<Ctrl("live", TRUE, <<NoSize>>), Ctrl("live", FALSE, << >>)>>}

\* A firmware of a patch in two chunks and a region that is skipped, and none;
\* the access point's name with its passphrase or another, and another name.
Region(c, s) == [chunks |-> c, skip |-> s]
Network(s, p) == [ssid |-> s, psk |-> p]
Radios == INSTANCE Wifi WITH RingN <- 3, SeqMax <- 3, Faults <- 2, Events <- 2,
            Images <- {[pick |-> TRUE, patch |-> <<Region(2, FALSE)>>, ram |-> <<Region(1, TRUE), Region(1, FALSE)>>],
                       [pick |-> FALSE, patch |-> << >>, ram |-> << >>]},
            Posts <- 2, AirMax <- 3, Ap <- Network("home", "right"),
            Networks <- {Network("home", "right"), Network("home", "wrong"), Network("away", "right")}

-----------------------------------------------------------------------------
Init == \/ part = "e1000e" /\ Eth!Init
        \/ part = "genet" /\ Eth!GenetInit
        \/ part = "ahci" /\ Sata!Init
        \/ part = "emmc2" /\ Sd!Init
        \/ part = "nvme" /\ Ssd!Init
        \/ part = "virtio" /\ Virtio!Init
        \/ part = "xhci" /\ Usb!Init
        \/ part = "bluetooth" /\ Bt!Init
        \/ part = "mac" /\ Radios!Init
        \/ part = "join" /\ Radios!JoinInit
Next == \/ part = "e1000e" /\ Eth!Next /\ UNCHANGED part
        \/ part = "genet" /\ Eth!GenetNext /\ UNCHANGED part
        \/ part = "ahci" /\ Sata!Next /\ UNCHANGED part
        \/ part = "emmc2" /\ Sd!Next /\ UNCHANGED part
        \/ part = "nvme" /\ Ssd!Next /\ UNCHANGED part
        \/ part = "virtio" /\ Virtio!Next /\ UNCHANGED part
        \/ part = "xhci" /\ Usb!Next /\ UNCHANGED part
        \/ part = "bluetooth" /\ Bt!Next /\ UNCHANGED part
        \/ part = "mac" /\ Radios!Next /\ UNCHANGED part
        \/ part = "join" /\ Radios!JoinNext /\ UNCHANGED part

\* What is scheduled in every part: the driver, and the devices and neighbours
\* whose progress each module's own fairness asks for.
Steps == \/ part = "e1000e" /\ Eth!Driver
         \/ part = "ahci" /\ Sata!Steps
         \/ part = "emmc2" /\ Sd!Steps
         \/ part = "nvme" /\ Ssd!Steps
         \/ part = "virtio" /\ Virtio!Prompt
         \/ part = "xhci" /\ Usb!Steps
         \/ part = "bluetooth" /\ Bt!Steps
         \/ part = "mac" /\ Radios!Steps
         \/ part = "join" /\ Radios!JoinSteps
Others == \/ part = "e1000e" /\ Eth!Sends
          \/ part = "virtio" /\ Virtio!DeviceWorks
          \/ part = "xhci" /\ Usb!Device
          \/ part = "bluetooth" /\ Bt!Device
          \/ part = "mac" /\ Radios!Device
          \/ part = "join" /\ Radios!AccessPoint
Interrupts == part = "e1000e" /\ Eth!Interrupts
Takes == part = "e1000e" /\ Eth!Virt
Sleeps == part = "e1000e" /\ Eth!Rests
Signals(side) == part = "e1000e" /\ Eth!Tells(side)
Same == UNCHANGED part
Spec == /\ Init /\ [][Next]_v
        /\ WF_v(Steps /\ Same) /\ WF_v(Others /\ Same) /\ WF_v(Interrupts /\ Same) /\ WF_v(Takes /\ Same)
        /\ WF_v(Sleeps /\ Same) /\ \A side \in {"tx", "rx"} : WF_v(Signals(side) /\ Same)

-----------------------------------------------------------------------------
\* Type correctness of every part.
TypeOK == CASE part = "e1000e" -> Eth!TypeOK [] part = "genet" -> Eth!GenetTypeOK [] part = "ahci" -> Sata!TypeOK
            [] part = "emmc2" -> Sd!TypeOK [] part = "nvme" -> Ssd!TypeOK [] part = "virtio" -> Virtio!TypeOK
            [] part = "xhci" -> Usb!TypeOK [] part = "bluetooth" -> Bt!TypeOK [] part = "mac" -> Radios!TypeOK
            [] part = "join" -> Radios!JoinTypeOK

\* A descriptor or request is in one place and in order from submit to completion:
\* rings are written only where the device is done and only in a device that is
\* set up, and requests are answered once (Ethernet, Ahci, VirtioBlk, Wifi).  Of the
\* free queue that e1000e and the virtualiser both write only until their stores meet,
\* and of virtio only until a failed request ends the driver.
RingsKept == CASE part = "e1000e" -> Eth!EnabledIsReady /\ Eth!TransmitRing /\ Eth!ReceiveRing
               [] part = "genet" -> Eth!GenetTransmitRing /\ Eth!GenetReceiveRing
               [] part = "ahci" -> Sata!InOrder
               [] part = "virtio" -> Virtio!OnePlace
               [] part = "mac" -> Radios!RxOwned [] OTHER -> TRUE


\* The AHCI driver writes the disk and the shared region only where the request in
\* hand asks, also after a timeout or an error in the middle of it; a port that would
\* not stop may still write the sectors of the write it was given up with, and has
\* the shared region open.
OnlyAsked == [][part = "ahci" => Sata!OnlyAsked]_v

\* A conversation with a controller or a peer ends in the verdict that it earned: an
\* answer is that of the last question, also after one that came late; the keyboard
\* is set up or USB is given up, and a press is typed once; the Bluetooth probe has
\* one controller running, but for one that would not halt, and reports the furthest
\* stage reached; the firmware's semaphore, once its grant is read, is given back; the
\* two ends of an association hold the same key, no packet number is used twice, and
\* the last key posted is the one tried (Xhci, Bluetooth, Wifi).
Concludes ==
  CASE part = "xhci" -> Usb!RightAnswer /\ Usb!KeyboardOrNothing /\ Usb!TypedOnce /\ Usb!ChangesSeen
    [] part = "bluetooth" -> Bt!RightAnswer /\ Bt!OneMaster /\ Bt!Verdict /\ Bt!Furthest
    [] part = "mac" -> Radios!RightAnswer /\ Radios!SemGivenBack
    [] part = "join" -> Radios!KeysAgree /\ Radios!NonceFresh /\ Radios!LastKeyTried [] OTHER -> TRUE

Busy == CASE part = "e1000e" -> Eth!Busy [] part = "ahci" -> Sata!Busy [] part = "emmc2" -> Sd!Busy
          [] part = "nvme" -> Ssd!Busy [] part = "virtio" -> Virtio!Busy [] part = "genet" -> FALSE
          [] part = "xhci" -> Usb!Busy [] part = "bluetooth" -> Bt!Busy [] part = "mac" -> Radios!Busy
          [] part = "join" -> Radios!Joining

\* Work does not lie: what is queued is taken, what arrived is published, a request
\* is answered although the device may never be, hello's read completes, and a probe
\* or an association comes to its end.  genet has nothing to wait for here: its loops
\* are those of e1000e.
Served == []<>~Busy
=============================================================================
