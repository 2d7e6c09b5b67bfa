-------------------------------- MODULE Ahci --------------------------------
(***************************************************************************)
(* sddf-ahci-driver: one SATA port behind the sDDF block queues.  The      *)
(* driver moves a request through its bounce buffer chunk by chunk and     *)
(* polls for each command; the adapter (external) completes a command,     *)
(* fails it, or never answers.  Lengths count 512-byte sectors.            *)
(***************************************************************************)
EXTENDS Integers, Sequences, FiniteSets, SequencesExt

CONSTANTS Sectors,     \* size of the disk
          SecPerBlock, \* sectors of a transfer block
          BounceLen,   \* sectors of the bounce buffer
          DataLen,     \* sectors of the shared data region
          Requests,    \* [id, op, off, block, count]: what may be asked
          Total,       \* requests asked in one behaviour
          QueueLen     \* entries of each queue, and requests outstanding

VARIABLES dev,         \* the adapter and the disk
          drv,         \* Engine and the handler's place
          q            \* shared queues, data region and notifications

vars == <<dev, drv, q>>

Idle == [op |-> "none", lba |-> 0, n |-> 0]
NoReq == [id |-> 0, op |-> "flush", off |-> 0, block |-> 0, count |-> 0]
Disk0 == [s \in 0 .. Sectors - 1 |-> <<"disk", s>>]
Data0 == [s \in 0 .. DataLen - 1 |-> <<"data", s>>]

Init ==
  /\ dev = [set |-> {}, st |-> FALSE, cr |-> FALSE, ci |-> Idle, late |-> Idle, tfd |-> "ok", is |-> FALSE, masked |-> TRUE,
            disk |-> Disk0, bounce |-> [i \in 0 .. BounceLen - 1 |-> <<"zero", 0>>]]
  /\ drv = [pc |-> "claim", cap |-> 0, req |-> NoReq, done |-> 0, cmd |-> Idle, status |-> "ok",
            gaveUp |-> FALSE]
  /\ q = [reqs |-> << >>, resps |-> << >>, data |-> Data0, badge |-> {}, asked |-> 0, owed |-> << >>]

Goto(pc) == [drv EXCEPT !.pc = pc]

-----------------------------------------------------------------------------
(* Engine::open up to the first command; a stage that fails ends the domain. *)

Stages == [claim |-> "program", program |-> "reset", reset |-> "lists", lists |-> "start", start |-> "irqs"]

Open ==
  /\ drv.pc \in DOMAIN Stages
  /\ \/ /\ dev' = IF drv.pc = "start" THEN [dev EXCEPT !.st = TRUE, !.cr = TRUE] ELSE [dev EXCEPT !.set = @ \cup {drv.pc}]
        /\ drv' = Goto(Stages[drv.pc])
     \/ drv' = Goto("dead") /\ UNCHANGED dev
  /\ UNCHANGED q

\* The table entry and header of the one command slot.
build_command(op, lba, n) == [op |-> op, lba |-> lba, n |-> n]

Identify ==
  /\ drv.pc = "irqs"
  /\ drv' = [drv EXCEPT !.pc = "dma", !.cmd = build_command("identify", 0, 1)]
  /\ UNCHANGED <<dev, q>>

-----------------------------------------------------------------------------
(* run_dma: one command in slot 0.                                          *)

\* The port is started if it does not run; one that would not stop is used as it is.
run_dma ==
  /\ drv.pc = "dma"
  /\ \/ /\ dev' = [dev EXCEPT !.st = (@ \/ ~dev.cr), !.cr = TRUE, !.ci = drv.cmd]
        /\ drv' = Goto("poll")
     \/ ~dev.cr /\ drv' = Goto("failed") /\ UNCHANGED dev
  /\ UNCHANGED q

\* Mutant: the error bit of the task file is not read.
poll_pxciMutant ==
  /\ drv.pc = "poll"
  /\ \/ dev.ci = Idle /\ drv' = Goto("moved") /\ UNCHANGED dev
     \/ /\ dev.ci # Idle \/ dev.tfd = "busy"
        /\ drv' = Goto("stop") /\ UNCHANGED dev
  /\ UNCHANGED q

\* The poll ends well, in an error, with the device busy, or runs out.
poll_pxci ==
  /\ drv.pc = "poll"
  /\ \/ /\ dev.ci = Idle /\ dev.tfd # "busy"
        /\ drv' = Goto(IF dev.tfd = "error" THEN "failed" ELSE "moved")
     \/ (dev.ci # Idle \/ dev.tfd = "busy") /\ drv' = Goto("stop")
  /\ UNCHANGED <<dev, q>>

\* The port stops and drops its command; or it still runs when the wait is over,
\* which nobody is told, and the adapter keeps the command that it has fetched.
stop_port ==
  /\ drv.pc = "stop"
  /\ \/ /\ dev' = [dev EXCEPT !.st = FALSE, !.cr = FALSE, !.ci = Idle, !.late = Idle]
        /\ drv' = Goto("failed")
     \/ /\ dev' = [dev EXCEPT !.st = FALSE, !.late = IF dev.ci = Idle THEN @ ELSE dev.ci]
        /\ drv' = [drv EXCEPT !.pc = "failed", !.gaveUp = TRUE]
  /\ UNCHANGED q

\* The adapter (external): the whole of a command, with what the bounce buffer holds
\* by then, or an error with nothing moved; a port told to stop stops late.
Execute ==
  /\ dev.cr
  /\ \/ \E c \in {dev.ci, dev.late} \ {Idle} :
          \/ \E t \in {"error", "busy"} : dev' = [dev EXCEPT !.ci = Idle, !.late = Idle, !.tfd = t, !.is = TRUE]
          \/ dev' = [dev EXCEPT !.ci = Idle, !.late = Idle, !.tfd = "ok", !.is = TRUE,
               !.bounce = CASE c.op = "read" -> [i \in DOMAIN @ |-> IF i < c.n THEN dev.disk[c.lba + i] ELSE @[i]]
                            [] c.op = "identify" -> [@ EXCEPT ![0] = <<"size", Sectors>>]
                            [] OTHER -> @,
               !.disk = IF c.op = "write"
                        THEN [s \in DOMAIN @ |-> IF s \in c.lba .. c.lba + c.n - 1
                                                 THEN dev.bounce[s - c.lba] ELSE @[s]]
                        ELSE @]
     \/ ~dev.st /\ dev' = [dev EXCEPT !.cr = FALSE, !.ci = Idle, !.late = Idle]
  /\ UNCHANGED <<drv, q>>

\* identify_device, publish_storage and the acknowledgements of init.
Ready ==
  /\ drv.cmd.op = "identify"
  /\ \/ /\ drv.pc = "moved"
        /\ drv' = [drv EXCEPT !.pc = "idle", !.cap = dev.bounce[0][2] \div SecPerBlock, !.cmd = Idle]
        /\ dev' = [dev EXCEPT !.is = FALSE, !.masked = FALSE]
     \/ drv.pc = "failed" /\ drv' = Goto("dead") /\ UNCHANGED dev
  /\ UNCHANGED q

-----------------------------------------------------------------------------
(* notified, serve and transfer.                                            *)

Notified ==
  /\ drv.pc = "idle" /\ q.badge # {}
  /\ dev' = IF "irq" \in q.badge THEN [dev EXCEPT !.is = FALSE, !.masked = FALSE] ELSE dev
  /\ drv' = Goto(IF "virt" \in q.badge THEN "serve" ELSE "idle")
  /\ q' = [q EXCEPT !.badge = {}]

\* Mutant: the check forgets how many blocks are asked for.
InvalidMutant(r) ==
  r.count = 0 \/ r.off + r.count * SecPerBlock > DataLen \/ r.block > drv.cap

Invalid(r) ==
  r.count = 0 \/ r.off + r.count * SecPerBlock > DataLen \/ r.block + r.count > drv.cap

Serve ==
  /\ drv.pc = "serve"
  /\ IF q.reqs = << >> THEN drv' = Goto("idle") /\ UNCHANGED q
     ELSE LET r == Head(q.reqs) IN
       /\ q' = [q EXCEPT !.reqs = Tail(@)]
       /\ drv' = IF r.op = "flush" THEN [drv EXCEPT !.pc = "respond", !.req = r, !.status = "ok"]
                 ELSE IF Invalid(r) THEN [drv EXCEPT !.pc = "respond", !.req = r, !.status = "invalid"]
                 ELSE [drv EXCEPT !.pc = "chunk", !.req = r, !.done = 0]
  /\ UNCHANGED dev

Least(a, b) == IF a < b THEN a ELSE b
Length(r) == r.count * SecPerBlock
Start(r) == r.block * SecPerBlock

\* Mutant: every chunk is taken from the first sector.
ChunkMutant ==
  /\ drv.pc = "chunk"
  /\ LET n == Least(Length(drv.req) - drv.done, BounceLen) IN
     /\ drv' = IF n = 0 THEN [drv EXCEPT !.pc = "respond", !.status = "ok"]
               ELSE [drv EXCEPT !.pc = "dma",
                                !.cmd = build_command(drv.req.op, Start(drv.req), n)]
     /\ dev' = IF n > 0 /\ drv.req.op = "write"
               THEN [dev EXCEPT !.bounce = [i \in DOMAIN @ |->
                       IF i < n THEN q.data[drv.req.off + drv.done + i] ELSE @[i]]]
               ELSE dev
  /\ UNCHANGED q

\* The loop of Engine::transfer; a write fills the bounce buffer first.
Chunk ==
  /\ drv.pc = "chunk"
  /\ LET n == Least(Length(drv.req) - drv.done, BounceLen) IN
     /\ drv' = IF n = 0 THEN [drv EXCEPT !.pc = "respond", !.status = "ok"]
               ELSE [drv EXCEPT !.pc = "dma",
                                !.cmd = build_command(drv.req.op, Start(drv.req) + drv.done, n)]
     /\ dev' = IF n > 0 /\ drv.req.op = "write"
               THEN [dev EXCEPT !.bounce = [i \in DOMAIN @ |->
                       IF i < n THEN q.data[drv.req.off + drv.done + i] ELSE @[i]]]
               ELSE dev
  /\ UNCHANGED q

\* The rest of move_chunk: a read copies out only after the command succeeded.
Moved ==
  /\ drv.cmd.op \in {"read", "write"}
  /\ \/ /\ drv.pc = "moved"
        /\ drv' = [drv EXCEPT !.pc = "chunk", !.done = @ + drv.cmd.n]
        /\ q' = IF drv.cmd.op = "write" THEN q
                ELSE [q EXCEPT !.data = [s \in DOMAIN @ |->
                        IF s - drv.req.off - drv.done \in 0 .. drv.cmd.n - 1
                        THEN dev.bounce[s - drv.req.off - drv.done] ELSE @[s]]]
     \/ /\ drv.pc = "failed"
        /\ drv' = [drv EXCEPT !.pc = "respond", !.status = "io"] /\ UNCHANGED q
  /\ UNCHANGED dev

Respond ==
  /\ drv.pc = "respond"
  /\ IF Len(q.resps) = QueueLen THEN drv' = Goto("idle") /\ UNCHANGED q
     ELSE /\ drv' = Goto("serve")
          /\ q' = [q EXCEPT !.resps = Append(@, drv.req.id)]
  /\ UNCHANGED dev

-----------------------------------------------------------------------------
(* The virtualiser (BlkVirt of FsSystem): asks, and takes answers in order. *)

Ask ==
  /\ q.asked < Total /\ Len(q.owed) < QueueLen
  /\ \E r \in Requests :
       q' = [q EXCEPT !.reqs = Append(@, [r EXCEPT !.id = q.asked + 1]), !.asked = @ + 1,
                      !.owed = Append(@, q.asked + 1), !.badge = @ \cup {"virt"}]
  /\ UNCHANGED <<dev, drv>>

Take ==
  /\ q.resps # << >>
  /\ q' = [q EXCEPT !.resps = Tail(@), !.owed = Tail(@)] /\ UNCHANGED <<dev, drv>>

Interrupt ==
  /\ dev.is /\ ~dev.masked
  /\ dev' = [dev EXCEPT !.masked = TRUE] /\ q' = [q EXCEPT !.badge = @ \cup {"irq"}]
  /\ UNCHANGED drv

Driver == Open \/ Identify \/ run_dma \/ poll_pxci \/ stop_port \/ Ready \/ Notified \/ Serve \/ Chunk \/ Moved \/ Respond
Steps == Driver \/ Take
Next == Steps \/ Ask \/ Execute \/ Interrupt
Spec == Init /\ [][Next]_vars /\ WF_vars(Steps)

-----------------------------------------------------------------------------
\* The port, the queues and the request in hand stay in range.
TypeOK ==
  /\ drv.pc \in DOMAIN Stages \cup {"irqs", "dma", "poll", "stop", "moved", "failed", "idle", "serve", "chunk",
                                    "respond", "dead"}
  /\ drv.cap \in 0 .. Sectors /\ drv.done \in 0 .. DataLen /\ drv.status \in {"ok", "invalid", "io"}
  /\ q.badge \subseteq {"irq", "virt"} /\ DOMAIN dev.disk = DOMAIN Disk0 /\ DOMAIN q.data = DOMAIN Data0


\* A step writes only where the request in hand asks: the disk within a write's
\* blocks with the data at its offset, the data region within a read's.  After a
\* port that would not stop, the contents are open, and the disk may also change
\* in the sectors of the write that was given up.
OnlyAsked ==
  LET r == drv.req
      c == dev.late IN
  /\ \A s \in DOMAIN dev.disk : dev'.disk[s] # dev.disk[s] =>
       \/ /\ r.op = "write" /\ s - Start(r) \in 0 .. Length(r) - 1
          /\ drv.gaveUp \/ dev'.disk[s] = q.data[r.off + s - Start(r)]
       \/ c.op = "write" /\ s - c.lba \in 0 .. c.n - 1
  /\ \A s \in DOMAIN q.data : q'.data[s] # q.data[s] =>
       /\ r.op = "read" /\ s - r.off \in 0 .. Length(r) - 1
       /\ drv.gaveUp \/ q'.data[s] = dev.disk[Start(r) + s - r.off]

\* Requests are answered once each and in the order they were asked.
InOrder == IsPrefix(q.resps, q.owed)

\* Something is asked for and not yet answered by a driver that is up.
Busy == drv.pc \notin {"idle", "dead"} \/ (drv.pc = "idle" /\ q.owed # << >>)
=============================================================================
