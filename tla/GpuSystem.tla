----------------------------- MODULE GpuSystem ------------------------------
(***************************************************************************)
(* The graphics path: show_page and submit of the shell, the graphics      *)
(* virtualiser and the virtio graphics driver with its one resource.  The  *)
(* three domains interleave freely; a queue operation, a copy or a         *)
(* notification is one step.  A cell of the shared data region, of a       *)
(* resource's backing or of the screen holds one pixel.                    *)
(***************************************************************************)
EXTENDS Integers, Sequences

CONSTANTS Capacity,           \* entries of each queue
          NoteSlots, Ids,     \* slots of notes; modulus of the request ids
          Width, Height,      \* of a page; the data region holds exactly one page
          Page,               \* the pages, positive numbers
          MaxResources, DmaCells, RegionCells,
          Lone                \* requests that no page needs, each sent by itself

\* A request as the protocol's structures hold it; the virtualiser refuses a blob.
Rect == [x : Nat, y : Nat, w : Nat, h : Nat]
WellFormed(r) ==
  /\ r.res \in Nat
  /\ CASE r.code = "display_info" -> r.arg \in Nat
       [] r.code \in {"create", "attach"} -> r.arg \in Nat \X Nat
       [] r.code = "scanout" -> r.arg \in Nat \X Rect
       [] r.code = "transfer" -> r.arg \in Rect \X Nat
       [] r.code = "flush" -> r.arg \in Rect
       [] OTHER -> r.code \in {"detach", "unref", "blob"}

\* Queues and notes have room, a page has cells, and ids go round.
ASSUME GpuAssumption ==
  /\ Capacity \in Nat \ {0} /\ NoteSlots \in Nat \ {0} /\ Ids \in Nat \ {0, 1}
  /\ Width \in Nat \ {0} /\ Height \in Nat \ {0} /\ Page \subseteq Nat \ {0}
  /\ MaxResources \in Nat /\ DmaCells \in Nat /\ RegionCells \in Nat
  /\ \A r \in Lone : WellFormed(r)

DataCells == Width * Height
Blank == 0
Info == -1                    \* the display information, one cell long
None == [id |-> 0]
NoTransfer == << >>
NoNote == [code |-> "none", off |-> 0, live |-> FALSE]   \* what a dead note holds is not read

VARIABLES queue, client, virt, driver,
          data,               \* the client data region, mapped by all three
          event               \* the driver's and the client's event word

vars == <<queue, client, virt, driver, data, event>>

Empty(x) == queue[x] = << >>
Full(x) == Len(queue[x]) = Capacity

Init ==
  /\ queue = [x \in {"creq", "cresp", "dreq", "dresp"} |-> << >>]
  /\ client = [pc |-> "idle", badge |-> FALSE, sticky |-> FALSE, script |-> << >>, id |-> 1,
               page |-> 0, shown |-> 0]
  /\ virt = [pc |-> "recv", badge |-> FALSE, moved |-> FALSE, hand |-> << >>,
             notes |-> [s \in 0 .. NoteSlots - 1 |-> NoNote]]
  /\ driver = [pc |-> "recv", badge |-> FALSE, hand |-> << >>, status |-> "ok", resource |-> None,
               screen |-> << >>, info |-> Blank]
  /\ data = [i \in 0 .. DataCells - 1 |-> Blank]
  /\ event = [driver |-> FALSE, client |-> FALSE]

-----------------------------------------------------------------------------
(* The shell: its worker in show_page, and its root.                        *)

Whole == [x |-> 0, y |-> 0, w |-> Width, h |-> Height]
Request(code, arg) == [code |-> code, res |-> 1, arg |-> arg]

\* show_page and present_page; "frame" stands for copy_frame.
PageScript ==
  << Request("display_info", 0), Request("frame", 0), Request("create", <<Width, Height>>),
     Request("attach", <<0, DataCells>>), Request("scanout", <<0, Whole>>),
     Request("transfer", <<Whole, 0>>), Request("flush", Whole) >>

ShowPage(p) ==
  /\ client.pc = "idle"
  /\ client' = [client EXCEPT !.pc = "submit", !.script = PageScript, !.page = p, !.shown = 0]
  /\ UNCHANGED <<queue, virt, driver, data, event>>

\* The driver answers requests that no client of the repository makes (detach,
\* unref, other sizes and offsets); a client sends one of them between two pages.
SendLone(r) ==
  /\ client.pc = "idle"
  /\ client' = [client EXCEPT !.pc = "submit", !.script = <<r>>, !.page = 0, !.shown = 0]
  /\ UNCHANGED <<queue, virt, driver, data, event>>

CopyFrame ==
  /\ client.pc = "submit" /\ Head(client.script).code = "frame"
  /\ data' = [i \in DOMAIN data |-> client.page]
  /\ client' = [client EXCEPT !.script = Tail(@)]
  /\ UNCHANGED <<queue, virt, driver, event>>

\* submit: the request on the queue, or an error that ends the page ...
Submit ==
  /\ client.pc = "submit" /\ Head(client.script).code # "frame"
  /\ IF Full("creq")
       THEN client' = [client EXCEPT !.pc = "idle", !.script = << >>, !.id = (@ + 1) % Ids] /\ UNCHANGED queue
       ELSE /\ client' = [client EXCEPT !.pc = "notify"]
            /\ queue' = [queue EXCEPT !["creq"] = Append(@, [id |-> client.id, req |-> Head(client.script)])]
  /\ UNCHANGED <<virt, driver, data, event>>

\* ... the virtualiser is notified ...
SubmitNotify ==
  /\ client.pc = "notify"
  /\ virt' = [virt EXCEPT !.badge = TRUE] /\ client' = [client EXCEPT !.pc = "wait"]
  /\ UNCHANGED <<queue, driver, data, event>>

\* ... and one wait on GPU_CH is followed by one dequeue.
SubmitWait ==
  /\ client.pc = "wait" /\ client.sticky
  /\ client' = [client EXCEPT !.pc = "take", !.sticky = FALSE]
  /\ UNCHANGED <<queue, virt, driver, data, event>>

\* on_notify of the root, which runs while the worker is blocked.
OnNotify ==
  /\ client.pc \in {"idle", "wait"} /\ client.badge
  /\ client' = [client EXCEPT !.badge = FALSE, !.sticky = TRUE]
  /\ UNCHANGED <<queue, virt, driver, data, event>>

SubmitTake ==
  /\ client.pc = "take"
  /\ queue' = [queue EXCEPT !["cresp"] = IF @ = << >> THEN @ ELSE Tail(@)]
  /\ LET good == /\ ~Empty("cresp") /\ Head(queue["cresp"]).id = client.id
                 /\ Head(queue["cresp"]).status = "ok"
         rest == IF good THEN Tail(client.script) ELSE << >>
     IN client' = [client EXCEPT !.pc = IF rest = << >> THEN "idle" ELSE "submit", !.script = rest,
                                 !.id = (@ + 1) % Ids,
                                 !.shown = IF good /\ rest = << >> THEN client.page ELSE 0]
  /\ UNCHANGED <<virt, driver, data, event>>

-----------------------------------------------------------------------------
(* The virtualiser: pump moves responses, then requests, then the event,    *)
(* until a round moves nothing.                                             *)

VirtAt(point) == virt.pc = point
Put(x, v) == queue' = [queue EXCEPT ![x] = Append(@, v)]
NoteOf(id) == virt.notes[id % NoteSlots]

VirtNotified ==
  /\ VirtAt("recv") /\ virt.badge
  /\ virt' = [virt EXCEPT !.pc = "responses", !.badge = FALSE, !.moved = FALSE]
  /\ UNCHANGED <<queue, client, driver, data, event>>

ForwardResponses ==
  /\ VirtAt("responses")
  /\ IF Full("cresp") \/ Empty("dresp")
       THEN virt' = [virt EXCEPT !.pc = "requests"] /\ UNCHANGED queue
       ELSE /\ virt' = [virt EXCEPT !.pc = "copy", !.hand = Head(queue["dresp"])]
            /\ queue' = [queue EXCEPT !["dresp"] = Tail(@)]
  /\ UNCHANGED <<client, driver, data, event>>

\* copy_display, for a response to a noted request for the display information.
Displayed ==
  LET note == NoteOf(virt.hand.id)
  IN IF /\ note.live /\ note.code = "display_info" /\ virt.hand.status = "ok"
        /\ note.off < RegionCells
       THEN [data EXCEPT ![note.off] = driver.info] ELSE data
Unnoted == [virt.notes EXCEPT ![virt.hand.id % NoteSlots] = NoNote]

\* Mutant: the response is passed on before the display information is copied.
CopyDisplayLate ==
  \/ /\ VirtAt("copy") /\ Put("cresp", virt.hand)
     /\ virt' = [virt EXCEPT !.pc = "late"] /\ client' = [client EXCEPT !.badge = TRUE]
     /\ UNCHANGED <<driver, data, event>>
  \/ /\ VirtAt("late") /\ data' = Displayed
     /\ virt' = [virt EXCEPT !.pc = "responses", !.moved = TRUE, !.notes = Unnoted]
     /\ UNCHANGED <<queue, client, driver, event>>

\* forward_responses goes on: the copy, and the note is used up.
CopyDisplay ==
  /\ VirtAt("copy") /\ data' = Displayed
  /\ virt' = [virt EXCEPT !.pc = "deliver", !.notes = Unnoted]
  /\ UNCHANGED <<queue, client, driver, event>>

DeliverResponse ==
  /\ VirtAt("deliver") /\ Put("cresp", virt.hand)
  /\ virt' = [virt EXCEPT !.pc = "notify_client", !.hand = << >>]
  /\ UNCHANGED <<client, driver, data, event>>

NotifyClient ==
  /\ virt.pc \in {"notify_client", "notify_rejected"}
  /\ client' = [client EXCEPT !.badge = TRUE]
  /\ virt' = [virt EXCEPT !.moved = TRUE,
                          !.pc = IF VirtAt("notify_client") THEN "responses" ELSE "requests"]
  /\ UNCHANGED <<queue, driver, data, event>>

\* forward_requests: a request for a blob is refused, any other one is noted.
ForwardRequests ==
  /\ VirtAt("requests")
  /\ IF Full("dreq") \/ Empty("creq")
       THEN virt' = [virt EXCEPT !.pc = "events"] /\ UNCHANGED queue
       ELSE LET r == Head(queue["creq"])
                note == [code |-> r.req.code, live |-> TRUE,
                         off |-> IF r.req.code = "display_info" THEN r.req.arg ELSE 0]
            IN /\ queue' = [queue EXCEPT !["creq"] = Tail(@)]
               /\ virt' = IF r.req.code = "blob"
                            THEN [virt EXCEPT !.pc = "reject", !.hand = r]
                            ELSE [virt EXCEPT !.pc = "forward", !.hand = r,
                                              !.notes[r.id % NoteSlots] = note]
  /\ UNCHANGED <<client, driver, data, event>>

\* Mutant: the driver is notified of the first request of a round only.
ForwardRequestMute ==
  /\ VirtAt("forward") /\ Put("dreq", virt.hand)
  /\ virt' = [virt EXCEPT !.pc = IF virt.moved THEN "requests" ELSE "notify_driver", !.hand = << >>,
                          !.moved = TRUE]
  /\ UNCHANGED <<client, driver, data, event>>

ForwardRequest ==
  /\ VirtAt("forward") /\ Put("dreq", virt.hand)
  /\ virt' = [virt EXCEPT !.pc = "notify_driver", !.hand = << >>, !.moved = TRUE]
  /\ UNCHANGED <<client, driver, data, event>>

NotifyDriver ==
  /\ VirtAt("notify_driver")
  /\ driver' = [driver EXCEPT !.badge = TRUE] /\ virt' = [virt EXCEPT !.pc = "requests"]
  /\ UNCHANGED <<queue, client, data, event>>

\* reject_blob: the refusal is dropped when the response queue is full.
RejectBlob ==
  /\ VirtAt("reject")
  /\ IF Full("cresp")
       THEN virt' = [virt EXCEPT !.pc = "requests", !.moved = TRUE] /\ UNCHANGED queue
       ELSE /\ Put("cresp", [id |-> virt.hand.id, status |-> "param"])
            /\ virt' = [virt EXCEPT !.pc = "notify_rejected", !.hand = << >>]
  /\ UNCHANGED <<client, driver, data, event>>

\* forward_events: look, set the client's word, clear the driver's; then pump
\* goes round again if anything moved.
NextRound == [virt EXCEPT !.pc = IF virt.moved THEN "responses" ELSE "recv", !.moved = FALSE]

CheckEvents ==
  /\ VirtAt("events")
  /\ virt' = IF event.driver THEN [virt EXCEPT !.pc = "set_event"] ELSE NextRound
  /\ UNCHANGED <<queue, client, driver, data, event>>

SetEvent ==
  /\ VirtAt("set_event")
  /\ event' = [event EXCEPT !.client = TRUE] /\ virt' = [virt EXCEPT !.pc = "clear_event"]
  /\ UNCHANGED <<queue, client, driver, data>>

ClearEvent ==
  /\ VirtAt("clear_event") /\ event' = [event EXCEPT !.driver = FALSE] /\ virt' = NextRound
  /\ UNCHANGED <<queue, client, driver, data>>

-----------------------------------------------------------------------------
(* The driver: service takes a request, handles it and answers it.          *)

DriverAt(point) == driver.pc = point

\* The device's interrupt, acknowledged and followed by service.  The badge is
\* read between handlers only, so one that comes earlier is one that comes here.
Interrupt ==
  /\ DriverAt("recv") /\ ~driver.badge /\ driver' = [driver EXCEPT !.badge = TRUE]
  /\ UNCHANGED <<queue, client, virt, data, event>>

DriverNotified ==
  /\ DriverAt("recv") /\ driver.badge
  /\ driver' = [driver EXCEPT !.pc = "service", !.badge = FALSE]
  /\ UNCHANGED <<queue, client, virt, data, event>>

Service ==
  /\ DriverAt("service")
  /\ IF Full("dresp") \/ Empty("dreq")
       THEN driver' = [driver EXCEPT !.pc = "recv"] /\ UNCHANGED queue
       ELSE /\ driver' = [driver EXCEPT !.pc = "handle", !.hand = Head(queue["dreq"])]
            /\ queue' = [queue EXCEPT !["dreq"] = Tail(@)]
  /\ UNCHANGED <<client, virt, data, event>>

Respond ==
  /\ DriverAt("respond") /\ Put("dresp", [id |-> driver.hand.id, status |-> driver.status])
  /\ driver' = [driver EXCEPT !.pc = "notify", !.hand = << >>, !.status = "ok"]
  /\ UNCHANGED <<client, virt, data, event>>

NotifyVirt ==
  /\ DriverAt("notify")
  /\ virt' = [virt EXCEPT !.badge = TRUE] /\ driver' = [driver EXCEPT !.pc = "service"]
  /\ UNCHANGED <<queue, client, data, event>>

Req == driver.hand.req
Handling(code) == DriverAt("handle") /\ Req.code = code

\* One request handled: its code, the status, and what it changes of the
\* driver's state.  ok is the outcome of the device calls it makes.
Handles(code, status, changes) ==
  /\ Handling(code)
  /\ driver' = [changes EXCEPT !.pc = "respond", !.status = status]
  /\ UNCHANGED <<queue, client, virt, data>>

Res == driver.resource
Known == Res # None /\ Res.id = Req.res
Inside(rect, w, h) == rect.w > 0 /\ rect.h > 0 /\ rect.x + rect.w <= w /\ rect.y + rect.h <= h
Cells(rect) == rect.w * rect.h

DisplayInfo(ok) ==
  LET status == IF ~ok THEN "unspec" ELSE IF Req.arg >= RegionCells THEN "bounds" ELSE "ok"
  IN /\ Handles("display_info", status, IF status = "ok" THEN [driver EXCEPT !.info = Info] ELSE driver)
     /\ event' = [event EXCEPT !.driver = @ \/ status = "ok"]

\* change_resolution, a call of the device library: a new, blank framebuffer.
Fresh(w, h) == [i \in 0 .. w * h - 1 |-> Blank]

Create2d(ok) ==
  LET w == Req.arg[1]
      h == Req.arg[2]
      status == CASE Res # None -> "unspec"
                  [] Res = None /\ (Req.res \notin 1 .. MaxResources \/ w * h \notin 1 .. DmaCells) -> "param"
                  [] OTHER -> IF ok THEN "ok" ELSE "unspec"
      new == [id |-> Req.res, w |-> w, h |-> h, off |-> 0, size |-> 0, attached |-> FALSE,
              transfer |-> NoTransfer]
  IN /\ Handles("create", status, IF status = "ok"
                                    THEN [driver EXCEPT !.resource = new, !.screen = Fresh(w, h)] ELSE driver)
     /\ UNCHANGED event

Attach ==
  LET status == CASE ~Known -> "id"
                  [] Known /\ Res.attached -> "unspec"
                  [] Known /\ ~Res.attached /\ Req.arg[2] < Res.w * Res.h -> "param"
                  [] OTHER -> IF Req.arg[1] + Req.arg[2] > DataCells THEN "bounds" ELSE "ok"
  IN /\ Handles("attach", status,
                IF status = "ok" THEN [driver EXCEPT !.resource.off = Req.arg[1],
                                         !.resource.size = Req.arg[2], !.resource.attached = TRUE]
                                 ELSE driver)
     /\ UNCHANGED event

\* Mutant: a detached resource keeps the transfer of its old backing.
DetachKeeps ==
  /\ Handles("detach", IF Known THEN "ok" ELSE "id",
             IF Known THEN [driver EXCEPT !.resource.attached = FALSE] ELSE driver)
  /\ UNCHANGED event

Detach ==
  /\ Handles("detach", IF Known THEN "ok" ELSE "id",
             IF Known THEN [driver EXCEPT !.resource.attached = FALSE, !.resource.transfer = NoTransfer]
                      ELSE driver)
  /\ UNCHANGED event

Scanout ==
  LET status == CASE Req.arg[1] # 0 -> "scanout"
                  [] Req.arg[1] = 0 /\ Req.res = 0 -> "ok"
                  [] Req.arg[1] = 0 /\ Req.res # 0 /\ ~Known -> "id"
                  [] OTHER -> IF Inside(Req.arg[2], Res.w, Res.h) THEN "ok" ELSE "bounds"
  IN Handles("scanout", status, driver) /\ UNCHANGED event

Transfer ==
  LET rect == Req.arg[1]
      end == Res.off + Req.arg[2] + Cells(rect)
      status == CASE ~Known \/ ~Res.attached -> "id"
                  [] OTHER -> IF Inside(rect, Res.w, Res.h) /\ end <= Res.off + Res.size /\ end <= DataCells
                                THEN "ok" ELSE "bounds"
  IN /\ Handles("transfer", status,
                IF status = "ok" THEN [driver EXCEPT !.resource.transfer = Req.arg] ELSE driver)
     /\ UNCHANGED event

\* copy_rect into a new framebuffer.
Painted(rect, origin) ==
  [i \in 0 .. Res.w * Res.h - 1 |->
     LET x == (i % Res.w) - rect.x
         y == (i \div Res.w) - rect.y
     IN IF x \in 0 .. rect.w - 1 /\ y \in 0 .. rect.h - 1
          THEN data[origin + y * rect.w + x] ELSE Blank]

\* flush refuses without touching the device ...
FlushRefused ==
  /\ Handling("flush")
  /\ ~(Known /\ Res.attached /\ Inside(Req.arg, Res.w, Res.h) /\ Res.transfer # NoTransfer)
  /\ Handles("flush", IF ~Known \/ ~Res.attached THEN "id"
                      ELSE IF Inside(Req.arg, Res.w, Res.h) THEN "param" ELSE "bounds", driver)
  /\ UNCHANGED event

\* ... or makes the framebuffer anew, so that only the rectangle of the transfer
\* is painted, whatever rectangle is flushed.  A device call may fail, and
\* copy_rect does when the rectangle leaves the data region.
Flush(ok) ==
  LET rect == Res.transfer[1]
      origin == Res.off + Res.transfer[2]
      fits == origin + Cells(rect) <= DataCells
  IN /\ Handling("flush") /\ Known /\ Res.attached /\ Inside(Req.arg, Res.w, Res.h) /\ Res.transfer # NoTransfer
     /\ \E screen \in IF ok /\ fits THEN {Painted(rect, origin)}
                      ELSE {Fresh(Res.w, Res.h)} \cup (IF ok THEN {} ELSE {driver.screen}) :
          Handles("flush", IF ~ok THEN "unspec" ELSE IF fits THEN "ok" ELSE "bounds",
                  [driver EXCEPT !.screen = screen])
     /\ UNCHANGED event

Unref ==
  /\ Handles("unref", IF Known THEN "ok" ELSE "id",
             IF Known THEN [driver EXCEPT !.resource = None] ELSE driver)
  /\ UNCHANGED event

-----------------------------------------------------------------------------
Client == \/ \E p \in Page : ShowPage(p)
          \/ \E r \in Lone : SendLone(r)
          \/ CopyFrame \/ Submit \/ SubmitNotify \/ SubmitWait \/ OnNotify \/ SubmitTake
Virt == \/ VirtNotified \/ ForwardResponses \/ CopyDisplay \/ DeliverResponse \/ NotifyClient
        \/ ForwardRequests \/ ForwardRequest \/ NotifyDriver \/ RejectBlob
        \/ CheckEvents \/ SetEvent \/ ClearEvent
Driver == \/ Interrupt \/ DriverNotified \/ Service \/ Respond \/ NotifyVirt
          \/ Attach \/ Detach \/ Scanout \/ Transfer \/ FlushRefused \/ Unref
          \/ \E ok \in BOOLEAN : DisplayInfo(ok) \/ Create2d(ok) \/ Flush(ok)

Next == Client \/ Virt \/ Driver

Spec == Init /\ [][Next]_vars

-----------------------------------------------------------------------------
\* Queues keep their capacity, ids and cells their ranges, the one resource its shape.
TypeOK ==
  /\ \A x \in DOMAIN queue : Len(queue[x]) <= Capacity
  /\ client.id \in 0 .. Ids - 1 /\ client.shown \in Page \cup {0}
  /\ data \in [0 .. DataCells - 1 -> Page \cup {Blank, Info}]
  /\ Res # None => Res.id \in 1 .. MaxResources /\ Res.w * Res.h \in 1 .. DmaCells

\* When show_page returns Ok, the screen shows that page and nothing else: the
\* display information, which lands in the same region, is there before the
\* response that lets the shell write its pixels, and no answer of an earlier
\* request is taken for one of this page.
RightFrame == client.shown # 0 => \A i \in DOMAIN data : driver.screen[i] = client.shown

\* A recorded transfer lies inside the attached backing and the resource, through
\* every order of create, attach, detach, transfer and unref: flush, which does
\* not check again, reads the backing's cells only.
TransferInBacking ==
  Res # None /\ Res.transfer # NoTransfer =>
    /\ Res.attached /\ Inside(Res.transfer[1], Res.w, Res.h)
    /\ Res.transfer[2] + Cells(Res.transfer[1]) <= Res.size /\ Res.off + Res.size <= DataCells

\* The frame shown is the one the shell drew last, and the device reads only pages
\* that back the resource.
FrameShown == RightFrame /\ TransferInBacking

\* At rest nothing is left on the way: no response that a later submit would
\* take for its own, no live note, no event the client was not told of, and no
\* client that waits for a wake-up.
Settled ==
  (VirtAt("recv") /\ ~virt.badge /\ DriverAt("recv") /\ ~driver.badge /\ ~client.badge
     /\ client.pc \in {"idle", "wait"} /\ ~(client.pc = "wait" /\ client.sticky)) =>
    /\ client.pc = "idle" /\ ~client.sticky /\ ~event.driver
    /\ \A x \in DOMAIN queue : Empty(x)
    /\ \A s \in DOMAIN virt.notes : ~virt.notes[s].live
=============================================================================
