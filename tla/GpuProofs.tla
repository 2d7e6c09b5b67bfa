------------------------------ MODULE GpuProofs ------------------------------
(***************************************************************************)
(* Proofs about the graphics path, for every page size, queue capacity and *)
(* number of note slots and ids, and every set of well-formed requests     *)
(* between the pages, in every interleaving of the three domains.          *)
(***************************************************************************)
EXTENDS GpuSystem, Lemmas, TLAPS

-----------------------------------------------------------------------------
(* The inductive invariant.                                                *)

Cell == 0 .. DataCells - 1
QueueName == {"creq", "cresp", "dreq", "dresp"}
Codes == {"display_info", "frame", "create", "attach", "scanout", "transfer", "flush", "detach", "unref", "blob"}
Statuses == {"ok", "unspec", "bounds", "param", "id", "scanout"}
Notes == [0 .. NoteSlots - 1 -> [code : Codes \cup {"none"}, off : Nat, live : BOOLEAN]]

\* What show_page has still to do after all but k steps.
Left(k) == [i \in 1 .. k |-> PageScript[7 - k + i]]

\* The variables and their fields.
Client0 ==
  /\ DOMAIN client = {"pc", "badge", "sticky", "script", "id", "page", "shown"}
  /\ client.pc \in {"idle", "submit", "notify", "wait", "take"}
  /\ client.badge \in BOOLEAN /\ client.sticky \in BOOLEAN
  /\ client.id \in 0 .. Ids - 1 /\ client.page \in Page \cup {0} /\ client.shown \in Page \cup {0}
Virt0 ==
  /\ DOMAIN virt = {"pc", "badge", "moved", "hand", "notes"} /\ virt.notes \in Notes
  /\ virt.badge \in BOOLEAN /\ virt.moved \in BOOLEAN
  /\ virt.pc \in {"recv", "responses", "copy", "deliver", "notify_client", "requests", "forward", "reject",
                  "notify_rejected", "notify_driver", "events", "set_event", "clear_event"}
Driver0 ==
  /\ DOMAIN driver = {"pc", "badge", "hand", "status", "resource", "screen", "info"}
  /\ driver.pc \in {"recv", "service", "handle", "respond", "notify"} /\ driver.badge \in BOOLEAN
  /\ driver.status \in Statuses /\ driver.info \in {Blank, Info}
Typed ==
  /\ Client0 /\ Virt0 /\ Driver0 /\ DOMAIN queue = QueueName /\ data \in [Cell -> Page \cup {Blank, Info}]
  /\ event \in [driver : BOOLEAN, client : BOOLEAN]

\* While the client is busy it has the rest of a page to show, or one request.
Scripted == client.pc # "idle" =>
  /\ \/ client.page = 0 /\ \E r \in Lone : client.script = <<r>>
     \/ client.page # 0 /\ \E k \in 1 .. 7 : client.script = Left(k)
  /\ client.pc # "submit" => Head(client.script).code # "frame"

\* The exchange in flight is in one place, s: a queue, a hand or nowhere.  From the
\* place done on, st is its outcome.
Token == [id |-> client.id, req |-> Head(client.script)]
Reply(st) == [id |-> client.id, status |-> st]
Places == {"none", "creq", "vreq", "dreq", "work", "done", "dresp", "vresp", "cresp"}
Carried(s, st) ==
  /\ s = "none" <=> client.pc \in {"idle", "submit"}
  /\ queue["creq"] = IF s = "creq" THEN <<Token>> ELSE << >>
  /\ queue["dreq"] = IF s = "dreq" THEN <<Token>> ELSE << >>
  /\ queue["dresp"] = IF s = "dresp" THEN <<Reply(st)>> ELSE << >>
  /\ queue["cresp"] = IF s = "cresp" THEN <<Reply(st)>> ELSE << >>
  /\ s = "vreq" <=> virt.pc \in {"forward", "reject"}
  /\ s = "vresp" <=> virt.pc \in {"copy", "deliver"}
  /\ s = "vreq" => virt.hand = Token
  /\ s = "vresp" => virt.hand = Reply(st)
  /\ s = "work" <=> driver.pc = "handle"
  /\ s = "done" <=> driver.pc = "respond"
  /\ s \in {"work", "done"} => driver.hand = Token
  /\ s = "done" => driver.status = st

\* Whoever must act next on the exchange is at it or woken, and the client is woken
\* once for each answer.
Told(s) ==
  /\ s = "creq" => client.pc = "notify" \/ virt.badge \/ virt.pc \in {"responses", "requests"}
  /\ s = "dreq" => virt.pc = "notify_driver" \/ driver.badge \/ driver.pc \in {"service", "notify"}
  /\ s = "dresp" => driver.pc = "notify" \/ virt.badge \/ virt.pc = "responses"
  /\ LET telling == virt.pc \in {"notify_client", "notify_rejected"}
         taking == client.pc = "take"
     IN IF s = "cresp"
          THEN \/ telling /\ ~client.badge /\ ~client.sticky /\ ~taking
               \/ ~telling /\ client.badge /\ ~client.sticky /\ ~taking
               \/ ~telling /\ ~client.badge /\ client.sticky /\ ~taking
               \/ ~telling /\ ~client.badge /\ ~client.sticky /\ taking
          ELSE ~telling /\ ~client.badge /\ ~client.sticky /\ ~taking

\* The only live note is that of the request in flight, until its answer is copied.
Noted(s) == \A n \in 0 .. NoteSlots - 1 : virt.notes[n].live =>
  /\ s \in {"vreq", "dreq", "work", "done", "dresp", "vresp"} /\ virt.pc \notin {"reject", "deliver"}
  /\ n = client.id % NoteSlots /\ virt.notes[n].code = Head(client.script).code

\* An event that the client was not told of is still going to be looked at.
EventTold == event.driver => virt.pc # "recv" \/ virt.badge \/ driver.pc \in {"respond", "notify"}

\* The resource, if there is one, and its backing.
Backed == Res # None =>
  /\ DOMAIN Res = {"id", "w", "h", "off", "size", "attached", "transfer"}
  /\ Res.id \in 1 .. MaxResources /\ Res.w \in Nat /\ Res.h \in Nat /\ Res.w * Res.h \in 1 .. DmaCells
  /\ Res.off \in Nat /\ Res.size \in Nat /\ Res.attached \in BOOLEAN
  /\ Res.attached => Res.off + Res.size <= DataCells
  /\ Res.transfer # NoTransfer =>
       /\ Res.transfer \in Rect \X Nat /\ Res.attached /\ Inside(Res.transfer[1], Res.w, Res.h)
       /\ Res.transfer[2] + Cells(Res.transfer[1]) <= Res.size

\* What each step of a page has achieved.
Drawn == \A i \in Cell : data[i] = client.page
Created == Res # None /\ Res.id = 1 /\ Res.w = Width /\ Res.h = Height
Attached == Created /\ Res.attached /\ Res.off = 0 /\ Res.size = DataCells
Transferred == Attached /\ Res.transfer = <<Whole, 0>>
OnScreen == \A i \in Cell : driver.screen[i] = client.page
Good(s, st) == s \in {"done", "dresp", "vresp", "cresp"} /\ st = "ok"
Past(codes, last, good) == LET code == Head(client.script).code IN code \in codes \/ (code = last /\ good)
Achieved(s, st) == client.page # 0 /\ client.pc # "idle" =>
  /\ Past({"create", "attach", "scanout", "transfer", "flush"}, "frame", FALSE) => Drawn
  /\ Past({"attach", "scanout", "transfer", "flush"}, "create", Good(s, st)) => Created
  /\ Past({"scanout", "transfer", "flush"}, "attach", Good(s, st)) => Attached
  /\ Past({"flush"}, "transfer", Good(s, st)) => Transferred
  /\ Past({}, "flush", Good(s, st)) => OnScreen

\* A page reported as shown is on the screen.
Shown == client.shown # 0 => client.pc = "idle" /\ \A i \in Cell : driver.screen[i] = client.shown

Now(s, st) ==
  /\ Typed /\ Scripted /\ EventTold /\ Backed /\ Shown
  /\ Carried(s, st) /\ Told(s) /\ Noted(s) /\ Achieved(s, st)
Inv == \E s \in Places, st \in Statuses : Now(s, st)
-----------------------------------------------------------------------------
(* Scripts and frames.                                                     *)

\* The steps of a page, one by one.
LEMMA PageSteps ==
    /\ PageScript[1] = Request("display_info", 0) /\ PageScript[2] = Request("frame", 0)
    /\ PageScript[3] = Request("create", <<Width, Height>>)
    /\ PageScript[4] = Request("attach", <<0, DataCells>>)
    /\ PageScript[5] = Request("scanout", <<0, Whole>>)
    /\ PageScript[6] = Request("transfer", <<Whole, 0>>) /\ PageScript[7] = Request("flush", Whole)
    /\ Len(PageScript) = 7 /\ PageScript = [i \in 1 .. 7 |-> PageScript[i]]
  BY DEF PageScript

\* What is left of a page begins with its next step and goes on with the others.
LEMMA LeftIs ==
    ASSUME NEW k \in 1 .. 7
    PROVE  /\ Head(Left(k)) = PageScript[8 - k] /\ Tail(Left(k)) = Left(k - 1)
           /\ Left(k - 1) = << >> <=> k = 1
<1> DEFINE S == {PageScript[i] : i \in 1 .. 7}
<1>1. ASSUME NEW n \in 0 .. 7
      PROVE  /\ Left(n) \in Seq(S) /\ Len(Left(n)) = n
             /\ \A i \in 1 .. n : Left(n)[i] = PageScript[7 - n + i]
  <2>1. \A i \in 1 .. n : PageScript[7 - n + i] \in S OBVIOUS
  <2>. HIDE DEF S
  <2>2. Left(n) \in [1 .. n -> S] BY <2>1 DEF Left
  <2>3. Left(n) \in Seq(S) /\ Len(Left(n)) = n BY <2>2
  <2> QED BY <2>3 DEF Left
<1>. HIDE DEF S
<1>2. k \in 0 .. 7 /\ k - 1 \in 0 .. 7 OBVIOUS
<1>3. /\ Left(k) \in Seq(S) /\ Len(Left(k)) = k /\ \A i \in 1 .. k : Left(k)[i] = PageScript[7 - k + i]
      /\ Left(k - 1) \in Seq(S) /\ Len(Left(k - 1)) = k - 1
      /\ \A i \in 1 .. k - 1 : Left(k - 1)[i] = PageScript[7 - (k - 1) + i]
  BY <1>1, <1>2
<1> DEFINE p == Left(k)
           r == Left(k - 1)
<1>. HIDE DEF p, r
<1>4. /\ p \in Seq(S) /\ Len(p) = k /\ \A i \in 1 .. k : p[i] = PageScript[7 - k + i]
      /\ r \in Seq(S) /\ Len(r) = k - 1 /\ \A i \in 1 .. k - 1 : r[i] = PageScript[8 - k + i]
  <2>1. \A i \in 1 .. k - 1 : 7 - (k - 1) + i = 8 - k + i OBVIOUS
  <2>2. \A i \in 1 .. k - 1 : Left(k - 1)[i] = PageScript[8 - k + i] BY <1>3, <2>1
  <2> QED BY <1>3, <2>2 DEF p, r
<1>5. p # << >> /\ (r = << >> <=> k = 1) BY <1>4, Elements
<1>6. Head(p) = PageScript[8 - k] BY <1>4, <1>5
<1>7. Tail(p) \in Seq(S) /\ Len(Tail(p)) = k - 1 /\ \A i \in 1 .. k - 1 : Tail(p)[i] = p[i + 1]
  BY <1>4, <1>5, Popped
<1>8. \A i \in 1 .. k - 1 : Tail(p)[i] = r[i] BY <1>4, <1>7, SMTT(40)
<1>9. Tail(p) = r BY <1>4, <1>7, <1>8, SameSeq
<1> QED BY <1>5, <1>6, <1>9 DEF p, r

\* A page begins with all its steps.
LEMMA LeftAll == Left(7) = PageScript
<1>1. Left(7) = [i \in 1 .. 7 |-> PageScript[i]] BY DEF Left
<1> QED BY <1>1, PageSteps

\* The request in flight is well formed, and in a page it is one of the page's.
LEMMA Wanted ==
    ASSUME Scripted, client.pc \notin {"idle", "submit"}
    PROVE  /\ WellFormed(Head(client.script))
           /\ client.page # 0 => \E j \in {1, 3, 4, 5, 6, 7} : Head(client.script) = PageScript[j]
<1>1. CASE client.page = 0
  <2>1. PICK r \in Lone : client.script = <<r>> BY <1>1 DEF Scripted
  <2>2. Head(client.script) = r BY <2>1
  <2> QED BY <1>1, <2>2, GpuAssumption
<1>2. CASE client.page # 0
  <2>1. PICK k \in 1 .. 7 : client.script = Left(k) BY <1>2 DEF Scripted
  <2>2. Head(client.script) = PageScript[8 - k] BY <2>1, LeftIs
  <2>3. 8 - k # 2 BY <2>2, PageSteps DEF Scripted, Request
  <2>4. 8 - k \in {1, 3, 4, 5, 6, 7} BY <2>3
  <2>5. DataCells \in Nat /\ Width \in Nat /\ Height \in Nat BY GpuAssumption DEF DataCells
  <2>6. Whole \in Rect BY <2>5 DEF Whole, Rect
  <2>. HIDE DEF Whole, Rect
  <2>7. WellFormed(PageScript[1]) /\ WellFormed(PageScript[3]) /\ WellFormed(PageScript[4])
    BY <2>5, PageSteps DEF WellFormed, Request
  <2>8. WellFormed(PageScript[5]) BY <2>6, PageSteps DEF WellFormed, Request
  <2>9. WellFormed(PageScript[6]) BY <2>6, PageSteps DEF WellFormed, Request
  <2>10. WellFormed(PageScript[7]) BY <2>6, PageSteps DEF WellFormed, Request
  <2> QED BY <1>2, <2>2, <2>4, <2>7, <2>8, <2>9, <2>10
<1> QED BY <1>1, <1>2

\* The step leaves what the client is doing, and the device and the data, alone.
SameClient ==
  /\ client'.script = client.script /\ client'.id = client.id /\ client'.page = client.page
  /\ client'.shown = client.shown
  /\ client'.pc = "idle" <=> client.pc = "idle"
  /\ client'.pc = "submit" <=> client.pc = "submit"
SameDevice == driver'.resource = driver.resource /\ driver'.screen = driver.screen /\ data' = data

\* Such a step keeps what is known of them, unless it makes an outcome good.
LEMMA Frame ==
    ASSUME NEW s, NEW st, NEW t, NEW ot, Now(s, st), SameClient, SameDevice, Good(t, ot) => Good(s, st)
    PROVE  Scripted' /\ Backed' /\ Shown' /\ Achieved(t, ot)'
<1>1. Scripted' BY DEF Now, Scripted, SameClient
<1>2. Backed' BY DEF Now, Backed, SameDevice, Res
<1>3. Shown' BY DEF Now, Shown, SameClient, SameDevice
<1>4. Achieved(t, ot)'
  <2>1. (Drawn' <=> Drawn) /\ (Created' <=> Created) /\ (OnScreen' <=> OnScreen)
    BY DEF SameClient, SameDevice, Drawn, Created, OnScreen, Res
  <2>2. (Attached' <=> Attached) /\ (Transferred' <=> Transferred)
    BY <2>1 DEF SameDevice, Attached, Transferred, Res
  <2> QED BY <2>1, <2>2 DEF Now, Achieved, Past, SameClient
<1> QED BY <1>1, <1>2, <1>3, <1>4

-----------------------------------------------------------------------------
(* The steps that leave the page alone.                                    *)

\* The request is announced to the virtualiser.
LEMMA SubmitNotifyKept ==
    ASSUME NEW s \in Places, NEW st \in Statuses, Now(s, st), SubmitNotify
    PROVE  Inv'
<1>1. Client0' /\ client'.pc = "wait" /\ client'.badge = client.badge /\ client'.sticky = client.sticky
        /\ client'.script = client.script /\ client'.id = client.id /\ client'.page = client.page
        /\ client'.shown = client.shown
  BY DEF SubmitNotify, Now, Typed, Client0
<1>2. Virt0' /\ virt'.pc = virt.pc /\ virt'.badge = TRUE /\ virt'.hand = virt.hand /\ virt'.notes = virt.notes
  BY DEF SubmitNotify, Now, Typed, Virt0
<1>3. UNCHANGED <<queue, driver, data, event>>
  BY DEF SubmitNotify
<1>4. Typed'
  BY <1>1, <1>2, <1>3 DEF Now, Typed, Driver0
<1>5. SameClient /\ SameDevice
  BY <1>1, <1>2, <1>3 DEF SameClient, SameDevice, SubmitNotify
<1>6. Scripted' /\ Backed' /\ Shown' /\ Achieved(s, st)'
  BY <1>5, Frame DEF Good, Now, Carried
<1>7. Carried(s, st)'
  BY <1>1, <1>2, <1>3, <1>5 DEF Now, Carried, Told, SameClient, SubmitNotify, Token, Reply
<1>8. Told(s)'
  BY <1>1, <1>2, <1>3 DEF Now, Carried, Told, SubmitNotify
<1>9. Noted(s)'
  BY <1>1, <1>2, <1>3, <1>5 DEF Now, Carried, Noted, SameClient, SubmitNotify
<1>10. EventTold'
  BY <1>1, <1>2, <1>3 DEF Now, EventTold, SubmitNotify
<1> QED BY <1>4, <1>6, <1>7, <1>8, <1>9, <1>10 DEF Inv, Now, Places, Statuses

\* The client wakes up for the answer.
LEMMA SubmitWaitKept ==
    ASSUME NEW s \in Places, NEW st \in Statuses, Now(s, st), SubmitWait
    PROVE  Inv'
<1>1. Client0' /\ client'.pc = "take" /\ client'.badge = client.badge /\ client'.sticky = FALSE
        /\ client'.script = client.script /\ client'.id = client.id /\ client'.page = client.page
        /\ client'.shown = client.shown
  BY DEF SubmitWait, Now, Typed, Client0
<1>2. UNCHANGED <<queue, virt, driver, data, event>>
  BY DEF SubmitWait
<1>3. Typed'
  BY <1>1, <1>2 DEF Now, Typed, Virt0, Driver0
<1>4. SameClient /\ SameDevice
  BY <1>1, <1>2 DEF SameClient, SameDevice, SubmitWait
<1>5. Scripted' /\ Backed' /\ Shown' /\ Achieved(s, st)'
  BY <1>4, Frame DEF Good, Now, Carried
<1>6. Carried(s, st)'
  BY <1>1, <1>2, <1>4 DEF Now, Carried, Told, SameClient, SubmitWait, Token, Reply
<1>7. Told(s)'
  BY <1>1, <1>2 DEF Now, Carried, Told, SubmitWait
<1>8. Noted(s)'
  BY <1>1, <1>2, <1>4 DEF Now, Carried, Noted, SameClient, SubmitWait
<1>9. EventTold'
  BY <1>1, <1>2 DEF Now, EventTold, SubmitWait
<1> QED BY <1>3, <1>5, <1>6, <1>7, <1>8, <1>9 DEF Inv, Now, Places, Statuses

\* The root of the client notes the notification.
LEMMA OnNotifyKept ==
    ASSUME NEW s \in Places, NEW st \in Statuses, Now(s, st), OnNotify
    PROVE  Inv'
<1>1. Client0' /\ client'.pc = client.pc /\ client'.badge = FALSE /\ client'.sticky = TRUE
        /\ client'.script = client.script /\ client'.id = client.id /\ client'.page = client.page
        /\ client'.shown = client.shown
  BY DEF OnNotify, Now, Typed, Client0
<1>2. UNCHANGED <<queue, virt, driver, data, event>>
  BY DEF OnNotify
<1>3. Typed'
  BY <1>1, <1>2 DEF Now, Typed, Virt0, Driver0
<1>4. SameClient /\ SameDevice
  BY <1>1, <1>2 DEF SameClient, SameDevice, OnNotify
<1>5. Scripted' /\ Backed' /\ Shown' /\ Achieved(s, st)'
  BY <1>4, Frame DEF Good, Now, Carried
<1>6. Carried(s, st)'
  BY <1>1, <1>2, <1>4 DEF Now, Carried, Told, SameClient, OnNotify, Token, Reply
<1>7. Told(s)'
  BY <1>1, <1>2 DEF Now, Carried, Told, OnNotify
<1>8. Noted(s)'
  BY <1>1, <1>2, <1>4 DEF Now, Carried, Noted, SameClient, OnNotify
<1>9. EventTold'
  BY <1>1, <1>2 DEF Now, EventTold, OnNotify
<1> QED BY <1>3, <1>5, <1>6, <1>7, <1>8, <1>9 DEF Inv, Now, Places, Statuses

\* The virtualiser starts a round.
LEMMA VirtNotifiedKept ==
    ASSUME NEW s \in Places, NEW st \in Statuses, Now(s, st), VirtNotified
    PROVE  Inv'
<1>1. Virt0' /\ virt'.pc = "responses" /\ virt'.badge = FALSE /\ virt'.hand = virt.hand
      /\ virt'.notes = virt.notes
  BY DEF VirtNotified, VirtAt, Now, Typed, Virt0
<1>2. UNCHANGED <<queue, client, driver, data, event>>
  BY DEF VirtNotified, VirtAt
<1>3. Typed'
  BY <1>1, <1>2 DEF Now, Typed, Client0, Driver0
<1>4. SameClient /\ SameDevice
  BY <1>1, <1>2 DEF SameClient, SameDevice, VirtNotified, VirtAt
<1>5. Scripted' /\ Backed' /\ Shown' /\ Achieved(s, st)'
  BY <1>4, Frame DEF Good, Now, Carried
<1>6. Carried(s, st)'
  BY <1>1, <1>2, <1>4 DEF Now, Carried, Told, SameClient, VirtNotified, VirtAt, Token, Reply
<1>7. Told(s)'
  BY <1>1, <1>2 DEF Now, Carried, Told, VirtNotified, VirtAt
<1>8. Noted(s)'
  BY <1>1, <1>2, <1>4 DEF Now, Carried, Noted, SameClient, VirtNotified, VirtAt
<1>9. EventTold'
  BY <1>1, <1>2 DEF Now, EventTold, VirtNotified, VirtAt
<1> QED BY <1>3, <1>5, <1>6, <1>7, <1>8, <1>9 DEF Inv, Now, Places, Statuses

\* The virtualiser takes an answer, or finds none.
LEMMA ForwardResponsesKept ==
    ASSUME NEW s \in Places, NEW st \in Statuses, Now(s, st), ForwardResponses
    PROVE  Inv'
<1>1. CASE s # "dresp"
  <2>1. queue["dresp"] = << >>
    BY <1>1 DEF Now, Carried
  <2>2. Virt0' /\ virt'.pc = "requests" /\ virt'.badge = virt.badge /\ virt'.hand = virt.hand
        /\ virt'.notes = virt.notes
    BY <1>1, <2>1 DEF ForwardResponses, VirtAt, Empty, Full, Now, Typed, Virt0
  <2>3. UNCHANGED <<queue, client, driver, data, event>>
    BY <1>1, <2>1 DEF ForwardResponses, VirtAt, Empty, Full
  <2>4. Typed'
    BY <2>2, <2>3, <2>1, <1>1 DEF Now, Typed, Client0, Driver0
  <2>5. SameClient /\ SameDevice
    BY <2>2, <2>3, <2>1, <1>1 DEF SameClient, SameDevice, ForwardResponses, VirtAt, Empty, Full
  <2>6. Scripted' /\ Backed' /\ Shown' /\ Achieved(s, st)'
    BY <2>5, Frame, <2>1, <1>1 DEF Good, Now, Carried
  <2>7. Carried(s, st)'
    BY <2>2, <2>3, <2>1, <1>1, <2>5 DEF Now, Carried, Told, SameClient, ForwardResponses, VirtAt, Empty, Full,
       Token, Reply
  <2>8. Told(s)'
    BY <2>2, <2>3, <2>1, <1>1 DEF Now, Carried, Told, ForwardResponses, VirtAt, Empty, Full
  <2>9. Noted(s)'
    BY <2>2, <2>3, <2>1, <1>1, <2>5 DEF Now, Carried, Noted, SameClient, ForwardResponses, VirtAt, Empty, Full
  <2>10. EventTold'
    BY <2>2, <2>3, <2>1, <1>1 DEF Now, EventTold, ForwardResponses, VirtAt, Empty, Full
  <2> QED BY <2>4, <2>6, <2>7, <2>8, <2>9, <2>10 DEF Inv, Now, Places, Statuses
<1>2. CASE s = "dresp"
  <2>1. queue["dresp"] = <<Reply(st)>> /\ queue["cresp"] = << >>
    BY <1>2 DEF Now, Carried
  <2>2. Virt0' /\ virt'.pc = "copy" /\ virt'.badge = virt.badge /\ virt'.hand = Reply(st)
        /\ virt'.notes = virt.notes
    <3>1. ~Full("cresp") /\ ~Empty("dresp") BY <2>1, GpuAssumption DEF Full, Empty
    <3>2. virt' = [virt EXCEPT !.pc = "copy", !.hand = Reply(st)] BY <2>1, <3>1 DEF ForwardResponses
    <3> QED BY <3>2 DEF Now, Typed, Virt0
  <2>3. DOMAIN queue' = QueueName /\ queue'["creq"] = queue["creq"] /\ queue'["cresp"] = queue["cresp"]
        /\ queue'["dreq"] = queue["dreq"] /\ queue'["dresp"] = << >>
    BY <1>2, <2>1, GpuAssumption DEF ForwardResponses, VirtAt, Empty, Full, Now, Typed, QueueName, Carried
  <2>4. UNCHANGED <<client, driver, data, event>>
    BY <1>2, <2>1 DEF ForwardResponses, VirtAt, Empty, Full
  <2>5. Typed'
    BY <2>2, <2>3, <2>4, <2>1, <1>2 DEF Now, Typed, Client0, Driver0
  <2>6. SameClient /\ SameDevice
    BY <2>2, <2>3, <2>4, <2>1, <1>2 DEF SameClient, SameDevice, ForwardResponses, VirtAt, Empty, Full
  <2>7. Scripted' /\ Backed' /\ Shown' /\ Achieved("vresp", st)'
    BY <2>6, Frame, <2>1, <1>2 DEF Good, Now, Carried
  <2>8. Carried("vresp", st)'
    BY <2>2, <2>3, <2>4, <2>1, <1>2, <2>6 DEF Now, Carried, Told, SameClient, ForwardResponses, VirtAt, Empty,
       Full, Token, Reply
  <2>9. Told("vresp")'
    BY <2>2, <2>3, <2>4, <2>1, <1>2 DEF Now, Carried, Told, ForwardResponses, VirtAt, Empty, Full
  <2>10. Noted("vresp")'
    BY <2>2, <2>3, <2>4, <2>1, <1>2, <2>6 DEF Now, Carried, Noted, SameClient, ForwardResponses, VirtAt, Empty, Full
  <2>11. EventTold'
    BY <2>2, <2>3, <2>4, <2>1, <1>2 DEF Now, EventTold, ForwardResponses, VirtAt, Empty, Full
  <2> QED BY <2>5, <2>7, <2>8, <2>9, <2>10, <2>11 DEF Inv, Now, Places, Statuses
<1> QED BY <1>1, <1>2 DEF Now, Typed, Client0, Virt0, Driver0

\* The virtualiser passes the answer on.
LEMMA DeliverResponseKept ==
    ASSUME NEW s \in Places, NEW st \in Statuses, Now(s, st), DeliverResponse
    PROVE  Inv'
<1>1. s = "vresp" /\ queue["cresp"] = << >> /\ virt.hand = Reply(st)
  BY DEF Now, Carried, DeliverResponse, VirtAt
<1>2. Virt0' /\ virt'.pc = "notify_client" /\ virt'.badge = virt.badge /\ virt'.hand = << >>
      /\ virt'.notes = virt.notes
  BY <1>1 DEF DeliverResponse, VirtAt, Put, Now, Typed, Virt0
<1>3. DOMAIN queue' = QueueName /\ queue'["creq"] = queue["creq"] /\ queue'["cresp"] = <<Reply(st)>>
      /\ queue'["dreq"] = queue["dreq"] /\ queue'["dresp"] = queue["dresp"]
  BY <1>1, GpuAssumption DEF DeliverResponse, VirtAt, Put, Now, Typed, QueueName, Carried
<1>4. UNCHANGED <<client, driver, data, event>>
  BY <1>1 DEF DeliverResponse, VirtAt, Put
<1>5. Typed'
  BY <1>2, <1>3, <1>4, <1>1 DEF Now, Typed, Client0, Driver0
<1>6. SameClient /\ SameDevice
  BY <1>2, <1>3, <1>4, <1>1 DEF SameClient, SameDevice, DeliverResponse, VirtAt, Put
<1>7. Scripted' /\ Backed' /\ Shown' /\ Achieved("cresp", st)'
  BY <1>6, Frame, <1>1 DEF Good, Now, Carried
<1>8. Carried("cresp", st)'
  BY <1>2, <1>3, <1>4, <1>1, <1>6 DEF Now, Carried, Told, SameClient, DeliverResponse, VirtAt, Put, Token, Reply
<1>9. Told("cresp")'
  BY <1>2, <1>3, <1>4, <1>1 DEF Now, Carried, Told, DeliverResponse, VirtAt, Put
<1>10. Noted("cresp")'
  BY <1>2, <1>3, <1>4, <1>1, <1>6 DEF Now, Carried, Noted, SameClient, DeliverResponse, VirtAt, Put
<1>11. EventTold'
  BY <1>2, <1>3, <1>4, <1>1 DEF Now, EventTold, DeliverResponse, VirtAt, Put
<1> QED BY <1>5, <1>7, <1>8, <1>9, <1>10, <1>11 DEF Inv, Now, Places, Statuses

\* The client is notified of an answer.
LEMMA NotifyClientKept ==
    ASSUME NEW s \in Places, NEW st \in Statuses, Now(s, st), NotifyClient
    PROVE  Inv'
<1>1. Client0' /\ client'.pc = client.pc /\ client'.badge = TRUE /\ client'.sticky = client.sticky
        /\ client'.script = client.script /\ client'.id = client.id /\ client'.page = client.page
        /\ client'.shown = client.shown
  BY DEF NotifyClient, VirtAt, Now, Typed, Client0
<1>2. Virt0' /\ virt'.pc = (IF virt.pc = "notify_client" THEN "responses" ELSE "requests")
      /\ virt'.badge = virt.badge /\ virt'.hand = virt.hand /\ virt'.notes = virt.notes
  BY DEF NotifyClient, VirtAt, Now, Typed, Virt0
<1>3. UNCHANGED <<queue, driver, data, event>>
  BY DEF NotifyClient, VirtAt
<1>4. Typed'
  BY <1>1, <1>2, <1>3 DEF Now, Typed, Driver0
<1>5. SameClient /\ SameDevice
  BY <1>1, <1>2, <1>3 DEF SameClient, SameDevice, NotifyClient, VirtAt
<1>6. Scripted' /\ Backed' /\ Shown' /\ Achieved(s, st)'
  BY <1>5, Frame DEF Good, Now, Carried
<1>7. Carried(s, st)'
  BY <1>1, <1>2, <1>3, <1>5 DEF Now, Carried, Told, SameClient, NotifyClient, VirtAt, Token, Reply
<1>8. Told(s)'
  BY <1>1, <1>2, <1>3 DEF Now, Carried, Told, NotifyClient, VirtAt
<1>9. Noted(s)'
  BY <1>1, <1>2, <1>3, <1>5 DEF Now, Carried, Noted, SameClient, NotifyClient, VirtAt
<1>10. EventTold'
  BY <1>1, <1>2, <1>3 DEF Now, EventTold, NotifyClient, VirtAt
<1> QED BY <1>4, <1>6, <1>7, <1>8, <1>9, <1>10 DEF Inv, Now, Places, Statuses

\* The virtualiser takes a request and notes it, unless it is one it refuses.
LEMMA ForwardRequestsKept ==
    ASSUME NEW s \in Places, NEW st \in Statuses, Now(s, st), ForwardRequests
    PROVE  Inv'
<1>1. CASE s # "creq"
  <2>1. queue["creq"] = << >>
    BY <1>1 DEF Now, Carried
  <2>2. Virt0' /\ virt'.pc = "events" /\ virt'.badge = virt.badge /\ virt'.hand = virt.hand
        /\ virt'.notes = virt.notes
    BY <1>1, <2>1 DEF ForwardRequests, VirtAt, Empty, Full, Now, Typed, Virt0
  <2>3. UNCHANGED <<queue, client, driver, data, event>>
    BY <1>1, <2>1 DEF ForwardRequests, VirtAt, Empty, Full
  <2>4. Typed'
    BY <2>2, <2>3, <2>1, <1>1 DEF Now, Typed, Client0, Driver0
  <2>5. SameClient /\ SameDevice
    BY <2>2, <2>3, <2>1, <1>1 DEF SameClient, SameDevice, ForwardRequests, VirtAt, Empty, Full
  <2>6. Scripted' /\ Backed' /\ Shown' /\ Achieved(s, st)'
    BY <2>5, Frame, <2>1, <1>1 DEF Good, Now, Carried
  <2>7. Carried(s, st)'
    BY <2>2, <2>3, <2>1, <1>1, <2>5 DEF Now, Carried, Told, SameClient, ForwardRequests, VirtAt, Empty, Full,
       Token, Reply
  <2>8. Told(s)'
    BY <2>2, <2>3, <2>1, <1>1 DEF Now, Carried, Told, ForwardRequests, VirtAt, Empty, Full
  <2>9. Noted(s)'
    BY <2>2, <2>3, <2>1, <1>1, <2>5 DEF Now, Carried, Noted, SameClient, ForwardRequests, VirtAt, Empty, Full
  <2>10. EventTold'
    BY <2>2, <2>3, <2>1, <1>1 DEF Now, EventTold, ForwardRequests, VirtAt, Empty, Full
  <2> QED BY <2>4, <2>6, <2>7, <2>8, <2>9, <2>10 DEF Inv, Now, Places, Statuses
<1>2. CASE s = "creq" /\ Head(client.script).code = "blob"
  <2>1. queue["creq"] = <<Token>> /\ queue["dreq"] = << >> /\ Token.req = Head(client.script)
    BY <1>2 DEF Now, Carried, Token
  <2>2. Virt0' /\ virt'.pc = "reject" /\ virt'.badge = virt.badge /\ virt'.hand = Token
        /\ virt'.notes = virt.notes
    <3>1. ~Full("dreq") /\ ~Empty("creq") BY <2>1, GpuAssumption DEF Full, Empty
    <3>2. Head(queue["creq"]) = Token BY <2>1
    <3>3. virt' = [virt EXCEPT !.pc = "reject", !.hand = Token] BY <1>2, <2>1, <3>1, <3>2 DEF ForwardRequests
    <3> QED BY <3>3 DEF Now, Typed, Virt0
  <2>3. DOMAIN queue' = QueueName /\ queue'["creq"] = << >> /\ queue'["cresp"] = queue["cresp"]
        /\ queue'["dreq"] = queue["dreq"] /\ queue'["dresp"] = queue["dresp"]
    BY <1>2, <2>1, GpuAssumption DEF ForwardRequests, VirtAt, Empty, Full, Now, Typed, QueueName, Carried
  <2>4. UNCHANGED <<client, driver, data, event>>
    BY <1>2, <2>1 DEF ForwardRequests, VirtAt, Empty, Full
  <2>5. Typed'
    BY <2>2, <2>3, <2>4, <2>1, <1>2 DEF Now, Typed, Client0, Driver0
  <2>6. SameClient /\ SameDevice
    BY <2>2, <2>3, <2>4, <2>1, <1>2 DEF SameClient, SameDevice, ForwardRequests, VirtAt, Empty, Full
  <2>7. Scripted' /\ Backed' /\ Shown' /\ Achieved("vreq", st)'
    BY <2>6, Frame, <2>1, <1>2 DEF Good, Now, Carried
  <2>8. Carried("vreq", st)'
    BY <2>2, <2>3, <2>4, <2>1, <1>2, <2>6 DEF Now, Carried, Told, SameClient, ForwardRequests, VirtAt, Empty,
       Full, Token, Reply
  <2>9. Told("vreq")'
    BY <2>2, <2>3, <2>4, <2>1, <1>2 DEF Now, Carried, Told, ForwardRequests, VirtAt, Empty, Full
  <2>10. Noted("vreq")'
    BY <2>2, <2>3, <2>4, <2>1, <1>2, <2>6 DEF Now, Carried, Noted, SameClient, ForwardRequests, VirtAt, Empty, Full
  <2>11. EventTold'
    BY <2>2, <2>3, <2>4, <2>1, <1>2 DEF Now, EventTold, ForwardRequests, VirtAt, Empty, Full
  <2> QED BY <2>5, <2>7, <2>8, <2>9, <2>10, <2>11 DEF Inv, Now, Places, Statuses
<1>3. CASE s = "creq" /\ Head(client.script).code # "blob"
  <2>1. queue["creq"] = <<Token>> /\ queue["dreq"] = << >> /\ Token.id = client.id
        /\ Token.req = Head(client.script)
    BY <1>3 DEF Now, Carried, Token
  <2> DEFINE note == [code |-> Head(client.script).code, live |-> TRUE,
                     off |-> IF Head(client.script).code = "display_info" THEN Head(client.script).arg ELSE 0]
  <2>2. note \in [code : Codes \cup {"none"}, off : Nat, live : BOOLEAN]
        /\ note.code = Head(client.script).code
    BY <1>3, Wanted DEF Now, Carried, WellFormed, Codes
  <2>3. Virt0' /\ virt'.pc = "forward" /\ virt'.badge = virt.badge /\ virt'.hand = Token
        /\ virt'.notes = [virt.notes EXCEPT ![client.id % NoteSlots] = note]
    <3>1. ~Full("dreq") /\ ~Empty("creq") BY <2>1, GpuAssumption DEF Full, Empty
    <3>2. Head(queue["creq"]) = Token BY <2>1
    <3>3. virt' = [virt EXCEPT !.pc = "forward", !.hand = Token, !.notes[client.id % NoteSlots] = note]
      BY <1>3, <2>1, <3>1, <3>2 DEF ForwardRequests
    <3>. HIDE DEF note
    <3>4. [virt.notes EXCEPT ![client.id % NoteSlots] = note] \in Notes BY <2>2 DEF Now, Typed, Virt0, Notes
    <3>5. virt'.notes = [virt.notes EXCEPT ![client.id % NoteSlots] = note] BY <3>3 DEF Now, Typed, Virt0
    <3> QED BY <3>3, <3>4, <3>5 DEF Now, Typed, Virt0
  <2>4. DOMAIN queue' = QueueName /\ queue'["creq"] = << >> /\ queue'["cresp"] = queue["cresp"]
        /\ queue'["dreq"] = queue["dreq"] /\ queue'["dresp"] = queue["dresp"]
    BY <1>3, <2>1, <2>2, GpuAssumption DEF ForwardRequests, VirtAt, Empty, Full, Now, Typed, QueueName, Carried
  <2>5. UNCHANGED <<client, driver, data, event>>
    BY <1>3, <2>1, <2>2 DEF ForwardRequests, VirtAt, Empty, Full
  <2>6. Typed'
    BY <2>3, <2>4, <2>5, <2>1, <2>2, <1>3 DEF Now, Typed, Client0, Driver0
  <2>7. SameClient /\ SameDevice
    BY <2>3, <2>4, <2>5, <2>1, <2>2, <1>3 DEF SameClient, SameDevice, ForwardRequests, VirtAt, Empty, Full
  <2>8. Scripted' /\ Backed' /\ Shown' /\ Achieved("vreq", st)'
    BY <2>7, Frame, <2>1, <2>2, <1>3 DEF Good, Now, Carried
  <2>9. Carried("vreq", st)'
    BY <2>3, <2>4, <2>5, <2>1, <2>2, <1>3, <2>7 DEF Now, Carried, Told, SameClient, ForwardRequests, VirtAt,
       Empty, Full, Token, Reply
  <2>10. Told("vreq")'
    BY <2>3, <2>4, <2>5, <2>1, <2>2, <1>3 DEF Now, Carried, Told, ForwardRequests, VirtAt, Empty, Full
  <2>11. Noted("vreq")'
    BY <2>3, <2>4, <2>5, <2>1, <2>2, <1>3, <2>7 DEF Now, Carried, Noted, SameClient, ForwardRequests, VirtAt,
       Empty, Full
  <2>12. EventTold'
    BY <2>3, <2>4, <2>5, <2>1, <2>2, <1>3 DEF Now, EventTold, ForwardRequests, VirtAt, Empty, Full
  <2> QED BY <2>6, <2>8, <2>9, <2>10, <2>11, <2>12 DEF Inv, Now, Places, Statuses
<1> QED BY <1>1, <1>2, <1>3 DEF Now, Typed, Client0, Virt0, Driver0

\* The virtualiser passes the request on.
LEMMA ForwardRequestKept ==
    ASSUME NEW s \in Places, NEW st \in Statuses, Now(s, st), ForwardRequest
    PROVE  Inv'
<1>1. s = "vreq" /\ queue["dreq"] = << >> /\ virt.hand = Token
  BY DEF Now, Carried, ForwardRequest, VirtAt
<1>2. Virt0' /\ virt'.pc = "notify_driver" /\ virt'.badge = virt.badge /\ virt'.hand = << >>
      /\ virt'.notes = virt.notes
  BY <1>1 DEF ForwardRequest, VirtAt, Put, Now, Typed, Virt0
<1>3. DOMAIN queue' = QueueName /\ queue'["creq"] = queue["creq"] /\ queue'["cresp"] = queue["cresp"]
      /\ queue'["dreq"] = <<Token>> /\ queue'["dresp"] = queue["dresp"]
  BY <1>1, GpuAssumption DEF ForwardRequest, VirtAt, Put, Now, Typed, QueueName, Carried
<1>4. UNCHANGED <<client, driver, data, event>>
  BY <1>1 DEF ForwardRequest, VirtAt, Put
<1>5. Typed'
  BY <1>2, <1>3, <1>4, <1>1 DEF Now, Typed, Client0, Driver0
<1>6. SameClient /\ SameDevice
  BY <1>2, <1>3, <1>4, <1>1 DEF SameClient, SameDevice, ForwardRequest, VirtAt, Put
<1>7. Scripted' /\ Backed' /\ Shown' /\ Achieved("dreq", st)'
  BY <1>6, Frame, <1>1 DEF Good, Now, Carried
<1>8. Carried("dreq", st)'
  BY <1>2, <1>3, <1>4, <1>1, <1>6 DEF Now, Carried, Told, SameClient, ForwardRequest, VirtAt, Put, Token, Reply
<1>9. Told("dreq")'
  BY <1>2, <1>3, <1>4, <1>1 DEF Now, Carried, Told, ForwardRequest, VirtAt, Put
<1>10. Noted("dreq")'
  BY <1>2, <1>3, <1>4, <1>1, <1>6 DEF Now, Carried, Noted, SameClient, ForwardRequest, VirtAt, Put
<1>11. EventTold'
  BY <1>2, <1>3, <1>4, <1>1 DEF Now, EventTold, ForwardRequest, VirtAt, Put
<1> QED BY <1>5, <1>7, <1>8, <1>9, <1>10, <1>11 DEF Inv, Now, Places, Statuses

\* The driver is notified of a request.
LEMMA NotifyDriverKept ==
    ASSUME NEW s \in Places, NEW st \in Statuses, Now(s, st), NotifyDriver
    PROVE  Inv'
<1>1. Virt0' /\ virt'.pc = "requests" /\ virt'.badge = virt.badge /\ virt'.hand = virt.hand
      /\ virt'.notes = virt.notes
  BY DEF NotifyDriver, VirtAt, Now, Typed, Virt0
<1>2. Driver0' /\ driver'.pc = driver.pc /\ driver'.badge = TRUE /\ driver'.hand = driver.hand
        /\ driver'.status = driver.status /\ driver'.resource = driver.resource /\ driver'.screen = driver.screen
  BY DEF NotifyDriver, VirtAt, Now, Typed, Driver0
<1>3. UNCHANGED <<queue, client, data, event>>
  BY DEF NotifyDriver, VirtAt
<1>4. Typed'
  BY <1>1, <1>2, <1>3 DEF Now, Typed, Client0
<1>5. SameClient /\ SameDevice
  BY <1>1, <1>2, <1>3 DEF SameClient, SameDevice, NotifyDriver, VirtAt
<1>6. Scripted' /\ Backed' /\ Shown' /\ Achieved(s, st)'
  BY <1>5, Frame DEF Good, Now, Carried
<1>7. Carried(s, st)'
  BY <1>1, <1>2, <1>3, <1>5 DEF Now, Carried, Told, SameClient, NotifyDriver, VirtAt, Token, Reply
<1>8. Told(s)'
  BY <1>1, <1>2, <1>3 DEF Now, Carried, Told, NotifyDriver, VirtAt
<1>9. Noted(s)'
  BY <1>1, <1>2, <1>3, <1>5 DEF Now, Carried, Noted, SameClient, NotifyDriver, VirtAt
<1>10. EventTold'
  BY <1>1, <1>2, <1>3 DEF Now, EventTold, NotifyDriver, VirtAt
<1> QED BY <1>4, <1>6, <1>7, <1>8, <1>9, <1>10 DEF Inv, Now, Places, Statuses

\* The virtualiser refuses a request for a blob.
LEMMA RejectBlobKept ==
    ASSUME NEW s \in Places, NEW st \in Statuses, Now(s, st), RejectBlob
    PROVE  Inv'
<1>1. s = "vreq" /\ queue["cresp"] = << >> /\ virt.hand = Token /\ virt.hand.id = client.id
  BY DEF Now, Carried, RejectBlob, VirtAt, Token
<1>2. Virt0' /\ virt'.pc = "notify_rejected" /\ virt'.badge = virt.badge /\ virt'.hand = << >>
      /\ virt'.notes = virt.notes
  <2>1. ~Full("cresp") BY <1>1, GpuAssumption DEF Full
  <2>2. virt' = [virt EXCEPT !.pc = "notify_rejected", !.hand = << >>] BY <2>1 DEF RejectBlob
  <2> QED BY <2>2 DEF Now, Typed, Virt0
<1>3. DOMAIN queue' = QueueName /\ queue'["creq"] = queue["creq"] /\ queue'["cresp"] = <<Reply("param")>>
      /\ queue'["dreq"] = queue["dreq"] /\ queue'["dresp"] = queue["dresp"]
  BY <1>1, GpuAssumption DEF RejectBlob, VirtAt, Put, Full, Now, Typed, QueueName, Carried, Reply
<1>4. UNCHANGED <<client, driver, data, event>>
  BY <1>1 DEF RejectBlob, VirtAt, Put, Full
<1>5. Typed'
  BY <1>2, <1>3, <1>4, <1>1 DEF Now, Typed, Client0, Driver0
<1>6. SameClient /\ SameDevice
  BY <1>2, <1>3, <1>4, <1>1 DEF SameClient, SameDevice, RejectBlob, VirtAt, Put, Full
<1>7. Scripted' /\ Backed' /\ Shown' /\ Achieved("cresp", "param")'
  BY <1>6, Frame, <1>1 DEF Good, Now, Carried
<1>8. Carried("cresp", "param")'
  BY <1>2, <1>3, <1>4, <1>1, <1>6 DEF Now, Carried, Told, SameClient, RejectBlob, VirtAt, Put, Full, Token, Reply
<1>9. Told("cresp")'
  BY <1>2, <1>3, <1>4, <1>1 DEF Now, Carried, Told, RejectBlob, VirtAt, Put, Full
<1>10. Noted("cresp")'
  BY <1>2, <1>3, <1>4, <1>1, <1>6 DEF Now, Carried, Noted, SameClient, RejectBlob, VirtAt, Put, Full
<1>11. EventTold'
  BY <1>2, <1>3, <1>4, <1>1 DEF Now, EventTold, RejectBlob, VirtAt, Put, Full
<1> QED BY <1>5, <1>7, <1>8, <1>9, <1>10, <1>11 DEF Inv, Now, Places, Statuses

\* The virtualiser looks for an event, and ends its round if there is none.
LEMMA CheckEventsKept ==
    ASSUME NEW s \in Places, NEW st \in Statuses, Now(s, st), CheckEvents
    PROVE  Inv'
<1>1. Virt0' /\ virt'.pc \in {"set_event", "responses", "recv"} /\ (virt'.pc = "recv" => ~event.driver)
        /\ virt'.badge = virt.badge /\ virt'.hand = virt.hand /\ virt'.notes = virt.notes
  BY DEF CheckEvents, VirtAt, NextRound, Now, Typed, Virt0
<1>2. UNCHANGED <<queue, client, driver, data, event>>
  BY DEF CheckEvents, VirtAt, NextRound
<1>3. Typed'
  BY <1>1, <1>2 DEF Now, Typed, Client0, Driver0
<1>4. SameClient /\ SameDevice
  BY <1>1, <1>2 DEF SameClient, SameDevice, CheckEvents, VirtAt, NextRound
<1>5. Scripted' /\ Backed' /\ Shown' /\ Achieved(s, st)'
  BY <1>4, Frame DEF Good, Now, Carried
<1>6. Carried(s, st)'
  BY <1>1, <1>2, <1>4 DEF Now, Carried, Told, SameClient, CheckEvents, VirtAt, NextRound, Token, Reply
<1>7. Told(s)'
  BY <1>1, <1>2 DEF Now, Carried, Told, CheckEvents, VirtAt, NextRound
<1>8. Noted(s)'
  BY <1>1, <1>2, <1>4 DEF Now, Carried, Noted, SameClient, CheckEvents, VirtAt, NextRound
<1>9. EventTold'
  BY <1>1, <1>2 DEF Now, EventTold, CheckEvents, VirtAt, NextRound
<1> QED BY <1>3, <1>5, <1>6, <1>7, <1>8, <1>9 DEF Inv, Now, Places, Statuses

\* The client's event word is set.
LEMMA SetEventKept ==
    ASSUME NEW s \in Places, NEW st \in Statuses, Now(s, st), SetEvent
    PROVE  Inv'
<1>1. Virt0' /\ virt'.pc = "clear_event" /\ virt'.badge = virt.badge /\ virt'.hand = virt.hand
      /\ virt'.notes = virt.notes
  BY DEF SetEvent, VirtAt, Now, Typed, Virt0
<1>2. UNCHANGED <<queue, client, driver, data>> /\ event' \in [driver : BOOLEAN, client : BOOLEAN]
  BY DEF SetEvent, VirtAt, Now, Typed
<1>3. Typed'
  BY <1>1, <1>2 DEF Now, Typed, Client0, Driver0
<1>4. SameClient /\ SameDevice
  BY <1>1, <1>2 DEF SameClient, SameDevice, SetEvent, VirtAt
<1>5. Scripted' /\ Backed' /\ Shown' /\ Achieved(s, st)'
  BY <1>4, Frame DEF Good, Now, Carried
<1>6. Carried(s, st)'
  BY <1>1, <1>2, <1>4 DEF Now, Carried, Told, SameClient, SetEvent, VirtAt, Token, Reply
<1>7. Told(s)'
  BY <1>1, <1>2 DEF Now, Carried, Told, SetEvent, VirtAt
<1>8. Noted(s)'
  BY <1>1, <1>2, <1>4 DEF Now, Carried, Noted, SameClient, SetEvent, VirtAt
<1>9. EventTold'
  BY <1>1, <1>2 DEF Now, EventTold, SetEvent, VirtAt
<1> QED BY <1>3, <1>5, <1>6, <1>7, <1>8, <1>9 DEF Inv, Now, Places, Statuses

\* The driver's event word is cleared and the round ends.
LEMMA ClearEventKept ==
    ASSUME NEW s \in Places, NEW st \in Statuses, Now(s, st), ClearEvent
    PROVE  Inv'
<1>1. Virt0' /\ virt'.pc \in {"responses", "recv"} /\ virt'.badge = virt.badge /\ virt'.hand = virt.hand
        /\ virt'.notes = virt.notes
  BY DEF ClearEvent, VirtAt, NextRound, Now, Typed, Virt0
<1>2. UNCHANGED <<queue, client, driver, data>> /\ event' \in [driver : BOOLEAN, client : BOOLEAN]
      /\ ~event'.driver
  BY DEF ClearEvent, VirtAt, NextRound, Now, Typed
<1>3. Typed'
  BY <1>1, <1>2 DEF Now, Typed, Client0, Driver0
<1>4. SameClient /\ SameDevice
  BY <1>1, <1>2 DEF SameClient, SameDevice, ClearEvent, VirtAt, NextRound
<1>5. Scripted' /\ Backed' /\ Shown' /\ Achieved(s, st)'
  BY <1>4, Frame DEF Good, Now, Carried
<1>6. Carried(s, st)'
  BY <1>1, <1>2, <1>4 DEF Now, Carried, Told, SameClient, ClearEvent, VirtAt, NextRound, Token, Reply
<1>7. Told(s)'
  BY <1>1, <1>2 DEF Now, Carried, Told, ClearEvent, VirtAt, NextRound
<1>8. Noted(s)'
  BY <1>1, <1>2, <1>4 DEF Now, Carried, Noted, SameClient, ClearEvent, VirtAt, NextRound
<1>9. EventTold'
  BY <1>1, <1>2 DEF Now, EventTold, ClearEvent, VirtAt, NextRound
<1> QED BY <1>3, <1>5, <1>6, <1>7, <1>8, <1>9 DEF Inv, Now, Places, Statuses

\* The device interrupts.
LEMMA InterruptKept ==
    ASSUME NEW s \in Places, NEW st \in Statuses, Now(s, st), Interrupt
    PROVE  Inv'
<1>1. Driver0' /\ driver'.pc = driver.pc /\ driver'.badge = TRUE /\ driver'.hand = driver.hand
        /\ driver'.status = driver.status /\ driver'.resource = driver.resource /\ driver'.screen = driver.screen
  BY DEF Interrupt, DriverAt, Now, Typed, Driver0
<1>2. UNCHANGED <<queue, client, virt, data, event>>
  BY DEF Interrupt, DriverAt
<1>3. Typed'
  BY <1>1, <1>2 DEF Now, Typed, Client0, Virt0
<1>4. SameClient /\ SameDevice
  BY <1>1, <1>2 DEF SameClient, SameDevice, Interrupt, DriverAt
<1>5. Scripted' /\ Backed' /\ Shown' /\ Achieved(s, st)'
  BY <1>4, Frame DEF Good, Now, Carried
<1>6. Carried(s, st)'
  BY <1>1, <1>2, <1>4 DEF Now, Carried, Told, SameClient, Interrupt, DriverAt, Token, Reply
<1>7. Told(s)'
  BY <1>1, <1>2 DEF Now, Carried, Told, Interrupt, DriverAt
<1>8. Noted(s)'
  BY <1>1, <1>2, <1>4 DEF Now, Carried, Noted, SameClient, Interrupt, DriverAt
<1>9. EventTold'
  BY <1>1, <1>2 DEF Now, EventTold, Interrupt, DriverAt
<1> QED BY <1>3, <1>5, <1>6, <1>7, <1>8, <1>9 DEF Inv, Now, Places, Statuses

\* The driver wakes up.
LEMMA DriverNotifiedKept ==
    ASSUME NEW s \in Places, NEW st \in Statuses, Now(s, st), DriverNotified
    PROVE  Inv'
<1>1. Driver0' /\ driver'.pc = "service" /\ driver'.badge = FALSE /\ driver'.hand = driver.hand
        /\ driver'.status = driver.status /\ driver'.resource = driver.resource /\ driver'.screen = driver.screen
  BY DEF DriverNotified, DriverAt, Now, Typed, Driver0
<1>2. UNCHANGED <<queue, client, virt, data, event>>
  BY DEF DriverNotified, DriverAt
<1>3. Typed'
  BY <1>1, <1>2 DEF Now, Typed, Client0, Virt0
<1>4. SameClient /\ SameDevice
  BY <1>1, <1>2 DEF SameClient, SameDevice, DriverNotified, DriverAt
<1>5. Scripted' /\ Backed' /\ Shown' /\ Achieved(s, st)'
  BY <1>4, Frame DEF Good, Now, Carried
<1>6. Carried(s, st)'
  BY <1>1, <1>2, <1>4 DEF Now, Carried, Told, SameClient, DriverNotified, DriverAt, Token, Reply
<1>7. Told(s)'
  BY <1>1, <1>2 DEF Now, Carried, Told, DriverNotified, DriverAt
<1>8. Noted(s)'
  BY <1>1, <1>2, <1>4 DEF Now, Carried, Noted, SameClient, DriverNotified, DriverAt
<1>9. EventTold'
  BY <1>1, <1>2 DEF Now, EventTold, DriverNotified, DriverAt
<1> QED BY <1>3, <1>5, <1>6, <1>7, <1>8, <1>9 DEF Inv, Now, Places, Statuses

\* The driver takes a request, or finds none.
LEMMA ServiceKept ==
    ASSUME NEW s \in Places, NEW st \in Statuses, Now(s, st), Service
    PROVE  Inv'
<1>1. CASE s # "dreq"
  <2>1. queue["dreq"] = << >>
    BY <1>1 DEF Now, Carried
  <2>2. Driver0' /\ driver'.pc = "recv" /\ driver'.badge = driver.badge /\ driver'.hand = driver.hand
        /\ driver'.status = driver.status /\ driver'.resource = driver.resource /\ driver'.screen = driver.screen
    BY <1>1, <2>1 DEF Service, DriverAt, Empty, Full, Now, Typed, Driver0
  <2>3. UNCHANGED <<queue, client, virt, data, event>>
    BY <1>1, <2>1 DEF Service, DriverAt, Empty, Full
  <2>4. Typed'
    BY <2>2, <2>3, <2>1, <1>1 DEF Now, Typed, Client0, Virt0
  <2>5. SameClient /\ SameDevice
    BY <2>2, <2>3, <2>1, <1>1 DEF SameClient, SameDevice, Service, DriverAt, Empty, Full
  <2>6. Scripted' /\ Backed' /\ Shown' /\ Achieved(s, st)'
    BY <2>5, Frame, <2>1, <1>1 DEF Good, Now, Carried
  <2>7. Carried(s, st)'
    BY <2>2, <2>3, <2>1, <1>1, <2>5 DEF Now, Carried, Told, SameClient, Service, DriverAt, Empty, Full, Token, Reply
  <2>8. Told(s)'
    BY <2>2, <2>3, <2>1, <1>1 DEF Now, Carried, Told, Service, DriverAt, Empty, Full
  <2>9. Noted(s)'
    BY <2>2, <2>3, <2>1, <1>1, <2>5 DEF Now, Carried, Noted, SameClient, Service, DriverAt, Empty, Full
  <2>10. EventTold'
    BY <2>2, <2>3, <2>1, <1>1 DEF Now, EventTold, Service, DriverAt, Empty, Full
  <2> QED BY <2>4, <2>6, <2>7, <2>8, <2>9, <2>10 DEF Inv, Now, Places, Statuses
<1>2. CASE s = "dreq"
  <2>1. queue["dreq"] = <<Token>> /\ queue["dresp"] = << >>
    BY <1>2 DEF Now, Carried
  <2>2. Driver0' /\ driver'.pc = "handle" /\ driver'.badge = driver.badge /\ driver'.hand = Token
        /\ driver'.status = driver.status /\ driver'.resource = driver.resource /\ driver'.screen = driver.screen
    <3>1. ~Full("dresp") /\ ~Empty("dreq") BY <2>1, GpuAssumption DEF Full, Empty
    <3>2. driver' = [driver EXCEPT !.pc = "handle", !.hand = Token] BY <2>1, <3>1 DEF Service
    <3> QED BY <3>2 DEF Now, Typed, Driver0
  <2>3. DOMAIN queue' = QueueName /\ queue'["creq"] = queue["creq"] /\ queue'["cresp"] = queue["cresp"]
        /\ queue'["dreq"] = << >> /\ queue'["dresp"] = queue["dresp"]
    BY <1>2, <2>1, GpuAssumption DEF Service, DriverAt, Empty, Full, Now, Typed, QueueName, Carried
  <2>4. UNCHANGED <<client, virt, data, event>>
    BY <1>2, <2>1 DEF Service, DriverAt, Empty, Full
  <2>5. Typed'
    BY <2>2, <2>3, <2>4, <2>1, <1>2 DEF Now, Typed, Client0, Virt0
  <2>6. SameClient /\ SameDevice
    BY <2>2, <2>3, <2>4, <2>1, <1>2 DEF SameClient, SameDevice, Service, DriverAt, Empty, Full
  <2>7. Scripted' /\ Backed' /\ Shown' /\ Achieved("work", st)'
    BY <2>6, Frame, <2>1, <1>2 DEF Good, Now, Carried
  <2>8. Carried("work", st)'
    BY <2>2, <2>3, <2>4, <2>1, <1>2, <2>6 DEF Now, Carried, Told, SameClient, Service, DriverAt, Empty, Full,
       Token, Reply
  <2>9. Told("work")'
    BY <2>2, <2>3, <2>4, <2>1, <1>2 DEF Now, Carried, Told, Service, DriverAt, Empty, Full
  <2>10. Noted("work")'
    BY <2>2, <2>3, <2>4, <2>1, <1>2, <2>6 DEF Now, Carried, Noted, SameClient, Service, DriverAt, Empty, Full
  <2>11. EventTold'
    BY <2>2, <2>3, <2>4, <2>1, <1>2 DEF Now, EventTold, Service, DriverAt, Empty, Full
  <2> QED BY <2>5, <2>7, <2>8, <2>9, <2>10, <2>11 DEF Inv, Now, Places, Statuses
<1> QED BY <1>1, <1>2 DEF Now, Typed, Client0, Virt0, Driver0

\* The driver answers.
LEMMA RespondKept ==
    ASSUME NEW s \in Places, NEW st \in Statuses, Now(s, st), Respond
    PROVE  Inv'
<1>1. s = "done" /\ queue["dresp"] = << >> /\ driver.hand.id = client.id /\ driver.status = st
  BY DEF Now, Carried, Respond, DriverAt, Token
<1>2. Driver0' /\ driver'.pc = "notify" /\ driver'.badge = driver.badge /\ driver'.hand = << >>
        /\ driver'.status = "ok" /\ driver'.resource = driver.resource /\ driver'.screen = driver.screen
  BY <1>1 DEF Respond, DriverAt, Put, Now, Typed, Driver0, Statuses
<1>3. DOMAIN queue' = QueueName /\ queue'["creq"] = queue["creq"] /\ queue'["cresp"] = queue["cresp"]
      /\ queue'["dreq"] = queue["dreq"] /\ queue'["dresp"] = <<Reply(st)>>
  BY <1>1, GpuAssumption DEF Respond, DriverAt, Put, Now, Typed, QueueName, Carried, Reply
<1>4. UNCHANGED <<client, virt, data, event>>
  BY <1>1 DEF Respond, DriverAt, Put
<1>5. Typed'
  BY <1>2, <1>3, <1>4, <1>1 DEF Now, Typed, Client0, Virt0
<1>6. SameClient /\ SameDevice
  BY <1>2, <1>3, <1>4, <1>1 DEF SameClient, SameDevice, Respond, DriverAt, Put
<1>7. Scripted' /\ Backed' /\ Shown' /\ Achieved("dresp", st)'
  BY <1>6, Frame, <1>1 DEF Good, Now, Carried
<1>8. Carried("dresp", st)'
  BY <1>2, <1>3, <1>4, <1>1, <1>6 DEF Now, Carried, Told, SameClient, Respond, DriverAt, Put, Token, Reply
<1>9. Told("dresp")'
  BY <1>2, <1>3, <1>4, <1>1 DEF Now, Carried, Told, Respond, DriverAt, Put
<1>10. Noted("dresp")'
  BY <1>2, <1>3, <1>4, <1>1, <1>6 DEF Now, Carried, Noted, SameClient, Respond, DriverAt, Put
<1>11. EventTold'
  BY <1>2, <1>3, <1>4, <1>1 DEF Now, EventTold, Respond, DriverAt, Put
<1> QED BY <1>5, <1>7, <1>8, <1>9, <1>10, <1>11 DEF Inv, Now, Places, Statuses

\* The driver notifies the virtualiser.
LEMMA NotifyVirtKept ==
    ASSUME NEW s \in Places, NEW st \in Statuses, Now(s, st), NotifyVirt
    PROVE  Inv'
<1>1. Virt0' /\ virt'.pc = virt.pc /\ virt'.badge = TRUE /\ virt'.hand = virt.hand /\ virt'.notes = virt.notes
  BY DEF NotifyVirt, DriverAt, Now, Typed, Virt0
<1>2. Driver0' /\ driver'.pc = "service" /\ driver'.badge = driver.badge /\ driver'.hand = driver.hand
        /\ driver'.status = driver.status /\ driver'.resource = driver.resource /\ driver'.screen = driver.screen
  BY DEF NotifyVirt, DriverAt, Now, Typed, Driver0
<1>3. UNCHANGED <<queue, client, data, event>>
  BY DEF NotifyVirt, DriverAt
<1>4. Typed'
  BY <1>1, <1>2, <1>3 DEF Now, Typed, Client0
<1>5. SameClient /\ SameDevice
  BY <1>1, <1>2, <1>3 DEF SameClient, SameDevice, NotifyVirt, DriverAt
<1>6. Scripted' /\ Backed' /\ Shown' /\ Achieved(s, st)'
  BY <1>5, Frame DEF Good, Now, Carried
<1>7. Carried(s, st)'
  BY <1>1, <1>2, <1>3, <1>5 DEF Now, Carried, Told, SameClient, NotifyVirt, DriverAt, Token, Reply
<1>8. Told(s)'
  BY <1>1, <1>2, <1>3 DEF Now, Carried, Told, NotifyVirt, DriverAt
<1>9. Noted(s)'
  BY <1>1, <1>2, <1>3, <1>5 DEF Now, Carried, Noted, SameClient, NotifyVirt, DriverAt
<1>10. EventTold'
  BY <1>1, <1>2, <1>3 DEF Now, EventTold, NotifyVirt, DriverAt
<1> QED BY <1>4, <1>6, <1>7, <1>8, <1>9, <1>10 DEF Inv, Now, Places, Statuses

-----------------------------------------------------------------------------
(* The client's steps.                                                     *)

\* The client starts a page.
LEMMA ShowPageKept ==
    ASSUME NEW s \in Places, NEW st \in Statuses, Now(s, st), NEW p \in Page, ShowPage(p)
    PROVE  Inv'
<1>1. p # 0 /\ s = "none" BY GpuAssumption DEF ShowPage, Now, Carried
<1>2. /\ Client0' /\ client'.pc = "submit" /\ client'.badge = client.badge /\ client'.sticky = client.sticky
      /\ client'.script = PageScript /\ client'.id = client.id /\ client'.page = p /\ client'.shown = 0
  BY DEF ShowPage, Now, Typed, Client0
<1>3. UNCHANGED <<queue, virt, driver, data, event>> BY DEF ShowPage
<1>4. Typed' BY <1>2, <1>3 DEF Now, Typed, Virt0, Driver0
<1>5. client'.script = Left(7) /\ Head(client'.script).code = "display_info"
  BY <1>2, LeftAll, LeftIs, PageSteps DEF Request
<1>6. Scripted' BY <1>1, <1>2, <1>5 DEF Scripted
<1>7. EventTold' /\ Backed' /\ Shown' BY <1>2, <1>3 DEF Now, EventTold, Backed, Shown, Res
<1>8. Carried("none", st)' BY <1>1, <1>2, <1>3 DEF Now, Carried
<1>9. Told("none")' /\ Noted("none")' BY <1>1, <1>2, <1>3 DEF Now, Told, Noted
<1>10. Achieved("none", st)' BY <1>5 DEF Achieved, Past, Good
<1> QED BY <1>4, <1>6, <1>7, <1>8, <1>9, <1>10 DEF Inv, Now, Places

\* The client sends a request of its own.
LEMMA SendLoneKept ==
    ASSUME NEW s \in Places, NEW st \in Statuses, Now(s, st), NEW r \in Lone, SendLone(r)
    PROVE  Inv'
<1>1. s = "none" BY DEF SendLone, Now, Carried
<1>2. /\ Client0' /\ client'.pc = "submit" /\ client'.badge = client.badge /\ client'.sticky = client.sticky
      /\ client'.script = <<r>> /\ client'.id = client.id /\ client'.page = 0 /\ client'.shown = 0
  BY DEF SendLone, Now, Typed, Client0
<1>3. UNCHANGED <<queue, virt, driver, data, event>> BY DEF SendLone
<1>4. Typed' BY <1>2, <1>3 DEF Now, Typed, Virt0, Driver0
<1>5. Scripted' BY <1>2 DEF Scripted
<1>6. EventTold' /\ Backed' /\ Shown' BY <1>2, <1>3 DEF Now, EventTold, Backed, Shown, Res
<1>7. Carried("none", st)' BY <1>1, <1>2, <1>3 DEF Now, Carried
<1>8. Told("none")' /\ Noted("none")' BY <1>1, <1>2, <1>3 DEF Now, Told, Noted
<1>9. Achieved("none", st)' BY <1>2 DEF Achieved
<1> QED BY <1>4, <1>5, <1>6, <1>7, <1>8, <1>9 DEF Inv, Now, Places

\* The next request of a page, while none is in flight: what the step before it
\* achieved is what this one needs.
LEMMA Advances ==
    ASSUME NEW st, NEW k \in 1 .. 7, client.page # 0, client.script = Left(k), k # 1, client.pc # "idle",
           NEW s, Achieved(s, st), Head(client.script).code = "frame" \/ Good(s, st),
           client'.script = Left(k - 1), client'.page = client.page,
           driver' = driver, IF Head(client.script).code = "frame" THEN Drawn' ELSE data' = data
    PROVE  Achieved("none", st)'
<1>1. Head(client.script) = PageScript[8 - k] /\ Head(client'.script) = PageScript[9 - k]
  <2>1. k - 1 \in 1 .. 7 /\ 8 - (k - 1) = 9 - k OBVIOUS
  <2>2. Head(Left(k)) = PageScript[8 - k] /\ Head(Left(k - 1)) = PageScript[8 - (k - 1)] BY <2>1, LeftIs
  <2> QED BY <2>1, <2>2
<1>2. ~Good("none", st) BY DEF Good
<1>3. (Created' <=> Created) /\ (Attached' <=> Attached) /\ (Transferred' <=> Transferred)
  BY DEF Created, Attached, Transferred, Res
<1>4. data' = data => (Drawn' <=> Drawn) BY DEF Drawn
<1>5. CASE k = 7 BY <1>1, <1>2, <1>5, PageSteps DEF Achieved, Past, Request
<1>6. CASE k = 6 BY <1>1, <1>2, <1>3, <1>6, PageSteps DEF Achieved, Past, Request
<1>7. CASE k = 5 BY <1>1, <1>2, <1>3, <1>4, <1>7, PageSteps DEF Achieved, Past, Request
<1>8. CASE k = 4 BY <1>1, <1>2, <1>3, <1>4, <1>8, PageSteps DEF Achieved, Past, Request
<1>9. CASE k = 3 BY <1>1, <1>2, <1>3, <1>4, <1>9, PageSteps DEF Achieved, Past, Request
<1>10. CASE k = 2 BY <1>1, <1>2, <1>3, <1>4, <1>10, PageSteps DEF Achieved, Past, Request
<1> QED BY <1>5, <1>6, <1>7, <1>8, <1>9, <1>10

\* The client writes the page's pixels.
LEMMA CopyFrameKept ==
    ASSUME NEW s \in Places, NEW st \in Statuses, Now(s, st), CopyFrame
    PROVE  Inv'
<1>1. s = "none" BY DEF CopyFrame, Now, Carried
<1>2. client.page # 0 /\ \E k \in 1 .. 7 : client.script = Left(k)
  <2>1. SUFFICES ASSUME NEW r \in Lone, client.script = <<r>> PROVE FALSE BY DEF CopyFrame, Now, Scripted
  <2>2. r.code = "frame" BY <2>1 DEF CopyFrame
  <2> QED BY <2>2, GpuAssumption DEF WellFormed
<1>3. PICK k \in 1 .. 7 : client.script = Left(k) BY <1>2
<1>4. Head(client.script) = PageScript[8 - k] /\ Tail(client.script) = Left(k - 1) BY <1>3, LeftIs
<1>5. k = 6 BY <1>4, PageSteps DEF CopyFrame, Request
<1>6. /\ Client0' /\ client'.pc = "submit" /\ client'.badge = client.badge /\ client'.sticky = client.sticky
      /\ client'.script = Left(k - 1) /\ client'.id = client.id /\ client'.page = client.page
      /\ client'.shown = client.shown
  BY <1>4 DEF CopyFrame, Now, Typed, Client0
<1>7. UNCHANGED <<queue, virt, driver, event>> /\ data' = [i \in Cell |-> client.page]
  BY DEF CopyFrame, Now, Typed
<1>8. Typed'
  <2>1. data' \in [Cell -> Page \cup {Blank, Info}] BY <1>7 DEF Now, Typed, Client0, Blank
  <2> QED BY <1>6, <1>7, <2>1 DEF Now, Typed, Virt0, Driver0
<1>9. Scripted' BY <1>2, <1>5, <1>6 DEF Scripted
<1>10. EventTold' /\ Backed' BY <1>6, <1>7 DEF Now, EventTold, Backed, Res
<1>11. Shown' BY <1>6, <1>7 DEF Now, Shown, CopyFrame
<1>12. Carried("none", st)' BY <1>1, <1>6, <1>7 DEF Now, Carried
<1>13. Told("none")' /\ Noted("none")' BY <1>1, <1>6, <1>7 DEF Now, Told, Noted, CopyFrame
<1>14. Drawn' BY <1>6, <1>7 DEF Drawn
<1>15. Achieved("none", st)' BY <1>2, <1>3, <1>5, <1>6, <1>7, <1>14, Advances DEF Now, CopyFrame
<1> QED BY <1>8, <1>9, <1>10, <1>11, <1>12, <1>13, <1>15 DEF Inv, Now, Places

\* The client puts a request on its queue.
LEMMA SubmitKept ==
    ASSUME NEW s \in Places, NEW st \in Statuses, Now(s, st), Submit
    PROVE  Inv'
<1>1. s = "none" /\ queue["creq"] = << >> BY DEF Submit, Now, Carried
<1>2. ~Full("creq") BY <1>1, GpuAssumption DEF Full
<1>3. /\ Client0' /\ client'.pc = "notify" /\ client'.badge = client.badge /\ client'.sticky = client.sticky
      /\ client'.script = client.script /\ client'.id = client.id /\ client'.page = client.page
      /\ client'.shown = client.shown
  BY <1>2 DEF Submit, Now, Typed, Client0
<1>4. DOMAIN queue' = QueueName /\ queue'["creq"] = <<Token>> /\ queue'["cresp"] = queue["cresp"]
      /\ queue'["dreq"] = queue["dreq"] /\ queue'["dresp"] = queue["dresp"]
  BY <1>1, <1>2 DEF Submit, Now, Typed, QueueName, Token
<1>5. UNCHANGED <<virt, driver, data, event>> BY DEF Submit
<1>6. Typed' BY <1>3, <1>4, <1>5 DEF Now, Typed, Virt0, Driver0
<1>7. Scripted' BY <1>3 DEF Now, Scripted, Submit
<1>8. EventTold' /\ Backed' BY <1>5 DEF Now, EventTold, Backed, Res
<1>9. Shown' BY <1>3, <1>5 DEF Now, Shown, Submit
<1>10. Carried("creq", st)' BY <1>1, <1>3, <1>4, <1>5 DEF Now, Carried, Token
<1>11. Told("creq")' /\ Noted("creq")' BY <1>1, <1>3, <1>5 DEF Now, Told, Noted
<1>12. Achieved("creq", st)'
  <2>1. ~Good("creq", st) /\ ~Good(s, st) BY <1>1 DEF Good
  <2>2. (Drawn' <=> Drawn) /\ (Created' <=> Created) /\ (Attached' <=> Attached)
        /\ (Transferred' <=> Transferred)
    BY <1>3, <1>5 DEF Drawn, Created, Attached, Transferred, Res
  <2> QED BY <1>3, <2>1, <2>2 DEF Now, Achieved, Past, Submit
<1> QED BY <1>6, <1>7, <1>8, <1>9, <1>10, <1>11, <1>12 DEF Inv, Now, Places

\* The client takes the answer: a page goes on, ends or fails.
LEMMA SubmitTakeKept ==
    ASSUME NEW s \in Places, NEW st \in Statuses, Now(s, st), SubmitTake
    PROVE  Inv'
<1> DEFINE rest == IF st = "ok" THEN Tail(client.script) ELSE << >>
           next == (client.id + 1) % Ids
<1>1. s = "cresp" /\ queue["cresp"] = <<Reply(st)>> BY DEF SubmitTake, Now, Carried, Told
<1>2. Head(queue["cresp"]).id = client.id /\ Head(queue["cresp"]).status = st /\ ~Empty("cresp")
  BY <1>1, SMTT(40) DEF Reply, Empty
<1>3. next \in 0 .. Ids - 1
  <2>1. client.id + 1 \in Int /\ Ids \in Nat \ {0} BY GpuAssumption DEF Now, Typed, Client0
  <2> QED BY <2>1, ModDiv
<1>. HIDE DEF next
<1>4. client.pc = "take" /\ ~client.badge /\ ~client.sticky
      /\ virt.pc \notin {"notify_client", "notify_rejected"}
  BY <1>1 DEF SubmitTake, Now, Told
<1>5. client' = [client EXCEPT !.pc = IF rest = << >> THEN "idle" ELSE "submit", !.script = rest,
                               !.id = next, !.shown = IF st = "ok" /\ rest = << >> THEN client.page ELSE 0]
  BY <1>2 DEF SubmitTake, next
<1>6. /\ Client0' /\ client'.pc = (IF rest = << >> THEN "idle" ELSE "submit")
      /\ ~client'.badge /\ ~client'.sticky /\ client'.script = rest /\ client'.page = client.page
      /\ client'.shown = (IF st = "ok" /\ rest = << >> THEN client.page ELSE 0)
  <2>. HIDE DEF rest
  <2> QED BY <1>3, <1>4, <1>5 DEF Now, Typed, Client0
<1>7. DOMAIN queue' = QueueName /\ queue'["creq"] = queue["creq"] /\ queue'["cresp"] = << >>
      /\ queue'["dreq"] = queue["dreq"] /\ queue'["dresp"] = queue["dresp"]
  BY <1>1 DEF SubmitTake, Now, Typed, QueueName
<1>8. UNCHANGED <<virt, driver, data, event>> BY DEF SubmitTake
<1>9. Typed' BY <1>6, <1>7, <1>8, SMTT(40) DEF Now, Typed, Virt0, Driver0
<1>10. \/ client.page = 0 /\ rest = << >>
       \/ rest = << >> /\ st # "ok"
       \/ client.page # 0 /\ st = "ok" /\ \E k \in 1 .. 7 : client.script = Left(k) /\ rest = Left(k - 1)
  <2>1. CASE client.page = 0
    <3>1. PICK r \in Lone : client.script = <<r>> BY <1>4, <2>1 DEF Now, Scripted
    <3>2. Tail(client.script) = << >> BY <3>1
    <3> QED BY <2>1, <3>2
  <2>2. CASE client.page # 0 /\ st = "ok"
    <3>1. PICK k \in 1 .. 7 : client.script = Left(k) BY <1>4, <2>2 DEF Now, Scripted
    <3>2. rest = Left(k - 1) BY <2>2, <3>1, LeftIs
    <3> QED BY <2>2, <3>1, <3>2
  <2> QED BY <2>1, <2>2
<1>. HIDE DEF rest
<1>11. Scripted'
  <2>1. SUFFICES ASSUME rest # << >> PROVE Scripted' BY <1>6 DEF Scripted
  <2>2. PICK k \in 1 .. 7 : client.script = Left(k) /\ rest = Left(k - 1) /\ client.page # 0 BY <1>10, <2>1
  <2>3. k # 1 BY <2>1, <2>2, LeftIs
  <2> QED BY <1>6, <2>1, <2>2, <2>3 DEF Scripted
<1>12. EventTold' /\ Backed' BY <1>8 DEF Now, EventTold, Backed, Res
<1>13. Shown'
  <2>1. SUFFICES ASSUME rest = << >>, st = "ok", client.page # 0
                 PROVE  \A i \in Cell : driver.screen[i] = client.page
    BY <1>6, <1>8 DEF Shown
  <2>2. PICK k \in 1 .. 7 : client.script = Left(k) /\ rest = Left(k - 1) BY <1>10, <2>1
  <2>3. k = 1 BY <2>1, <2>2, LeftIs
  <2>4. Head(client.script) = PageScript[7]
    <3>1. Head(Left(1)) = PageScript[8 - 1] BY LeftIs
    <3> QED BY <2>2, <2>3, <3>1
  <2>5. Head(client.script).code = "flush" BY <2>4, PageSteps DEF Request
  <2> QED BY <1>1, <1>4, <2>1, <2>5 DEF Now, Achieved, Past, Good, OnScreen
<1>14. Carried("none", st)' BY <1>1, <1>6, <1>7, <1>8 DEF Now, Carried
<1>15. Told("none")' /\ Noted("none")' BY <1>1, <1>4, <1>6, <1>8 DEF Now, Told, Noted
<1>16. Achieved("none", st)'
  <2>1. SUFFICES ASSUME rest # << >>, client.page # 0 PROVE Achieved("none", st)' BY <1>6 DEF Achieved
  <2>2. PICK k \in 1 .. 7 : client.script = Left(k) /\ rest = Left(k - 1) BY <1>10, <2>1
  <2>3. k # 1 /\ st = "ok" BY <1>10, <2>1, <2>2, LeftIs
  <2>4. Good(s, st) BY <1>1, <2>3 DEF Good
  <2>5. Head(client.script).code # "frame" BY <1>4 DEF Now, Scripted
  <2> QED BY <1>4, <1>6, <1>8, <2>1, <2>2, <2>3, <2>4, <2>5, Advances DEF Now
<1> QED BY <1>9, <1>11, <1>12, <1>13, <1>14, <1>15, <1>16 DEF Inv, Now, Places

-----------------------------------------------------------------------------
(* The copy of the display information.                                    *)

\* The copy cannot reach the pixels of the page in flight: only the answer to a
\* request for the display information is copied, and the pixels come later.
LEMMA CopyDisplayKept ==
    ASSUME NEW s \in Places, NEW st \in Statuses, Now(s, st), CopyDisplay
    PROVE  Inv'
<1> DEFINE slot == client.id % NoteSlots
<1>1. s = "vresp" /\ virt.hand = Reply(st) /\ virt.hand.id = client.id /\ client.pc \notin {"idle", "submit"}
  BY DEF CopyDisplay, VirtAt, Now, Carried, Reply
<1>2. slot \in 0 .. NoteSlots - 1
  <2>1. client.id \in Int /\ NoteSlots \in Nat \ {0} BY GpuAssumption DEF Now, Typed, Client0
  <2> QED BY <2>1, ModDiv
<1>3. NoteOf(virt.hand.id) = virt.notes[slot] BY <1>1 DEF NoteOf
<1>4. Unnoted = [virt.notes EXCEPT ![slot] = NoNote] BY <1>1 DEF Unnoted
<1>. HIDE DEF slot
<1>5. Unnoted \in Notes BY <1>4 DEF Now, Typed, Virt0, Notes, NoNote
<1>6. /\ Virt0' /\ virt'.pc = "deliver" /\ virt'.badge = virt.badge /\ virt'.hand = virt.hand
      /\ virt'.notes = Unnoted
  BY <1>5 DEF CopyDisplay, VirtAt, Now, Typed, Virt0
<1>7. UNCHANGED <<queue, client, driver, event>> /\ data' = Displayed BY DEF CopyDisplay
<1>8. data' \in [Cell -> Page \cup {Blank, Info}] BY <1>7 DEF Displayed, Now, Typed, Driver0
<1>9. Typed' BY <1>6, <1>7, <1>8 DEF Now, Typed, Client0, Driver0
<1>10. Scripted' /\ EventTold' /\ Backed' /\ Shown' BY <1>6, <1>7 DEF Now, Scripted, EventTold, Backed, Shown, Res
<1>11. Carried("vresp", st)' BY <1>1, <1>6, <1>7 DEF Now, Carried, Reply, Token
<1>12. Told("vresp")' BY <1>1, <1>6, <1>7 DEF Now, Told
<1>13. Noted("vresp")'
  <2>1. \A n \in 0 .. NoteSlots - 1 : ~Unnoted[n].live
    BY <1>2, <1>4 DEF Now, Noted, Typed, Virt0, Notes, NoNote, slot
  <2> QED BY <1>6, <2>1 DEF Noted
<1>14. Achieved("vresp", st)'
  <2>1. Head(client.script).code # "display_info" => data' = data
    BY <1>2, <1>3, <1>7 DEF Displayed, Now, Noted
  <2>2. data' = data => (Drawn' <=> Drawn) BY <1>7 DEF Drawn
  <2>3. (Created' <=> Created) /\ (Attached' <=> Attached) /\ (Transferred' <=> Transferred)
        /\ (OnScreen' <=> OnScreen)
    BY <1>7 DEF Created, Attached, Transferred, OnScreen, Res
  <2> QED BY <1>1, <1>7, <2>1, <2>2, <2>3 DEF Now, Achieved, Past
<1> QED BY <1>9, <1>10, <1>11, <1>12, <1>13, <1>14 DEF Inv, Now, Places

-----------------------------------------------------------------------------
(* The driver's handlers.                                                  *)

\* The driver handles the request in flight.
LEMMA ReqIs ==
    ASSUME NEW s \in Places, NEW st \in Statuses, Now(s, st), driver.pc = "handle"
    PROVE  /\ s = "work" /\ client.pc \notin {"idle", "submit"} /\ Req = Head(client.script) /\ WellFormed(Req)
           /\ client.page # 0 => \E j \in {1, 3, 4, 5, 6, 7} : Req = PageScript[j]
<1>1. s = "work" /\ driver.hand = Token BY DEF Now, Carried
<1>2. client.pc \notin {"idle", "submit"} BY <1>1 DEF Now, Carried
<1>3. Req = Head(client.script) BY <1>1 DEF Req, Token
<1> QED BY <1>1, <1>2, <1>3, Wanted DEF Now

\* What any handler does, whatever it does to the resource and the screen.
LEMMA HandledKept ==
    ASSUME NEW s \in Places, NEW st \in Statuses, Now(s, st), NEW code, NEW status \in Statuses, NEW changes,
           Handles(code, status, changes), DOMAIN changes = DOMAIN driver,
           changes.hand = driver.hand, changes.badge = driver.badge, changes.info \in {Blank, Info},
           event' \in [driver : BOOLEAN, client : BOOLEAN], Backed', Achieved("done", status)'
    PROVE  Inv'
<1>1. driver.pc = "handle" /\ s = "work" BY DEF Handles, Handling, DriverAt, Now, Carried
<1>2. /\ Driver0' /\ driver'.pc = "respond" /\ driver'.status = status /\ driver'.hand = driver.hand
      /\ driver'.badge = driver.badge
  BY DEF Handles, Now, Typed, Driver0
<1>3. UNCHANGED <<queue, client, virt, data>> BY DEF Handles
<1>4. Typed'
  <2>1. Client0' BY <1>3 DEF Now, Typed, Client0
  <2>2. Virt0' BY <1>3 DEF Now, Typed, Virt0
  <2> QED BY <1>2, <1>3, <2>1, <2>2 DEF Now, Typed
<1>5. Scripted' BY <1>3 DEF Now, Scripted
<1>6. Shown' BY <1>1, <1>3 DEF Now, Shown, Carried
<1>7. EventTold' BY <1>2 DEF EventTold
<1>8. Carried("done", status)' BY <1>1, <1>2, <1>3 DEF Now, Carried, Token
<1>9. Told("done")' /\ Noted("done")' BY <1>1, <1>2, <1>3 DEF Now, Told, Noted
<1> QED BY <1>4, <1>5, <1>6, <1>7, <1>8, <1>9 DEF Inv, Now, Places

\* The fields that a handler changes.
LEMMA HandlesIs ==
    ASSUME NEW code, NEW status, NEW changes, Handles(code, status, changes), DOMAIN changes = DOMAIN driver,
           Typed
    PROVE  /\ driver'.resource = changes.resource /\ driver'.screen = changes.screen /\ Req.code = code
           /\ driver.pc = "handle" /\ UNCHANGED <<queue, client, virt, data>>
  BY DEF Handles, Handling, DriverAt, Typed, Driver0

\* The steps before the one in flight stay achieved when the resource stays.
LEMMA StaysAchieved ==
    ASSUME NEW s, NEW st, NEW t, NEW ot, Achieved(s, st), UNCHANGED <<client, data>>, driver'.resource = Res,
           Good(t, ot) => Head(client.script).code \notin {"create", "attach", "transfer", "flush"}
    PROVE  Achieved(t, ot)'
<1>1. (Drawn' <=> Drawn) /\ (Created' <=> Created) /\ (Attached' <=> Attached)
      /\ (Transferred' <=> Transferred)
  BY DEF Drawn, Created, Attached, Transferred, Res
<1> QED BY <1>1 DEF Achieved, Past

\* get_display_info.
LEMMA DisplayInfoKept ==
    ASSUME NEW s \in Places, NEW st \in Statuses, Now(s, st), NEW ok \in BOOLEAN, DisplayInfo(ok)
    PROVE  Inv'
<1> DEFINE status == IF ~ok THEN "unspec" ELSE IF Req.arg >= RegionCells THEN "bounds" ELSE "ok"
           changes == IF status = "ok" THEN [driver EXCEPT !.info = Info] ELSE driver
<1>0. PICK outcome : outcome = status OBVIOUS
<1>1. Handles("display_info", outcome, changes) BY <1>0 DEF DisplayInfo
<1>2. event' \in [driver : BOOLEAN, client : BOOLEAN]
  <2>1. event' = [event EXCEPT !.driver = @ \/ outcome = "ok"] BY <1>0 DEF DisplayInfo
  <2> QED BY <2>1 DEF Now, Typed
<1>3. outcome \in Statuses BY <1>0 DEF Statuses
<1>. HIDE DEF status
<1>4. /\ DOMAIN changes = DOMAIN driver /\ changes.hand = driver.hand /\ changes.badge = driver.badge
      /\ changes.info \in {Blank, Info} /\ changes.resource = Res /\ changes.screen = driver.screen
  BY <1>0 DEF Now, Typed, Driver0, Res
<1>. HIDE DEF changes
<1>5. driver'.resource = Res /\ Req.code = "display_info" /\ driver.pc = "handle"
      /\ UNCHANGED <<client, data>>
  BY <1>1, <1>4, HandlesIs DEF Now
<1>6. Backed' BY <1>5 DEF Now, Backed, Res
<1>7. Req = Head(client.script) BY <1>5, ReqIs
<1>8. Achieved("done", outcome)' BY <1>5, <1>7, StaysAchieved DEF Now
<1> QED BY <1>1, <1>2, <1>3, <1>4, <1>6, <1>8, HandledKept

\* resource_create_2d.
LEMMA Create2dKept ==
    ASSUME NEW s \in Places, NEW st \in Statuses, Now(s, st), NEW ok \in BOOLEAN, Create2d(ok)
    PROVE  Inv'
<1> DEFINE w == Req.arg[1]
           h == Req.arg[2]
           status == CASE Res # None -> "unspec"
                       [] Res = None /\ (Req.res \notin 1 .. MaxResources \/ w * h \notin 1 .. DmaCells) -> "param"
                       [] OTHER -> IF ok THEN "ok" ELSE "unspec"
           new == [id |-> Req.res, w |-> w, h |-> h, off |-> 0, size |-> 0, attached |-> FALSE,
                   transfer |-> NoTransfer]
           changes == IF status = "ok" THEN [driver EXCEPT !.resource = new, !.screen = Fresh(w, h)] ELSE driver
<1>0. PICK outcome : outcome = status OBVIOUS
<1>1. Handles("create", outcome, changes) /\ UNCHANGED event BY <1>0 DEF Create2d
<1>2. outcome \in Statuses
      /\ (outcome = "ok" => Res = None /\ Req.res \in 1 .. MaxResources /\ w * h \in 1 .. DmaCells)
  BY <1>0 DEF Statuses
<1>. HIDE DEF status
<1>3. /\ DOMAIN changes = DOMAIN driver /\ changes.hand = driver.hand /\ changes.badge = driver.badge
      /\ changes.info \in {Blank, Info} /\ changes.resource = IF outcome = "ok" THEN new ELSE Res
  <2>. HIDE DEF new
  <2> QED BY <1>0 DEF Now, Typed, Driver0, Res
<1>. HIDE DEF changes
<1>4. driver'.resource = (IF outcome = "ok" THEN new ELSE Res) /\ Req.code = "create" /\ driver.pc = "handle"
      /\ UNCHANGED <<client, data>>
  BY <1>1, <1>3, HandlesIs DEF Now
<1>5. WellFormed(Req) /\ Req = Head(client.script) BY <1>4, ReqIs
<1>6. w \in Nat /\ h \in Nat BY <1>4, <1>5 DEF WellFormed
<1>7. Backed'
  <2>1. CASE outcome = "ok" BY <1>2, <1>4, <1>6, <2>1, SMTT(40) DEF Backed, Res
  <2>2. CASE outcome # "ok" BY <1>4, <2>2 DEF Now, Backed, Res
  <2> QED BY <2>1, <2>2
<1>8. Achieved("done", outcome)'
  <2>1. CASE outcome # "ok" BY <1>4, <2>1, StaysAchieved DEF Now, Good
  <2>2. CASE outcome = "ok" /\ client.page # 0
    <3>1. Req = PageScript[3] BY <1>4, <2>2, ReqIs, PageSteps DEF Request
    <3>2. Req.res = 1 /\ w = Width /\ h = Height BY <3>1, PageSteps DEF Request
    <3>3. Created'
      <4>1. new.id = 1 /\ new.w = Width /\ new.h = Height BY <3>2
      <4>2. new # None BY <4>1 DEF None
      <4> QED BY <1>4, <2>2, <4>1, <4>2 DEF Created, Res
    <3>4. Drawn' <=> Drawn BY <1>4 DEF Drawn
    <3> QED BY <1>4, <1>5, <3>3, <3>4 DEF Now, Achieved, Past
  <2>3. CASE client.page = 0 BY <1>4, <2>3 DEF Achieved
  <2> QED BY <2>1, <2>2, <2>3
<1>9. event' \in [driver : BOOLEAN, client : BOOLEAN] BY <1>1 DEF Now, Typed
<1> QED BY <1>1, <1>2, <1>3, <1>7, <1>8, <1>9, HandledKept

\* resource_attach_backing.
LEMMA AttachKept ==
    ASSUME NEW s \in Places, NEW st \in Statuses, Now(s, st), Attach
    PROVE  Inv'
<1> DEFINE status == CASE ~Known -> "id"
                       [] Known /\ Res.attached -> "unspec"
                       [] Known /\ ~Res.attached /\ Req.arg[2] < Res.w * Res.h -> "param"
                       [] OTHER -> IF Req.arg[1] + Req.arg[2] > DataCells THEN "bounds" ELSE "ok"
           backed == [Res EXCEPT !.off = Req.arg[1], !.size = Req.arg[2], !.attached = TRUE]
           changes == IF status = "ok" THEN [driver EXCEPT !.resource.off = Req.arg[1],
                                               !.resource.size = Req.arg[2], !.resource.attached = TRUE]
                                       ELSE driver
<1>0. PICK outcome : outcome = status OBVIOUS
<1>1. Handles("attach", outcome, changes) /\ UNCHANGED event BY <1>0 DEF Attach
<1>2. outcome \in Statuses
      /\ (outcome = "ok" => Known /\ ~Res.attached /\ ~(Req.arg[1] + Req.arg[2] > DataCells))
  BY <1>0 DEF Statuses
<1>. HIDE DEF status
<1>3. /\ DOMAIN changes = DOMAIN driver /\ changes.hand = driver.hand /\ changes.badge = driver.badge
      /\ changes.info \in {Blank, Info} /\ changes.resource = IF outcome = "ok" THEN backed ELSE Res
  BY <1>0 DEF Now, Typed, Driver0, Res
<1>. HIDE DEF changes
<1>4. driver'.resource = (IF outcome = "ok" THEN backed ELSE Res) /\ Req.code = "attach"
      /\ driver.pc = "handle"
      /\ UNCHANGED <<client, data>>
  BY <1>1, <1>3, HandlesIs DEF Now
<1>5. WellFormed(Req) /\ Req = Head(client.script) BY <1>4, ReqIs
<1>6. Req.arg[1] \in Nat /\ Req.arg[2] \in Nat /\ DataCells \in Nat
  BY <1>4, <1>5, GpuAssumption DEF WellFormed, DataCells
<1>7. outcome = "ok" =>
        /\ Res # None /\ backed.id = Res.id /\ backed.w = Res.w /\ backed.h = Res.h /\ backed.off = Req.arg[1]
        /\ backed.size = Req.arg[2] /\ backed.attached = TRUE /\ backed.transfer = Res.transfer
        /\ DOMAIN backed = DOMAIN Res /\ Res.transfer = NoTransfer
  BY <1>2 DEF Known, Now, Backed
<1>. HIDE DEF backed
<1>8. Backed'
  <2>1. CASE outcome = "ok"
    <3>1. Res' = backed BY <1>4, <2>1 DEF Res
    <3>2. /\ DOMAIN backed = {"id", "w", "h", "off", "size", "attached", "transfer"}
          /\ backed.id \in 1 .. MaxResources /\ backed.w \in Nat /\ backed.h \in Nat
          /\ backed.w * backed.h \in 1 .. DmaCells
      BY <1>7, <2>1 DEF Now, Backed
    <3>3. /\ backed.off \in Nat /\ backed.size \in Nat /\ backed.attached \in BOOLEAN
          /\ backed.off + backed.size <= DataCells /\ backed.transfer = NoTransfer
      <4>1. Req.arg[1] + Req.arg[2] <= DataCells BY <1>2, <1>6, <2>1
      <4> QED BY <1>6, <1>7, <2>1, <4>1
    <3> QED BY <3>1, <3>2, <3>3 DEF Backed
  <2>2. CASE outcome # "ok" BY <1>4, <2>2 DEF Now, Backed, Res
  <2> QED BY <2>1, <2>2
<1>9. Achieved("done", outcome)'
  <2>1. CASE outcome # "ok" BY <1>4, <2>1, StaysAchieved DEF Now, Good
  <2>2. CASE outcome = "ok" /\ client.page # 0
    <3>1. Req = PageScript[4] BY <1>4, <2>2, ReqIs, PageSteps DEF Request
    <3>2. Req.arg[1] = 0 /\ Req.arg[2] = DataCells BY <3>1, PageSteps DEF Request
    <3>3. Created /\ Drawn BY <1>4, <1>5, <2>2, ReqIs DEF Now, Achieved, Past
    <3>4. backed # None
      <4>1. backed.id = Res.id /\ Res.id \in 1 .. MaxResources BY <1>7, <2>2 DEF Now, Backed
      <4>2. backed.id # 0 BY <4>1, GpuAssumption
      <4> QED BY <4>2 DEF None
    <3>5. Attached' BY <1>4, <1>7, <2>2, <3>2, <3>3, <3>4 DEF Attached, Created, Res
    <3>6. Drawn' BY <1>4, <3>3 DEF Drawn
    <3> QED BY <1>4, <1>5, <3>5, <3>6 DEF Achieved, Past, Attached
  <2>3. CASE client.page = 0 BY <1>4, <2>3 DEF Achieved
  <2> QED BY <2>1, <2>2, <2>3
<1>10. event' \in [driver : BOOLEAN, client : BOOLEAN] BY <1>1 DEF Now, Typed
<1> QED BY <1>1, <1>2, <1>3, <1>8, <1>9, <1>10, HandledKept

\* resource_detach_backing.
LEMMA DetachKept ==
    ASSUME NEW s \in Places, NEW st \in Statuses, Now(s, st), Detach
    PROVE  Inv'
<1> DEFINE status == IF Known THEN "ok" ELSE "id"
           bare == [Res EXCEPT !.attached = FALSE, !.transfer = NoTransfer]
           changes == IF Known THEN [driver EXCEPT !.resource.attached = FALSE, !.resource.transfer = NoTransfer]
                               ELSE driver
<1>0. PICK outcome : outcome = status OBVIOUS
<1>1. Handles("detach", outcome, changes) /\ UNCHANGED event BY <1>0 DEF Detach
<1>2. outcome \in Statuses BY <1>0 DEF Statuses
<1>3. /\ DOMAIN changes = DOMAIN driver /\ changes.hand = driver.hand /\ changes.badge = driver.badge
      /\ changes.info \in {Blank, Info} /\ changes.resource = IF Known THEN bare ELSE Res
  BY <1>0 DEF Now, Typed, Driver0, Res
<1>. HIDE DEF changes, status
<1>4. driver'.resource = (IF Known THEN bare ELSE Res) /\ Req.code = "detach" /\ driver.pc = "handle"
      /\ UNCHANGED <<client, data>>
  BY <1>1, <1>3, HandlesIs DEF Now
<1>5. Known =>
        /\ Res # None /\ bare.id = Res.id /\ bare.w = Res.w /\ bare.h = Res.h /\ bare.off = Res.off
        /\ bare.size = Res.size /\ bare.attached = FALSE /\ bare.transfer = NoTransfer /\ DOMAIN bare = DOMAIN Res
  BY DEF Known, Now, Backed
<1>. HIDE DEF bare
<1>6. Backed'
  <2>1. CASE Known BY <1>4, <1>5, <2>1 DEF Now, Backed, Res
  <2>2. CASE ~Known BY <1>4, <2>2 DEF Now, Backed, Res
  <2> QED BY <2>1, <2>2
<1>7. client.page = 0 BY <1>4, ReqIs, PageSteps DEF Request
<1>8. Achieved("done", outcome)' BY <1>4, <1>7 DEF Achieved
<1>9. event' \in [driver : BOOLEAN, client : BOOLEAN] BY <1>1 DEF Now, Typed
<1> QED BY <1>1, <1>2, <1>3, <1>6, <1>8, <1>9, HandledKept

\* resource_unref.
LEMMA UnrefKept ==
    ASSUME NEW s \in Places, NEW st \in Statuses, Now(s, st), Unref
    PROVE  Inv'
<1> DEFINE status == IF Known THEN "ok" ELSE "id"
           changes == IF Known THEN [driver EXCEPT !.resource = None] ELSE driver
<1>0. PICK outcome : outcome = status OBVIOUS
<1>1. Handles("unref", outcome, changes) /\ UNCHANGED event BY <1>0 DEF Unref
<1>2. outcome \in Statuses BY <1>0 DEF Statuses
<1>3. /\ DOMAIN changes = DOMAIN driver /\ changes.hand = driver.hand /\ changes.badge = driver.badge
      /\ changes.info \in {Blank, Info} /\ changes.resource = IF Known THEN None ELSE Res
  BY <1>0 DEF Now, Typed, Driver0, Res
<1>. HIDE DEF changes, status
<1>4. driver'.resource = (IF Known THEN None ELSE Res) /\ Req.code = "unref" /\ driver.pc = "handle"
      /\ UNCHANGED <<client, data>>
  BY <1>1, <1>3, HandlesIs DEF Now
<1>5. Backed'
  <2>1. CASE Known BY <1>4, <2>1 DEF Backed, Res
  <2>2. CASE ~Known BY <1>4, <2>2 DEF Now, Backed, Res
  <2> QED BY <2>1, <2>2
<1>6. client.page = 0 BY <1>4, ReqIs, PageSteps DEF Request
<1>7. Achieved("done", outcome)' BY <1>4, <1>6 DEF Achieved
<1>8. event' \in [driver : BOOLEAN, client : BOOLEAN] BY <1>1 DEF Now, Typed
<1> QED BY <1>1, <1>2, <1>3, <1>5, <1>7, <1>8, HandledKept

\* set_scanout.
LEMMA ScanoutKept ==
    ASSUME NEW s \in Places, NEW st \in Statuses, Now(s, st), Scanout
    PROVE  Inv'
<1> DEFINE status == CASE Req.arg[1] # 0 -> "scanout"
                       [] Req.arg[1] = 0 /\ Req.res = 0 -> "ok"
                       [] Req.arg[1] = 0 /\ Req.res # 0 /\ ~Known -> "id"
                       [] OTHER -> IF Inside(Req.arg[2], Res.w, Res.h) THEN "ok" ELSE "bounds"
<1>0. PICK outcome : outcome = status OBVIOUS
<1>1. Handles("scanout", outcome, driver) /\ UNCHANGED event BY <1>0 DEF Scanout
<1>2. outcome \in Statuses BY <1>0 DEF Statuses
<1>. HIDE DEF status
<1>3. driver'.resource = Res /\ Req.code = "scanout" /\ driver.pc = "handle" /\ UNCHANGED <<client, data>>
  BY <1>1, HandlesIs DEF Now, Res
<1>4. Backed' BY <1>3 DEF Now, Backed, Res
<1>5. Req = Head(client.script) BY <1>3, ReqIs
<1>6. Achieved("done", outcome)' BY <1>3, <1>5, StaysAchieved DEF Now
<1>7. event' \in [driver : BOOLEAN, client : BOOLEAN] BY <1>1 DEF Now, Typed
<1>8. driver.info \in {Blank, Info} BY DEF Now, Typed, Driver0
<1> QED BY <1>1, <1>2, <1>4, <1>6, <1>7, <1>8, HandledKept

\* transfer_to_host_2d.
LEMMA TransferKept ==
    ASSUME NEW s \in Places, NEW st \in Statuses, Now(s, st), Transfer
    PROVE  Inv'
<1> DEFINE rect == Req.arg[1]
           end == Res.off + Req.arg[2] + Cells(rect)
           status == CASE ~Known \/ ~Res.attached -> "id"
                       [] OTHER -> IF Inside(rect, Res.w, Res.h) /\ end <= Res.off + Res.size /\ end <= DataCells
                                     THEN "ok" ELSE "bounds"
           moved == [Res EXCEPT !.transfer = Req.arg]
           changes == IF status = "ok" THEN [driver EXCEPT !.resource.transfer = Req.arg] ELSE driver
<1>0. PICK outcome : outcome = status OBVIOUS
<1>1. Handles("transfer", outcome, changes) /\ UNCHANGED event BY <1>0 DEF Transfer
<1>2. outcome \in Statuses
      /\ (outcome = "ok" => Known /\ Res.attached /\ Inside(rect, Res.w, Res.h) /\ end <= Res.off + Res.size)
  BY <1>0 DEF Statuses
<1>. HIDE DEF status
<1>3. /\ DOMAIN changes = DOMAIN driver /\ changes.hand = driver.hand /\ changes.badge = driver.badge
      /\ changes.info \in {Blank, Info} /\ changes.resource = IF outcome = "ok" THEN moved ELSE Res
  BY <1>0 DEF Now, Typed, Driver0, Res
<1>. HIDE DEF changes
<1>4. driver'.resource = (IF outcome = "ok" THEN moved ELSE Res) /\ Req.code = "transfer"
      /\ driver.pc = "handle"
      /\ UNCHANGED <<client, data>>
  BY <1>1, <1>3, HandlesIs DEF Now
<1>5. WellFormed(Req) /\ Req = Head(client.script) BY <1>4, ReqIs
<1>6. Req.arg \in Rect \X Nat /\ Cells(rect) \in Nat
  <2>1. Req.arg \in Rect \X Nat BY <1>4, <1>5 DEF WellFormed
  <2>2. rect.w \in Nat /\ rect.h \in Nat BY <2>1 DEF Rect
  <2> QED BY <2>1, <2>2 DEF Cells
<1>7. outcome = "ok" =>
        /\ Res # None /\ moved.id = Res.id /\ moved.w = Res.w /\ moved.h = Res.h /\ moved.off = Res.off
        /\ moved.size = Res.size /\ moved.attached = Res.attached /\ moved.transfer = Req.arg
        /\ DOMAIN moved = DOMAIN Res
  BY <1>2 DEF Known, Now, Backed
<1>. HIDE DEF moved
<1>8. Backed'
  <2>1. CASE outcome = "ok"
    <3>1. Req.arg[2] + Cells(rect) <= Res.size
      <4>1. Res.off \in Nat /\ Res.size \in Nat BY <1>7, <2>1 DEF Now, Backed
      <4>2. Req.arg[2] \in Nat /\ Cells(rect) \in Nat BY <1>6
      <4>3. Res.off + Req.arg[2] + Cells(rect) <= Res.off + Res.size BY <1>2, <2>1
      <4> QED BY <4>1, <4>2, <4>3
    <3> QED BY <1>2, <1>4, <1>6, <1>7, <2>1, <3>1 DEF Now, Backed, Res
  <2>2. CASE outcome # "ok" BY <1>4, <2>2 DEF Now, Backed, Res
  <2> QED BY <2>1, <2>2
<1>9. Achieved("done", outcome)'
  <2>1. CASE outcome # "ok" BY <1>4, <2>1, StaysAchieved DEF Now, Good
  <2>2. CASE outcome = "ok" /\ client.page # 0
    <3>1. Req = PageScript[6] BY <1>4, <2>2, ReqIs, PageSteps DEF Request
    <3>2. Req.arg = <<Whole, 0>> BY <3>1, PageSteps DEF Request
    <3>3. Attached /\ Drawn BY <1>4, <1>5, <2>2, ReqIs DEF Now, Achieved, Past
    <3>4. moved # None
      <4>1. moved.id = Res.id /\ Res.id \in 1 .. MaxResources BY <1>7, <2>2 DEF Now, Backed
      <4>2. moved.id # 0 BY <4>1, GpuAssumption
      <4> QED BY <4>2 DEF None
    <3>5. Transferred' BY <1>4, <1>7, <2>2, <3>2, <3>3, <3>4 DEF Transferred, Attached, Created, Res
    <3>6. Drawn' BY <1>4, <3>3 DEF Drawn
    <3> QED BY <1>4, <1>5, <3>5, <3>6 DEF Achieved, Past, Transferred, Attached
  <2>3. CASE client.page = 0 BY <1>4, <2>3 DEF Achieved
  <2> QED BY <2>1, <2>2, <2>3
<1>10. event' \in [driver : BOOLEAN, client : BOOLEAN] BY <1>1 DEF Now, Typed
<1> QED BY <1>1, <1>2, <1>3, <1>8, <1>9, <1>10, HandledKept

\* resource_flush, refused.
LEMMA FlushRefusedKept ==
    ASSUME NEW s \in Places, NEW st \in Statuses, Now(s, st), FlushRefused
    PROVE  Inv'
<1> DEFINE status == IF ~Known \/ ~Res.attached THEN "id"
                     ELSE IF Inside(Req.arg, Res.w, Res.h) THEN "param" ELSE "bounds"
<1>0. PICK outcome : outcome = status OBVIOUS
<1>1. Handles("flush", outcome, driver) /\ UNCHANGED event BY <1>0 DEF FlushRefused
<1>2. outcome \in Statuses /\ outcome # "ok" BY <1>0 DEF Statuses
<1>. HIDE DEF status
<1>3. driver'.resource = Res /\ UNCHANGED <<client, data>>
  BY <1>1, HandlesIs DEF Now, Res
<1>4. Backed' BY <1>3 DEF Now, Backed, Res
<1>5. Achieved("done", outcome)' BY <1>2, <1>3, StaysAchieved DEF Now, Good
<1>6. event' \in [driver : BOOLEAN, client : BOOLEAN] BY <1>1 DEF Now, Typed
<1>7. driver.info \in {Blank, Info} BY DEF Now, Typed, Driver0
<1> QED BY <1>1, <1>2, <1>4, <1>5, <1>6, <1>7, HandledKept

\* A whole page that is painted row by row shows every pixel of the page.
LEMMA PaintedWhole ==
    ASSUME Created, Drawn
    PROVE  \A i \in Cell : Painted(Whole, 0)[i] = client.page
<1>1. SUFFICES ASSUME NEW i \in Cell PROVE Painted(Whole, 0)[i] = client.page OBVIOUS
<1> DEFINE x == i % Width
           y == i \div Width
<1>2. Width \in Nat \ {0} /\ Height \in Nat \ {0} /\ DataCells \in Nat /\ i \in Nat
  BY GpuAssumption DEF Cell, DataCells
<1>3. i = Width * y + x /\ y \in Int /\ x \in 0 .. Width - 1 BY <1>2, ModDiv
<1>4. Painted(Whole, 0)[i] = IF x - 0 \in 0 .. Width - 1 /\ y - 0 \in 0 .. Height - 1
                               THEN data[0 + (y - 0) * Width + (x - 0)] ELSE Blank
  BY DEF Painted, Whole, Created, Cell, DataCells
<1>. HIDE DEF x, y
<1>5. y \in 0 .. Height - 1
  <2>1. y >= 0
    <3>1. SUFFICES ASSUME y <= -1 PROVE FALSE BY <1>3
    <3>2. Width * y <= Width * (-1) BY <1>2, <1>3, <3>1
    <3> QED BY <1>2, <1>3, <3>2
  <2>2. y < Height
    <3>1. SUFFICES ASSUME y >= Height PROVE FALSE BY <1>2, <1>3
    <3>2. Width * y >= Width * Height BY <1>2, <1>3, <3>1
    <3> QED BY <1>2, <1>3, <3>2 DEF Cell, DataCells
  <2> QED BY <1>2, <1>3, <2>1, <2>2
<1>6. 0 + (y - 0) * Width + (x - 0) = i BY <1>2, <1>3
<1>7. x - 0 \in 0 .. Width - 1 /\ y - 0 \in 0 .. Height - 1 BY <1>2, <1>3, <1>5
<1>8. Painted(Whole, 0)[i] = data[i] BY <1>4, <1>6, <1>7
<1> QED BY <1>8 DEF Drawn

\* resource_flush.
LEMMA FlushKept ==
    ASSUME NEW s \in Places, NEW st \in Statuses, Now(s, st), NEW ok \in BOOLEAN, Flush(ok)
    PROVE  Inv'
<1> DEFINE rect == Res.transfer[1]
           origin == Res.off + Res.transfer[2]
           fits == origin + Cells(rect) <= DataCells
           status == IF ~ok THEN "unspec" ELSE IF fits THEN "ok" ELSE "bounds"
<1>0. PICK outcome : outcome = status OBVIOUS
<1>1. PICK screen : /\ Handles("flush", outcome, [driver EXCEPT !.screen = screen])
                    /\ outcome = "ok" => screen = Painted(rect, origin)
  BY <1>0 DEF Flush
<1>2. outcome \in Statuses BY <1>0 DEF Statuses
<1>. HIDE DEF status
<1> DEFINE changes == [driver EXCEPT !.screen = screen]
<1>3. /\ DOMAIN changes = DOMAIN driver /\ changes.hand = driver.hand /\ changes.badge = driver.badge
      /\ changes.info \in {Blank, Info} /\ changes.resource = Res /\ changes.screen = screen
  BY <1>0 DEF Now, Typed, Driver0, Res
<1>4. Handles("flush", outcome, changes) BY <1>1
<1>. HIDE DEF changes
<1>5. /\ driver'.resource = Res /\ driver'.screen = screen /\ Req.code = "flush" /\ driver.pc = "handle"
      /\ UNCHANGED <<client, data>>
  BY <1>3, <1>4, HandlesIs DEF Now
<1>6. Backed' BY <1>5 DEF Now, Backed, Res
<1>7. Req = Head(client.script) BY <1>5, ReqIs
<1>8. Achieved("done", outcome)'
  <2>1. CASE outcome # "ok" BY <1>5, <2>1, StaysAchieved DEF Now, Good
  <2>2. CASE outcome = "ok" /\ client.page # 0
    <3>1. Transferred /\ Drawn BY <1>5, <1>7, <2>2, ReqIs DEF Now, Achieved, Past
    <3>2. rect = Whole /\ origin = 0 BY <3>1 DEF Transferred, Attached
    <3>3. screen = Painted(Whole, 0) BY <1>1, <2>2, <3>2
    <3>4. \A i \in Cell : screen[i] = client.page BY <3>1, <3>3, PaintedWhole DEF Transferred, Attached
    <3>5. OnScreen' BY <1>5, <3>4 DEF OnScreen
    <3>6. (Drawn' <=> Drawn) /\ (Transferred' <=> Transferred)
      BY <1>5 DEF Drawn, Transferred, Attached, Created, Res
    <3> QED BY <1>5, <1>7, <3>1, <3>5, <3>6 DEF Achieved, Past, Transferred, Attached
  <2>3. CASE client.page = 0 BY <1>5, <2>3 DEF Achieved
  <2> QED BY <2>1, <2>2, <2>3
<1>9. event' \in [driver : BOOLEAN, client : BOOLEAN] BY DEF Flush, Now, Typed
<1> QED BY <1>2, <1>3, <1>4, <1>6, <1>8, <1>9, HandledKept

-----------------------------------------------------------------------------
(* The invariant and what follows from it.                                 *)

\* At the start nothing is in flight.
LEMMA InitInv == Init => Inv
<1> SUFFICES ASSUME Init PROVE Now("none", "ok") BY DEF Inv, Places, Statuses
<1>2. Typed
  <2>1. Client0
    <3>1. 1 \in 0 .. Ids - 1 BY GpuAssumption
    <3> QED BY <3>1 DEF Init, Client0
  <2>2. virt.notes \in Notes BY DEF Init, Notes, NoNote
  <2>3. Virt0 BY <2>2 DEF Init, Virt0
  <2>4. Driver0 BY DEF Init, Driver0, Statuses
  <2>5. DOMAIN queue = QueueName /\ data \in [Cell -> Page \cup {Blank, Info}] BY DEF Init, QueueName, Cell
  <2>6. event \in [driver : BOOLEAN, client : BOOLEAN] BY DEF Init
  <2> QED BY <2>1, <2>3, <2>4, <2>5, <2>6 DEF Typed
<1>3. Scripted /\ EventTold /\ Backed /\ Shown BY DEF Init, Scripted, EventTold, Backed, Shown, Res
<1>4. Carried("none", "ok") BY DEF Init, Carried
<1>5. Told("none") BY DEF Init, Told
<1>6. Noted("none") BY DEF Init, Noted, NoNote
<1>7. Achieved("none", "ok") BY DEF Init, Achieved
<1> QED BY <1>2, <1>3, <1>4, <1>5, <1>6, <1>7 DEF Now

\* Every step of every domain keeps the invariant.
LEMMA InvKept == Inv /\ [Next]_vars => Inv'
<1>1. SUFFICES ASSUME Inv, [Next]_vars PROVE Inv' OBVIOUS
<1>2. PICK s \in Places, st \in Statuses : Now(s, st) BY <1>1 DEF Inv
<1>3. CASE Client
  BY <1>2, <1>3, ShowPageKept, SendLoneKept, CopyFrameKept, SubmitKept, SubmitNotifyKept, SubmitWaitKept,
     OnNotifyKept, SubmitTakeKept DEF Client
<1>4. CASE Virt
  BY <1>2, <1>4, VirtNotifiedKept, ForwardResponsesKept, CopyDisplayKept, DeliverResponseKept, NotifyClientKept,
     ForwardRequestsKept, ForwardRequestKept, NotifyDriverKept, RejectBlobKept, CheckEventsKept, SetEventKept,
     ClearEventKept DEF Virt
<1>5. CASE Driver
  BY <1>2, <1>5, InterruptKept, DriverNotifiedKept, ServiceKept, RespondKept, NotifyVirtKept, AttachKept,
     DetachKept, ScanoutKept, TransferKept, FlushRefusedKept, UnrefKept, DisplayInfoKept, Create2dKept,
     FlushKept DEF Driver
<1>6. CASE UNCHANGED vars
  <2>1. UNCHANGED <<queue, client, virt, driver, data, event>> BY <1>6 DEF vars
  <2>2. SameClient /\ SameDevice BY <2>1 DEF SameClient, SameDevice
  <2>3. Scripted' /\ Backed' /\ Shown' /\ Achieved(s, st)' BY <1>2, <2>2, Frame
  <2>4. Typed'
    <3>1. Client0' /\ Virt0' BY <1>2, <2>1, SMTT(40) DEF Now, Typed, Client0, Virt0
    <3>2. Driver0' BY <1>2, <2>1 DEF Now, Typed, Driver0
    <3> QED BY <1>2, <2>1, <3>1, <3>2 DEF Now, Typed
  <2>5. EventTold' /\ Carried(s, st)' BY <1>2, <2>1 DEF Now, EventTold, Carried, Token, Reply
  <2>6. Told(s)' /\ Noted(s)' BY <1>2, <2>1 DEF Now, Told, Noted
  <2> QED BY <2>3, <2>4, <2>5, <2>6 DEF Inv, Now
<1> QED BY <1>1, <1>3, <1>4, <1>5, <1>6 DEF Next

\* The queues hold no more than the exchange in flight.
LEMMA InvTypes == Inv => TypeOK
<1> SUFFICES ASSUME NEW s \in Places, NEW st \in Statuses, Now(s, st) PROVE TypeOK BY DEF Inv
<1>2. \A x \in DOMAIN queue : Len(queue[x]) <= Capacity
  <2>1. Len(queue["creq"]) <= 1 /\ Len(queue["dreq"]) <= 1 BY DEF Now, Carried
  <2>2. Len(queue["dresp"]) <= 1 /\ Len(queue["cresp"]) <= 1 BY DEF Now, Carried
  <2>3. /\ Len(queue["creq"]) \in Nat /\ Len(queue["dreq"]) \in Nat
        /\ Len(queue["dresp"]) \in Nat /\ Len(queue["cresp"]) \in Nat
    BY SMTT(40) DEF Now, Carried
  <2>4. \A x \in DOMAIN queue : Len(queue[x]) <= 1 /\ Len(queue[x]) \in Nat
    BY <2>1, <2>2, <2>3 DEF Now, Typed, QueueName
  <2> QED BY <2>4, GpuAssumption
<1>3. client.id \in 0 .. Ids - 1 /\ client.shown \in Page \cup {0}
  BY DEF Now, Typed, Client0
<1>4. data \in [0 .. DataCells - 1 -> Page \cup {Blank, Info}] BY DEF Now, Typed, Cell
<1>5. Res # None => Res.id \in 1 .. MaxResources /\ Res.w * Res.h \in 1 .. DmaCells BY DEF Now, Backed
<1> QED BY <1>2, <1>3, <1>4, <1>5 DEF TypeOK

\* A page that was reported as shown is on the screen, and transfers stay in the backing.
LEMMA InvShows == Inv => FrameShown
<1> SUFFICES ASSUME NEW s \in Places, NEW st \in Statuses, Now(s, st) PROVE FrameShown BY DEF Inv
<1>2. RightFrame BY DEF Now, Shown, Typed, RightFrame
<1>3. TransferInBacking BY DEF Now, Backed, TransferInBacking
<1> QED BY <1>2, <1>3 DEF FrameShown

\* When everyone rests, no exchange is in flight.
LEMMA InvSettles == Inv => Settled
<1> SUFFICES ASSUME NEW s \in Places, NEW st \in Statuses, Now(s, st),
                      VirtAt("recv"), ~virt.badge, DriverAt("recv"), ~driver.badge, ~client.badge,
                      client.pc \in {"idle", "wait"}, ~(client.pc = "wait" /\ client.sticky)
               PROVE  /\ client.pc = "idle" /\ ~client.sticky /\ ~event.driver
                      /\ \A x \in DOMAIN queue : Empty(x)
                      /\ \A n \in DOMAIN virt.notes : ~virt.notes[n].live
  BY DEF Inv, Settled
<1>2. s = "none" BY DEF VirtAt, DriverAt, Now, Carried, Told, Places
<1>3. client.pc = "idle" /\ ~client.sticky BY <1>2 DEF Now, Carried, Told
<1>4. ~event.driver BY DEF Now, EventTold, VirtAt, DriverAt
<1>5. \A x \in DOMAIN queue : Empty(x) BY <1>2 DEF Now, Typed, QueueName, Carried, Empty
<1>6. \A n \in DOMAIN virt.notes : ~virt.notes[n].live BY <1>2 DEF Now, Typed, Virt0, Notes, Noted
<1> QED BY <1>3, <1>4, <1>5, <1>6

\* The exchange in flight is always in one place, with its outcome.
THEOREM GpuInvariant == Spec => []Inv
<1>1. Init => Inv BY InitInv
<1>2. Inv /\ [Next]_vars => Inv' BY InvKept
<1> QED BY <1>1, <1>2, PTL DEF Spec

\* The queues of the graphics path never hold more than their capacity, and ids,
\* pixels and the resource stay in their ranges.
THEOREM GpuTypes == Spec => []TypeOK
<1>1. Inv => TypeOK BY InvTypes
<1> QED BY <1>1, GpuInvariant, PTL

\* When show_page returns Ok the screen shows that page and nothing else, and flush
\* reads only cells of the attached backing, whatever the sizes and requests are.
THEOREM GpuFrameShown == Spec => []FrameShown
<1>1. Inv => FrameShown BY InvShows
<1> QED BY <1>1, GpuInvariant, PTL

\* Whenever the three domains of the graphics path rest, no answer, note or event is
\* left behind and the client does not wait.
THEOREM GpuSettled == Spec => []Settled
<1>1. Inv => Settled BY InvSettles
<1> QED BY <1>1, GpuInvariant, PTL
=============================================================================
