------------------------------ MODULE NetProofs ------------------------------
(***************************************************************************)
(* Proofs about the network transmit path, for every number of buffers and *)
(* frames, in every interleaving of the client, the virtualiser and the    *)
(* driver.                                                                 *)
(***************************************************************************)
EXTENDS NetTransmit, Lemmas, TLAPS

-----------------------------------------------------------------------------
(* The inductive invariant.                                                *)

\* The points at which a domain holds a buffer.
Holding(d) == CASE d = "client" -> {"queue"} [] d = "virt" -> {"return_free", "reject", "push"} [] OTHER -> {"give_back"}

\* A domain has a buffer in its hands at those points and no other.
Hands == \A d \in Domain : pd[d].buf # None <=> pd[d].pc \in Holding(d)

\* Buffer b lies in place i of queue x.
Lies(b, x, i) == i \in 1 .. Len(q[x]) /\ q[x][i] = b

\* No buffer is in two places.
Distinct ==
  /\ \A x, y \in Queue : \A i, j \in Nat : \A b \in Buf : Lies(b, x, i) /\ Lies(b, y, j) => x = y /\ i = j
  /\ \A x \in Queue : \A i \in Nat : \A d \in Domain : ~Lies(pd[d].buf, x, i)
  /\ \A d, e \in Domain : pd[d].buf # None /\ pd[d].buf = pd[e].buf => d = e

\* No buffer is lost, once the client has filled its queue.
Somewhere(b) == (\E x \in Queue, i \in Nat : Lies(b, x, i)) \/ (\E d \in Domain : pd[d].buf = b)
Filled == ~At("client", "fill") => \A b \in Buf : Somewhere(b)
Unfilled == At("client", "fill") => (\A x \in Queue : Empty(x)) /\ \A d \in Domain : pd[d].buf = None

\* The line of the frames on their way: frame f is the i-th of stage s.
Out(i, f) == i \in 1 .. Len(sent) /\ f = sent[i]
ToDriver(i, f) == i \in 1 .. Len(q["dactive"]) /\ f = mem[q["dactive"][i]]
InVirt(i, f) == i = 1 /\ pd["virt"].pc \in {"reject", "push"} /\ f = mem[pd["virt"].buf]
ToVirt(i, f) == i \in 1 .. Len(q["cactive"]) /\ f = mem[q["cactive"][i]]
InClient(i, f) == i = 1 /\ At("client", "queue") /\ f = mem[pd["client"].buf]
Line(s, i, f) ==
  \/ s = 0 /\ Out(i, f)
  \/ s = 1 /\ ToDriver(i, f)
  \/ s = 2 /\ InVirt(i, f)
  \/ s = 3 /\ ToVirt(i, f)
  \/ s = 4 /\ InClient(i, f)

\* Frames keep their order, and buffer_ok has let pass what the driver may send.
Ordered ==
  /\ \A s, t, i, j, f, g \in Nat : Line(s, i, f) /\ Line(t, j, g) /\ (s < t \/ (s = t /\ i < j)) => f < g
  /\ \A s, i, f \in Nat : Line(s, i, f) => f \in 1 .. Len(made)
  /\ \A s, i, f \in Nat : Line(s, i, f) /\ (s < 2 \/ (s = 2 /\ At("virt", "push"))) => made[f] = "frame"

\* A consumer past its request is signalled by whoever takes the request down.
Asked ==
  /\ pd["driver"].pc \in {"recheck", "signal", "notify", "idle"} =>
       "dactive" \in want \/ pd["driver"].badge \/ At("virt", "notify_driver")
  /\ pd["virt"].pc \in {"provide_recheck", "signal_client", "notify_client", "signal_driver", "notify_driver", "idle"} =>
       "cactive" \in want \/ pd["virt"].badge \/ At("client", "notify")
  /\ pd["virt"].pc \notin {"return", "return_free", "return_request"} =>
       "dfree" \in want \/ pd["virt"].badge \/ At("driver", "notify")

\* What lies in a queue is looked at, or announced, or about to be.
DriverTold == ~Empty("dactive") =>
  \/ pd["driver"].badge \/ pd["driver"].pc \in {"transmit", "give_back", "request", "recheck"}
  \/ At("virt", "notify_driver")
  \/ /\ pd["virt"].up /\ "dactive" \in want
     /\ pd["virt"].pc \in {"provide", "reject", "push", "provide_request", "provide_recheck",
                           "signal_client", "notify_client", "signal_driver"}
VirtTold == ~Empty("cactive") =>
  \/ pd["virt"].badge
  \/ pd["virt"].pc \in {"return", "return_free", "return_request", "return_recheck", "return_signal", "return_notify",
                        "provide", "reject", "push", "provide_request", "provide_recheck"}
  \/ At("client", "notify")
  \/ At("client", "require") /\ "cactive" \in want
ReturnTold == ~Empty("dfree") =>
  \/ pd["virt"].badge \/ pd["virt"].pc \in {"return", "return_free", "return_request", "return_recheck"}
  \/ At("driver", "notify")
  \/ /\ pd["driver"].down /\ "dfree" \in want
     /\ pd["driver"].pc \in {"transmit", "give_back", "request", "recheck", "signal"}

Owned == Hands /\ Distinct /\ Filled /\ Unfilled
Told == Asked /\ DriverTold /\ VirtTold /\ ReturnTold
Inv == TypeOK /\ Owned /\ Ordered /\ Told

-----------------------------------------------------------------------------
(* Steps.                                                                  *)

\* The steps of the path.
LEMMA Steps ==
    ASSUME [Next]_vars
    PROVE  \/ Fill \/ (\E k \in Kinds : Consume(k)) \/ QueueFrame \/ ClientRequire \/ ClientNotify \/ ClientNotified
           \/ VirtNotified \/ TxReturn \/ ReturnFree \/ ReturnEnd \/ ReturnRequest \/ ReturnRecheck
           \/ ReturnRequire \/ ReturnNotify \/ TxProvide \/ Reject \/ Push \/ ProvideEnd \/ ProvideRequest
           \/ ProvideRecheck \/ ProvideRequire \/ ProvideNotify \/ DriverRequire \/ DriverNotify
           \/ Interrupt \/ DriverNotified \/ (\E room \in BOOLEAN : SendOne(room)) \/ GiveBack
           \/ TransmitEnd \/ TransmitRequest \/ TransmitRecheck \/ TransmitRequire \/ TransmitNotify
           \/ UNCHANGED vars
  BY Zenon DEF Next, Driver, Virt, Client

\* What a step does to the buffers: nothing, or one domain takes the head of a
\* queue, or gives what it holds to a queue that has room.
Stays == q' = q /\ \A d \in Domain : pd'[d].buf = pd[d].buf
Takes(d, x) ==
  /\ ~Empty(x) /\ pd[d].buf = None
  /\ q' = [q EXCEPT ![x] = Tail(@)] /\ pd'[d].buf = Head(q[x])
  /\ \A e \in Domain \ {d} : pd'[e].buf = pd[e].buf
Gives(d, x) ==
  /\ ~Full(x) /\ pd[d].buf # None
  /\ q' = [q EXCEPT ![x] = Append(@, pd[d].buf)] /\ pd'[d].buf = None
  /\ \A e \in Domain \ {d} : pd'[e].buf = pd[e].buf
Moves == Stays \/ \E d \in Domain, x \in Queue : Takes(d, x) \/ Gives(d, x)

\* What a step leaves of the domains' types and hands.
Sound == DOMAIN pd = Domain /\ \A d \in Domain : pd[d] \in Locals(d) /\ (pd[d].buf # None <=> pd[d].pc \in Holding(d))

\* None is not a buffer.
LEMMA BufNone == \A b \in Buf : b # None
  BY NetAssumption DEF Buf, None

\* A domain at a new point, with its locals gone or kept.
LEMMA GotoIs ==
    ASSUME TypeOK, Hands, NEW d \in Domain, NEW pc \in Points(d), pc \notin Holding(d), pd[d].pc \notin Holding(d)
    PROVE  /\ Goto(d, pc) \in Locals(d) /\ Goto(d, pc).pc = pc /\ Goto(d, pc).badge = pd[d].badge
           /\ Goto(d, pc).buf = None
           /\ pc # "idle" => Goto(d, pc) = [pd[d] EXCEPT !.pc = pc]
<1>1. pd[d] \in Locals(d) /\ pd[d].buf = None BY DEF TypeOK, Hands
<1>2. CASE pc = "idle" BY <1>1, <1>2, Zenon DEF Goto, Idle, Locals
<1>3. CASE pc # "idle" BY <1>1, <1>3 DEF Goto, Locals
<1> QED BY <1>2, <1>3

\* One domain changes and the others do not.
LEMMA OneChanges ==
    ASSUME TypeOK, Hands, NEW d \in Domain, NEW r \in Locals(d), pd' = [pd EXCEPT ![d] = r],
           r.buf # None <=> r.pc \in Holding(d)
    PROVE  Sound' /\ pd'[d] = r /\ \A e \in Domain \ {d} : pd'[e] = pd[e]
<1>1. DOMAIN pd = Domain /\ \A e \in Domain : pd[e] \in Locals(e) BY DEF TypeOK
<1>2. DOMAIN pd' = Domain /\ pd'[d] = r /\ \A e \in Domain \ {d} : pd'[e] = pd[e] BY <1>1
<1>3. ASSUME NEW e \in Domain PROVE pd'[e] \in Locals(e) /\ (pd'[e].buf # None <=> pd'[e].pc \in Holding(e))
  BY <1>1, <1>2 DEF Hands
<1> QED BY <1>2, <1>3 DEF Sound

\* Take moves the head of a queue into the hand of a domain that held nothing.
LEMMA TakeMoves ==
    ASSUME TypeOK, Hands, NEW d \in Domain, NEW x \in Queue, NEW pc \in Holding(d) \cap Points(d),
           pd[d].pc \notin Holding(d), Take(d, x, pc)
    PROVE  Sound' /\ Moves
<1> DEFINE r == [pd[d] EXCEPT !.buf = Head(q[x]), !.pc = pc]
<1>1. pd[d] \in Locals(d) /\ pd[d].buf = None BY DEF TypeOK, Hands
<1>2. q[x] \in Seq(Buf) /\ q[x] # << >> BY DEF TypeOK, Take, Empty
<1>3. Head(q[x]) \in Buf BY <1>2, Popped
<1>4. r \in Locals(d) /\ r.buf = Head(q[x]) /\ r.pc = pc /\ r.buf # None BY <1>1, <1>3, BufNone, Zenon DEF Locals
<1>5. pd' = [pd EXCEPT ![d] = r] BY DEF Take
<1>. HIDE DEF r
<1>6. Sound' /\ pd'[d] = r /\ \A e \in Domain \ {d} : pd'[e] = pd[e] BY <1>4, <1>5, OneChanges, Zenon
<1>7. Takes(d, x) BY <1>1, <1>4, <1>6 DEF Takes, Take
<1> QED BY <1>6, <1>7 DEF Moves

\* Give moves the buffer a domain holds to the end of a queue.
LEMMA GiveMoves ==
    ASSUME TypeOK, Hands, NEW d \in Domain, NEW x \in Queue, NEW then \in Locals(d),
           then.pc \notin Holding(d), pd[d].pc \in Holding(d), Give(d, x, then)
    PROVE  Sound' /\ Moves
<1> DEFINE r == [then EXCEPT !.buf = None]
<1>1. pd[d] \in Locals(d) /\ pd[d].buf # None BY DEF TypeOK, Hands
<1>2. r \in Locals(d) /\ r.buf = None /\ r.pc = then.pc BY DEF Locals
<1>3. pd' = [pd EXCEPT ![d] = r] BY DEF Give
<1>. HIDE DEF r
<1>4. Sound' /\ pd'[d] = r /\ \A e \in Domain \ {d} : pd'[e] = pd[e] BY <1>2, <1>3, OneChanges, Zenon
<1>5. Gives(d, x) BY <1>1, <1>2, <1>4 DEF Gives, Give
<1> QED BY <1>4, <1>5 DEF Moves

\* One domain goes on, with no buffer before and none after.
LEMMA RestMoves ==
    ASSUME TypeOK, Hands, NEW d \in Domain, NEW r \in Locals(d), pd' = [pd EXCEPT ![d] = r], q' = q,
           r.buf = None, r.pc \notin Holding(d), pd[d].pc \notin Holding(d)
    PROVE  Sound' /\ Moves
<1>1. Sound' /\ pd'[d] = r /\ \A e \in Domain \ {d} : pd'[e] = pd[e] BY OneChanges, Zenon
<1>2. Stays BY <1>1 DEF Stays, Hands
<1> QED BY <1>1, <1>2 DEF Moves

\* A domain that only goes to another point moves no buffer.
LEMMA PointMoves ==
    ASSUME TypeOK, Hands, NEW d \in Domain, NEW pc \in Points(d), q' = q,
           pd' = [pd EXCEPT ![d] = [pd[d] EXCEPT !.pc = pc]],
           pc \notin Holding(d), pd[d].pc \notin Holding(d)
    PROVE  Sound' /\ Moves
<1> DEFINE r == [pd[d] EXCEPT !.pc = pc]
<1>1. pd[d] \in Locals(d) /\ pd[d].buf = None BY DEF TypeOK, Hands
<1>2. r \in Locals(d) /\ r.buf = None /\ r.pc = pc BY <1>1 DEF Locals
<1>. HIDE DEF r
<1>3. pd' = [pd EXCEPT ![d] = r] BY DEF r
<1> QED BY <1>2, <1>3, RestMoves, Zenon

\* Goto moves no buffer, whether or not the handler ends with it.
LEMMA GotoMoves ==
    ASSUME TypeOK, Hands, NEW d \in Domain, NEW pc \in Points(d), q' = q,
           pd' = [pd EXCEPT ![d] = Goto(d, pc)],
           pc \notin Holding(d), pd[d].pc \notin Holding(d)
    PROVE  Sound' /\ Moves
<1>1. Goto(d, pc) \in Locals(d) /\ Goto(d, pc).pc = pc /\ Goto(d, pc).buf = None BY GotoIs
<1> QED BY <1>1, RestMoves, Zenon

\* A notification moves no buffer.
LEMMA NotifyMoves ==
    ASSUME TypeOK, Hands, NEW d \in Domain, NEW to \in Domain, d # to, NEW pc \in Points(d), Notify(d, to, pc),
           pc \notin Holding(d), pd[d].pc \notin Holding(d)
    PROVE  Sound' /\ Moves
<1> DEFINE g == Goto(d, pc)
           r == [pd[to] EXCEPT !.badge = TRUE]
<1>1. g \in Locals(d) /\ g.pc = pc /\ g.buf = None BY GotoIs
<1>2. DOMAIN pd = Domain /\ \A e \in Domain : pd[e] \in Locals(e) BY DEF TypeOK
<1>3. r \in Locals(to) /\ r.pc = pd[to].pc /\ r.buf = pd[to].buf BY <1>2 DEF Locals
<1>4. pd' = [pd EXCEPT ![d] = g, ![to] = r] /\ q' = q BY DEF Notify
<1>. HIDE DEF g, r
<1>5. DOMAIN pd' = Domain /\ pd'[d] = g /\ pd'[to] = r /\ \A e \in Domain \ {d, to} : pd'[e] = pd[e] BY <1>2, <1>4
<1>6. ASSUME NEW e \in Domain
      PROVE  pd'[e] \in Locals(e) /\ (pd'[e].buf # None <=> pd'[e].pc \in Holding(e)) /\ pd'[e].buf = pd[e].buf
  <2>1. CASE e = d BY <1>1, <1>5, <2>1 DEF Hands
  <2>2. CASE e = to BY <1>3, <1>5, <2>2 DEF Hands
  <2>3. CASE e \notin {d, to} BY <1>2, <1>5, <2>3 DEF Hands
  <2> QED BY <2>1, <2>2, <2>3
<1>7. Stays BY <1>4, <1>6, Zenon DEF Stays
<1> QED BY <1>5, <1>6, <1>7 DEF Sound, Moves

\* The points of each domain, and those where it holds a buffer.
LEMMA Places ==
    /\ Points("client") = {"fill", "idle", "queue", "require", "notify"} /\ Holding("client") = {"queue"}
    /\ Points("virt") = {"idle", "return", "return_free", "return_request", "return_recheck", "return_signal",
                         "return_notify", "provide", "reject", "push", "provide_request", "provide_recheck",
                         "signal_client", "notify_client", "signal_driver", "notify_driver"}
    /\ Holding("virt") = {"return_free", "reject", "push"}
    /\ Points("driver") = {"idle", "transmit", "give_back", "request", "recheck", "signal", "notify"}
    /\ Holding("driver") = {"give_back"}
  BY DEF Points, Holding

\* Every step but the first fill moves at most one buffer, and keeps the domains sound.
LEMMA StepMoves ==
    ASSUME TypeOK, Hands, [Next]_vars, ~Fill
    PROVE  Sound' /\ Moves
<1>a. pd["client"] \in Locals("client") /\ pd["virt"] \in Locals("virt") /\ pd["driver"] \in Locals("driver") BY DEF TypeOK, Domain
<1>1. CASE (\E k \in Kinds : Consume(k))
  <2>1. pd["client"].pc \notin Holding("client") /\ "client" \in Domain /\ "cfree" \in Queue BY <1>1, Places DEF Consume, At, Domain, Queue
  <2>2. PICK pc \in Holding("client") \cap Points("client") : Take("client", "cfree", pc) BY <1>1, Places DEF Consume
  <2> QED BY <2>1, <2>2, TakeMoves
<1>2. CASE QueueFrame
  <2> DEFINE then == [pd["client"] EXCEPT !.pc = "require", !.up = TRUE]
  <2>1. pd["client"].pc \in Holding("client") /\ "client" \in Domain /\ "cactive" \in Queue BY <1>2, Places DEF QueueFrame, At, Domain, Queue
  <2>2. "require" \in Points("client") /\ "require" \notin Holding("client") BY Places
  <2>3. then \in Locals("client") /\ then.pc = "require" BY <1>a, <2>2, Zenon DEF Locals
  <2>4. Give("client", "cactive", then) BY <1>2 DEF QueueFrame
  <2>. HIDE DEF then
  <2> QED BY <2>1, <2>2, <2>3, <2>4, GiveMoves
<1>3. CASE ClientRequire
  <2>1. pd["client"].pc \notin Holding("client") /\ "client" \in Domain BY <1>3, Places DEF ClientRequire, At, Domain
  <2>2. q' = q BY <1>3 DEF ClientRequire, Require
  <2>3. PICK pc \in Points("client") \ Holding("client") : pd' = [pd EXCEPT !["client"] = Goto("client", pc)]
    BY <1>3, Places, Zenon DEF ClientRequire, Require
  <2> QED BY <2>1, <2>2, <2>3, GotoMoves, Zenon
<1>4. CASE ClientNotify
  <2>1. pd["client"].pc \notin Holding("client") /\ {"client", "virt"} \subseteq Domain BY <1>4, Places DEF ClientNotify, At, Domain
  <2>2. "idle" \in Points("client") /\ "idle" \notin Holding("client") BY Places
  <2>3. Notify("client", "virt", "idle") BY <1>4 DEF ClientNotify
  <2> QED BY <2>1, <2>2, <2>3, NotifyMoves
<1>5. CASE ClientNotified
  <2> DEFINE r == [pd["client"] EXCEPT !.badge = FALSE]
  <2>1. pd["client"].pc \notin Holding("client") /\ pd["client"].pc \in Points("client") /\ "client" \in Domain BY <1>5, <1>a, Places DEF ClientNotified, At, Domain
  <2>2. r \in Locals("client") /\ r.buf = None /\ r.pc \notin Holding("client") BY <1>5, <1>a, <2>1, Places, Zenon DEF Locals, Idle, Hands
  <2>3. q' = q /\ pd' = [pd EXCEPT !["client"] = r] BY <1>5 DEF ClientNotified
  <2>. HIDE DEF r
  <2> QED BY <2>1, <2>2, <2>3, RestMoves, Zenon
<1>6. CASE VirtNotified
  <2> DEFINE r == Idle("return")
  <2>1. pd["virt"].pc \notin Holding("virt") /\ pd["virt"].pc \in Points("virt") /\ "virt" \in Domain BY <1>6, <1>a, Places DEF VirtNotified, At, Domain
  <2>2. r \in Locals("virt") /\ r.buf = None /\ r.pc \notin Holding("virt") BY <1>6, <1>a, <2>1, Places DEF Locals, Idle, Hands
  <2>3. q' = q /\ pd' = [pd EXCEPT !["virt"] = r] BY <1>6 DEF VirtNotified
  <2>. HIDE DEF r
  <2> QED BY <2>1, <2>2, <2>3, RestMoves, Zenon
<1>7. CASE TxReturn
  <2>1. pd["virt"].pc \notin Holding("virt") /\ "virt" \in Domain /\ "dfree" \in Queue BY <1>7, Places DEF TxReturn, At, Domain, Queue
  <2>2. PICK pc \in Holding("virt") \cap Points("virt") : Take("virt", "dfree", pc) BY <1>7, Places DEF TxReturn
  <2> QED BY <2>1, <2>2, TakeMoves
<1>8. CASE ReturnFree
  <2> DEFINE then == [pd["virt"] EXCEPT !.pc = "return", !.down = TRUE]
  <2>1. pd["virt"].pc \in Holding("virt") /\ "virt" \in Domain /\ "cfree" \in Queue BY <1>8, Places DEF ReturnFree, At, Domain, Queue
  <2>2. "return" \in Points("virt") /\ "return" \notin Holding("virt") BY Places
  <2>3. then \in Locals("virt") /\ then.pc = "return" BY <1>a, <2>2, Zenon DEF Locals
  <2>4. Give("virt", "cfree", then) BY <1>8 DEF ReturnFree
  <2>. HIDE DEF then
  <2> QED BY <2>1, <2>2, <2>3, <2>4, GiveMoves
<1>9. CASE ReturnEnd
  <2>1. pd["virt"].pc \notin Holding("virt") /\ "virt" \in Domain BY <1>9, Places DEF ReturnEnd, At, Domain
  <2>2. q' = q BY <1>9 DEF ReturnEnd, End, RequestSignal
  <2>3. PICK pc \in Points("virt") \ Holding("virt") : pd' = [pd EXCEPT !["virt"] = [pd["virt"] EXCEPT !.pc = pc]]
    BY <1>9, Places, Zenon DEF ReturnEnd, End, RequestSignal
  <2> QED BY <2>1, <2>2, <2>3, PointMoves, Zenon
<1>10. CASE ReturnRequest
  <2>1. pd["virt"].pc \notin Holding("virt") /\ "virt" \in Domain BY <1>10, Places DEF ReturnRequest, At, Domain
  <2>2. q' = q BY <1>10 DEF ReturnRequest, End, RequestSignal
  <2>3. PICK pc \in Points("virt") \ Holding("virt") : pd' = [pd EXCEPT !["virt"] = [pd["virt"] EXCEPT !.pc = pc]]
    BY <1>10, Places, Zenon DEF ReturnRequest, End, RequestSignal
  <2> QED BY <2>1, <2>2, <2>3, PointMoves, Zenon
<1>11. CASE ReturnRecheck
  <2>1. pd["virt"].pc \notin Holding("virt") /\ "virt" \in Domain BY <1>11, Places DEF ReturnRecheck, At, Domain
  <2>2. q' = q BY <1>11 DEF ReturnRecheck, Empty
  <2>3. PICK pc \in Points("virt") \ Holding("virt") : pd' = [pd EXCEPT !["virt"] = [pd["virt"] EXCEPT !.pc = pc]]
    BY <1>11, Places, Zenon DEF ReturnRecheck, Empty
  <2> QED BY <2>1, <2>2, <2>3, PointMoves, Zenon
<1>12. CASE ReturnRequire
  <2>1. pd["virt"].pc \notin Holding("virt") /\ "virt" \in Domain BY <1>12, Places DEF ReturnRequire, At, Domain
  <2>2. q' = q BY <1>12 DEF ReturnRequire, Require
  <2>3. PICK pc \in Points("virt") \ Holding("virt") : pd' = [pd EXCEPT !["virt"] = Goto("virt", pc)]
    BY <1>12, Places, Zenon DEF ReturnRequire, Require
  <2> QED BY <2>1, <2>2, <2>3, GotoMoves
<1>13. CASE ReturnNotify
  <2>1. pd["virt"].pc \notin Holding("virt") /\ {"virt", "client"} \subseteq Domain BY <1>13, Places DEF ReturnNotify, At, Domain
  <2>2. "provide" \in Points("virt") /\ "provide" \notin Holding("virt") BY Places
  <2>3. Notify("virt", "client", "provide") BY <1>13 DEF ReturnNotify
  <2> QED BY <2>1, <2>2, <2>3, NotifyMoves
<1>14. CASE TxProvide
  <2>1. pd["virt"].pc \notin Holding("virt") /\ "virt" \in Domain /\ "cactive" \in Queue BY <1>14, Places DEF TxProvide, At, Domain, Queue
  <2>2. PICK pc \in Holding("virt") \cap Points("virt") : Take("virt", "cactive", pc) BY <1>14, Places DEF TxProvide
  <2> QED BY <2>1, <2>2, TakeMoves
<1>15. CASE Reject
  <2> DEFINE then == [pd["virt"] EXCEPT !.pc = "provide", !.rejected = TRUE]
  <2>1. pd["virt"].pc \in Holding("virt") /\ "virt" \in Domain /\ "cfree" \in Queue BY <1>15, Places DEF Reject, At, Domain, Queue
  <2>2. "provide" \in Points("virt") /\ "provide" \notin Holding("virt") BY Places
  <2>3. then \in Locals("virt") /\ then.pc = "provide" BY <1>a, <2>2, Zenon DEF Locals
  <2>4. Give("virt", "cfree", then) BY <1>15 DEF Reject
  <2>. HIDE DEF then
  <2> QED BY <2>1, <2>2, <2>3, <2>4, GiveMoves
<1>16. CASE Push
  <2> DEFINE then == [pd["virt"] EXCEPT !.pc = "provide", !.up = TRUE]
  <2>1. pd["virt"].pc \in Holding("virt") /\ "virt" \in Domain /\ "dactive" \in Queue BY <1>16, Places DEF Push, At, Domain, Queue
  <2>2. "provide" \in Points("virt") /\ "provide" \notin Holding("virt") BY Places
  <2>3. then \in Locals("virt") /\ then.pc = "provide" BY <1>a, <2>2, Zenon DEF Locals
  <2>4. Give("virt", "dactive", then) BY <1>16 DEF Push
  <2>. HIDE DEF then
  <2> QED BY <2>1, <2>2, <2>3, <2>4, GiveMoves
<1>17. CASE ProvideEnd
  <2>1. pd["virt"].pc \notin Holding("virt") /\ "virt" \in Domain BY <1>17, Places DEF ProvideEnd, At, Domain
  <2>2. q' = q BY <1>17 DEF ProvideEnd, End, RequestSignal
  <2>3. PICK pc \in Points("virt") \ Holding("virt") : pd' = [pd EXCEPT !["virt"] = [pd["virt"] EXCEPT !.pc = pc]]
    BY <1>17, Places, Zenon DEF ProvideEnd, End, RequestSignal
  <2> QED BY <2>1, <2>2, <2>3, PointMoves
<1>18. CASE ProvideRequest
  <2>1. pd["virt"].pc \notin Holding("virt") /\ "virt" \in Domain BY <1>18, Places DEF ProvideRequest, At, Domain
  <2>2. q' = q BY <1>18 DEF ProvideRequest, End, RequestSignal
  <2>3. PICK pc \in Points("virt") \ Holding("virt") : pd' = [pd EXCEPT !["virt"] = [pd["virt"] EXCEPT !.pc = pc]]
    BY <1>18, Places, Zenon DEF ProvideRequest, End, RequestSignal
  <2> QED BY <2>1, <2>2, <2>3, PointMoves
<1>19. CASE ProvideRecheck
  <2>1. pd["virt"].pc \notin Holding("virt") /\ "virt" \in Domain BY <1>19, Places DEF ProvideRecheck, At, Domain
  <2>2. q' = q BY <1>19 DEF ProvideRecheck, Empty
  <2>3. PICK pc \in Points("virt") \ Holding("virt") : pd' = [pd EXCEPT !["virt"] = [pd["virt"] EXCEPT !.pc = pc]]
    BY <1>19, Places, Zenon DEF ProvideRecheck, Empty
  <2> QED BY <2>1, <2>2, <2>3, PointMoves
<1>20. CASE ProvideRequire
  <2>1. pd["virt"].pc \notin Holding("virt") /\ "virt" \in Domain BY <1>20, Places DEF ProvideRequire, At, Domain
  <2>2. q' = q BY <1>20 DEF ProvideRequire, Require
  <2>3. PICK pc \in Points("virt") \ Holding("virt") : pd' = [pd EXCEPT !["virt"] = Goto("virt", pc)]
    BY <1>20, Places, Zenon DEF ProvideRequire, Require
  <2> QED BY <2>1, <2>2, <2>3, GotoMoves
<1>21. CASE ProvideNotify
  <2>1. pd["virt"].pc \notin Holding("virt") /\ {"virt", "client"} \subseteq Domain BY <1>21, Places DEF ProvideNotify, At, Domain
  <2>2. "signal_driver" \in Points("virt") /\ "signal_driver" \notin Holding("virt") BY Places
  <2>3. Notify("virt", "client", "signal_driver") BY <1>21 DEF ProvideNotify
  <2> QED BY <2>1, <2>2, <2>3, NotifyMoves
<1>22. CASE DriverRequire
  <2>1. pd["virt"].pc \notin Holding("virt") /\ "virt" \in Domain BY <1>22, Places DEF DriverRequire, At, Domain
  <2>2. q' = q BY <1>22 DEF DriverRequire, Require
  <2>3. PICK pc \in Points("virt") \ Holding("virt") : pd' = [pd EXCEPT !["virt"] = Goto("virt", pc)]
    BY <1>22, Places, Zenon DEF DriverRequire, Require
  <2> QED BY <2>1, <2>2, <2>3, GotoMoves
<1>23. CASE DriverNotify
  <2>1. pd["virt"].pc \notin Holding("virt") /\ {"virt", "driver"} \subseteq Domain BY <1>23, Places DEF DriverNotify, At, Domain
  <2>2. "idle" \in Points("virt") /\ "idle" \notin Holding("virt") BY Places
  <2>3. Notify("virt", "driver", "idle") BY <1>23 DEF DriverNotify
  <2> QED BY <2>1, <2>2, <2>3, NotifyMoves
<1>24. CASE Interrupt
  <2> DEFINE r == [pd["driver"] EXCEPT !.badge = TRUE]
  <2>1. r \in Locals("driver") /\ r.buf = pd["driver"].buf /\ r.pc = pd["driver"].pc BY <1>a, Zenon DEF Locals
  <2>2. q' = q /\ pd' = [pd EXCEPT !["driver"] = r] /\ "driver" \in Domain BY <1>24 DEF Interrupt, Domain
  <2>3. r.buf # None <=> r.pc \in Holding("driver") BY <2>1, <2>2 DEF Hands
  <2>. HIDE DEF r
  <2>4. Sound' /\ pd'["driver"] = r /\ \A e \in Domain \ {"driver"} : pd'[e] = pd[e] BY <2>1, <2>2, <2>3, OneChanges, Zenon
  <2>5. Stays BY <2>1, <2>2, <2>4 DEF Stays
  <2> QED BY <2>4, <2>5 DEF Moves
<1>25. CASE DriverNotified
  <2> DEFINE r == Idle("transmit")
  <2>1. pd["driver"].pc \notin Holding("driver") /\ pd["driver"].pc \in Points("driver") /\ "driver" \in Domain BY <1>25, <1>a, Places DEF DriverNotified, At, Domain
  <2>2. r \in Locals("driver") /\ r.buf = None /\ r.pc \notin Holding("driver") BY <1>25, <1>a, <2>1, Places DEF Locals, Idle, Hands
  <2>3. q' = q /\ pd' = [pd EXCEPT !["driver"] = r] BY <1>25 DEF DriverNotified
  <2>. HIDE DEF r
  <2> QED BY <2>1, <2>2, <2>3, RestMoves, Zenon
<1>26. CASE (\E room \in BOOLEAN : SendOne(room))
  <2>1. pd["driver"].pc \notin Holding("driver") /\ "driver" \in Domain /\ "dactive" \in Queue BY <1>26, Places DEF SendOne, At, Domain, Queue
  <2>2. PICK pc \in Holding("driver") \cap Points("driver") : Take("driver", "dactive", pc) BY <1>26, Places DEF SendOne
  <2> QED BY <2>1, <2>2, TakeMoves
<1>27. CASE GiveBack
  <2> DEFINE then == [pd["driver"] EXCEPT !.pc = "transmit", !.down = TRUE]
  <2>1. pd["driver"].pc \in Holding("driver") /\ "driver" \in Domain /\ "dfree" \in Queue BY <1>27, Places DEF GiveBack, At, Domain, Queue
  <2>2. "transmit" \in Points("driver") /\ "transmit" \notin Holding("driver") BY Places
  <2>3. then \in Locals("driver") /\ then.pc = "transmit" BY <1>a, <2>2, Zenon DEF Locals
  <2>4. Give("driver", "dfree", then) BY <1>27 DEF GiveBack
  <2>. HIDE DEF then
  <2> QED BY <2>1, <2>2, <2>3, <2>4, GiveMoves
<1>28. CASE TransmitEnd
  <2>1. pd["driver"].pc \notin Holding("driver") /\ "driver" \in Domain BY <1>28, Places DEF TransmitEnd, At, Domain
  <2>2. q' = q BY <1>28 DEF TransmitEnd, End, RequestSignal
  <2>3. PICK pc \in Points("driver") \ Holding("driver") : pd' = [pd EXCEPT !["driver"] = [pd["driver"] EXCEPT !.pc = pc]]
    BY <1>28, Places, Zenon DEF TransmitEnd, End, RequestSignal
  <2> QED BY <2>1, <2>2, <2>3, PointMoves, Zenon
<1>29. CASE TransmitRequest
  <2>1. pd["driver"].pc \notin Holding("driver") /\ "driver" \in Domain BY <1>29, Places DEF TransmitRequest, At, Domain
  <2>2. q' = q BY <1>29 DEF TransmitRequest, End, RequestSignal
  <2>3. PICK pc \in Points("driver") \ Holding("driver") : pd' = [pd EXCEPT !["driver"] = [pd["driver"] EXCEPT !.pc = pc]]
    BY <1>29, Places, Zenon DEF TransmitRequest, End, RequestSignal
  <2> QED BY <2>1, <2>2, <2>3, PointMoves, Zenon
<1>30. CASE TransmitRecheck
  <2>1. pd["driver"].pc \notin Holding("driver") /\ "driver" \in Domain BY <1>30, Places DEF TransmitRecheck, At, Domain
  <2>2. q' = q BY <1>30 DEF TransmitRecheck, Empty
  <2>3. PICK pc \in Points("driver") \ Holding("driver") : pd' = [pd EXCEPT !["driver"] = [pd["driver"] EXCEPT !.pc = pc]]
    BY <1>30, Places, Zenon DEF TransmitRecheck, Empty
  <2> QED BY <2>1, <2>2, <2>3, PointMoves, Zenon
<1>31. CASE TransmitRequire
  <2>1. pd["driver"].pc \notin Holding("driver") /\ "driver" \in Domain BY <1>31, Places DEF TransmitRequire, At, Domain
  <2>2. q' = q BY <1>31 DEF TransmitRequire, Require
  <2>3. PICK pc \in Points("driver") \ Holding("driver") : pd' = [pd EXCEPT !["driver"] = Goto("driver", pc)]
    BY <1>31, Places DEF TransmitRequire, Require
  <2> QED BY <2>1, <2>2, <2>3, GotoMoves, Zenon
<1>32. CASE TransmitNotify
  <2>1. pd["driver"].pc \notin Holding("driver") /\ {"driver", "virt"} \subseteq Domain BY <1>32, Places DEF TransmitNotify, At, Domain
  <2>2. "idle" \in Points("driver") /\ "idle" \notin Holding("driver") BY Places
  <2>3. Notify("driver", "virt", "idle") BY <1>32 DEF TransmitNotify
  <2> QED BY <2>1, <2>2, <2>3, NotifyMoves
<1>33. CASE UNCHANGED vars
  BY <1>33, <1>a DEF vars, Sound, Moves, Stays, TypeOK, Hands
<1> QED BY Steps, <1>1, <1>2, <1>3, <1>4, <1>5, <1>6, <1>7, <1>8, <1>9, <1>10, <1>11, <1>12, <1>13, <1>14, <1>15, <1>16, <1>17, <1>18, <1>19, <1>20, <1>21, <1>22, <1>23, <1>24, <1>25, <1>26, <1>27, <1>28, <1>29, <1>30, <1>31, <1>32, <1>33

\* The queues keep their type in a step that moves at most one buffer.
LEMMA QueuesTyped ==
    ASSUME TypeOK, Moves
    PROVE  q' \in [Queue -> Seq(Buf)] /\ \A x \in Queue : Len(q'[x]) <= Capacity(x)
<1>1. q \in [Queue -> Seq(Buf)] /\ (\A x \in Queue : Len(q[x]) <= Capacity(x)) /\ \A d \in Domain : pd[d] \in Locals(d)
  BY DEF TypeOK
<1>2. \A x \in Queue : Capacity(x) \in Nat BY NetAssumption DEF Capacity
<1>3. CASE Stays BY <1>1, <1>3 DEF Stays
<1>4. ASSUME NEW d \in Domain, NEW x \in Queue, Takes(d, x)
      PROVE  q' \in [Queue -> Seq(Buf)] /\ \A y \in Queue : Len(q'[y]) <= Capacity(y)
  <2>1. q[x] \in Seq(Buf) /\ q[x] # << >> BY <1>1, <1>4 DEF Takes, Empty
  <2>2. Tail(q[x]) \in Seq(Buf) /\ Len(Tail(q[x])) = Len(q[x]) - 1 /\ Len(q[x]) \in Nat BY <2>1, Popped
  <2>3. q' = [q EXCEPT ![x] = Tail(q[x])] BY <1>4 DEF Takes
  <2> QED BY <1>1, <1>2, <2>2, <2>3
<1>5. ASSUME NEW d \in Domain, NEW x \in Queue, Gives(d, x)
      PROVE  q' \in [Queue -> Seq(Buf)] /\ \A y \in Queue : Len(q'[y]) <= Capacity(y)
  <2>1. q[x] \in Seq(Buf) /\ pd[d].buf \in Buf BY <1>1, <1>5 DEF Gives, Locals
  <2>2. Append(q[x], pd[d].buf) \in Seq(Buf) /\ Len(Append(q[x], pd[d].buf)) = Len(q[x]) + 1 /\ Len(q[x]) \in Nat
    BY <2>1, Pushed
  <2>3. q' = [q EXCEPT ![x] = Append(q[x], pd[d].buf)] /\ Len(q[x]) # Capacity(x) BY <1>5 DEF Gives, Full
  <2>4. Len(q[x]) + 1 <= Capacity(x) BY <1>1, <1>2, <2>2, <2>3
  <2> QED BY <1>1, <1>2, <2>2, <2>3, <2>4
<1> QED BY <1>3, <1>4, <1>5 DEF Moves

\* The frames, the device and the requests keep their types.
LEMMA OthersTyped ==
    ASSUME TypeOK, [Next]_vars
    PROVE  made' \in Seq(Kinds) /\ sent' \in Seq(Nat) /\ want' \subseteq Queue /\ mem' \in [Buf -> Nat]
<1>1. made \in Seq(Kinds) /\ sent \in Seq(Nat) /\ want \subseteq Queue /\ mem \in [Buf -> Nat] /\ q \in [Queue -> Seq(Buf)]
  BY DEF TypeOK
<1>2. ASSUME NEW k \in Kinds, Consume(k) PROVE made' \in Seq(Kinds) /\ mem' \in [Buf -> Nat] /\ sent' = sent /\ want' = want
  <2>1. Append(made, k) \in Seq(Kinds) /\ Len(made) + 1 \in Nat BY <1>1, Pushed
  <2> QED BY <1>1, <1>2, <2>1, Zenon DEF Consume
<1>3. ASSUME NEW room \in BOOLEAN, SendOne(room) PROVE sent' \in Seq(Nat) /\ made' = made /\ mem' = mem /\ want' = want
  <2>1. "dactive" \in Queue /\ ~Empty("dactive") BY <1>3 DEF SendOne, Take, Queue
  <2>2. Head(q["dactive"]) \in Buf BY <1>1, <2>1, Popped DEF Empty
  <2>3. Append(sent, mem[Head(q["dactive"])]) \in Seq(Nat) BY <1>1, <2>2, Pushed
  <2> QED BY <1>1, <1>3, <2>3 DEF SendOne
<1>4. {"cfree", "cactive", "dfree", "dactive"} \subseteq Queue BY DEF Queue
<1>5. CASE Fill \/ QueueFrame \/ ClientNotify \/ ClientNotified \/ VirtNotified \/ TxReturn \/ ReturnFree \/ ReturnEnd
           \/ ReturnNotify \/ TxProvide \/ Reject \/ Push \/ ProvideEnd \/ ProvideNotify \/ DriverNotify \/ Interrupt
           \/ DriverNotified \/ GiveBack \/ TransmitEnd \/ TransmitNotify \/ UNCHANGED vars
  <2>1. UNCHANGED <<made, mem, want, sent>>
    BY <1>5, Zenon DEF Fill, QueueFrame, ClientNotify, ClientNotified, VirtNotified, TxReturn, ReturnFree, ReturnEnd,
          ReturnNotify, TxProvide, Reject, Push, ProvideEnd, ProvideNotify, DriverNotify, Interrupt,
          DriverNotified, GiveBack, TransmitEnd, TransmitNotify, vars, End, Notify
  <2> QED BY <1>1, <2>1
<1>6. CASE ReturnRequest \/ ProvideRequest \/ TransmitRequest
  BY <1>1, <1>4, <1>6 DEF ReturnRequest, ProvideRequest, TransmitRequest, RequestSignal
<1>7. CASE ClientRequire \/ ReturnRequire \/ ProvideRequire \/ DriverRequire \/ TransmitRequire
  BY <1>1, <1>7 DEF ClientRequire, ReturnRequire, ProvideRequire, DriverRequire, TransmitRequire, Require
<1>8. CASE ReturnRecheck \/ ProvideRecheck \/ TransmitRecheck
  BY <1>1, <1>8 DEF ReturnRecheck, ProvideRecheck, TransmitRecheck
<1> QED BY Steps, <1>1, <1>2, <1>3, <1>5, <1>6, <1>7, <1>8

\* The client's fill queues every buffer of its region once.
LEMMA FillIs ==
    ASSUME TypeOK, Fill
    PROVE  /\ q' = [q EXCEPT !["cfree"] = [i \in 1 .. NumBufs |-> i - 1]]
           /\ q'["cfree"] \in Seq(Buf) /\ Len(q'["cfree"]) = NumBufs
           /\ \A x \in Queue \ {"cfree"} : q'[x] = q[x]
           /\ pd' = [pd EXCEPT !["client"] = Goto("client", "idle")]
<1>1. q \in [Queue -> Seq(Buf)] /\ "cfree" \in Queue BY DEF TypeOK, Queue
<1>2. q' = [q EXCEPT !["cfree"] = [i \in 1 .. NumBufs |-> i - 1]] BY DEF Fill
<1>3. q'["cfree"] = [i \in 1 .. NumBufs |-> i - 1] BY <1>1, <1>2
<1>4. [i \in 1 .. NumBufs |-> i - 1] \in [1 .. NumBufs -> Buf] BY NetAssumption DEF Buf
<1>5. q'["cfree"] \in Seq(Buf) /\ Len(q'["cfree"]) = NumBufs BY <1>3, <1>4, NetAssumption
<1> QED BY <1>1, <1>2, <1>5, Zenon DEF Fill

\* Types and hands are kept by every step.
LEMMA Typed ==
    ASSUME TypeOK, Hands, [Next]_vars
    PROVE  TypeOK' /\ Hands'
<1>1. Sound' /\ q' \in [Queue -> Seq(Buf)] /\ \A x \in Queue : Len(q'[x]) <= Capacity(x)
  <2>1. CASE ~Fill BY <2>1, StepMoves, QueuesTyped
  <2>2. CASE Fill
    <3>1. q \in [Queue -> Seq(Buf)] /\ (\A x \in Queue : Len(q[x]) <= Capacity(x)) /\ "cfree" \in Queue BY DEF TypeOK, Queue
    <3>2. q' \in [Queue -> Seq(Buf)] BY <2>2, <3>1, FillIs, Zenon
    <3>3. NumBufs <= Capacity("cfree") BY NetAssumption DEF Capacity
    <3>4. \A x \in Queue : Len(q'[x]) <= Capacity(x) BY <2>2, <3>1, <3>3, FillIs
    <3>5. "client" \in Domain /\ "idle" \in Points("client") \ Holding("client") /\ pd["client"].pc \notin Holding("client")
      BY <2>2, Places DEF Domain, Fill, At
    <3>6. Goto("client", "idle") \in Locals("client") /\ Goto("client", "idle").pc = "idle" /\ Goto("client", "idle").buf = None
      BY <3>5, GotoIs
    <3>7. Sound' BY <2>2, <3>5, <3>6, FillIs, OneChanges
    <3> QED BY <3>2, <3>4, <3>7
  <2> QED BY <2>1, <2>2
<1>2. made' \in Seq(Kinds) /\ sent' \in Seq(Nat) /\ want' \subseteq Queue /\ mem' \in [Buf -> Nat] BY OthersTyped
<1> QED BY <1>1, <1>2 DEF TypeOK, Hands, Sound

-----------------------------------------------------------------------------
(* Ownership: no buffer is in two places, and none is lost.                *)

\* Where buffers lie after the head of queue x is taken.
LEMMA LiesTaken ==
    ASSUME TypeOK, NEW d \in Domain, NEW x \in Queue, Takes(d, x)
    PROVE  /\ pd'[d].buf \in Buf /\ Lies(pd'[d].buf, x, 1)
           /\ \A b \in Buf \cup {None}, y \in Queue, j \in Nat :
                Lies(b, y, j)' <=> j # 0 /\ Lies(b, y, IF y = x THEN j + 1 ELSE j)
<1>1. q \in [Queue -> Seq(Buf)] BY DEF TypeOK
<1>2. q[x] \in Seq(Buf) /\ q[x] # << >> BY <1>1 DEF Takes, Empty
<1>3. /\ Len(q[x]) \in Nat \ {0} /\ q[x][1] \in Buf /\ Head(q[x]) = q[x][1] /\ Len(Tail(q[x])) = Len(q[x]) - 1
      /\ \A i \in 1 .. Len(q[x]) - 1 : Tail(q[x])[i] = q[x][i + 1]
  BY <1>2, Popped
<1>4. q'[x] = Tail(q[x]) /\ \A y \in Queue \ {x} : q'[y] = q[y] BY <1>1 DEF Takes
<1>5. \A y \in Queue : Len(q[y]) \in Nat BY <1>1
<1>6. ASSUME NEW b \in Buf \cup {None}, NEW y \in Queue, NEW j \in Nat
      PROVE  Lies(b, y, j)' <=> j # 0 /\ Lies(b, y, IF y = x THEN j + 1 ELSE j)
  <2>1. CASE y = x
    <3>1. j # 0 /\ j + 1 \in 1 .. Len(q[x]) <=> j \in 1 .. Len(q[x]) - 1 BY <1>3
    <3>2. Lies(b, x, j)' <=> j \in 1 .. Len(q[x]) - 1 /\ q[x][j + 1] = b BY <1>3, <1>4 DEF Lies
    <3> QED BY <2>1, <3>1, <3>2 DEF Lies
  <2>2. CASE y # x BY <1>4, <1>5, <2>2 DEF Lies
  <2> QED BY <2>1, <2>2
<1>7. pd'[d].buf = q[x][1] BY <1>3 DEF Takes
<1> QED BY <1>3, <1>6, <1>7 DEF Lies

\* Where buffers lie after a domain has given its buffer to queue x.
LEMMA LiesGiven ==
    ASSUME TypeOK, NEW d \in Domain, NEW x \in Queue, Gives(d, x)
    PROVE  /\ pd[d].buf \in Buf /\ Len(q[x]) \in Nat
           /\ \A b \in Buf \cup {None}, y \in Queue, j \in Nat :
                Lies(b, y, j)' <=> Lies(b, y, j) \/ (y = x /\ j = Len(q[x]) + 1 /\ b = pd[d].buf)
<1>1. q \in [Queue -> Seq(Buf)] /\ pd[d] \in Locals(d) BY DEF TypeOK
<1>2. q[x] \in Seq(Buf) /\ pd[d].buf \in Buf BY <1>1 DEF Gives, Locals
<1> DEFINE b0 == pd[d].buf
           s == Append(q[x], b0)
<1>3. /\ Len(q[x]) \in Nat /\ Len(s) = Len(q[x]) + 1
      /\ (\A i \in 1 .. Len(q[x]) : s[i] = q[x][i]) /\ s[Len(q[x]) + 1] = b0
  BY <1>2, Pushed
<1>4. q'[x] = s /\ \A y \in Queue \ {x} : q'[y] = q[y] BY <1>1 DEF Gives
<1>. HIDE DEF s, b0
<1>5. ASSUME NEW b \in Buf \cup {None}, NEW y \in Queue, NEW j \in Nat
      PROVE  Lies(b, y, j)' <=> Lies(b, y, j) \/ (y = x /\ j = Len(q[x]) + 1 /\ b = b0)
  <2>1. CASE y = x BY <1>3, <1>4, <2>1 DEF Lies
  <2>2. CASE y # x BY <1>4, <2>2 DEF Lies
  <2> QED BY <2>1, <2>2
<1> QED BY <1>2, <1>3, <1>5 DEF b0

\* No buffer gets into a second place.
LEMMA DistinctKept ==
    ASSUME TypeOK, TypeOK', Distinct, Moves
    PROVE  Distinct'
<1>0. /\ \A d \in Domain : pd[d].buf \in Buf \cup {None} /\ pd'[d].buf \in Buf \cup {None}
      /\ \A b \in Buf : b # None
  BY BufNone DEF TypeOK, Locals
<1>1. CASE Stays BY <1>1 DEF Stays, Distinct, Lies
<1>2. ASSUME NEW d \in Domain, NEW x \in Queue, Takes(d, x) PROVE Distinct'
  <2> DEFINE b0 == pd'[d].buf
  <2>1. /\ b0 \in Buf /\ Lies(b0, x, 1)
        /\ \A b \in Buf \cup {None}, y \in Queue, j \in Nat :
             Lies(b, y, j)' <=> j # 0 /\ Lies(b, y, IF y = x THEN j + 1 ELSE j)
    BY <1>2, LiesTaken
  <2>2. \A e \in Domain \ {d} : pd'[e].buf = pd[e].buf BY <1>2 DEF Takes
  <2>. HIDE DEF b0
  <2>3. ASSUME NEW y \in Queue, NEW z \in Queue, NEW i \in Nat, NEW j \in Nat, NEW b \in Buf, Lies(b, y, i)', Lies(b, z, j)'
        PROVE  y = z /\ i = j
    <3>1. Lies(b, y, IF y = x THEN i + 1 ELSE i) /\ Lies(b, z, IF z = x THEN j + 1 ELSE j) BY <2>1, <2>3
    <3> QED BY <3>1 DEF Distinct
  <2>4. ASSUME NEW y \in Queue, NEW i \in Nat, NEW e \in Domain, NEW b \in Buf \cup {None}, pd'[e].buf = b, Lies(b, y, i)'
        PROVE  FALSE
    <3>1. i # 0 /\ Lies(b, y, IF y = x THEN i + 1 ELSE i) BY <2>1, <2>4
    <3>2. CASE e = d
      <4>1. b = b0 BY <2>4, <3>2 DEF b0
      <4>2. x = y /\ 1 = (IF y = x THEN i + 1 ELSE i) BY <2>1, <3>1, <4>1 DEF Distinct
      <4> QED BY <3>1, <4>2
    <3>3. CASE e # d
      <4>1. b = pd[e].buf BY <2>2, <2>4, <3>3
      <4> QED BY <3>1, <4>1 DEF Distinct
    <3> QED BY <3>2, <3>3
  <2>5. ASSUME NEW e \in Domain, NEW g \in Domain, pd'[e].buf # None, pd'[e].buf = pd'[g].buf PROVE e = g
    <3>1. \A h \in Domain : pd[h].buf # b0 BY <2>1 DEF Distinct
    <3> QED BY <2>2, <2>5, <3>1 DEF Distinct, b0
  <2>6. \A y \in Queue : \A i \in Nat : \A e \in Domain : ~Lies(pd[e].buf, y, i)' BY <1>0, <2>4 DEF Lies
  <2> QED BY <2>3, <2>5, <2>6 DEF Distinct
<1>3. ASSUME NEW d \in Domain, NEW x \in Queue, Gives(d, x) PROVE Distinct'
  <2> DEFINE b0 == pd[d].buf
  <2>1. /\ b0 \in Buf /\ Len(q[x]) \in Nat
        /\ \A b \in Buf \cup {None}, y \in Queue, j \in Nat :
             Lies(b, y, j)' <=> Lies(b, y, j) \/ (y = x /\ j = Len(q[x]) + 1 /\ b = b0)
    BY <1>3, LiesGiven
  <2>2. pd'[d].buf = None /\ \A e \in Domain \ {d} : pd'[e].buf = pd[e].buf BY <1>3 DEF Gives
  <2>3. \A y \in Queue, i \in Nat : ~Lies(b0, y, i) BY DEF Distinct
  <2>4. \A e \in Domain \ {d} : pd[e].buf # b0 BY <1>0, <2>1 DEF Distinct
  <2>. HIDE DEF b0
  <2>5. ASSUME NEW y \in Queue, NEW z \in Queue, NEW i \in Nat, NEW j \in Nat, NEW b \in Buf, Lies(b, y, i)', Lies(b, z, j)'
        PROVE  y = z /\ i = j
    BY <2>1, <2>3, <2>5 DEF Distinct
  <2>6. ASSUME NEW y \in Queue, NEW i \in Nat, NEW e \in Domain, NEW b \in Buf \cup {None}, pd'[e].buf = b, Lies(b, y, i)'
        PROVE  FALSE
    <3>1. Lies(b, y, i) \/ b = b0 BY <2>1, <2>6
    <3>2. CASE e = d
      <4>1. b = None BY <2>2, <2>6, <3>2
      <4>2. Lies(None, y, i) BY <1>0, <2>1, <3>1, <4>1
      <4>3. q[y] \in Seq(Buf) BY DEF TypeOK
      <4>4. i \in 1 .. Len(q[y]) /\ q[y][i] = None BY <4>2 DEF Lies
      <4> QED BY <1>0, <4>3, <4>4, Elements
    <3>3. CASE e # d
      <4>1. b = pd[e].buf BY <2>2, <2>6, <3>3
      <4> QED BY <2>4, <3>1, <3>3, <4>1 DEF Distinct
    <3> QED BY <3>2, <3>3
  <2>7. ASSUME NEW e \in Domain, NEW g \in Domain, pd'[e].buf # None, pd'[e].buf = pd'[g].buf PROVE e = g
    BY <2>2, <2>7 DEF Distinct
  <2>8. \A y \in Queue : \A i \in Nat : \A e \in Domain : ~Lies(pd[e].buf, y, i)' BY <1>0, <2>6 DEF Lies
  <2> QED BY <2>5, <2>7, <2>8 DEF Distinct
<1> QED BY <1>1, <1>2, <1>3 DEF Moves

\* No buffer is lost.
LEMMA SomewhereKept ==
    ASSUME TypeOK, Moves, NEW b \in Buf, Somewhere(b)
    PROVE  Somewhere(b)'
<1>1. CASE Stays BY <1>1 DEF Stays, Somewhere, Lies
<1>2. ASSUME NEW d \in Domain, NEW x \in Queue, Takes(d, x) PROVE Somewhere(b)'
  <2> DEFINE b0 == pd'[d].buf
  <2>1. /\ b0 \in Buf /\ Lies(b0, x, 1)
        /\ \A y \in Queue, j \in Nat : Lies(b, y, j)' <=> j # 0 /\ Lies(b, y, IF y = x THEN j + 1 ELSE j)
    BY <1>2, LiesTaken
  <2>2. pd[d].buf = None /\ \A e \in Domain \ {d} : pd'[e].buf = pd[e].buf BY <1>2 DEF Takes
  <2>. HIDE DEF b0
  <2>3. ASSUME NEW y \in Queue, NEW i \in Nat, Lies(b, y, i) PROVE Somewhere(b)'
    <3>1. i \in Nat \ {0} BY <2>3 DEF Lies
    <3>2. CASE y = x /\ i = 1
      <4>1. b = b0 BY <2>1, <2>3, <3>2 DEF Lies
      <4> QED BY <4>1 DEF Somewhere, b0
    <3>3. CASE y = x /\ i # 1
      <4>1. i - 1 \in Nat \ {0} /\ (i - 1) + 1 = i BY <3>1, <3>3
      <4>2. Lies(b, y, i - 1)' BY <2>1, <2>3, <3>3, <4>1
      <4> QED BY <4>1, <4>2 DEF Somewhere
    <3>4. CASE y # x
      <4>1. Lies(b, y, i)' BY <2>1, <2>3, <3>1, <3>4
      <4> QED BY <4>1 DEF Somewhere
    <3> QED BY <3>2, <3>3, <3>4
  <2>4. ASSUME NEW e \in Domain, pd[e].buf = b PROVE Somewhere(b)'
    BY <2>2, <2>4, BufNone DEF Somewhere
  <2> QED BY <2>3, <2>4 DEF Somewhere
<1>3. ASSUME NEW d \in Domain, NEW x \in Queue, Gives(d, x) PROVE Somewhere(b)'
  <2>1. /\ Len(q[x]) \in Nat
        /\ \A y \in Queue, j \in Nat : Lies(b, y, j)' <=> Lies(b, y, j) \/ (y = x /\ j = Len(q[x]) + 1 /\ b = pd[d].buf)
    BY <1>3, LiesGiven
  <2>2. \A e \in Domain \ {d} : pd'[e].buf = pd[e].buf BY <1>3 DEF Gives
  <2>3. ASSUME NEW y \in Queue, NEW i \in Nat, Lies(b, y, i) PROVE Somewhere(b)'
    BY <2>1, <2>3 DEF Somewhere
  <2>4. ASSUME NEW e \in Domain, pd[e].buf = b PROVE Somewhere(b)'
    <3>1. CASE e = d
      <4>1. PICK j \in Nat : j = Len(q[x]) + 1 BY <2>1
      <4>2. Lies(b, x, j)' BY <2>1, <2>4, <3>1, <4>1
      <4> QED BY <4>2 DEF Somewhere
    <3>2. CASE e # d BY <2>2, <2>4, <3>2 DEF Somewhere
    <3> QED BY <3>1, <3>2
  <2> QED BY <2>3, <2>4 DEF Somewhere
<1> QED BY <1>1, <1>2, <1>3 DEF Moves

\* Only the fill leaves the client's first point, and no step comes back to it.
LEMMA FillStays ==
    ASSUME TypeOK, Hands, [Next]_vars, ~Fill
    PROVE  At("client", "fill") <=> At("client", "fill")'
<1>1. DOMAIN pd = Domain /\ "client" \in Domain /\ pd["client"] \in Locals("client") BY DEF TypeOK, Domain
<1>2. CASE \/ VirtNotified \/ TxReturn \/ ReturnFree \/ ReturnEnd \/ ReturnRequest \/ ReturnRecheck \/ ReturnRequire
           \/ TxProvide \/ Reject \/ Push
  <2>1. pd'["client"] = pd["client"]
    BY <1>1, <1>2 DEF VirtNotified, TxReturn, ReturnFree, ReturnEnd, ReturnRequest, ReturnRecheck, ReturnRequire, TxProvide,
         Reject, Push, Take, Give, End, RequestSignal, Require
  <2> QED BY <2>1 DEF At
<1>3. CASE \/ ProvideEnd \/ ProvideRequest \/ ProvideRecheck \/ ProvideRequire \/ DriverRequire \/ DriverNotify
  <2>1. pd'["client"] = pd["client"]
    BY <1>1, <1>3 DEF ProvideEnd, ProvideRequest, ProvideRecheck, ProvideRequire, DriverRequire, DriverNotify,
         End, RequestSignal, Require, Notify
  <2> QED BY <2>1 DEF At
<1>4. CASE \/ Interrupt \/ DriverNotified \/ (\E room \in BOOLEAN : SendOne(room)) \/ GiveBack \/ TransmitEnd
           \/ TransmitRequest \/ TransmitRecheck \/ TransmitRequire \/ TransmitNotify \/ UNCHANGED vars
  <2>1. pd'["client"] = pd["client"]
    BY <1>1, <1>4 DEF Interrupt, DriverNotified, SendOne, GiveBack, TransmitEnd, TransmitRequest, TransmitRecheck,
         TransmitRequire, TransmitNotify, vars, Take, Give, End, RequestSignal, Require, Notify
  <2> QED BY <2>1 DEF At
<1>5. CASE ReturnNotify \/ ProvideNotify
  <2>1. pd'["client"] = [pd["client"] EXCEPT !.badge = TRUE]
    BY <1>1, <1>5, Zenon DEF ReturnNotify, ProvideNotify, Notify, Domain
  <2> QED BY <1>1, <2>1 DEF At, Locals
<1>6. CASE (\E k \in Kinds : Consume(k)) \/ QueueFrame \/ ClientNotified
  <2>1. pd["client"].pc # "fill" BY <1>6 DEF Consume, QueueFrame, ClientNotified, At
  <2>2. CASE \E k \in Kinds : Consume(k) BY <1>1, <2>1, <2>2 DEF Consume, At, Take, Locals
  <2>3. CASE QueueFrame BY <1>1, <2>1, <2>3 DEF QueueFrame, At, Give, Locals
  <2>4. CASE ClientNotified BY <1>1, <2>1, <2>4 DEF ClientNotified, At, Locals
  <2> QED BY <1>6, <2>2, <2>3, <2>4
<1>7. CASE ClientRequire \/ ClientNotify
  <2>1. pd["client"].pc # "fill" /\ pd["client"].pc \notin Holding("client") /\ "client" \in Domain
    BY <1>7, Places, Zenon DEF ClientRequire, ClientNotify, At, Domain
  <2>2. PICK pc \in {"notify", "idle"} : pd'["client"] = Goto("client", pc)
    BY <1>1, <1>7 DEF ClientRequire, ClientNotify, Require, Notify, Domain
  <2>3. pc \in Points("client") \ Holding("client") BY Places
  <2>4. Goto("client", pc).pc = pc BY <2>1, <2>3, GotoIs
  <2> QED BY <2>1, <2>2, <2>4 DEF At
<1> QED BY Steps, <1>2, <1>3, <1>4, <1>5, <1>6, <1>7

\* Ownership is kept by every step.
LEMMA OwnedKept ==
    ASSUME TypeOK, Owned, [Next]_vars
    PROVE  TypeOK' /\ Owned'
<1>1. TypeOK' /\ Hands' BY Typed DEF Owned
<1>2. CASE Fill
  <2>1. /\ q'["cfree"] = [i \in 1 .. NumBufs |-> i - 1] /\ Len(q'["cfree"]) = NumBufs
        /\ \A x \in Queue \ {"cfree"} : q'[x] = q[x]
    BY <1>2, FillIs, Zenon DEF TypeOK, Queue
  <2>2. \A x \in Queue : q[x] = << >> BY <1>2 DEF Owned, Unfilled, Fill, Empty
  <2>3. ASSUME NEW b, NEW x \in Queue, NEW i \in Nat
        PROVE  Lies(b, x, i)' <=> x = "cfree" /\ i \in 1 .. NumBufs /\ b = i - 1
    <3>1. CASE x = "cfree" BY <2>1, <3>1 DEF Lies
    <3>2. CASE x # "cfree"
      <4>1. q'[x] = << >> BY <2>1, <2>2, <3>2
      <4> QED BY <3>2, <4>1 DEF Lies
    <3> QED BY <3>1, <3>2
  <2>4. "client" \in Domain /\ DOMAIN pd = Domain /\ pd' = [pd EXCEPT !["client"] = Goto("client", "idle")] BY <1>2 DEF Fill, Domain, TypeOK
  <2>5. pd'["client"].pc = "idle" /\ \A d \in Domain : pd'[d].buf = pd[d].buf
    <3>1. "idle" \in Points("client") \ Holding("client") /\ pd["client"].pc \notin Holding("client") BY <1>2, Places DEF Fill, At
    <3>2. Goto("client", "idle").pc = "idle" /\ Goto("client", "idle").buf = None BY <2>4, <3>1, GotoIs DEF Owned
    <3> QED BY <2>4, <3>1, <3>2 DEF Owned, Hands
  <2>6. \A x, y \in Queue : \A i, j \in Nat : \A b \in Buf : Lies(b, x, i)' /\ Lies(b, y, j)' => x = y /\ i = j
    <3>1. ASSUME NEW x \in Queue, NEW y \in Queue, NEW i \in Nat, NEW j \in Nat, NEW b \in Buf, Lies(b, x, i)', Lies(b, y, j)'
          PROVE  x = y /\ i = j
      <4>1. x = "cfree" /\ y = "cfree" /\ b = i - 1 /\ b = j - 1 BY <2>3, <3>1
      <4> QED BY <4>1
    <3> QED BY <3>1
  <2>7. \A d \in Domain : pd'[d].buf = None BY <1>2, <2>5 DEF Owned, Unfilled, Fill
  <2>8. \A x \in Queue : \A i \in Nat : \A d \in Domain : ~Lies(pd[d].buf, x, i)'
    <3>1. ASSUME NEW x \in Queue, NEW i \in Nat, Lies(None, x, i)' PROVE FALSE
      <4>1. i \in 1 .. NumBufs /\ None = i - 1 BY <2>3, <3>1
      <4> QED BY <4>1 DEF None
    <3> QED BY <2>7, <3>1 DEF Lies
  <2>9. Distinct' BY <2>6, <2>7, <2>8 DEF Distinct
  <2>10. ASSUME NEW b \in Buf PROVE Somewhere(b)'
    <3>1. PICK i \in Nat : i = b + 1 BY DEF Buf
    <3>2. i \in 1 .. NumBufs /\ b = i - 1 BY <3>1, NetAssumption DEF Buf
    <3>3. Lies(b, "cfree", i)' BY <2>3, <3>2 DEF Queue
    <3> QED BY <3>3 DEF Somewhere, Queue
  <2> QED BY <1>1, <2>5, <2>9, <2>10 DEF Owned, Filled, Unfilled, At
<1>3. CASE ~Fill
  <2>1. Moves BY <1>3, StepMoves DEF Owned
  <2>2. Distinct' BY <1>1, <2>1, DistinctKept DEF Owned
  <2>3. At("client", "fill") <=> At("client", "fill")' BY <1>3, FillStays DEF Owned
  <2>4. Filled' BY <2>1, <2>3, SomewhereKept DEF Owned, Filled
  <2>5. Unfilled'
    <3>1. SUFFICES ASSUME At("client", "fill") PROVE (\A x \in Queue : q'[x] = << >>) /\ \A d \in Domain : pd'[d].buf = None
      BY <2>3 DEF Unfilled, Empty
    <3>2. (\A x \in Queue : q[x] = << >>) /\ \A d \in Domain : pd[d].buf = None BY <3>1 DEF Owned, Unfilled, Empty
    <3>3. Stays BY <2>1, <3>2 DEF Moves, Takes, Gives, Empty
    <3> QED BY <3>2, <3>3 DEF Stays
  <2> QED BY <1>1, <2>2, <2>4, <2>5 DEF Owned
<1> QED BY <1>2, <1>3

-----------------------------------------------------------------------------
(* Wake-ups.                                                               *)


\* require_signal by domain d: it goes to notify with the request taken down, or on.
LEMMA RequireIs ==
    ASSUME TypeOK, Hands, NEW d \in Domain, NEW x, NEW wanted \in BOOLEAN,
           NEW notify \in Points(d) \ Holding(d), notify # "idle", NEW pc \in Points(d) \ Holding(d),
           pd[d].pc \notin Holding(d), Require(d, x, wanted, notify, pc)
    PROVE  /\ q' = q /\ \A e \in Domain \ {d} : pd'[e] = pd[e]
           /\ pd'[d].badge = pd[d].badge
           /\ wanted /\ x \in want => pd'[d].pc = notify /\ want' = want \ {x}
           /\ ~(wanted /\ x \in want) => pd'[d].pc = pc /\ want' = want
           /\ pd'[d].pc # "idle" => pd'[d].up = pd[d].up /\ pd'[d].down = pd[d].down
<1>1. DOMAIN pd = Domain /\ pd[d] \in Locals(d) BY DEF TypeOK
<1>2. PICK to \in Points(d) \ Holding(d) : to = IF wanted /\ x \in want THEN notify ELSE pc OBVIOUS
<1>3. pd' = [pd EXCEPT ![d] = Goto(d, to)] /\ q' = q /\ want' = IF wanted THEN want \ {x} ELSE want BY <1>2 DEF Require
<1>4. pd'[d] = Goto(d, to) /\ \A e \in Domain \ {d} : pd'[e] = pd[e] BY <1>1, <1>3
<1>5. /\ Goto(d, to).pc = to /\ Goto(d, to).badge = pd[d].badge
      /\ to # "idle" => Goto(d, to) = [pd[d] EXCEPT !.pc = to]
  BY <1>2, GotoIs
<1>6. to # "idle" => Goto(d, to).up = pd[d].up /\ Goto(d, to).down = pd[d].down BY <1>1, <1>5 DEF Locals
<1> QED BY <1>2, <1>3, <1>4, <1>5, <1>6

\* A notification of domain to by domain d.
LEMMA NotifyIs ==
    ASSUME TypeOK, Hands, NEW d \in Domain, NEW to \in Domain \ {d}, NEW pc \in Points(d) \ Holding(d),
           pd[d].pc \notin Holding(d), Notify(d, to, pc)
    PROVE  /\ q' = q /\ want' = want /\ \A e \in Domain \ {d, to} : pd'[e] = pd[e]
           /\ pd'[d].pc = pc /\ pd'[d].badge = pd[d].badge
           /\ pc # "idle" => pd'[d].up = pd[d].up /\ pd'[d].down = pd[d].down
           /\ pd'[to].badge /\ pd'[to].pc = pd[to].pc /\ pd'[to].buf = pd[to].buf /\ pd'[to].up = pd[to].up /\ pd'[to].down = pd[to].down
<1>1. DOMAIN pd = Domain /\ pd[d] \in Locals(d) /\ pd[to] \in Locals(to) BY DEF TypeOK
<1>2. pd' = [pd EXCEPT ![d] = Goto(d, pc), ![to] = [pd[to] EXCEPT !.badge = TRUE]] /\ q' = q /\ want' = want BY DEF Notify
<1>3. /\ pd'[d] = Goto(d, pc) /\ pd'[to] = [pd[to] EXCEPT !.badge = TRUE]
      /\ \A e \in Domain \ {d, to} : pd'[e] = pd[e]
  BY <1>1, <1>2
<1>4. /\ Goto(d, pc).pc = pc /\ Goto(d, pc).badge = pd[d].badge
      /\ pc # "idle" => Goto(d, pc) = [pd[d] EXCEPT !.pc = pc]
  BY GotoIs
<1>5. pc # "idle" => Goto(d, pc).up = pd[d].up /\ Goto(d, pc).down = pd[d].down BY <1>1, <1>4 DEF Locals
<1>6. /\ pd'[to].badge /\ pd'[to].pc = pd[to].pc /\ pd'[to].buf = pd[to].buf /\ pd'[to].up = pd[to].up /\ pd'[to].down = pd[to].down
  BY <1>1, <1>3 DEF Locals
<1> QED BY <1>2, <1>3, <1>4, <1>5, <1>6

\* Domain d keeps its pending notification and its two marks.
SameFlags(d) == pd'[d].badge = pd[d].badge /\ pd'[d].up = pd[d].up /\ pd'[d].down = pd[d].down

\* What Take leaves alone: the other domains, the marks of d and the other queues.
LEMMA TakeIs ==
    ASSUME TypeOK, NEW d \in Domain, NEW x \in Queue, NEW pc, Take(d, x, pc)
    PROVE  /\ \A e \in Domain \ {d} : pd'[e] = pd[e]
           /\ pd'[d].pc = pc /\ SameFlags(d)
           /\ q[x] # << >> /\ \A y \in Queue \ {x} : q'[y] = q[y]
<1>1. DOMAIN pd = Domain /\ pd[d] \in Locals(d) /\ q \in [Queue -> Seq(Buf)] BY DEF TypeOK
<1>2. pd' = [pd EXCEPT ![d] = [pd[d] EXCEPT !.buf = Head(q[x]), !.pc = pc]] BY DEF Take
<1>3. pd'[d] = [pd[d] EXCEPT !.buf = Head(q[x]), !.pc = pc] /\ \A e \in Domain \ {d} : pd'[e] = pd[e] BY <1>1, <1>2
<1>4. pd'[d].pc = pc /\ SameFlags(d)
  BY <1>1, <1>3 DEF Locals, SameFlags
<1>5. q[x] # << >> /\ \A y \in Queue \ {x} : q'[y] = q[y] BY <1>1 DEF Take, Empty
<1> QED BY <1>3, <1>4, <1>5

\* What Give does: d goes on as then says, x has an element, the rest is left alone.
LEMMA GiveIs ==
    ASSUME TypeOK, NEW d \in Domain, NEW x \in Queue, NEW then \in Locals(d), Give(d, x, then)
    PROVE  /\ \A e \in Domain \ {d} : pd'[e] = pd[e]
           /\ pd'[d].pc = then.pc /\ pd'[d].badge = then.badge /\ pd'[d].up = then.up /\ pd'[d].down = then.down
           /\ q'[x] # << >> /\ \A y \in Queue \ {x} : q'[y] = q[y]
<1>1. DOMAIN pd = Domain /\ pd[d] \in Locals(d) /\ q \in [Queue -> Seq(Buf)] BY DEF TypeOK
<1>2. pd' = [pd EXCEPT ![d] = [then EXCEPT !.buf = None]] BY DEF Give
<1>3. pd'[d] = [then EXCEPT !.buf = None] /\ \A e \in Domain \ {d} : pd'[e] = pd[e] BY <1>1, <1>2
<1>4. pd'[d].pc = then.pc /\ pd'[d].badge = then.badge /\ pd'[d].up = then.up /\ pd'[d].down = then.down
  BY <1>3 DEF Locals
<1>5. q'[x] = Append(q[x], pd[d].buf) /\ \A y \in Queue \ {x} : q'[y] = q[y] BY <1>1 DEF Give
<1>6. q[x] \in Seq(Buf) /\ pd[d].buf \in Buf \cup {None} BY <1>1 DEF Locals
<1>7. q[x] \in Seq(Buf \cup {None}) BY <1>6
<1>8. q'[x] # << >> BY <1>5, <1>6, <1>7, Pushed
<1> QED BY <1>3, <1>4, <1>5, <1>8

\* What going to another point leaves alone: the other domains and the marks of d.
LEMMA PointIs ==
    ASSUME TypeOK, NEW d \in Domain, NEW pc, pd' = [pd EXCEPT ![d] = [pd[d] EXCEPT !.pc = pc]]
    PROVE  /\ \A e \in Domain \ {d} : pd'[e] = pd[e]
           /\ pd'[d].pc = pc /\ SameFlags(d)
<1>1. DOMAIN pd = Domain /\ pd[d] \in Locals(d) BY DEF TypeOK
<1>2. pd'[d] = [pd[d] EXCEPT !.pc = pc] /\ \A e \in Domain \ {d} : pd'[e] = pd[e] BY <1>1
<1> QED BY <1>1, <1>2 DEF Locals, SameFlags

\* The steps that move a frame, and what the others leave alone.
Loud == \/ (\E k \in Kinds : Consume(k)) \/ QueueFrame \/ TxProvide \/ Reject \/ Push
        \/ (\E room \in BOOLEAN : SendOne(room))
Quiet == /\ UNCHANGED <<made, mem, sent>> /\ q'["dactive"] = q["dactive"] /\ q'["cactive"] = q["cactive"]
         /\ \/ pd'["client"].pc = pd["client"].pc /\ pd'["client"].buf = pd["client"].buf
            \/ pd["client"].pc # "queue" /\ pd'["client"].pc # "queue"
         /\ \/ pd'["virt"].pc = pd["virt"].pc /\ pd'["virt"].buf = pd["virt"].buf
            \/ pd["virt"].pc \notin {"reject", "push"} /\ pd'["virt"].pc \notin {"reject", "push"}

\* No step loses a wake-up, and only some move a frame.
LEMMA ToldKept ==
    ASSUME TypeOK, Owned, Told, ~Empty("cactive") => ~Full("dactive"), [Next]_vars
    PROVE  Told' /\ (Loud \/ Quiet)
<1>a. /\ TypeOK /\ Hands /\ DOMAIN pd = Domain /\ "client" \in Domain /\ "virt" \in Domain /\ "driver" \in Domain
      /\ pd["client"] \in Locals("client") /\ pd["virt"] \in Locals("virt") /\ pd["driver"] \in Locals("driver")
      /\ "cfree" \in Queue /\ "cactive" \in Queue /\ "dactive" \in Queue /\ "dfree" \in Queue /\ q \in [Queue -> Seq(Buf)]
  BY DEF TypeOK, Owned, Domain, Queue
<1>h. TypeOK /\ Hands BY DEF Owned
<1>c. pd["virt"].pc \in Points("virt") /\ pd["driver"].pc \in Points("driver") BY <1>a DEF Locals
<1>d. /\ pd["virt"].pc \in {"idle", "return", "return_free", "return_request", "return_recheck", "return_signal",
                           "return_notify", "provide", "reject", "push", "provide_request", "provide_recheck",
                           "signal_client", "notify_client", "signal_driver", "notify_driver"}
      /\ pd["driver"].pc \in {"idle", "transmit", "give_back", "request", "recheck", "signal", "notify"}
  BY <1>c, Places, Zenon
<1>b. Told /\ (~Empty("cactive") => ~Full("dactive")) OBVIOUS
<1>1. CASE Fill
  <2>1. pd["client"].pc = "fill" /\ want' = want /\ pd' = [pd EXCEPT !["client"] = Goto("client", "idle")]
        /\ q' = [q EXCEPT !["cfree"] = [i \in 1 .. NumBufs |-> i - 1]]
    BY <1>1 DEF Fill, At
  <2>2. Goto("client", "idle").pc = "idle" /\ Goto("client", "idle").badge = pd["client"].badge
    <3>1. "client" \in Domain /\ "idle" \in Points("client") /\ "idle" \notin Holding("client")
          /\ pd["client"].pc \notin Holding("client")
      BY <1>a, <2>1, Places
    <3> QED BY <1>h, <3>1, GotoIs, ZenonT(40)
  <2>3. /\ pd["client"].pc = "fill" /\ want' = want /\ pd'["client"].pc = "idle" /\ pd'["client"].badge = pd["client"].badge
        /\ pd'["virt"] = pd["virt"] /\ pd'["driver"] = pd["driver"] /\ q'["cactive"] = q["cactive"] /\ q'["dactive"] = q["dactive"] /\ q'["dfree"] = q["dfree"]
    BY <1>a, <2>1, <2>2
  <2>4. Told'
    <3>1. Asked' BY <1>b, <2>3 DEF Told, Asked, At, Empty
    <3>2. DriverTold' BY <1>b, <2>3 DEF Told, DriverTold, At, Empty
    <3>3. VirtTold' BY <1>b, <2>3 DEF Told, VirtTold, At, Empty
    <3>4. ReturnTold' BY <1>b, <2>3 DEF Told, ReturnTold, At, Empty
    <3> QED BY <3>1, <3>2, <3>3, <3>4 DEF Told
  <2>5. UNCHANGED <<made, mem, sent>> BY <1>1 DEF Fill
  <2> QED BY <2>3, <2>4, <2>5 DEF Quiet
<1>2. CASE \E k \in Kinds : Consume(k)
  <2>1. PICK pc \in {"queue"} : Take("client", "cfree", pc) BY <1>2 DEF Consume
  <2>2. pd["client"].pc = "idle" /\ want' = want BY <1>2 DEF Consume, At
  <2>3. /\ pd["client"].pc = "idle" /\ want' = want /\ pd'["client"].pc \in {"queue"} /\ SameFlags("client")
        /\ pd'["virt"] = pd["virt"] /\ pd'["driver"] = pd["driver"] /\ q'["cactive"] = q["cactive"] /\ q'["dactive"] = q["dactive"] /\ q'["dfree"] = q["dfree"]
    <3>1. /\ \A e \in Domain \ {"client"} : pd'[e] = pd[e]
          /\ pd'["client"].pc = pc /\ SameFlags("client") /\ q["cfree"] # << >>
          /\ \A y \in Queue \ {"cfree"} : q'[y] = q[y]
      BY <1>a, <2>1, <2>2, TakeIs, ZenonT(40)
    <3> QED BY <1>a, <2>1, <2>2, <3>1
  <2>4. Told'
    <3>1. Asked' BY <1>b, <2>3 DEF Told, Asked, At, Empty, SameFlags
    <3>2. DriverTold' BY <1>b, <2>3 DEF Told, DriverTold, At, Empty, SameFlags
    <3>3. VirtTold' BY <1>b, <2>3 DEF Told, VirtTold, At, Empty, SameFlags
    <3>4. ReturnTold' BY <1>b, <2>3 DEF Told, ReturnTold, At, Empty, SameFlags
    <3> QED BY <3>1, <3>2, <3>3, <3>4 DEF Told
  <2> QED BY <1>2, <2>4 DEF Loud
<1>3. CASE QueueFrame
  <2> DEFINE then == [pd["client"] EXCEPT !.pc = "require", !.up = TRUE]
  <2>1. /\ then \in Locals("client") /\ then.pc = "require" /\ then.badge = pd["client"].badge
        /\ then.up = TRUE /\ then.down = pd["client"].down
    BY <1>a, Places, Zenon DEF Locals
  <2>2. pd["client"].pc = "queue" /\ want' = want /\ Give("client", "cactive", then) BY <1>3 DEF QueueFrame, At
  <2>. HIDE DEF then
  <2>3. /\ pd["client"].pc = "queue" /\ want' = want /\ pd'["client"].pc = "require" /\ pd'["client"].up = TRUE /\ pd'["client"].badge = pd["client"].badge /\ pd'["client"].down = pd["client"].down
        /\ pd'["virt"] = pd["virt"] /\ pd'["driver"] = pd["driver"] /\ q'["dactive"] = q["dactive"] /\ q'["dfree"] = q["dfree"] /\ q'["cactive"] # << >>
    <3>1. TypeOK /\ "client" \in Domain /\ "cactive" \in Queue /\ then \in Locals("client") /\ Give("client", "cactive", then) BY <1>a, <2>1, <2>2
    <3>2. /\ \A e \in Domain \ {"client"} : pd'[e] = pd[e]
          /\ pd'["client"].pc = then.pc /\ pd'["client"].badge = then.badge /\ pd'["client"].up = then.up
          /\ pd'["client"].down = then.down /\ q'["cactive"] # << >> /\ \A y \in Queue \ {"cactive"} : q'[y] = q[y]
      BY <3>1, GiveIs, ZenonT(40)
    <3> QED BY <1>a, <2>1, <2>2, <3>2 DEF SameFlags
  <2>4. Told'
    <3>1. Asked' BY <1>b, <1>d, <2>3 DEF Told, Asked, At, Empty
    <3>2. DriverTold' BY <1>b, <1>d, <2>3 DEF Told, DriverTold, At, Empty
    <3>3. VirtTold' BY <1>b, <1>d, <2>3 DEF Told, Asked, VirtTold, At, Empty
    <3>4. ReturnTold' BY <1>b, <1>d, <2>3 DEF Told, ReturnTold, At, Empty
    <3> QED BY <3>1, <3>2, <3>3, <3>4 DEF Told
  <2> QED BY <1>3, <2>4 DEF Loud
<1>4. CASE ClientRequire
  <2>1. pd["client"].pc = "require" /\ pd["client"].pc \notin Holding("client") /\ "notify" \in Points("client") \ Holding("client") /\ "idle" \in Points("client") \ Holding("client")
    BY <1>4, Places DEF ClientRequire, At
  <2>2. Require("client", "cactive", TRUE, "notify", "idle") /\ TRUE \in BOOLEAN BY <1>4, <1>a DEF ClientRequire, Locals
  <2>3. /\ pd["client"].pc = "require" /\ q' = q /\ pd'["virt"] = pd["virt"] /\ pd'["driver"] = pd["driver"] /\ pd'["client"].badge = pd["client"].badge
        /\ "cactive" \in want => pd'["client"].pc = "notify" /\ want' = want \ {"cactive"}
        /\ ~(TRUE /\ "cactive" \in want) => pd'["client"].pc = "idle" /\ want' = want
        /\ pd'["client"].pc # "idle" => pd'["client"].up = pd["client"].up /\ pd'["client"].down = pd["client"].down
    <3>1. /\ q' = q /\ \A e \in Domain \ {"client"} : pd'[e] = pd[e]
          /\ pd'["client"].badge = pd["client"].badge
          /\ "cactive" \in want => pd'["client"].pc = "notify" /\ want' = want \ {"cactive"}
          /\ ~(TRUE /\ "cactive" \in want) => pd'["client"].pc = "idle" /\ want' = want
          /\ pd'["client"].pc # "idle" => pd'["client"].up = pd["client"].up /\ pd'["client"].down = pd["client"].down
      BY <1>a, <2>1, <2>2, RequireIs, ZenonT(40)
    <3> QED BY <1>a, <2>1, <3>1
  <2>4. Told'
    <3>1. Asked' BY <1>b, <2>3 DEF Told, Asked, At, Empty
    <3>2. DriverTold' BY <1>b, <2>3 DEF Told, DriverTold, At, Empty
    <3>3. VirtTold' BY <1>b, <2>3 DEF Told, VirtTold, At, Empty
    <3>4. ReturnTold' BY <1>b, <2>3 DEF Told, ReturnTold, At, Empty
    <3> QED BY <3>1, <3>2, <3>3, <3>4 DEF Told
  <2>5. UNCHANGED <<made, mem, sent>> BY <1>4 DEF ClientRequire, Require
  <2> QED BY <2>3, <2>4, <2>5 DEF Quiet
<1>5. CASE ClientNotify
  <2>1. pd["client"].pc = "notify" /\ pd["client"].pc \notin Holding("client") /\ "idle" \in Points("client") \ Holding("client")
    BY <1>5, Places DEF ClientNotify, At
  <2>2. Notify("client", "virt", "idle") BY <1>5 DEF ClientNotify
  <2>3. /\ pd["client"].pc = "notify" /\ q' = q /\ want' = want /\ pd'["driver"] = pd["driver"] /\ pd'["client"].pc = "idle" /\ pd'["client"].badge = pd["client"].badge
        /\ pd'["virt"].badge /\ pd'["virt"].pc = pd["virt"].pc /\ pd'["virt"].buf = pd["virt"].buf /\ pd'["virt"].up = pd["virt"].up /\ pd'["virt"].down = pd["virt"].down
    <3>1. "client" \in Domain /\ "virt" \in Domain \ {"client"} BY DEF Domain
    <3>2. /\ q' = q /\ want' = want /\ \A e \in Domain \ {"client", "virt"} : pd'[e] = pd[e]
          /\ pd'["client"].pc = "idle" /\ pd'["client"].badge = pd["client"].badge
          /\ "idle" # "idle" => pd'["client"].up = pd["client"].up /\ pd'["client"].down = pd["client"].down
          /\ pd'["virt"].badge /\ pd'["virt"].pc = pd["virt"].pc /\ pd'["virt"].buf = pd["virt"].buf /\ pd'["virt"].up = pd["virt"].up /\ pd'["virt"].down = pd["virt"].down
      BY <1>h, <2>1, <2>2, <3>1, NotifyIs, ZenonT(40)
    <3> QED BY <1>a, <2>1, <3>2, ZenonT(40)
  <2>4. Told'
    <3>1. Asked' BY <1>b, <2>3 DEF Told, Asked, At, Empty
    <3>2. DriverTold' BY <1>b, <2>3 DEF Told, DriverTold, At, Empty
    <3>3. VirtTold' BY <1>b, <2>3 DEF Told, VirtTold, At, Empty
    <3>4. ReturnTold' BY <1>b, <2>3 DEF Told, ReturnTold, At, Empty
    <3> QED BY <3>1, <3>2, <3>3, <3>4 DEF Told
  <2>5. UNCHANGED <<made, mem, sent>> BY <1>5 DEF ClientNotify, Notify
  <2> QED BY <2>3, <2>4, <2>5 DEF Quiet
<1>6. CASE ClientNotified
  <2>1. pd["client"].pc = "idle" /\ want' = want /\ q' = q /\ pd' = [pd EXCEPT !["client"] = [pd["client"] EXCEPT !.badge = FALSE]]
    BY <1>6 DEF ClientNotified, At
  <2>3. /\ pd["client"].pc = "idle" /\ want' = want /\ q' = q /\ pd'["client"].pc = pd["client"].pc /\ pd'["client"].buf = pd["client"].buf /\ pd'["client"].up = pd["client"].up /\ pd'["client"].down = pd["client"].down
        /\ pd'["virt"] = pd["virt"] /\ pd'["driver"] = pd["driver"]
    BY <1>a, <2>1, SMTT(20) DEF Locals
  <2>4. Told'
    <3>1. Asked' BY <1>b, <2>3 DEF Told, Asked, At, Empty
    <3>2. DriverTold' BY <1>b, <2>3 DEF Told, DriverTold, At, Empty
    <3>3. VirtTold' BY <1>b, <2>3 DEF Told, VirtTold, At, Empty
    <3>4. ReturnTold' BY <1>b, <2>3 DEF Told, ReturnTold, At, Empty
    <3> QED BY <3>1, <3>2, <3>3, <3>4 DEF Told
  <2>5. UNCHANGED <<made, mem, sent>> BY <1>6 DEF ClientNotified
  <2> QED BY <2>3, <2>4, <2>5 DEF Quiet
<1>7. CASE VirtNotified
  <2>1. pd["virt"].pc = "idle" /\ pd["virt"].badge /\ want' = want /\ q' = q /\ pd' = [pd EXCEPT !["virt"] = Idle("return")] BY <1>7 DEF VirtNotified, At
  <2>3. /\ pd["virt"].pc = "idle" /\ pd["virt"].badge /\ want' = want /\ q' = q /\ pd'["virt"].pc = "return" /\ pd'["virt"].badge = FALSE
        /\ pd'["virt"].up = FALSE /\ pd'["virt"].down = FALSE /\ pd'["client"] = pd["client"] /\ pd'["driver"] = pd["driver"]
    BY <1>a, <2>1, SMTT(20) DEF Idle
  <2>4. Told'
    <3>1. Asked' BY <1>b, <2>3 DEF Told, Asked, At, Empty
    <3>2. DriverTold' BY <1>b, <2>3 DEF Told, DriverTold, At, Empty
    <3>3. VirtTold' BY <1>b, <2>3 DEF Told, VirtTold, At, Empty
    <3>4. ReturnTold' BY <1>b, <2>3 DEF Told, ReturnTold, At, Empty
    <3> QED BY <3>1, <3>2, <3>3, <3>4 DEF Told
  <2>5. UNCHANGED <<made, mem, sent>> BY <1>7 DEF VirtNotified
  <2> QED BY <2>3, <2>4, <2>5 DEF Quiet
<1>8. CASE TxReturn
  <2>1. PICK pc \in {"return_free"} : Take("virt", "dfree", pc) BY <1>8 DEF TxReturn
  <2>2. pd["virt"].pc = "return" /\ want' = want BY <1>8 DEF TxReturn, At
  <2>3. /\ pd["virt"].pc = "return" /\ want' = want /\ pd'["virt"].pc \in {"return_free"} /\ SameFlags("virt")
        /\ pd'["client"] = pd["client"] /\ pd'["driver"] = pd["driver"] /\ q'["cactive"] = q["cactive"] /\ q'["dactive"] = q["dactive"] /\ q["dfree"] # << >>
    <3>1. /\ \A e \in Domain \ {"virt"} : pd'[e] = pd[e]
          /\ pd'["virt"].pc = pc /\ SameFlags("virt") /\ q["dfree"] # << >>
          /\ \A y \in Queue \ {"dfree"} : q'[y] = q[y]
      BY <1>a, <2>1, <2>2, TakeIs, ZenonT(40)
    <3> QED BY <1>a, <2>1, <2>2, <3>1
  <2>4. Told'
    <3>1. Asked' BY <1>b, <2>3 DEF Told, Asked, At, Empty, SameFlags
    <3>2. DriverTold' BY <1>b, <2>3 DEF Told, DriverTold, At, Empty, SameFlags
    <3>3. VirtTold' BY <1>b, <2>3 DEF Told, VirtTold, At, Empty, SameFlags
    <3>4. ReturnTold' BY <1>b, <2>3 DEF Told, ReturnTold, At, Empty, SameFlags
    <3> QED BY <3>1, <3>2, <3>3, <3>4 DEF Told
  <2>5. UNCHANGED <<made, mem, sent>> BY <1>8 DEF TxReturn
  <2> QED BY <2>3, <2>4, <2>5 DEF Quiet
<1>9. CASE ReturnFree
  <2> DEFINE then == [pd["virt"] EXCEPT !.pc = "return", !.down = TRUE]
  <2>1. /\ then \in Locals("virt") /\ then.pc = "return" /\ then.badge = pd["virt"].badge
        /\ then.up = pd["virt"].up /\ then.down = TRUE
    BY <1>a, Places, Zenon DEF Locals
  <2>2. pd["virt"].pc = "return_free" /\ want' = want /\ Give("virt", "cfree", then) BY <1>9 DEF ReturnFree, At
  <2>. HIDE DEF then
  <2>3. /\ pd["virt"].pc = "return_free" /\ want' = want /\ pd'["virt"].pc = "return" /\ pd'["virt"].down = TRUE /\ pd'["virt"].badge = pd["virt"].badge /\ pd'["virt"].up = pd["virt"].up
        /\ pd'["client"] = pd["client"] /\ pd'["driver"] = pd["driver"] /\ q'["cactive"] = q["cactive"] /\ q'["dactive"] = q["dactive"] /\ q'["dfree"] = q["dfree"]
    <3>1. TypeOK /\ "virt" \in Domain /\ "cfree" \in Queue /\ then \in Locals("virt") /\ Give("virt", "cfree", then) BY <1>a, <2>1, <2>2
    <3>2. /\ \A e \in Domain \ {"virt"} : pd'[e] = pd[e]
          /\ pd'["virt"].pc = then.pc /\ pd'["virt"].badge = then.badge /\ pd'["virt"].up = then.up
          /\ pd'["virt"].down = then.down /\ q'["cfree"] # << >> /\ \A y \in Queue \ {"cfree"} : q'[y] = q[y]
      BY <3>1, GiveIs, ZenonT(40)
    <3> QED BY <1>a, <2>1, <2>2, <3>2 DEF SameFlags
  <2>4. Told'
    <3>1. Asked' BY <1>b, <1>d, <2>3 DEF Told, Asked, At, Empty
    <3>2. DriverTold' BY <1>b, <1>d, <2>3 DEF Told, DriverTold, At, Empty
    <3>3. VirtTold' BY <1>b, <1>d, <2>3 DEF Told, VirtTold, At, Empty
    <3>4. ReturnTold' BY <1>b, <1>d, <2>3 DEF Told, ReturnTold, At, Empty
    <3> QED BY <3>1, <3>2, <3>3, <3>4 DEF Told
  <2>5. UNCHANGED <<made, mem, sent>> BY <1>9 DEF ReturnFree
  <2> QED BY <2>3, <2>4, <2>5 DEF Quiet
<1>10. CASE ReturnEnd
  <2>1. pd["virt"].pc = "return" /\ want' = want /\ q' = q /\ q["dfree"] = << >> BY <1>10 DEF ReturnEnd, End, At, Empty
  <2>2. PICK pc : pc = "return_request" /\ pd' = [pd EXCEPT !["virt"] = [pd["virt"] EXCEPT !.pc = pc]] BY <1>10, Zenon DEF ReturnEnd, End, Empty
  <2>3. /\ pd["virt"].pc = "return" /\ want' = want /\ q' = q /\ q["dfree"] = << >> /\ pd'["virt"].pc = "return_request" /\ SameFlags("virt")
        /\ pd'["client"] = pd["client"] /\ pd'["driver"] = pd["driver"]
    <3>1. /\ \A e \in Domain \ {"virt"} : pd'[e] = pd[e]
          /\ pd'["virt"].pc = pc /\ SameFlags("virt")
      BY <1>a, <2>1, <2>2, PointIs, ZenonT(40)
    <3> QED BY <1>a, <2>1, <2>2, <3>1
  <2>4. Told'
    <3>1. Asked' BY <1>b, <2>3 DEF Told, Asked, At, Empty, SameFlags
    <3>2. DriverTold' BY <1>b, <2>3 DEF Told, DriverTold, At, Empty, SameFlags
    <3>3. VirtTold' BY <1>b, <2>3 DEF Told, VirtTold, At, Empty, SameFlags
    <3>4. ReturnTold' BY <1>b, <2>3 DEF Told, ReturnTold, At, Empty, SameFlags
    <3> QED BY <3>1, <3>2, <3>3, <3>4 DEF Told
  <2>5. UNCHANGED <<made, mem, sent>> BY <1>10 DEF ReturnEnd, End
  <2> QED BY <2>3, <2>4, <2>5 DEF Quiet
<1>11. CASE ReturnRequest
  <2>1. pd["virt"].pc = "return_request" /\ want' = want \cup {"dfree"} /\ q' = q BY <1>11 DEF ReturnRequest, RequestSignal, At, Empty
  <2>2. PICK pc : pc = "return_recheck" /\ pd' = [pd EXCEPT !["virt"] = [pd["virt"] EXCEPT !.pc = pc]] BY <1>11 DEF ReturnRequest, RequestSignal, Empty
  <2>3. /\ pd["virt"].pc = "return_request" /\ want' = want \cup {"dfree"} /\ q' = q /\ pd'["virt"].pc = "return_recheck" /\ SameFlags("virt")
        /\ pd'["client"] = pd["client"] /\ pd'["driver"] = pd["driver"]
    <3>1. /\ \A e \in Domain \ {"virt"} : pd'[e] = pd[e]
          /\ pd'["virt"].pc = pc /\ SameFlags("virt")
      BY <1>a, <2>1, <2>2, PointIs, ZenonT(40)
    <3> QED BY <1>a, <2>1, <2>2, <3>1
  <2>4. Told'
    <3>1. Asked' BY <1>b, <2>3 DEF Told, Asked, At, Empty, SameFlags
    <3>2. DriverTold' BY <1>b, <2>3 DEF Told, DriverTold, At, Empty, SameFlags
    <3>3. VirtTold' BY <1>b, <2>3 DEF Told, VirtTold, At, Empty, SameFlags
    <3>4. ReturnTold' BY <1>b, <2>3 DEF Told, ReturnTold, At, Empty, SameFlags
    <3> QED BY <3>1, <3>2, <3>3, <3>4 DEF Told
  <2>5. UNCHANGED <<made, mem, sent>> BY <1>11 DEF ReturnRequest, RequestSignal
  <2> QED BY <2>3, <2>4, <2>5 DEF Quiet
<1>12. CASE ReturnRecheck
  <2>1. pd["virt"].pc = "return_recheck" /\ want' = (IF q["dfree"] = << >> THEN want ELSE want \ {"dfree"}) /\ q' = q BY <1>12 DEF ReturnRecheck, Empty, At, Empty
  <2>2. PICK pc : pc = (IF q["dfree"] = << >> THEN "return_signal" ELSE "return") /\ pd' = [pd EXCEPT !["virt"] = [pd["virt"] EXCEPT !.pc = pc]] BY <1>12, Zenon DEF ReturnRecheck, Empty, Empty
  <2>3. /\ pd["virt"].pc = "return_recheck" /\ want' = (IF q["dfree"] = << >> THEN want ELSE want \ {"dfree"}) /\ q' = q /\ pd'["virt"].pc = (IF q["dfree"] = << >> THEN "return_signal" ELSE "return") /\ SameFlags("virt")
        /\ pd'["client"] = pd["client"] /\ pd'["driver"] = pd["driver"]
    <3>1. /\ \A e \in Domain \ {"virt"} : pd'[e] = pd[e]
          /\ pd'["virt"].pc = pc /\ SameFlags("virt")
      BY <1>a, <2>1, <2>2, PointIs, ZenonT(40)
    <3> QED BY <1>a, <2>1, <2>2, <3>1
  <2>4. Told'
    <3>1. Asked' BY <1>b, <2>3 DEF Told, Asked, At, Empty, SameFlags
    <3>2. DriverTold' BY <1>b, <2>3 DEF Told, DriverTold, At, Empty, SameFlags
    <3>3. VirtTold' BY <1>b, <2>3 DEF Told, VirtTold, At, Empty, SameFlags
    <3>4. ReturnTold' BY <1>b, <2>3 DEF Told, ReturnTold, At, Empty, SameFlags
    <3> QED BY <3>1, <3>2, <3>3, <3>4 DEF Told
  <2>5. UNCHANGED <<made, mem, sent>> BY <1>12 DEF ReturnRecheck, Empty
  <2> QED BY <2>3, <2>4, <2>5 DEF Quiet
<1>13. CASE ReturnRequire
  <2>1. pd["virt"].pc = "return_signal" /\ pd["virt"].pc \notin Holding("virt") /\ "return_notify" \in Points("virt") \ Holding("virt") /\ "provide" \in Points("virt") \ Holding("virt")
    BY <1>13, Places DEF ReturnRequire, At
  <2>2. Require("virt", "cfree", pd["virt"].down, "return_notify", "provide") /\ pd["virt"].down \in BOOLEAN BY <1>13, <1>a DEF ReturnRequire, Locals
  <2>3. /\ pd["virt"].pc = "return_signal" /\ q' = q /\ pd'["client"] = pd["client"] /\ pd'["driver"] = pd["driver"] /\ pd'["virt"].badge = pd["virt"].badge
        /\ pd["virt"].down /\ "cfree" \in want => pd'["virt"].pc = "return_notify" /\ want' = want \ {"cfree"}
        /\ ~(pd["virt"].down /\ "cfree" \in want) => pd'["virt"].pc = "provide" /\ want' = want
        /\ pd'["virt"].pc # "idle" => pd'["virt"].up = pd["virt"].up /\ pd'["virt"].down = pd["virt"].down
    <3>1. /\ q' = q /\ \A e \in Domain \ {"virt"} : pd'[e] = pd[e]
          /\ pd'["virt"].badge = pd["virt"].badge
          /\ pd["virt"].down /\ "cfree" \in want => pd'["virt"].pc = "return_notify" /\ want' = want \ {"cfree"}
          /\ ~(pd["virt"].down /\ "cfree" \in want) => pd'["virt"].pc = "provide" /\ want' = want
          /\ pd'["virt"].pc # "idle" => pd'["virt"].up = pd["virt"].up /\ pd'["virt"].down = pd["virt"].down
      BY <1>a, <2>1, <2>2, RequireIs, ZenonT(40)
    <3> QED BY <1>a, <2>1, <3>1
  <2>4. Told'
    <3>1. Asked' BY <1>b, <2>3 DEF Told, Asked, At, Empty
    <3>2. DriverTold' BY <1>b, <2>3 DEF Told, DriverTold, At, Empty
    <3>3. VirtTold' BY <1>b, <2>3 DEF Told, VirtTold, At, Empty
    <3>4. ReturnTold' BY <1>b, <2>3 DEF Told, ReturnTold, At, Empty
    <3> QED BY <3>1, <3>2, <3>3, <3>4 DEF Told
  <2>5. UNCHANGED <<made, mem, sent>> BY <1>13 DEF ReturnRequire, Require
  <2> QED BY <2>3, <2>4, <2>5 DEF Quiet
<1>14. CASE ReturnNotify
  <2>1. pd["virt"].pc = "return_notify" /\ pd["virt"].pc \notin Holding("virt") /\ "provide" \in Points("virt") \ Holding("virt")
    BY <1>14, Places DEF ReturnNotify, At
  <2>2. Notify("virt", "client", "provide") BY <1>14, SMTT(20) DEF ReturnNotify
  <2>3. /\ pd["virt"].pc = "return_notify" /\ q' = q /\ want' = want /\ pd'["driver"] = pd["driver"] /\ pd'["virt"].pc = "provide" /\ pd'["virt"].badge = pd["virt"].badge
        /\ pd'["virt"].up = pd["virt"].up /\ pd'["virt"].down = pd["virt"].down /\ pd'["client"].badge /\ pd'["client"].pc = pd["client"].pc /\ pd'["client"].buf = pd["client"].buf /\ pd'["client"].up = pd["client"].up /\ pd'["client"].down = pd["client"].down
    <3>1. "virt" \in Domain /\ "client" \in Domain \ {"virt"} BY SMTT(20) DEF Domain
    <3>2. /\ q' = q /\ want' = want /\ \A e \in Domain \ {"virt", "client"} : pd'[e] = pd[e]
          /\ pd'["virt"].pc = "provide" /\ pd'["virt"].badge = pd["virt"].badge
          /\ "provide" # "idle" => pd'["virt"].up = pd["virt"].up /\ pd'["virt"].down = pd["virt"].down
          /\ pd'["client"].badge /\ pd'["client"].pc = pd["client"].pc /\ pd'["client"].buf = pd["client"].buf /\ pd'["client"].up = pd["client"].up /\ pd'["client"].down = pd["client"].down
      BY <1>h, <2>1, <2>2, <3>1, NotifyIs, ZenonT(40)
    <3> QED BY <1>a, <2>1, <3>2, ZenonT(40)
  <2>4. Told'
    <3>1. Asked' BY <1>b, <2>3 DEF Told, Asked, At, Empty
    <3>2. DriverTold' BY <1>b, <2>3 DEF Told, DriverTold, At, Empty
    <3>3. VirtTold' BY <1>b, <2>3 DEF Told, VirtTold, At, Empty
    <3>4. ReturnTold' BY <1>b, <2>3 DEF Told, ReturnTold, At, Empty
    <3> QED BY <3>1, <3>2, <3>3, <3>4 DEF Told
  <2>5. UNCHANGED <<made, mem, sent>> BY <1>14 DEF ReturnNotify, Notify
  <2> QED BY <2>3, <2>4, <2>5 DEF Quiet
<1>15. CASE TxProvide
  <2>1. PICK pc \in {"push", "reject"} : Take("virt", "cactive", pc) BY <1>15 DEF TxProvide
  <2>2. pd["virt"].pc = "provide" /\ want' = want BY <1>15 DEF TxProvide, At
  <2>3. /\ pd["virt"].pc = "provide" /\ want' = want /\ pd'["virt"].pc \in {"push", "reject"} /\ SameFlags("virt")
        /\ pd'["client"] = pd["client"] /\ pd'["driver"] = pd["driver"] /\ q'["dactive"] = q["dactive"] /\ q'["dfree"] = q["dfree"] /\ q["cactive"] # << >>
    <3>1. /\ \A e \in Domain \ {"virt"} : pd'[e] = pd[e]
          /\ pd'["virt"].pc = pc /\ SameFlags("virt") /\ q["cactive"] # << >>
          /\ \A y \in Queue \ {"cactive"} : q'[y] = q[y]
      BY <1>a, <2>1, <2>2, TakeIs, ZenonT(40)
    <3> QED BY <1>a, <2>1, <2>2, <3>1
  <2>4. Told'
    <3>1. Asked' BY <1>b, <2>3 DEF Told, Asked, At, Empty, SameFlags
    <3>2. DriverTold' BY <1>b, <2>3 DEF Told, DriverTold, At, Empty, SameFlags
    <3>3. VirtTold' BY <1>b, <2>3 DEF Told, VirtTold, At, Empty, SameFlags
    <3>4. ReturnTold' BY <1>b, <2>3 DEF Told, ReturnTold, At, Empty, SameFlags
    <3> QED BY <3>1, <3>2, <3>3, <3>4 DEF Told
  <2> QED BY <1>15, <2>4 DEF Loud
<1>16. CASE Reject
  <2> DEFINE then == [pd["virt"] EXCEPT !.pc = "provide", !.rejected = TRUE]
  <2>1. /\ then \in Locals("virt") /\ then.pc = "provide" /\ then.badge = pd["virt"].badge
        /\ then.up = pd["virt"].up /\ then.down = pd["virt"].down
    BY <1>a, Places, Zenon DEF Locals
  <2>2. pd["virt"].pc = "reject" /\ want' = want /\ Give("virt", "cfree", then) BY <1>16 DEF Reject, At
  <2>. HIDE DEF then
  <2>3. /\ pd["virt"].pc = "reject" /\ want' = want /\ pd'["virt"].pc = "provide" /\ SameFlags("virt")
        /\ pd'["client"] = pd["client"] /\ pd'["driver"] = pd["driver"] /\ q'["cactive"] = q["cactive"] /\ q'["dactive"] = q["dactive"] /\ q'["dfree"] = q["dfree"]
    <3>1. TypeOK /\ "virt" \in Domain /\ "cfree" \in Queue /\ then \in Locals("virt") /\ Give("virt", "cfree", then) BY <1>a, <2>1, <2>2, SMTT(20)
    <3>2. /\ \A e \in Domain \ {"virt"} : pd'[e] = pd[e]
          /\ pd'["virt"].pc = then.pc /\ pd'["virt"].badge = then.badge /\ pd'["virt"].up = then.up
          /\ pd'["virt"].down = then.down /\ q'["cfree"] # << >> /\ \A y \in Queue \ {"cfree"} : q'[y] = q[y]
      BY <3>1, GiveIs, ZenonT(40)
    <3> QED BY <1>a, <2>1, <2>2, <3>2 DEF SameFlags
  <2>4. Told'
    <3>1. Asked' BY <1>b, <1>d, <2>3 DEF Told, Asked, At, Empty, SameFlags
    <3>2. DriverTold' BY <1>b, <1>d, <2>3 DEF Told, DriverTold, At, Empty, SameFlags
    <3>3. VirtTold' BY <1>b, <1>d, <2>3 DEF Told, VirtTold, At, Empty, SameFlags
    <3>4. ReturnTold' BY <1>b, <1>d, <2>3 DEF Told, ReturnTold, At, Empty, SameFlags
    <3> QED BY <3>1, <3>2, <3>3, <3>4 DEF Told
  <2> QED BY <1>16, <2>4 DEF Loud
<1>17. CASE Push
  <2> DEFINE then == [pd["virt"] EXCEPT !.pc = "provide", !.up = TRUE]
  <2>1. /\ then \in Locals("virt") /\ then.pc = "provide" /\ then.badge = pd["virt"].badge
        /\ then.up = TRUE /\ then.down = pd["virt"].down
    BY <1>a, Places, Zenon DEF Locals
  <2>2. pd["virt"].pc = "push" /\ want' = want /\ Give("virt", "dactive", then) BY <1>17 DEF Push, At
  <2>. HIDE DEF then
  <2>3. /\ pd["virt"].pc = "push" /\ want' = want /\ pd'["virt"].pc = "provide" /\ pd'["virt"].up = TRUE /\ pd'["virt"].badge = pd["virt"].badge /\ pd'["virt"].down = pd["virt"].down
        /\ pd'["client"] = pd["client"] /\ pd'["driver"] = pd["driver"] /\ q'["cactive"] = q["cactive"] /\ q'["dfree"] = q["dfree"] /\ q'["dactive"] # << >>
    <3>1. TypeOK /\ "virt" \in Domain /\ "dactive" \in Queue /\ then \in Locals("virt") /\ Give("virt", "dactive", then) BY <1>a, <2>1, <2>2
    <3>2. /\ \A e \in Domain \ {"virt"} : pd'[e] = pd[e]
          /\ pd'["virt"].pc = then.pc /\ pd'["virt"].badge = then.badge /\ pd'["virt"].up = then.up
          /\ pd'["virt"].down = then.down /\ q'["dactive"] # << >> /\ \A y \in Queue \ {"dactive"} : q'[y] = q[y]
      BY <3>1, GiveIs, ZenonT(40)
    <3> QED BY <1>a, <2>1, <2>2, <3>2 DEF SameFlags
  <2>4. Told'
    <3>1. Asked' BY <1>b, <1>d, <2>3 DEF Told, Asked, At, Empty
    <3>2. DriverTold' BY <1>b, <1>d, <2>3 DEF Told, Asked, DriverTold, At, Empty
    <3>3. VirtTold' BY <1>b, <1>d, <2>3 DEF Told, VirtTold, At, Empty
    <3>4. ReturnTold' BY <1>b, <1>d, <2>3 DEF Told, ReturnTold, At, Empty
    <3> QED BY <3>1, <3>2, <3>3, <3>4 DEF Told
  <2> QED BY <1>17, <2>4 DEF Loud
<1>18. CASE ProvideEnd
  <2>1. pd["virt"].pc = "provide" /\ want' = want /\ q' = q BY <1>18 DEF ProvideEnd, End, At, Empty
  <2>2. PICK pc : pc = "provide_request" /\ pd' = [pd EXCEPT !["virt"] = [pd["virt"] EXCEPT !.pc = pc]] BY <1>18 DEF ProvideEnd, End, Empty
  <2>3. /\ pd["virt"].pc = "provide" /\ want' = want /\ q' = q /\ pd'["virt"].pc = "provide_request" /\ SameFlags("virt")
        /\ pd'["client"] = pd["client"] /\ pd'["driver"] = pd["driver"]
    <3>1. /\ \A e \in Domain \ {"virt"} : pd'[e] = pd[e]
          /\ pd'["virt"].pc = pc /\ SameFlags("virt")
      BY <1>a, <2>1, <2>2, PointIs, ZenonT(40)
    <3> QED BY <1>a, <2>1, <2>2, <3>1
  <2>4. Told'
    <3>1. Asked' BY <1>b, <2>3 DEF Told, Asked, At, Empty, SameFlags
    <3>2. DriverTold' BY <1>b, <2>3 DEF Told, DriverTold, At, Empty, SameFlags
    <3>3. VirtTold' BY <1>b, <2>3 DEF Told, VirtTold, At, Empty, SameFlags
    <3>4. ReturnTold' BY <1>b, <2>3 DEF Told, ReturnTold, At, Empty, SameFlags
    <3> QED BY <3>1, <3>2, <3>3, <3>4 DEF Told
  <2>5. UNCHANGED <<made, mem, sent>> BY <1>18 DEF ProvideEnd, End
  <2> QED BY <2>3, <2>4, <2>5 DEF Quiet
<1>19. CASE ProvideRequest
  <2>1. pd["virt"].pc = "provide_request" /\ want' = want \cup {"cactive"} /\ q' = q BY <1>19 DEF ProvideRequest, RequestSignal, At, Empty
  <2>2. PICK pc : pc = "provide_recheck" /\ pd' = [pd EXCEPT !["virt"] = [pd["virt"] EXCEPT !.pc = pc]] BY <1>19, Zenon DEF ProvideRequest, RequestSignal, Empty
  <2>3. /\ pd["virt"].pc = "provide_request" /\ want' = want \cup {"cactive"} /\ q' = q /\ pd'["virt"].pc = "provide_recheck" /\ SameFlags("virt")
        /\ pd'["client"] = pd["client"] /\ pd'["driver"] = pd["driver"]
    <3>1. /\ \A e \in Domain \ {"virt"} : pd'[e] = pd[e]
          /\ pd'["virt"].pc = pc /\ SameFlags("virt")
      BY <1>a, <2>1, <2>2, PointIs, ZenonT(40)
    <3> QED BY <1>a, <2>1, <2>2, <3>1
  <2>4. Told'
    <3>1. Asked' BY <1>b, <2>3 DEF Told, Asked, At, Empty, SameFlags
    <3>2. DriverTold' BY <1>b, <2>3 DEF Told, DriverTold, At, Empty, SameFlags
    <3>3. VirtTold' BY <1>b, <2>3 DEF Told, VirtTold, At, Empty, SameFlags
    <3>4. ReturnTold' BY <1>b, <2>3 DEF Told, ReturnTold, At, Empty, SameFlags
    <3> QED BY <3>1, <3>2, <3>3, <3>4 DEF Told
  <2>5. UNCHANGED <<made, mem, sent>> BY <1>19 DEF ProvideRequest, RequestSignal
  <2> QED BY <2>3, <2>4, <2>5 DEF Quiet
<1>20. CASE ProvideRecheck
  <2>1. pd["virt"].pc = "provide_recheck" /\ want' = (IF ~Empty("cactive") /\ ~Full("dactive") THEN want \ {"cactive"} ELSE want) /\ q' = q BY <1>20 DEF ProvideRecheck, Empty, At, Empty
  <2>2. PICK pc : pc = (IF ~Empty("cactive") /\ ~Full("dactive") THEN "provide" ELSE "signal_client") /\ pd' = [pd EXCEPT !["virt"] = [pd["virt"] EXCEPT !.pc = pc]] BY <1>20, Zenon DEF ProvideRecheck, Empty, Empty
  <2>3. /\ pd["virt"].pc = "provide_recheck" /\ want' = (IF ~Empty("cactive") /\ ~Full("dactive") THEN want \ {"cactive"} ELSE want) /\ q' = q /\ pd'["virt"].pc = (IF ~Empty("cactive") /\ ~Full("dactive") THEN "provide" ELSE "signal_client") /\ SameFlags("virt")
        /\ pd'["client"] = pd["client"] /\ pd'["driver"] = pd["driver"]
    <3>1. /\ \A e \in Domain \ {"virt"} : pd'[e] = pd[e]
          /\ pd'["virt"].pc = pc /\ SameFlags("virt")
      BY <1>a, <2>1, <2>2, PointIs, ZenonT(40)
    <3> QED BY <1>a, <2>1, <2>2, <3>1
  <2>4. Told'
    <3>1. Asked' BY <1>b, <2>3 DEF Told, Asked, At, Empty, SameFlags
    <3>2. DriverTold' BY <1>b, <2>3 DEF Told, DriverTold, At, Empty, SameFlags
    <3>3. VirtTold' BY <1>b, <2>3 DEF Told, VirtTold, At, Empty, SameFlags
    <3>4. ReturnTold' BY <1>b, <2>3 DEF Told, ReturnTold, At, Empty, SameFlags
    <3> QED BY <3>1, <3>2, <3>3, <3>4 DEF Told
  <2>5. UNCHANGED <<made, mem, sent>> BY <1>20 DEF ProvideRecheck, Empty
  <2> QED BY <2>3, <2>4, <2>5 DEF Quiet
<1>21. CASE ProvideRequire
  <2>1. pd["virt"].pc = "signal_client" /\ pd["virt"].pc \notin Holding("virt") /\ "notify_client" \in Points("virt") \ Holding("virt") /\ "signal_driver" \in Points("virt") \ Holding("virt")
    BY <1>21, Places DEF ProvideRequire, At
  <2>2. Require("virt", "cfree", pd["virt"].rejected, "notify_client", "signal_driver") /\ pd["virt"].rejected \in BOOLEAN BY <1>21, <1>a DEF ProvideRequire, Locals
  <2>3. /\ pd["virt"].pc = "signal_client" /\ q' = q /\ pd'["client"] = pd["client"] /\ pd'["driver"] = pd["driver"] /\ pd'["virt"].badge = pd["virt"].badge
        /\ pd["virt"].rejected /\ "cfree" \in want => pd'["virt"].pc = "notify_client" /\ want' = want \ {"cfree"}
        /\ ~(pd["virt"].rejected /\ "cfree" \in want) => pd'["virt"].pc = "signal_driver" /\ want' = want
        /\ pd'["virt"].pc # "idle" => pd'["virt"].up = pd["virt"].up /\ pd'["virt"].down = pd["virt"].down
    <3>1. /\ q' = q /\ \A e \in Domain \ {"virt"} : pd'[e] = pd[e]
          /\ pd'["virt"].badge = pd["virt"].badge
          /\ pd["virt"].rejected /\ "cfree" \in want => pd'["virt"].pc = "notify_client" /\ want' = want \ {"cfree"}
          /\ ~(pd["virt"].rejected /\ "cfree" \in want) => pd'["virt"].pc = "signal_driver" /\ want' = want
          /\ pd'["virt"].pc # "idle" => pd'["virt"].up = pd["virt"].up /\ pd'["virt"].down = pd["virt"].down
      BY <1>a, <2>1, <2>2, RequireIs, ZenonT(40)
    <3> QED BY <1>a, <2>1, <3>1
  <2>4. Told'
    <3>1. Asked' BY <1>b, <2>3 DEF Told, Asked, At, Empty
    <3>2. DriverTold' BY <1>b, <2>3 DEF Told, DriverTold, At, Empty
    <3>3. VirtTold' BY <1>b, <2>3 DEF Told, VirtTold, At, Empty
    <3>4. ReturnTold' BY <1>b, <2>3 DEF Told, ReturnTold, At, Empty
    <3> QED BY <3>1, <3>2, <3>3, <3>4 DEF Told
  <2>5. UNCHANGED <<made, mem, sent>> BY <1>21 DEF ProvideRequire, Require
  <2> QED BY <2>3, <2>4, <2>5 DEF Quiet
<1>22. CASE ProvideNotify
  <2>1. pd["virt"].pc = "notify_client" /\ pd["virt"].pc \notin Holding("virt") /\ "signal_driver" \in Points("virt") \ Holding("virt")
    BY <1>22, Places DEF ProvideNotify, At
  <2>2. Notify("virt", "client", "signal_driver") BY <1>22, SMTT(20) DEF ProvideNotify
  <2>3. /\ pd["virt"].pc = "notify_client" /\ q' = q /\ want' = want /\ pd'["driver"] = pd["driver"] /\ pd'["virt"].pc = "signal_driver" /\ pd'["virt"].badge = pd["virt"].badge
        /\ pd'["virt"].up = pd["virt"].up /\ pd'["virt"].down = pd["virt"].down /\ pd'["client"].badge /\ pd'["client"].pc = pd["client"].pc /\ pd'["client"].buf = pd["client"].buf /\ pd'["client"].up = pd["client"].up /\ pd'["client"].down = pd["client"].down
    <3>1. "virt" \in Domain /\ "client" \in Domain \ {"virt"} BY DEF Domain
    <3>2. /\ q' = q /\ want' = want /\ \A e \in Domain \ {"virt", "client"} : pd'[e] = pd[e]
          /\ pd'["virt"].pc = "signal_driver" /\ pd'["virt"].badge = pd["virt"].badge
          /\ "signal_driver" # "idle" => pd'["virt"].up = pd["virt"].up /\ pd'["virt"].down = pd["virt"].down
          /\ pd'["client"].badge /\ pd'["client"].pc = pd["client"].pc /\ pd'["client"].buf = pd["client"].buf /\ pd'["client"].up = pd["client"].up /\ pd'["client"].down = pd["client"].down
      BY <1>h, <2>1, <2>2, <3>1, NotifyIs, ZenonT(40)
    <3> QED BY <1>a, <2>1, <3>2, ZenonT(40)
  <2>4. Told'
    <3>1. Asked' BY <1>b, <2>3 DEF Told, Asked, At, Empty
    <3>2. DriverTold' BY <1>b, <2>3 DEF Told, DriverTold, At, Empty
    <3>3. VirtTold' BY <1>b, <2>3 DEF Told, VirtTold, At, Empty
    <3>4. ReturnTold' BY <1>b, <2>3 DEF Told, ReturnTold, At, Empty
    <3> QED BY <3>1, <3>2, <3>3, <3>4 DEF Told
  <2>5. UNCHANGED <<made, mem, sent>> BY <1>22 DEF ProvideNotify, Notify
  <2> QED BY <2>3, <2>4, <2>5 DEF Quiet
<1>23. CASE DriverRequire
  <2>1. pd["virt"].pc = "signal_driver" /\ pd["virt"].pc \notin Holding("virt") /\ "notify_driver" \in Points("virt") \ Holding("virt") /\ "idle" \in Points("virt") \ Holding("virt")
    BY <1>23, Places DEF DriverRequire, At
  <2>2. Require("virt", "dactive", pd["virt"].up, "notify_driver", "idle") /\ pd["virt"].up \in BOOLEAN BY <1>23, <1>a DEF DriverRequire, Locals
  <2>3. /\ pd["virt"].pc = "signal_driver" /\ q' = q /\ pd'["client"] = pd["client"] /\ pd'["driver"] = pd["driver"] /\ pd'["virt"].badge = pd["virt"].badge
        /\ pd["virt"].up /\ "dactive" \in want => pd'["virt"].pc = "notify_driver" /\ want' = want \ {"dactive"}
        /\ ~(pd["virt"].up /\ "dactive" \in want) => pd'["virt"].pc = "idle" /\ want' = want
        /\ pd'["virt"].pc # "idle" => pd'["virt"].up = pd["virt"].up /\ pd'["virt"].down = pd["virt"].down
    <3>1. /\ q' = q /\ \A e \in Domain \ {"virt"} : pd'[e] = pd[e]
          /\ pd'["virt"].badge = pd["virt"].badge
          /\ pd["virt"].up /\ "dactive" \in want => pd'["virt"].pc = "notify_driver" /\ want' = want \ {"dactive"}
          /\ ~(pd["virt"].up /\ "dactive" \in want) => pd'["virt"].pc = "idle" /\ want' = want
          /\ pd'["virt"].pc # "idle" => pd'["virt"].up = pd["virt"].up /\ pd'["virt"].down = pd["virt"].down
      BY <1>a, <2>1, <2>2, RequireIs, ZenonT(40)
    <3> QED BY <1>a, <2>1, <3>1
  <2>4. Told'
    <3>1. Asked' BY <1>b, <2>3 DEF Told, Asked, At, Empty
    <3>2. DriverTold' BY <1>b, <2>3 DEF Told, DriverTold, At, Empty
    <3>3. VirtTold' BY <1>b, <2>3 DEF Told, VirtTold, At, Empty
    <3>4. ReturnTold' BY <1>b, <2>3 DEF Told, ReturnTold, At, Empty
    <3> QED BY <3>1, <3>2, <3>3, <3>4 DEF Told
  <2>5. UNCHANGED <<made, mem, sent>> BY <1>23 DEF DriverRequire, Require
  <2> QED BY <2>3, <2>4, <2>5 DEF Quiet
<1>24. CASE DriverNotify
  <2>1. pd["virt"].pc = "notify_driver" /\ pd["virt"].pc \notin Holding("virt") /\ "idle" \in Points("virt") \ Holding("virt")
    BY <1>24, Places DEF DriverNotify, At
  <2>2. Notify("virt", "driver", "idle") BY <1>24 DEF DriverNotify
  <2>3. /\ pd["virt"].pc = "notify_driver" /\ q' = q /\ want' = want /\ pd'["client"] = pd["client"] /\ pd'["virt"].pc = "idle" /\ pd'["virt"].badge = pd["virt"].badge
        /\ pd'["driver"].badge /\ pd'["driver"].pc = pd["driver"].pc /\ pd'["driver"].buf = pd["driver"].buf /\ pd'["driver"].up = pd["driver"].up /\ pd'["driver"].down = pd["driver"].down
    <3>1. "virt" \in Domain /\ "driver" \in Domain \ {"virt"} BY DEF Domain
    <3>2. /\ q' = q /\ want' = want /\ \A e \in Domain \ {"virt", "driver"} : pd'[e] = pd[e]
          /\ pd'["virt"].pc = "idle" /\ pd'["virt"].badge = pd["virt"].badge
          /\ "idle" # "idle" => pd'["virt"].up = pd["virt"].up /\ pd'["virt"].down = pd["virt"].down
          /\ pd'["driver"].badge /\ pd'["driver"].pc = pd["driver"].pc /\ pd'["driver"].buf = pd["driver"].buf /\ pd'["driver"].up = pd["driver"].up /\ pd'["driver"].down = pd["driver"].down
      BY <1>h, <2>1, <2>2, <3>1, NotifyIs, ZenonT(40)
    <3> QED BY <1>a, <2>1, <3>2, ZenonT(40)
  <2>4. Told'
    <3>1. Asked' BY <1>b, <2>3 DEF Told, Asked, At, Empty
    <3>2. DriverTold' BY <1>b, <2>3 DEF Told, DriverTold, At, Empty
    <3>3. VirtTold' BY <1>b, <2>3 DEF Told, VirtTold, At, Empty
    <3>4. ReturnTold' BY <1>b, <2>3 DEF Told, ReturnTold, At, Empty
    <3> QED BY <3>1, <3>2, <3>3, <3>4 DEF Told
  <2>5. UNCHANGED <<made, mem, sent>> BY <1>24 DEF DriverNotify, Notify
  <2> QED BY <2>3, <2>4, <2>5 DEF Quiet
<1>25. CASE Interrupt
  <2>1. want' = want /\ q' = q /\ pd' = [pd EXCEPT !["driver"] = [pd["driver"] EXCEPT !.badge = TRUE]] BY <1>25 DEF Interrupt
  <2>3. /\ want' = want /\ q' = q /\ pd'["driver"].badge = TRUE /\ pd'["driver"].pc = pd["driver"].pc /\ pd'["driver"].up = pd["driver"].up /\ pd'["driver"].down = pd["driver"].down
        /\ pd'["client"] = pd["client"] /\ pd'["virt"] = pd["virt"]
    BY <1>a, <2>1, SMTT(20) DEF Locals
  <2>4. Told'
    <3>1. Asked' BY <1>b, <2>3 DEF Told, Asked, At, Empty
    <3>2. DriverTold' BY <1>b, <2>3 DEF Told, DriverTold, At, Empty
    <3>3. VirtTold' BY <1>b, <2>3 DEF Told, VirtTold, At, Empty
    <3>4. ReturnTold' BY <1>b, <2>3 DEF Told, ReturnTold, At, Empty
    <3> QED BY <3>1, <3>2, <3>3, <3>4 DEF Told
  <2>5. UNCHANGED <<made, mem, sent>> BY <1>25 DEF Interrupt
  <2> QED BY <2>3, <2>4, <2>5 DEF Quiet
<1>26. CASE DriverNotified
  <2>1. pd["driver"].pc = "idle" /\ pd["driver"].badge /\ want' = want /\ q' = q /\ pd' = [pd EXCEPT !["driver"] = Idle("transmit")] BY <1>26 DEF DriverNotified, At
  <2>3. /\ pd["driver"].pc = "idle" /\ pd["driver"].badge /\ want' = want /\ q' = q /\ pd'["driver"].pc = "transmit" /\ pd'["driver"].badge = FALSE
        /\ pd'["driver"].up = FALSE /\ pd'["driver"].down = FALSE /\ pd'["client"] = pd["client"] /\ pd'["virt"] = pd["virt"]
    BY <1>a, <2>1, SMTT(20) DEF Idle
  <2>4. Told'
    <3>1. Asked' BY <1>b, <2>3 DEF Told, Asked, At, Empty
    <3>2. DriverTold' BY <1>b, <2>3 DEF Told, DriverTold, At, Empty
    <3>3. VirtTold' BY <1>b, <2>3 DEF Told, VirtTold, At, Empty
    <3>4. ReturnTold' BY <1>b, <2>3 DEF Told, ReturnTold, At, Empty
    <3> QED BY <3>1, <3>2, <3>3, <3>4 DEF Told
  <2>5. UNCHANGED <<made, mem, sent>> BY <1>26 DEF DriverNotified
  <2> QED BY <2>3, <2>4, <2>5 DEF Quiet
<1>27. CASE \E room \in BOOLEAN : SendOne(room)
  <2>1. PICK pc \in {"give_back"} : Take("driver", "dactive", pc) BY <1>27 DEF SendOne
  <2>2. pd["driver"].pc = "transmit" /\ want' = want BY <1>27 DEF SendOne, At
  <2>3. /\ pd["driver"].pc = "transmit" /\ want' = want /\ pd'["driver"].pc \in {"give_back"} /\ SameFlags("driver")
        /\ pd'["client"] = pd["client"] /\ pd'["virt"] = pd["virt"] /\ q'["cactive"] = q["cactive"] /\ q'["dfree"] = q["dfree"] /\ q["dactive"] # << >>
    <3>1. /\ \A e \in Domain \ {"driver"} : pd'[e] = pd[e]
          /\ pd'["driver"].pc = pc /\ SameFlags("driver") /\ q["dactive"] # << >>
          /\ \A y \in Queue \ {"dactive"} : q'[y] = q[y]
      BY <1>a, <2>1, <2>2, TakeIs, ZenonT(40)
    <3> QED BY <1>a, <2>1, <2>2, <3>1
  <2>4. Told'
    <3>1. Asked' BY <1>b, <2>3 DEF Told, Asked, At, Empty, SameFlags
    <3>2. DriverTold' BY <1>b, <2>3 DEF Told, DriverTold, At, Empty, SameFlags
    <3>3. VirtTold' BY <1>b, <2>3 DEF Told, VirtTold, At, Empty, SameFlags
    <3>4. ReturnTold' BY <1>b, <2>3 DEF Told, ReturnTold, At, Empty, SameFlags
    <3> QED BY <3>1, <3>2, <3>3, <3>4 DEF Told
  <2> QED BY <1>27, <2>4 DEF Loud
<1>28. CASE GiveBack
  <2> DEFINE then == [pd["driver"] EXCEPT !.pc = "transmit", !.down = TRUE]
  <2>1. /\ then \in Locals("driver") /\ then.pc = "transmit" /\ then.badge = pd["driver"].badge
        /\ then.up = pd["driver"].up /\ then.down = TRUE
    BY <1>a, Places, Zenon DEF Locals
  <2>2. pd["driver"].pc = "give_back" /\ want' = want /\ Give("driver", "dfree", then) BY <1>28 DEF GiveBack, At
  <2>. HIDE DEF then
  <2>3. /\ pd["driver"].pc = "give_back" /\ want' = want /\ pd'["driver"].pc = "transmit" /\ pd'["driver"].down = TRUE /\ pd'["driver"].badge = pd["driver"].badge /\ pd'["driver"].up = pd["driver"].up
        /\ pd'["client"] = pd["client"] /\ pd'["virt"] = pd["virt"] /\ q'["cactive"] = q["cactive"] /\ q'["dactive"] = q["dactive"] /\ q'["dfree"] # << >>
    <3>1. TypeOK /\ "driver" \in Domain /\ "dfree" \in Queue /\ then \in Locals("driver") /\ Give("driver", "dfree", then) BY <1>a, <2>1, <2>2
    <3>2. /\ \A e \in Domain \ {"driver"} : pd'[e] = pd[e]
          /\ pd'["driver"].pc = then.pc /\ pd'["driver"].badge = then.badge /\ pd'["driver"].up = then.up
          /\ pd'["driver"].down = then.down /\ q'["dfree"] # << >> /\ \A y \in Queue \ {"dfree"} : q'[y] = q[y]
      BY <3>1, GiveIs, ZenonT(40)
    <3> QED BY <1>a, <2>1, <2>2, <3>2 DEF SameFlags
  <2>4. Told'
    <3>1. Asked' BY <1>b, <1>d, <2>3 DEF Told, Asked, At, Empty
    <3>2. DriverTold' BY <1>b, <1>d, <2>3 DEF Told, DriverTold, At, Empty
    <3>3. VirtTold' BY <1>b, <1>d, <2>3 DEF Told, VirtTold, At, Empty
    <3>4. ReturnTold' BY <1>b, <1>d, <2>3 DEF Told, Asked, ReturnTold, At, Empty
    <3> QED BY <3>1, <3>2, <3>3, <3>4 DEF Told
  <2>5. UNCHANGED <<made, mem, sent>> BY <1>28 DEF GiveBack
  <2> QED BY <2>3, <2>4, <2>5 DEF Quiet
<1>29. CASE TransmitEnd
  <2>1. pd["driver"].pc = "transmit" /\ want' = want /\ q' = q /\ q["dactive"] = << >> BY <1>29 DEF TransmitEnd, End, At, Empty
  <2>2. PICK pc : pc = "request" /\ pd' = [pd EXCEPT !["driver"] = [pd["driver"] EXCEPT !.pc = pc]] BY <1>29, Zenon DEF TransmitEnd, End, Empty
  <2>3. /\ pd["driver"].pc = "transmit" /\ want' = want /\ q' = q /\ q["dactive"] = << >> /\ pd'["driver"].pc = "request" /\ SameFlags("driver")
        /\ pd'["client"] = pd["client"] /\ pd'["virt"] = pd["virt"]
    <3>1. /\ \A e \in Domain \ {"driver"} : pd'[e] = pd[e]
          /\ pd'["driver"].pc = pc /\ SameFlags("driver")
      BY <1>a, <2>1, <2>2, PointIs, ZenonT(40)
    <3> QED BY <1>a, <2>1, <2>2, <3>1
  <2>4. Told'
    <3>1. Asked' BY <1>b, <2>3 DEF Told, Asked, At, Empty, SameFlags
    <3>2. DriverTold' BY <1>b, <2>3 DEF Told, DriverTold, At, Empty, SameFlags
    <3>3. VirtTold' BY <1>b, <2>3 DEF Told, VirtTold, At, Empty, SameFlags
    <3>4. ReturnTold' BY <1>b, <2>3 DEF Told, ReturnTold, At, Empty, SameFlags
    <3> QED BY <3>1, <3>2, <3>3, <3>4 DEF Told
  <2>5. UNCHANGED <<made, mem, sent>> BY <1>29 DEF TransmitEnd, End
  <2> QED BY <2>3, <2>4, <2>5 DEF Quiet
<1>30. CASE TransmitRequest
  <2>1. pd["driver"].pc = "request" /\ want' = want \cup {"dactive"} /\ q' = q BY <1>30 DEF TransmitRequest, RequestSignal, At, Empty
  <2>2. PICK pc : pc = "recheck" /\ pd' = [pd EXCEPT !["driver"] = [pd["driver"] EXCEPT !.pc = pc]] BY <1>30, Zenon DEF TransmitRequest, RequestSignal, Empty
  <2>3. /\ pd["driver"].pc = "request" /\ want' = want \cup {"dactive"} /\ q' = q /\ pd'["driver"].pc = "recheck" /\ SameFlags("driver")
        /\ pd'["client"] = pd["client"] /\ pd'["virt"] = pd["virt"]
    <3>1. /\ \A e \in Domain \ {"driver"} : pd'[e] = pd[e]
          /\ pd'["driver"].pc = pc /\ SameFlags("driver")
      BY <1>a, <2>1, <2>2, PointIs, ZenonT(40)
    <3> QED BY <1>a, <2>1, <2>2, <3>1
  <2>4. Told'
    <3>1. Asked' BY <1>b, <2>3 DEF Told, Asked, At, Empty, SameFlags
    <3>2. DriverTold' BY <1>b, <2>3 DEF Told, DriverTold, At, Empty, SameFlags
    <3>3. VirtTold' BY <1>b, <2>3 DEF Told, VirtTold, At, Empty, SameFlags
    <3>4. ReturnTold' BY <1>b, <2>3 DEF Told, ReturnTold, At, Empty, SameFlags
    <3> QED BY <3>1, <3>2, <3>3, <3>4 DEF Told
  <2>5. UNCHANGED <<made, mem, sent>> BY <1>30 DEF TransmitRequest, RequestSignal
  <2> QED BY <2>3, <2>4, <2>5 DEF Quiet
<1>31. CASE TransmitRecheck
  <2>1. pd["driver"].pc = "recheck" /\ want' = (IF q["dactive"] = << >> THEN want ELSE want \ {"dactive"}) /\ q' = q BY <1>31 DEF TransmitRecheck, Empty, At, Empty
  <2>2. PICK pc : pc = (IF q["dactive"] = << >> THEN "signal" ELSE "transmit") /\ pd' = [pd EXCEPT !["driver"] = [pd["driver"] EXCEPT !.pc = pc]] BY <1>31, Zenon DEF TransmitRecheck, Empty, Empty
  <2>3. /\ pd["driver"].pc = "recheck" /\ want' = (IF q["dactive"] = << >> THEN want ELSE want \ {"dactive"}) /\ q' = q /\ pd'["driver"].pc = (IF q["dactive"] = << >> THEN "signal" ELSE "transmit") /\ SameFlags("driver")
        /\ pd'["client"] = pd["client"] /\ pd'["virt"] = pd["virt"]
    <3>1. /\ \A e \in Domain \ {"driver"} : pd'[e] = pd[e]
          /\ pd'["driver"].pc = pc /\ SameFlags("driver")
      BY <1>a, <2>1, <2>2, PointIs, ZenonT(40)
    <3> QED BY <1>a, <2>1, <2>2, <3>1
  <2>4. Told'
    <3>1. Asked' BY <1>b, <2>3 DEF Told, Asked, At, Empty, SameFlags
    <3>2. DriverTold' BY <1>b, <2>3 DEF Told, DriverTold, At, Empty, SameFlags
    <3>3. VirtTold' BY <1>b, <2>3 DEF Told, VirtTold, At, Empty, SameFlags
    <3>4. ReturnTold' BY <1>b, <2>3 DEF Told, ReturnTold, At, Empty, SameFlags
    <3> QED BY <3>1, <3>2, <3>3, <3>4 DEF Told
  <2>5. UNCHANGED <<made, mem, sent>> BY <1>31 DEF TransmitRecheck, Empty
  <2> QED BY <2>3, <2>4, <2>5 DEF Quiet
<1>32. CASE TransmitRequire
  <2>1. pd["driver"].pc = "signal" /\ pd["driver"].pc \notin Holding("driver") /\ "notify" \in Points("driver") \ Holding("driver") /\ "idle" \in Points("driver") \ Holding("driver")
    BY <1>32, Places DEF TransmitRequire, At
  <2>2. Require("driver", "dfree", pd["driver"].down, "notify", "idle") /\ pd["driver"].down \in BOOLEAN BY <1>32, <1>a DEF TransmitRequire, Locals
  <2>3. /\ pd["driver"].pc = "signal" /\ q' = q /\ pd'["client"] = pd["client"] /\ pd'["virt"] = pd["virt"] /\ pd'["driver"].badge = pd["driver"].badge
        /\ pd["driver"].down /\ "dfree" \in want => pd'["driver"].pc = "notify" /\ want' = want \ {"dfree"}
        /\ ~(pd["driver"].down /\ "dfree" \in want) => pd'["driver"].pc = "idle" /\ want' = want
        /\ pd'["driver"].pc # "idle" => pd'["driver"].up = pd["driver"].up /\ pd'["driver"].down = pd["driver"].down
    <3>1. /\ q' = q /\ \A e \in Domain \ {"driver"} : pd'[e] = pd[e]
          /\ pd'["driver"].badge = pd["driver"].badge
          /\ pd["driver"].down /\ "dfree" \in want => pd'["driver"].pc = "notify" /\ want' = want \ {"dfree"}
          /\ ~(pd["driver"].down /\ "dfree" \in want) => pd'["driver"].pc = "idle" /\ want' = want
          /\ pd'["driver"].pc # "idle" => pd'["driver"].up = pd["driver"].up /\ pd'["driver"].down = pd["driver"].down
      BY <1>a, <2>1, <2>2, RequireIs, ZenonT(40)
    <3> QED BY <1>a, <2>1, <3>1
  <2>4. Told'
    <3>1. Asked' BY <1>b, <2>3 DEF Told, Asked, At, Empty
    <3>2. DriverTold' BY <1>b, <2>3 DEF Told, DriverTold, At, Empty
    <3>3. VirtTold' BY <1>b, <2>3 DEF Told, VirtTold, At, Empty
    <3>4. ReturnTold' BY <1>b, <2>3 DEF Told, ReturnTold, At, Empty
    <3> QED BY <3>1, <3>2, <3>3, <3>4 DEF Told
  <2>5. UNCHANGED <<made, mem, sent>> BY <1>32 DEF TransmitRequire, Require
  <2> QED BY <2>3, <2>4, <2>5 DEF Quiet
<1>33. CASE TransmitNotify
  <2>1. pd["driver"].pc = "notify" /\ pd["driver"].pc \notin Holding("driver") /\ "idle" \in Points("driver") \ Holding("driver")
    BY <1>33, Places DEF TransmitNotify, At
  <2>2. Notify("driver", "virt", "idle") BY <1>33 DEF TransmitNotify
  <2>3. /\ pd["driver"].pc = "notify" /\ q' = q /\ want' = want /\ pd'["client"] = pd["client"] /\ pd'["driver"].pc = "idle" /\ pd'["driver"].badge = pd["driver"].badge
        /\ pd'["virt"].badge /\ pd'["virt"].pc = pd["virt"].pc /\ pd'["virt"].buf = pd["virt"].buf /\ pd'["virt"].up = pd["virt"].up /\ pd'["virt"].down = pd["virt"].down
    <3>1. "driver" \in Domain /\ "virt" \in Domain \ {"driver"} BY DEF Domain
    <3>2. /\ q' = q /\ want' = want /\ \A e \in Domain \ {"driver", "virt"} : pd'[e] = pd[e]
          /\ pd'["driver"].pc = "idle" /\ pd'["driver"].badge = pd["driver"].badge
          /\ "idle" # "idle" => pd'["driver"].up = pd["driver"].up /\ pd'["driver"].down = pd["driver"].down
          /\ pd'["virt"].badge /\ pd'["virt"].pc = pd["virt"].pc /\ pd'["virt"].buf = pd["virt"].buf /\ pd'["virt"].up = pd["virt"].up /\ pd'["virt"].down = pd["virt"].down
      BY <1>h, <2>1, <2>2, <3>1, NotifyIs, ZenonT(40)
    <3> QED BY <1>a, <2>1, <3>2, ZenonT(40)
  <2>4. Told'
    <3>1. Asked' BY <1>b, <2>3 DEF Told, Asked, At, Empty
    <3>2. DriverTold' BY <1>b, <2>3 DEF Told, DriverTold, At, Empty
    <3>3. VirtTold' BY <1>b, <2>3 DEF Told, VirtTold, At, Empty
    <3>4. ReturnTold' BY <1>b, <2>3 DEF Told, ReturnTold, At, Empty
    <3> QED BY <3>1, <3>2, <3>3, <3>4 DEF Told
  <2>5. UNCHANGED <<made, mem, sent>> BY <1>33, SMTT(20) DEF TransmitNotify, Notify
  <2> QED BY <2>3, <2>4, <2>5 DEF Quiet
<1>34. CASE UNCHANGED vars
  BY <1>b, <1>34, ZenonT(40) DEF Quiet, vars, Told, Asked, DriverTold, VirtTold, ReturnTold, At, Empty
<1> QED BY Steps, <1>1, <1>2, <1>3, <1>4, <1>5, <1>6, <1>7, <1>8, <1>9, <1>10, <1>11, <1>12, <1>13, <1>14, <1>15, <1>16, <1>17, <1>18, <1>19, <1>20, <1>21, <1>22, <1>23, <1>24, <1>25, <1>26, <1>27, <1>28, <1>29, <1>30, <1>31, <1>32, <1>33, <1>34

-----------------------------------------------------------------------------
(* The order of the frames.                                                *)

\* A quiet step leaves the line as it is.
LEMMA QuietOrdered ==
    ASSUME Quiet, Ordered
    PROVE  Ordered'
<1>1. ASSUME NEW s \in Nat, NEW i \in Nat, NEW f \in Nat PROVE Line(s, i, f)' <=> Line(s, i, f)
  <2>1. (Out(i, f)' <=> Out(i, f)) /\ (ToDriver(i, f)' <=> ToDriver(i, f)) /\ (ToVirt(i, f)' <=> ToVirt(i, f))
    BY DEF Quiet, Out, ToDriver, ToVirt
  <2>2. (InVirt(i, f)' <=> InVirt(i, f)) /\ (InClient(i, f)' <=> InClient(i, f)) BY DEF Quiet, InVirt, InClient, At
  <2> QED BY <2>1, <2>2 DEF Line
<1>2. made' = made BY DEF Quiet
<1>3. \A f \in Nat : Line(2, 1, f)' /\ At("virt", "push")' => At("virt", "push")
  <2>1. \A f \in Nat : InVirt(1, f)' /\ At("virt", "push")' => At("virt", "push") BY DEF Quiet, InVirt, At
  <2> QED BY <2>1 DEF Line
<1>4. \A s, i, f \in Nat : Line(s, i, f)' /\ s = 2 => i = 1 BY DEF Line, InVirt
<1>5. \A s, t, i, j, f, g \in Nat : Line(s, i, f)' /\ Line(t, j, g)' /\ (s < t \/ (s = t /\ i < j)) => f < g
  BY <1>1 DEF Ordered
<1>6. \A s, i, f \in Nat : Line(s, i, f)' => f \in 1 .. Len(made') BY <1>1, <1>2 DEF Ordered
<1>7. \A s, i, f \in Nat : Line(s, i, f)' /\ (s < 2 \/ (s = 2 /\ At("virt", "push")')) => made'[f] = "frame"
  BY <1>1, <1>2, <1>3, <1>4 DEF Ordered
<1> QED BY <1>5, <1>6, <1>7 DEF Ordered

\* A step that moves the first frame of a stage to the end of the stage before it,
\* or takes it out, keeps the order; what goes to the driver buffer_ok let pass.
LEMMA AdvanceOrdered ==
    ASSUME Ordered, made' = made, NEW from \in 1 .. 4, NEW to \in 0 .. 3, to = from - 1, NEW n \in Nat,
           \A s, i, f \in Nat : Line(s, i, f)' =>
             /\ s \notin {to, from} => Line(s, i, f)
             /\ s = from => Line(from, i + 1, f)
             /\ s = to => (i <= n /\ Line(s, i, f)) \/ (i = n + 1 /\ Line(from, 1, f))
             /\ s < 2 \/ (s = 2 /\ At("virt", "push")') => made[f] = "frame"
    PROVE  Ordered'
<1>1. ASSUME NEW s \in Nat, NEW i \in Nat, NEW f \in Nat, Line(s, i, f)' PROVE i >= 1
  <2>1. Out(i, f)' => i >= 1 BY DEF Out
  <2>2. ToDriver(i, f)' \/ ToVirt(i, f)' => i >= 1 BY DEF ToDriver, ToVirt
  <2>3. InVirt(i, f)' \/ InClient(i, f)' => i >= 1 BY DEF InVirt, InClient
  <2> QED BY <1>1, <2>1, <2>2, <2>3 DEF Line
<1>2. ASSUME NEW s \in Nat, NEW i \in Nat, NEW f \in Nat, Line(s, i, f)'
      PROVE  \E a, b \in Nat : /\ Line(a, b, f)
                               /\ \/ s \notin {to, from} /\ a = s /\ b = i
                                  \/ s = from /\ a = from /\ b = i + 1
                                  \/ s = to /\ a = s /\ b = i /\ i <= n
                                  \/ s = to /\ a = from /\ b = 1 /\ i = n + 1
  <2>1. CASE s \notin {to, from} BY <1>2, <2>1
  <2>2. CASE s = from BY <1>2, <2>2
  <2>3. CASE s = to BY <1>2, <2>3
  <2> QED BY <2>1, <2>2, <2>3
<1>3. ASSUME NEW s \in Nat, NEW t \in Nat, NEW i \in Nat, NEW j \in Nat, NEW f \in Nat, NEW g \in Nat,
             Line(s, i, f)', Line(t, j, g)', s < t \/ (s = t /\ i < j)
      PROVE  f < g
  <2>1. i >= 1 /\ j >= 1 BY <1>1, <1>3
  <2>2. PICK a \in Nat, b \in Nat : /\ Line(a, b, f)
                                    /\ \/ s \notin {to, from} /\ a = s /\ b = i
                                       \/ s = from /\ a = from /\ b = i + 1
                                       \/ s = to /\ a = s /\ b = i /\ i <= n
                                       \/ s = to /\ a = from /\ b = 1 /\ i = n + 1
    BY <1>2, <1>3
  <2>3. PICK c \in Nat, d \in Nat : /\ Line(c, d, g)
                                    /\ \/ t \notin {to, from} /\ c = t /\ d = j
                                       \/ t = from /\ c = from /\ d = j + 1
                                       \/ t = to /\ c = t /\ d = j /\ j <= n
                                       \/ t = to /\ c = from /\ d = 1 /\ j = n + 1
    BY <1>2, <1>3
  <2>4. a < c \/ (a = c /\ b < d) BY <1>3, <2>1, <2>2, <2>3
  <2> QED BY <2>2, <2>3, <2>4 DEF Ordered
<1>4. ASSUME NEW s \in Nat, NEW i \in Nat, NEW f \in Nat, Line(s, i, f)' PROVE f \in 1 .. Len(made)
  <2>1. PICK a \in Nat, b \in Nat : Line(a, b, f) BY <1>2, <1>4
  <2> QED BY <2>1 DEF Ordered
<1>5. ASSUME NEW s \in Nat, NEW i \in Nat, NEW f \in Nat, Line(s, i, f)', s < 2 \/ (s = 2 /\ At("virt", "push")')
      PROVE  made[f] = "frame"
  BY <1>5
<1> QED BY <1>3, <1>4, <1>5, SMTT(20) DEF Ordered

\* The client queues the frame it holds: it was behind all others, and is.
LEMMA QueueOrdered ==
    ASSUME TypeOK, Owned, Ordered, QueueFrame
    PROVE  Ordered'
<1>1. /\ pd["client"].pc = "queue" /\ UNCHANGED <<made, mem, sent>>
      /\ Give("client", "cactive", [pd["client"] EXCEPT !.pc = "require", !.up = TRUE])
  BY DEF QueueFrame, At
<1>2. /\ DOMAIN pd = Domain /\ "client" \in Domain /\ pd["client"] \in Locals("client") /\ q \in [Queue -> Seq(Buf)]
      /\ "cactive" \in Queue /\ "dactive" \in Queue /\ "virt" \in Domain
  BY DEF TypeOK, Domain, Queue
<1>3. pd["client"].buf \in Buf BY <1>1, <1>2, Places DEF Owned, Hands, Locals
<1> DEFINE b == pd["client"].buf
           n == Len(q["cactive"])
<1>4. pd'["client"].pc = "require" /\ pd'["virt"] = pd["virt"] BY <1>1, <1>2 DEF Give, Locals
<1>5. q'["cactive"] = Append(q["cactive"], b) /\ q'["dactive"] = q["dactive"] BY <1>1, <1>2 DEF Give
<1>6. /\ n \in Nat /\ Len(q'["cactive"]) = n + 1 /\ q'["cactive"][n + 1] = b
      /\ \A i \in 1 .. n : q'["cactive"][i] = q["cactive"][i]
  <2>1. q["cactive"] \in Seq(Buf) BY <1>2
  <2> QED BY <1>3, <1>5, <2>1, Pushed
<1>7. ASSUME NEW s \in Nat, NEW i \in Nat, NEW f \in Nat, Line(s, i, f)'
      PROVE  /\ s \notin {3, 4} => Line(s, i, f)
             /\ s # 4
             /\ s = 3 => (i <= n /\ Line(3, i, f)) \/ (i = n + 1 /\ Line(4, 1, f))
  <2>1. /\ Out(i, f)' => Out(i, f)
        /\ ToDriver(i, f)' => ToDriver(i, f)
        /\ InVirt(i, f)' => InVirt(i, f)
        /\ ~InClient(i, f)'
    BY <1>1, <1>4, <1>5 DEF Out, ToDriver, InVirt, InClient, At
  <2>2. ToVirt(i, f)' => (i <= n /\ ToVirt(i, f)) \/ (i = n + 1 /\ InClient(1, f))
    <3>1. SUFFICES ASSUME ToVirt(i, f)' PROVE (i <= n /\ ToVirt(i, f)) \/ (i = n + 1 /\ InClient(1, f)) OBVIOUS
    <3>2. i \in 1 .. n + 1 /\ f = mem[q'["cactive"][i]] BY <1>1, <1>6, <3>1 DEF ToVirt
    <3>3. CASE i = n + 1 BY <1>1, <1>6, <3>2, <3>3 DEF InClient, At
    <3>4. CASE i # n + 1 BY <1>6, <3>2, <3>4 DEF ToVirt
    <3> QED BY <3>3, <3>4
  <2> QED BY <1>7, <2>1, <2>2 DEF Line
<1>8. At("virt", "push")' <=> At("virt", "push") BY <1>4 DEF At
<1>9. ASSUME NEW s \in Nat, NEW i \in Nat, NEW f \in Nat, Line(s, i, f)'
      PROVE  s < 2 \/ (s = 2 /\ At("virt", "push")') => made[f] = "frame"
  BY <1>7, <1>8, <1>9 DEF Ordered
<1>. HIDE DEF n
<1>10. \A s, i, f \in Nat : Line(s, i, f)' =>
          /\ s \notin {3, 4} => Line(s, i, f)
          /\ s = 4 => Line(4, i + 1, f)
          /\ s = 3 => (i <= n /\ Line(s, i, f)) \/ (i = n + 1 /\ Line(4, 1, f))
          /\ s < 2 \/ (s = 2 /\ At("virt", "push")') => made[f] = "frame"
  BY <1>7, <1>9
<1>11. 4 \in 1 .. 4 /\ 3 \in 0 .. 3 /\ 3 = 4 - 1 /\ made' = made BY <1>1
<1> QED BY <1>6, <1>10, <1>11, AdvanceOrdered

\* The virtualiser takes the first frame the client queued.
LEMMA ProvideOrdered ==
    ASSUME TypeOK, Ordered, TxProvide
    PROVE  Ordered'
<1>1. PICK pc \in {"push", "reject"} :
        /\ pd["virt"].pc = "provide" /\ UNCHANGED <<made, mem, sent>> /\ Take("virt", "cactive", pc)
        /\ pc = "push" => made[mem[Head(q["cactive"])]] = "frame"
  BY DEF TxProvide, At
<1>2. /\ DOMAIN pd = Domain /\ "client" \in Domain /\ pd["virt"] \in Locals("virt") /\ q \in [Queue -> Seq(Buf)]
      /\ "cactive" \in Queue /\ "dactive" \in Queue /\ "virt" \in Domain
  BY DEF TypeOK, Domain, Queue
<1> DEFINE n == Len(q["cactive"])
<1>3. q["cactive"] \in Seq(Buf) /\ q["cactive"] # << >> BY <1>1, <1>2 DEF Take, Empty
<1>4. pd'["virt"].pc = pc /\ pd'["virt"].buf = Head(q["cactive"]) /\ pd'["client"] = pd["client"] BY <1>1, <1>2 DEF Take, Locals
<1>5. q'["cactive"] = Tail(q["cactive"]) /\ q'["dactive"] = q["dactive"] BY <1>1, <1>2 DEF Take
<1>6. /\ n \in Nat \ {0} /\ Head(q["cactive"]) = q["cactive"][1] /\ Len(q'["cactive"]) = n - 1
      /\ \A i \in 1 .. n - 1 : q'["cactive"][i] = q["cactive"][i + 1]
  BY <1>3, <1>5, Popped
<1>7. ASSUME NEW s \in Nat, NEW i \in Nat, NEW f \in Nat, Line(s, i, f)'
      PROVE  /\ s \notin {2, 3} => Line(s, i, f)
             /\ s = 3 => Line(3, i + 1, f)
             /\ s = 2 => i = 0 + 1 /\ Line(3, 1, f) /\ f = mem[Head(q["cactive"])]
  <2>1. (Out(i, f)' => Out(i, f)) /\ (ToDriver(i, f)' => ToDriver(i, f)) /\ (InClient(i, f)' => InClient(i, f))
    BY <1>1, <1>4, <1>5 DEF Out, ToDriver, InClient, At
  <2>2. InVirt(i, f)' => i = 0 + 1 /\ ToVirt(1, f) /\ f = mem[Head(q["cactive"])]
    BY <1>1, <1>4, <1>6 DEF InVirt, ToVirt
  <2>3. ToVirt(i, f)' => ToVirt(i + 1, f)
    <3>1. SUFFICES ASSUME ToVirt(i, f)' PROVE ToVirt(i + 1, f) OBVIOUS
    <3>2. i \in 1 .. n - 1 /\ f = mem[q'["cactive"][i]] BY <1>1, <1>6, <3>1 DEF ToVirt
    <3> QED BY <1>6, <3>2 DEF ToVirt
  <2> QED BY <1>7, <2>1, <2>2, <2>3 DEF Line
<1>8. At("virt", "push")' <=> pc = "push" BY <1>4 DEF At
<1>9. ASSUME NEW s \in Nat, NEW i \in Nat, NEW f \in Nat, Line(s, i, f)'
      PROVE  s < 2 \/ (s = 2 /\ At("virt", "push")') => made[f] = "frame"
  BY <1>1, <1>7, <1>8, <1>9 DEF Ordered
<1>10. \A s, i, f \in Nat : Line(s, i, f)' =>
          /\ s \notin {2, 3} => Line(s, i, f)
          /\ s = 3 => Line(3, i + 1, f)
          /\ s = 2 => (i <= 0 /\ Line(s, i, f)) \/ (i = 0 + 1 /\ Line(3, 1, f))
          /\ s < 2 \/ (s = 2 /\ At("virt", "push")') => made[f] = "frame"
  BY <1>7, <1>9
<1>11. 3 \in 1 .. 4 /\ 2 \in 0 .. 3 /\ 2 = 3 - 1 /\ 0 \in Nat /\ made' = made BY <1>1
<1> QED BY <1>10, <1>11, AdvanceOrdered, Zenon

\* The virtualiser queues the frame for the driver, or hands a refused one back.
LEMMA PushOrdered ==
    ASSUME TypeOK, Owned, Ordered, Push \/ Reject
    PROVE  Ordered'
<1> DEFINE n == Len(q["dactive"])
           b == pd["virt"].buf
<1>1. pd["virt"].pc \in {"push", "reject"} /\ UNCHANGED <<made, mem, sent>> BY DEF Push, Reject, At
<1>2. /\ DOMAIN pd = Domain /\ "client" \in Domain /\ pd["virt"] \in Locals("virt") /\ q \in [Queue -> Seq(Buf)]
      /\ "cactive" \in Queue /\ "dactive" \in Queue /\ "cfree" \in Queue /\ "virt" \in Domain
  BY DEF TypeOK, Domain, Queue
<1>3. b \in Buf BY <1>1, <1>2, Places DEF Owned, Hands, Locals
<1>4. pd'["virt"].pc = "provide" /\ pd'["client"] = pd["client"]
  <2>1. CASE Push BY <1>2, <2>1 DEF Push, Give, Locals
  <2>2. CASE Reject BY <1>2, <2>2 DEF Reject, Give, Locals
  <2> QED BY <2>1, <2>2
<1>5. /\ q'["cactive"] = q["cactive"]
      /\ q'["dactive"] = q["dactive"] \/ (pd["virt"].pc = "push" /\ q'["dactive"] = Append(q["dactive"], b))
  <2>1. CASE Push BY <1>2, <2>1 DEF Push, Give, At
  <2>2. CASE Reject BY <1>2, <2>2 DEF Reject, Give
  <2> QED BY <2>1, <2>2
<1>6. /\ n \in Nat
      /\ \/ q'["dactive"] = q["dactive"]
         \/ /\ pd["virt"].pc = "push" /\ Len(q'["dactive"]) = n + 1 /\ q'["dactive"][n + 1] = b
            /\ \A i \in 1 .. n : q'["dactive"][i] = q["dactive"][i]
  <2>1. q["dactive"] \in Seq(Buf) BY <1>2
  <2> QED BY <1>3, <1>5, <2>1, Pushed
<1>7. ASSUME NEW s \in Nat, NEW i \in Nat, NEW f \in Nat, Line(s, i, f)'
      PROVE  /\ s \notin {1, 2} => Line(s, i, f)
             /\ s # 2
             /\ s = 1 => (i <= n /\ Line(1, i, f)) \/ (i = n + 1 /\ Line(2, 1, f) /\ pd["virt"].pc = "push")
  <2>1. (Out(i, f)' => Out(i, f)) /\ (ToVirt(i, f)' => ToVirt(i, f)) /\ (InClient(i, f)' => InClient(i, f)) /\ ~InVirt(i, f)'
    BY <1>1, <1>4, <1>5 DEF Out, ToVirt, InVirt, InClient, At
  <2>2. ToDriver(i, f)' => (i <= n /\ ToDriver(i, f)) \/ (i = n + 1 /\ InVirt(1, f) /\ pd["virt"].pc = "push")
    <3>1. SUFFICES ASSUME ToDriver(i, f)'
                   PROVE  (i <= n /\ ToDriver(i, f)) \/ (i = n + 1 /\ InVirt(1, f) /\ pd["virt"].pc = "push")
      OBVIOUS
    <3>2. i \in 1 .. Len(q'["dactive"]) /\ f = mem[q'["dactive"][i]] BY <1>1, <3>1 DEF ToDriver
    <3>3. CASE i \in 1 .. n BY <1>6, <3>2, <3>3 DEF ToDriver
    <3>4. CASE i \notin 1 .. n BY <1>6, <3>2, <3>4 DEF InVirt
    <3> QED BY <3>3, <3>4
  <2>3. CASE s = 0 /\ Out(i, f)' BY <2>1, <2>3 DEF Line
  <2>4. CASE s = 1 /\ ToDriver(i, f)' BY <2>2, <2>4 DEF Line
  <2>5. CASE s = 3 /\ ToVirt(i, f)' BY <2>1, <2>5 DEF Line
  <2>6. CASE s = 4 /\ InClient(i, f)' BY <2>1, <2>6 DEF Line
  <2> QED BY <1>7, <2>1, <2>3, <2>4, <2>5, <2>6 DEF Line
<1>. HIDE DEF n
<1>8. ASSUME NEW s \in Nat, NEW i \in Nat, NEW f \in Nat, Line(s, i, f)'
      PROVE  s < 2 \/ (s = 2 /\ At("virt", "push")') => made[f] = "frame"
  <2>1. CASE s = 0 \/ (s = 1 /\ Line(1, i, f)) BY <1>7, <1>8, <2>1 DEF Ordered
  <2>2. CASE Line(2, 1, f) /\ pd["virt"].pc = "push" BY <2>2 DEF Ordered, At
  <2> QED BY <1>7, <1>8, <2>1, <2>2, SMTT(20)
<1>9. \A s, i, f \in Nat : Line(s, i, f)' =>
          /\ s \notin {1, 2} => Line(s, i, f)
          /\ s = 2 => Line(2, i + 1, f)
          /\ s = 1 => (i <= n /\ Line(s, i, f)) \/ (i = n + 1 /\ Line(2, 1, f))
          /\ s < 2 \/ (s = 2 /\ At("virt", "push")') => made[f] = "frame"
  BY <1>7, <1>8
<1>10. 2 \in 1 .. 4 /\ 1 \in 0 .. 3 /\ 1 = 2 - 1 /\ made' = made BY <1>1
<1> QED BY <1>6, <1>9, <1>10, AdvanceOrdered

\* The driver copies the first frame of its queue to the device, or drops it.
LEMMA SendOrdered ==
    ASSUME TypeOK, Ordered, NEW room \in BOOLEAN, SendOne(room)
    PROVE  Ordered'
<1> DEFINE n == Len(q["dactive"])
           m == Len(sent)
           e == mem[Head(q["dactive"])]
<1>1. /\ Take("driver", "dactive", "give_back") /\ UNCHANGED <<made, mem>>
      /\ sent' = sent \/ sent' = Append(sent, e)
  BY DEF SendOne
<1>2. /\ DOMAIN pd = Domain /\ "client" \in Domain /\ "driver" \in Domain /\ q \in [Queue -> Seq(Buf)]
      /\ "cactive" \in Queue /\ "dactive" \in Queue /\ "virt" \in Domain /\ sent \in Seq(Nat) /\ mem \in [Buf -> Nat]
  BY DEF TypeOK, Domain, Queue
<1>3. q["dactive"] \in Seq(Buf) /\ q["dactive"] # << >> BY <1>1, <1>2 DEF Take, Empty
<1>4. pd'["virt"] = pd["virt"] /\ pd'["client"] = pd["client"] BY <1>1, <1>2 DEF Take
<1>5. q'["dactive"] = Tail(q["dactive"]) /\ q'["cactive"] = q["cactive"] BY <1>1, <1>2 DEF Take
<1>6. /\ n \in Nat \ {0} /\ Head(q["dactive"]) = q["dactive"][1] /\ q["dactive"][1] \in Buf /\ Len(q'["dactive"]) = n - 1
      /\ \A i \in 1 .. n - 1 : q'["dactive"][i] = q["dactive"][i + 1]
  BY <1>3, <1>5, Popped
<1>7. e \in Nat BY <1>2, <1>6
<1>8. /\ m \in Nat
      /\ \/ sent' = sent
         \/ Len(sent') = m + 1 /\ sent'[m + 1] = e /\ \A i \in 1 .. m : sent'[i] = sent[i]
  <2>1. sent \in Seq(Nat) /\ (sent' = sent \/ sent' = Append(sent, e)) BY <1>1, <1>2
  <2> HIDE DEF e
  <2>2. /\ Len(sent) \in Nat /\ Len(Append(sent, e)) = m + 1 /\ Append(sent, e)[m + 1] = e
        /\ \A i \in 1 .. m : Append(sent, e)[i] = sent[i]
    BY <1>7, <2>1, Pushed
  <2> QED BY <2>1, <2>2
<1>9. ASSUME NEW s \in Nat, NEW i \in Nat, NEW f \in Nat, Line(s, i, f)'
      PROVE  /\ s \notin {0, 1} => Line(s, i, f)
             /\ s = 1 => Line(1, i + 1, f)
             /\ s = 0 => (i <= m /\ Line(0, i, f)) \/ (i = m + 1 /\ Line(1, 1, f))
  <2>1. (InVirt(i, f)' => InVirt(i, f)) /\ (ToVirt(i, f)' => ToVirt(i, f)) /\ (InClient(i, f)' => InClient(i, f))
    BY <1>1, <1>4, <1>5 DEF InVirt, ToVirt, InClient, At
  <2>2. ToDriver(i, f)' => ToDriver(i + 1, f)
    <3>1. SUFFICES ASSUME ToDriver(i, f)' PROVE ToDriver(i + 1, f) OBVIOUS
    <3>2. i \in 1 .. n - 1 /\ f = mem[q'["dactive"][i]] BY <1>1, <1>6, <3>1 DEF ToDriver
    <3> QED BY <1>6, <3>2 DEF ToDriver
  <2>3. Out(i, f)' => (i <= m /\ Out(i, f)) \/ (i = m + 1 /\ ToDriver(1, f))
    <3>1. SUFFICES ASSUME Out(i, f)' PROVE (i <= m /\ Out(i, f)) \/ (i = m + 1 /\ ToDriver(1, f)) OBVIOUS
    <3>2. i \in 1 .. Len(sent') /\ f = sent'[i] BY <3>1 DEF Out
    <3>3. CASE i \in 1 .. m BY <1>8, <3>2, <3>3 DEF Out
    <3>4. CASE i \notin 1 .. m
      <4>1. i = m + 1 /\ f = e BY <1>8, <3>2, <3>4
      <4> QED BY <1>6, <4>1 DEF ToDriver
    <3> QED BY <3>3, <3>4
  <2>4. CASE s = 0 /\ Out(i, f)' BY <2>3, <2>4 DEF Line
  <2>5. CASE s = 1 /\ ToDriver(i, f)' BY <2>2, <2>5 DEF Line
  <2>6. CASE s = 2 /\ InVirt(i, f)' BY <2>1, <2>6 DEF Line
  <2>7. CASE s = 3 /\ ToVirt(i, f)' BY <2>1, <2>7 DEF Line
  <2>8. CASE s = 4 /\ InClient(i, f)' BY <2>1, <2>8 DEF Line
  <2> QED BY <1>9, <2>4, <2>5, <2>6, <2>7, <2>8 DEF Line
<1>. HIDE DEF n, m, e
<1>10. At("virt", "push")' <=> At("virt", "push") BY <1>4 DEF At
<1>11. ASSUME NEW s \in Nat, NEW i \in Nat, NEW f \in Nat, Line(s, i, f)'
       PROVE  s < 2 \/ (s = 2 /\ At("virt", "push")') => made[f] = "frame"
  <2>1. CASE s = 0
    <3>1. Line(0, i, f) \/ Line(1, 1, f) BY <1>9, <1>11, <2>1
    <3> QED BY <3>1 DEF Ordered
  <2>2. CASE s = 1
    <3>1. PICK k \in Nat : k = i + 1 OBVIOUS
    <3>2. Line(1, k, f) BY <1>9, <1>11, <2>2, <3>1
    <3> QED BY <3>2 DEF Ordered
  <2>3. CASE s >= 2 BY <1>9, <1>10, <1>11, <2>3 DEF Ordered
  <2> QED BY <2>1, <2>2, <2>3
<1>12. \A s, i, f \in Nat : Line(s, i, f)' =>
          /\ s \notin {0, 1} => Line(s, i, f)
          /\ s = 1 => Line(1, i + 1, f)
          /\ s = 0 => (i <= m /\ Line(s, i, f)) \/ (i = m + 1 /\ Line(1, 1, f))
          /\ s < 2 \/ (s = 2 /\ At("virt", "push")') => made[f] = "frame"
  BY <1>9, <1>11
<1>13. 1 \in 1 .. 4 /\ 0 \in 0 .. 3 /\ 0 = 1 - 1 /\ made' = made BY <1>1
<1> QED BY <1>8, <1>12, <1>13, AdvanceOrdered

\* The client makes a new frame in a free buffer, which no other frame uses.
LEMMA ConsumeOrdered ==
    ASSUME TypeOK, Owned, Ordered, NEW k \in Kinds, Consume(k)
    PROVE  Ordered'
<1> DEFINE n == Len(made)
           b == Head(q["cfree"])
<1>1. /\ pd["client"].pc = "idle" /\ Take("client", "cfree", "queue") /\ sent' = sent
      /\ made' = Append(made, k) /\ mem' = [mem EXCEPT ![b] = n + 1]
  BY DEF Consume, At
<1>2. /\ DOMAIN pd = Domain /\ "client" \in Domain /\ "virt" \in Domain /\ q \in [Queue -> Seq(Buf)]
      /\ pd["client"] \in Locals("client") /\ pd["virt"] \in Locals("virt") /\ made \in Seq(Kinds) /\ mem \in [Buf -> Nat]
      /\ "cfree" \in Queue /\ "cactive" \in Queue /\ "dactive" \in Queue
  BY DEF TypeOK, Domain, Queue
<1>3. q["cfree"] \in Seq(Buf) /\ q["cfree"] # << >> BY <1>1, <1>2 DEF Take, Empty
<1>4. b \in Buf /\ Lies(b, "cfree", 1) BY <1>3, Popped DEF Lies
<1>5. pd'["client"].pc = "queue" /\ pd'["client"].buf = b /\ pd'["virt"] = pd["virt"] BY <1>1, <1>2 DEF Take, Locals
<1>6. q'["cactive"] = q["cactive"] /\ q'["dactive"] = q["dactive"] BY <1>1, <1>2 DEF Take
<1>7. n \in Nat /\ Len(made') = n + 1 /\ \A i \in 1 .. n : made'[i] = made[i] BY <1>1, <1>2, Pushed
<1>8. mem'[b] = n + 1 /\ \A c \in Buf \ {b} : mem'[c] = mem[c] BY <1>1, <1>2, <1>4
<1>. HIDE DEF b, n
<1>9. ASSUME NEW x \in {"cactive", "dactive"}, NEW i \in 1 .. Len(q[x]) PROVE q[x][i] \in Buf /\ mem'[q[x][i]] = mem[q[x][i]]
  <2>1. x \in Queue /\ x # "cfree" /\ q[x] \in Seq(Buf) BY <1>2
  <2>2. i \in Nat /\ q[x][i] \in Buf BY <2>1, Elements
  <2>3. Lies(q[x][i], x, i) BY SMTT(20) DEF Lies
  <2>4. q[x][i] # b
    <3>1. SUFFICES ASSUME q[x][i] = b PROVE FALSE OBVIOUS
    <3>2. Lies(b, x, i) /\ Lies(b, "cfree", 1) /\ 1 \in Nat BY <1>4, <2>3, <3>1
    <3>3. x = "cfree" BY <1>2, <1>4, <2>1, <2>2, <3>2, Zenon DEF Owned, Distinct
    <3> QED BY <2>1, <3>3
  <2> QED BY <1>8, <2>2, <2>4
<1>10. pd["virt"].pc \in {"reject", "push"} => mem'[pd["virt"].buf] = mem[pd["virt"].buf]
  <2>1. SUFFICES ASSUME pd["virt"].pc \in {"reject", "push"} PROVE mem'[pd["virt"].buf] = mem[pd["virt"].buf] OBVIOUS
  <2>2. pd["virt"].buf \in Buf BY <1>2, <2>1, Places DEF Owned, Hands, Locals
  <2>3. pd["virt"].buf # b BY <1>2, <1>4 DEF Owned, Distinct
  <2> QED BY <1>8, <2>2, <2>3
<1>11. ASSUME NEW s \in Nat, NEW i \in Nat, NEW f \in Nat, Line(s, i, f)'
       PROVE  (s # 4 /\ Line(s, i, f)) \/ (s = 4 /\ i = 1 /\ f = n + 1)
  <2>1. Out(i, f)' => Out(i, f) BY <1>1 DEF Out
  <2>2. ToDriver(i, f)' => ToDriver(i, f) BY <1>6, <1>9, SMTT(20) DEF ToDriver
  <2>3. InVirt(i, f)' => InVirt(i, f) BY <1>5, <1>10 DEF InVirt
  <2>4. ToVirt(i, f)' => ToVirt(i, f) BY <1>6, <1>9 DEF ToVirt
  <2>5. InClient(i, f)' => i = 1 /\ f = n + 1 BY <1>5, <1>8 DEF InClient
  <2> QED BY <1>11, <2>1, <2>2, <2>3, <2>4, <2>5 DEF Line
<1>12. \A s, i, f \in Nat : Line(s, i, f) => f \in 1 .. n BY DEF Ordered, n
<1>13. \A s, i, f \in Nat : Line(s, i, f)' => s \in 0 .. 4 BY DEF Line
<1>14. ASSUME NEW s \in Nat, NEW t \in Nat, NEW i \in Nat, NEW j \in Nat, NEW f \in Nat, NEW g \in Nat,
              Line(s, i, f)', Line(t, j, g)', s < t \/ (s = t /\ i < j)
       PROVE  f < g
  <2>1. s # 4
    <3>1. SUFFICES ASSUME s = 4 PROVE FALSE OBVIOUS
    <3>2. t = 4 /\ i < j BY <1>13, <1>14, <3>1
    <3> QED BY <1>11, <1>14, <3>1, <3>2
  <2>2. Line(s, i, f) /\ f \in 1 .. n BY <1>11, <1>12, <1>14, <2>1
  <2>3. CASE t = 4 BY <1>7, <1>11, <1>14, <2>2, <2>3
  <2>4. CASE t # 4
    <3>1. Line(t, j, g) BY <1>11, <1>14, <2>4
    <3> QED BY <1>14, <2>2, <3>1 DEF Ordered
  <2> QED BY <2>3, <2>4
<1>15. ASSUME NEW s \in Nat, NEW i \in Nat, NEW f \in Nat, Line(s, i, f)' PROVE f \in 1 .. Len(made')
  BY <1>7, <1>11, <1>12, <1>15
<1>16. At("virt", "push")' <=> At("virt", "push") BY <1>5 DEF At
<1>17. ASSUME NEW s \in Nat, NEW i \in Nat, NEW f \in Nat, Line(s, i, f)', s < 2 \/ (s = 2 /\ At("virt", "push")')
       PROVE  made'[f] = "frame"
  <2>1. Line(s, i, f) /\ (s < 2 \/ (s = 2 /\ At("virt", "push"))) BY <1>11, <1>16, <1>17
  <2>2. made[f] = "frame" /\ f \in 1 .. n BY <1>12, <2>1 DEF Ordered
  <2> QED BY <1>7, <2>2
<1> QED BY <1>14, <1>15, <1>17 DEF Ordered

\* Every step keeps the frames in order.
LEMMA OrderedKept ==
    ASSUME TypeOK, Owned, Told, Ordered, ~Empty("cactive") => ~Full("dactive"), [Next]_vars
    PROVE  Ordered'
<1>1. CASE Quiet BY <1>1, QuietOrdered
<1>2. CASE Loud BY <1>2, ConsumeOrdered, QueueOrdered, ProvideOrdered, PushOrdered, SendOrdered DEF Loud
<1> QED BY <1>1, <1>2, ToldKept

-----------------------------------------------------------------------------
(* The start.                                                              *)

\* Before the first step nothing is queued, held or sent.
LEMMA InitInv == Init => Inv
<1>1. SUFFICES ASSUME Init PROVE Inv OBVIOUS
<1>2. /\ DOMAIN pd = Domain /\ pd["client"] = Idle("fill") /\ pd["virt"] = Idle("provide") /\ pd["driver"] = Idle("idle")
      /\ Domain = {"client", "virt", "driver"}
  BY <1>1 DEF Init, Domain
<1>3. \A pc : /\ Idle(pc).pc = pc /\ Idle(pc).badge = FALSE /\ Idle(pc).buf = None
              /\ \A d \in Domain : pc \in Points(d) => Idle(pc) \in Locals(d)
  BY DEF Idle, Locals
<1>4. \A d \in Domain : pd[d].buf = None BY <1>2, <1>3, SMTT(40)
<1>5. /\ q = [x \in Queue |-> << >>] /\ want = Queue /\ made = << >> /\ sent = << >> /\ mem = [b \in Buf |-> 0]
  BY <1>1 DEF Init
<1>6. \A x \in Queue : q[x] = << >> /\ Len(q[x]) = 0 BY <1>5
<1>7. TypeOK
  <2>1. \A d \in Domain : pd[d] \in Locals(d)
    <3>1. "fill" \in Points("client") /\ "provide" \in Points("virt") /\ "idle" \in Points("driver") BY Places
    <3> QED BY <1>2, <1>3, <3>1
  <2>2. \A x \in Queue : 0 <= Capacity(x) BY NetAssumption DEF Capacity
  <2>3. q \in [Queue -> Seq(Buf)] /\ mem \in [Buf -> Nat] BY <1>5
  <2> QED BY <1>2, <1>5, <1>6, <2>1, <2>2, <2>3 DEF TypeOK
<1>8. Owned
  <2>1. pd["client"].pc = "fill" /\ pd["virt"].pc = "provide" /\ pd["driver"].pc = "idle" BY <1>2, <1>3
  <2>2. Hands
    <3>1. pd["client"].pc \notin Holding("client") /\ pd["virt"].pc \notin Holding("virt") /\ pd["driver"].pc \notin Holding("driver")
      BY <2>1, Places
    <3> QED BY <1>2, <1>4, <3>1 DEF Hands
  <2>3. \A b : \A x \in Queue : \A i \in Nat : ~Lies(b, x, i) BY <1>6 DEF Lies
  <2>4. Distinct BY <1>4, <2>3 DEF Distinct
  <2>5. Filled /\ Unfilled BY <1>4, <1>6, <2>1 DEF Filled, Unfilled, At, Empty
  <2> QED BY <2>2, <2>4, <2>5 DEF Owned
<1>9. Ordered
  <2>1. pd["client"].pc = "fill" /\ pd["virt"].pc = "provide" BY <1>2, <1>3
  <2>2. Len(sent) = 0 /\ Len(q["dactive"]) = 0 /\ Len(q["cactive"]) = 0 BY <1>5, <1>6 DEF Queue
  <2>3. \A s, i, f \in Nat : ~Line(s, i, f) BY <2>1, <2>2, SMTT(20) DEF Line, Out, ToDriver, InVirt, ToVirt, InClient, At
  <2> QED BY <2>3 DEF Ordered
<1>10. Told
  <2>1. "dactive" \in want /\ "cactive" \in want /\ "dfree" \in want BY <1>5 DEF Queue
  <2>2. Empty("dactive") /\ Empty("cactive") /\ Empty("dfree") BY <1>6 DEF Empty, Queue
  <2> QED BY <2>1, <2>2 DEF Told, Asked, DriverTold, VirtTold, ReturnTold
<1> QED BY <1>7, <1>8, <1>9, <1>10 DEF Inv

-----------------------------------------------------------------------------
(* Counting the buffers: a queue has room for a buffer that is not in it.  *)

LOCAL INSTANCE SetLemmas

\* A queue without repetitions holds at most all buffers, and fewer when one of
\* them is not in it.
LEMMA QueueRoom ==
    ASSUME TypeOK, Distinct, NEW x \in Queue
    PROVE  /\ Len(q[x]) \in Nat /\ Len(q[x]) <= NumBufs
           /\ \A b \in Buf : (\A i \in Nat : ~Lies(b, x, i)) => Len(q[x]) < NumBufs
<1>1. q[x] \in Seq(Buf) BY DEF TypeOK
<1>2. Len(q[x]) \in Nat /\ \A i \in 1 .. Len(q[x]) : q[x][i] \in Buf BY <1>1, Elements
<1>3. \A i, j \in 1 .. Len(q[x]) : q[x][i] = q[x][j] => i = j BY <1>2 DEF Distinct, Lies
<1>4. IsFiniteSet(Buf) /\ Cardinality(Buf) = NumBufs
  <2>1. NumBufs \in Nat /\ 0 \in Int /\ NumBufs - 1 \in Int BY NetAssumption
  <2>2. IsFiniteSet(0 .. NumBufs - 1) /\ Cardinality(0 .. NumBufs - 1) = IF 0 > NumBufs - 1 THEN 0 ELSE NumBufs - 1 - 0 + 1
    BY <2>1, FS_Interval
  <2> QED BY <2>1, <2>2 DEF Buf
<1>5. Len(q[x]) <= NumBufs
  <2>1. NumBufs \in Nat BY NetAssumption
  <2> QED BY <1>2, <1>3, <1>4, <2>1, Pigeonhole
<1>6. ASSUME NEW b \in Buf, \A i \in Nat : ~Lies(b, x, i) PROVE Len(q[x]) < NumBufs
  <2>1. IsFiniteSet(Buf \ {b}) /\ Cardinality(Buf \ {b}) = NumBufs - 1 BY <1>4, FS_RemoveElement
  <2>2. NumBufs - 1 \in Nat BY NetAssumption DEF Buf
  <2>3. \A i \in 1 .. Len(q[x]) : q[x][i] \in Buf \ {b} BY <1>2, <1>6, SMTT(20) DEF Lies
  <2>4. Len(q[x]) <= NumBufs - 1 BY <1>2, <1>3, <2>1, <2>2, <2>3, Pigeonhole
  <2> QED BY <1>2, <2>4, NetAssumption
<1> QED BY <1>2, <1>5, <1>6

\* There is room for a buffer wherever it is not.
LEMMA Room ==
    ASSUME TypeOK, Distinct, NEW x \in Queue, NEW b \in Buf, \A i \in Nat : ~Lies(b, x, i)
    PROVE  ~Full(x)
<1>1. Len(q[x]) \in Nat /\ Len(q[x]) < NumBufs BY QueueRoom
<1>2. NumBufs <= Capacity(x) /\ Capacity(x) \in Nat /\ NumBufs \in Nat BY NetAssumption DEF Capacity
<1> QED BY <1>1, <1>2 DEF Full

\* What waits for the virtualiser leaves room in the driver's queue.
LEMMA ProvideRoom ==
    ASSUME TypeOK, Distinct, ~Empty("cactive")
    PROVE  ~Full("dactive")
<1>1. q["cactive"] \in Seq(Buf) /\ "cactive" \in Queue /\ "dactive" \in Queue /\ q["cactive"] # << >> BY DEF TypeOK, Queue, Empty
<1>2. Len(q["cactive"]) \in Nat \ {0} /\ q["cactive"][1] \in Buf BY <1>1, Popped
<1>3. Lies(q["cactive"][1], "cactive", 1) BY <1>2 DEF Lies
<1>4. PICK b \in Buf : Lies(b, "cactive", 1) BY <1>2, <1>3
<1>5. \A i \in Nat : ~Lies(b, "dactive", i) BY <1>1, <1>4 DEF Distinct
<1> QED BY <1>1, <1>5, Room

-----------------------------------------------------------------------------
(* The invariant is inductive, and what follows from it.                   *)

\* The inductive step: every step of every domain keeps the invariant.
LEMMA InvKept == Inv /\ [Next]_vars => Inv'
<1>1. SUFFICES ASSUME Inv, [Next]_vars PROVE Inv' OBVIOUS
<1>2. TypeOK /\ Owned /\ Told /\ Ordered BY <1>1 DEF Inv
<1>3. TypeOK' /\ Owned' BY <1>1, <1>2, OwnedKept
<1>4. ~Empty("cactive") => ~Full("dactive") BY <1>2, ProvideRoom DEF Owned
<1>5. Told' BY <1>1, <1>2, <1>4, ToldKept
<1>6. Ordered' BY <1>1, <1>2, <1>4, OrderedKept
<1> QED BY <1>3, <1>5, <1>6 DEF Inv

\* Whoever holds a buffer finds room for it in every queue: it is in none.
LEMMA HeldFits ==
    ASSUME TypeOK, Owned, NEW d \in Domain, pd[d].pc \in Holding(d), NEW x \in Queue
    PROVE  ~Full(x)
<1>1. pd[d].buf \in Buf BY DEF TypeOK, Locals, Owned, Hands
<1>2. \A i \in Nat : ~Lies(pd[d].buf, x, i) BY DEF Owned, Distinct
<1>3. Distinct BY DEF Owned
<1> QED BY <1>1, <1>2, <1>3, Room, SMTT(20)

\* No assert of the path fails.
LEMMA NeverPanics == ASSUME TypeOK, Owned PROVE NoPanic
<1>1. "client" \in Domain /\ "virt" \in Domain /\ "driver" \in Domain BY DEF Domain
<1>2. "cactive" \in Queue /\ "cfree" \in Queue /\ "dactive" \in Queue /\ "dfree" \in Queue BY DEF Queue
<1>3. At("client", "queue") => ~Full("cactive") BY <1>1, <1>2, HeldFits, Places DEF At
<1>4. pd["virt"].pc \in {"return_free", "reject"} => ~Full("cfree") BY <1>1, <1>2, HeldFits, Places
<1>5. At("virt", "push") => ~Full("dactive") BY <1>1, <1>2, HeldFits, Places DEF At
<1>6. At("driver", "give_back") => ~Full("dfree") BY <1>1, <1>2, HeldFits, Places DEF At
<1> QED BY <1>3, <1>4, <1>5, <1>6 DEF NoPanic

\* A buffer's places are its one queue place or its one holder.
LEMMA Owners == ASSUME TypeOK, Owned PROVE OneOwner
<1>1. SUFFICES ASSUME ~At("client", "fill"), NEW b \in Buf
               PROVE  \/ One(InQueues(b)) /\ InHands(b) = {}
                      \/ One(InHands(b)) /\ InQueues(b) = {}
  BY DEF OneOwner
<1>2. Somewhere(b) /\ b # None BY <1>1, BufNone DEF Owned, Filled
<1>3. /\ \A x, y \in Queue : \A i, j \in Nat : Lies(b, x, i) /\ Lies(b, y, j) => x = y /\ i = j
      /\ \A x \in Queue : \A i \in Nat : \A d \in Domain : pd[d].buf = b => ~Lies(b, x, i)
      /\ \A d, e \in Domain : pd[d].buf = b /\ pd[e].buf = b => d = e
  BY <1>2 DEF Owned, Distinct
<1>4. \A x \in Queue : Len(q[x]) \in Nat /\ Len(q[x]) <= NumBufs BY QueueRoom DEF Owned
<1>5. NumBufs \in Nat BY NetAssumption
<1>6. \A x \in Queue : \A i \in Nat : Lies(b, x, i) <=> <<x, i>> \in InQueues(b)
  BY <1>4, <1>5 DEF Lies, InQueues
<1>7. InQueues(b) \subseteq Queue \X Nat BY <1>5 DEF InQueues
<1>8. CASE \E x \in Queue, i \in Nat : Lies(b, x, i)
  <2>1. PICK x \in Queue, i \in Nat : Lies(b, x, i) BY <1>8
  <2>2. InHands(b) = {} BY <1>3, <2>1 DEF InHands
  <2>3. ASSUME NEW p \in InQueues(b) PROVE p = <<x, i>>
    <3>1. PICK y \in Queue, j \in Nat : p = <<y, j>> BY <1>7
    <3>2. Lies(b, y, j) BY <1>6, <3>1
    <3> QED BY <1>3, <2>1, <3>1, <3>2
  <2>4. <<x, i>> \in InQueues(b) BY <1>6, <2>1
  <2>5. One(InQueues(b)) BY <2>3, <2>4, Zenon DEF One
  <2> QED BY <2>2, <2>5
<1>9. CASE \E d \in Domain : pd[d].buf = b
  <2>1. PICK d \in Domain : pd[d].buf = b BY <1>9
  <2>2. d \in InHands(b) /\ \A e \in InHands(b) : e = d BY <1>3, <2>1 DEF InHands
  <2>3. One(InHands(b)) BY <2>2, Zenon DEF One
  <2>4. InQueues(b) = {}
    <3>1. SUFFICES ASSUME NEW p \in InQueues(b) PROVE FALSE OBVIOUS
    <3>2. PICK y \in Queue, j \in Nat : p = <<y, j>> BY <1>7
    <3>3. Lies(b, y, j) BY <1>6, <3>1, <3>2
    <3> QED BY <1>3, <2>1, <3>3
  <2> QED BY <2>3, <2>4
<1> QED BY <1>2, <1>8, <1>9 DEF Somewhere

\* When all three domains rest, no told queue holds anything.
LEMMA Unstranded == ASSUME Told PROVE NothingStranded
<1>1. SUFFICES ASSUME Resting PROVE Empty("cactive") /\ Empty("dactive") /\ Empty("dfree")
  BY DEF NothingStranded, Queue
<1>2. /\ pd["client"].pc = "idle" /\ pd["virt"].pc = "idle" /\ pd["driver"].pc = "idle"
      /\ ~pd["virt"].badge /\ ~pd["driver"].badge
  BY <1>1 DEF Resting, Domain, At
<1>3. Empty("dactive") BY <1>2 DEF Told, DriverTold, At
<1>4. Empty("cactive") BY <1>2 DEF Told, VirtTold, At
<1>5. Empty("dfree") BY <1>2 DEF Told, ReturnTold, At
<1> QED BY <1>3, <1>4, <1>5

\* What was sent is the first stage of the line.
LEMMA SentInOrder == ASSUME TypeOK, Ordered PROVE InOrder
<1>1. Len(sent) \in Nat /\ \A i \in 1 .. Len(sent) : sent[i] \in Nat BY Elements DEF TypeOK
<1>2. \A i \in 1 .. Len(sent) : i \in Nat /\ Line(0, i, sent[i]) BY <1>1 DEF Line, Out
<1>3. ASSUME NEW i \in 1 .. Len(sent) PROVE made[sent[i]] = "frame" BY <1>1, <1>2 DEF Ordered
<1>4. ASSUME NEW i \in 1 .. Len(sent), NEW j \in 1 .. Len(sent), i < j PROVE sent[i] < sent[j]
  BY <1>1, <1>2, <1>4 DEF Ordered
<1> QED BY <1>3, <1>4 DEF InOrder

\* The invariant holds in every state of every run of the path.
THEOREM NetInvariant == Spec => []Inv
  BY InitInv, InvKept, PTL DEF Spec

\* Every variable of the path keeps its type, and no queue, whatever the number
\* of buffers, ever holds more than its capacity.
THEOREM NetTypes == Spec => []TypeOK
<1>1. Inv => TypeOK BY DEF Inv
<1> QED BY <1>1, NetInvariant, PTL

\* For every number of buffers: no assert of the client, the virtualiser or the
\* driver fails, every buffer has exactly one owner once the client has filled
\* its queue, and no frame or buffer is left waiting when all three rest.
THEOREM NetBuffersOwned == Spec => []BuffersOwned
<1>1. Inv => BuffersOwned BY NeverPanics, Owners, Unstranded DEF Inv, BuffersOwned
<1> QED BY <1>1, NetInvariant, PTL

\* For every number of buffers and frames: the device is given the frames in the
\* order the client made them, none twice and none that buffer_ok refuses.
THEOREM NetInOrder == Spec => []InOrder
<1>1. Inv => InOrder BY SentInOrder DEF Inv
<1> QED BY <1>1, NetInvariant, PTL

=============================================================================
