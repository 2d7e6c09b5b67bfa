-------------------------------- MODULE Desk --------------------------------
(***************************************************************************)
(* The desk browser's chrome (lerux-desk) behind the desk keyboard         *)
(* (lerux-input): set-1 bytes become key-downs in a ring, keys edit the    *)
(* address line, move the focus, follow links and start loads, and a load  *)
(* lands, fails or comes too late.  What the loader answers and which      *)
(* links a page has is external.                                           *)
(***************************************************************************)
EXTENDS Integers, Sequences, FiniteSets, SequencesExt

(* The addresses of the desk browser (url.rs).  A text is a sequence of     *)
(* tokens: "https", "http", "://", "//" is two slashes, ":", names, ports,  *)
(* "/", "?", "#", ".", "..", "js" for javascript: and " ".  A failed Result *)
(* is Err.                                                                  *)

CONSTANTS Names,     \* DNS names, "host" among them; any other token is no name
          Ports,     \* ports from 1 to 65535
          LINE_CAP   \* tokens of the longest address

Err == <<"err">>
Https == <<"https", "://">>

\* str::find of one of a set of tokens: the index, or the length plus one.
find(s, ts) == IF \E i \in DOMAIN s : s[i] \in ts
               THEN CHOOSE i \in DOMAIN s : s[i] \in ts /\ \A j \in 1 .. i - 1 : s[j] \notin ts ELSE Len(s) + 1
Up(s, i) == SubSeq(s, 1, i - 1)
From(s, i) == SubSeq(s, i, Len(s))
Has(s, t) == find(s, {t}) <= Len(s)
Starts(s, t) == s # << >> /\ s[1] = t
Fits(s) == IF Len(s) <= LINE_CAP THEN s ELSE Err

\* Host names are lower-cased.
Lower(t) == IF t = "HOST" THEN "host" ELSE t

https_rest(text) ==
  LET i == find(text, {"://"}) IN
  IF i > Len(text) THEN text ELSE IF Up(text, i) = <<"https">> THEN From(text, i + 1) ELSE Err

\* is_ipv4, is_dns_name, parse_port on the last colon of the authority.
authority_ok(a) == /\ a # << >> /\ Lower(a[1]) \in Names
                   /\ Len(a) = 1 \/ (Len(a) = 3 /\ a[2] = ":" /\ a[3] \in Ports)

normalize_structure(text) ==
  LET rest == https_rest(text)  end == find(rest, {"/", "?", "#"})  a == Up(rest, end) IN
  IF rest = Err \/ ~authority_ok(a) THEN Err ELSE Fits(Https \o <<Lower(a[1])>> \o Tail(a) \o From(rest, end))

\* policy_allows, host_from_url: the demonstration's one name, or any other.
policy_allows(url, policy) == (url[3] = "host") = (policy = "demo")
normalize(text, policy) ==
  LET url == normalize_structure(text) IN IF url = Err \/ ~policy_allows(url, policy) THEN Err ELSE url

\* split_path_query_fragment and split_href_tail; a missing part is Err.
SplitTail(tail) ==
  LET e == find(tail, {"?", "#"})  r == From(tail, e)  f == find(r, {"#"}) IN
  [path |-> IF e = 1 THEN <<"/">> ELSE Up(tail, e),
   query |-> IF Starts(r, "?") THEN SubSeq(r, 2, f - 1) ELSE Err,
   frag |-> IF f <= Len(r) THEN From(r, f + 1) ELSE Err]
split_url(url) ==
  LET rest == From(url, 3)  e == find(rest, {"/", "?", "#"}) IN [auth |-> Up(rest, e)] @@ SplitTail(From(rest, e))

\* base_directory: up to the last slash.
base_directory(path) == LET i == CHOOSE i \in DOMAIN path : path[i] = "/" /\ \A j \in i + 1 .. Len(path) : path[j] # "/"
                        IN SubSeq(path, 1, i)

\* Mutant: ".." leaves the segment before it.
push_path_segmentMutant(segs, seg) ==
  IF seg \in {<< >>, <<".">>, <<"..">>} THEN segs ELSE Append(segs, seg)
push_path_segment(segs, seg) ==
  IF seg \in {<< >>, <<".">>} THEN segs
  ELSE IF seg = <<"..">> THEN (IF segs = << >> THEN segs ELSE Front(segs)) ELSE Append(segs, seg)

Segments(path) ==
  LET step(acc, t) == IF t = "/" THEN [done |-> push_path_segment(acc.done, acc.cur), cur |-> << >>]
                      ELSE [acc EXCEPT !.cur = Append(@, t)]
      end == FoldLeft(step, [done |-> << >>, cur |-> << >>], path) IN push_path_segment(end.done, end.cur)
Joined(segs) == FoldLeft(LAMBDA acc, s : acc \o (IF acc = <<"/">> THEN << >> ELSE <<"/">>) \o s, <<"/">>, segs)

\* normalize_path_segments, merge_relative_path: a trailing slash is kept.
normalize_path(path) ==
  LET p == Joined(Segments(path)) IN IF path # << >> /\ Last(path) = "/" /\ p # <<"/">> THEN Append(p, "/") ELSE p

render_url(auth, path, query, frag) ==
  Fits(Https \o auth \o path \o (IF query = Err THEN << >> ELSE <<"?">> \o query)
       \o (IF frag \in {Err, << >>} THEN << >> ELSE <<"#">> \o frag))

\* A path reference carries only its own query; a fragment keeps the page's.
join_to_base(base, href) ==
  LET b == split_url(base)  h == SplitTail(href)
      path == IF href[1] \in {"#", "?"} THEN b.path
              ELSE IF href[1] = "/" THEN normalize_path(h.path) ELSE normalize_path(base_directory(b.path) \o h.path) IN
  render_url(b.auth, path, IF href[1] = "#" THEN b.query ELSE h.query, h.frag)

Intent(k, u) == [k |-> k, url |-> u]

\* Mutant: two addresses that differ in the query are one page.
classify_against_baseMutant(base, url) ==
  LET b == split_url(base)  u == split_url(url) IN
  IF url = base THEN Intent("already", << >>)
  ELSE IF b.auth = u.auth /\ b.path = u.path THEN Intent("fragment", url) ELSE Intent("fetch", url)
classify_against_base(base, url) ==
  LET b == split_url(base)  u == split_url(url) IN
  IF url = base THEN Intent("already", << >>)
  ELSE IF b.auth = u.auth /\ b.path = u.path /\ b.query = u.query
       THEN (IF b.frag = Err /\ u.frag = Err THEN Intent("already", << >>) ELSE Intent("fragment", url))
       ELSE Intent("fetch", url)

Classified(base, url) == IF url = Err THEN Intent("rejected", << >>) ELSE classify_against_base(base, url)
finish_intent(base, text) == Classified(base, normalize_structure(text))

\* An empty href drops the page's fragment.
empty_href_intent(base) ==
  LET b == split_url(base)  u == render_url(b.auth, b.path, b.query, Err) IN
  IF b.frag = Err THEN Intent("already", << >>) ELSE IF u = Err THEN Intent("rejected", << >>) ELSE Intent("fragment", u)

trim_ascii(s) == LET inner == {i \in DOMAIN s : s[i] # " "} IN
                 IF inner = {} THEN << >> ELSE SubSeq(s, CHOOSE i \in inner : \A j \in inner : i <= j, CHOOSE i \in inner : \A j \in inner : j <= i)

ResolveTrimmed(base, href) ==
  LET i == find(href, {"://"}) IN
  IF href = << >> THEN empty_href_intent(base)
  ELSE IF href[1] = "js" THEN Intent("script", << >>)
  ELSE IF i <= Len(href) THEN (IF Up(href, i) # <<"https">> THEN Intent("rejected", << >>) ELSE finish_intent(base, href))
  ELSE IF Len(href) > 1 /\ href[1] = "/" /\ href[2] = "/" THEN finish_intent(base, Https \o From(href, 3))
  ELSE IF join_to_base(base, href) = Err THEN Intent("rejected", << >>) ELSE finish_intent(base, join_to_base(base, href))
resolve_href(base, text) == ResolveTrimmed(base, trim_ascii(text))

-----------------------------------------------------------------------------

CONSTANTS KEY_CAP,   \* keys the ring holds
          Loads,     \* a sequence of [policy, boot, keys, presses, finals, hrefs, answers]: what is typed and what the network has
          Fails      \* fetch failures

VARIABLES dev, drv, q
vars == <<dev, drv, q>>

-----------------------------------------------------------------------------
(* The keyboard decoder.                                                    *)

Mods == {"lshift", "rshift", "lctrl", "rctrl"}
Kb0 == [held |-> {}, caps |-> FALSE, ext |-> FALSE, skip |-> 0]

\* apply_modifier: the right Ctrl is the left one's code with the prefix.
Modifier(ext, c) == CASE c = "ctrl" -> IF ext THEN "rctrl" ELSE "lctrl" [] c \in {"lshift", "rshift"} /\ ~ext -> c [] OTHER -> "no"
named(ext, c) == CASE ext /\ c \in {"left", "right", "enter"} -> c [] ~ext /\ c \in {"esc", "bs", "tab", "enter"} -> c [] OTHER -> "no"
\* apply_shift.
Shifted(kb, c) == IF (kb.held \cap {"lshift", "rshift"} # {}) # kb.caps THEN (IF c = "host" THEN "HOST" ELSE c) ELSE c

\* Mutant: the bytes of Pause are decoded.
PauseSkipMutant == 0
PauseSkip == 5

\* from_set1: the new state and the key-down, if any.
from_set1(kb, b) ==
  LET k == [kb EXCEPT !.ext = FALSE]  m == Modifier(kb.ext, b.c)  n == named(kb.ext, b.c)
      ctrl == kb.held \cap {"lctrl", "rctrl"} # {}
      key(c, s) == [kb |-> s, out |-> <<[key |-> c, ctrl |-> ctrl]>>]  none(s) == [kb |-> s, out |-> << >>] IN
  CASE kb.skip > 0 -> none([kb EXCEPT !.skip = @ - 1])
    [] b.c = "e0" -> none([kb EXCEPT !.ext = TRUE])
    [] b.c = "e1" -> none([k EXCEPT !.skip = PauseSkip])
    [] b.up -> none(IF m = "no" THEN k ELSE [k EXCEPT !.held = @ \ {m}])
    [] m # "no" -> none([k EXCEPT !.held = @ \cup {m}])
    [] b.c = "caps" /\ ~kb.ext -> none([k EXCEPT !.caps = ~@])
    [] n # "no" -> key(n, k)
    [] kb.ext \/ b.c \in {"left", "right", "caps"} -> none(k)
    [] OTHER -> key(Shifted(kb, b.c), k)

-----------------------------------------------------------------------------
(* The chrome.                                                              *)

Blank == [k |-> "blank", url |-> << >>]
Failed(why) == [k |-> why, url |-> << >>]
Page(url) == [k |-> "page", url |-> url]
NoEdit == [text |-> << >>, cursor |-> 0, all |-> FALSE]
Idle == [id |-> 0, url |-> << >>]
Out(c, e) == [c |-> c, e |-> e]
NoEffect == [k |-> "none", url |-> << >>, id |-> 0]
Drop(id) == [NoEffect EXCEPT !.k = IF id = 0 THEN "none" ELSE "drop", !.id = id]

\* fresh; the focused link counts from 1, 0 is none.
Fresh == [mode |-> "line", edit |-> NoEdit, shown |-> Blank, flight |-> Idle, focus |-> 0, next |-> 1]

from_url(url, all) == [text |-> url, cursor |-> IF all THEN 0 ELSE Len(url), all |-> all]
set_text(edit, text) == IF Len(text) > LINE_CAP THEN edit ELSE from_url(text, FALSE)

insert(e, ch) ==
  IF e.all THEN from_url(<<ch>>, FALSE)
  ELSE IF Len(e.text) >= LINE_CAP THEN e
  ELSE [e EXCEPT !.text = SubSeq(@, 1, e.cursor) \o <<ch>> \o From(@, e.cursor + 1), !.cursor = @ + 1]
backspace(e) ==
  IF e.all THEN NoEdit ELSE IF e.cursor = 0 THEN e
  ELSE [e EXCEPT !.text = SubSeq(@, 1, e.cursor - 1) \o From(@, e.cursor + 1), !.cursor = @ - 1]
left(e) == [e EXCEPT !.all = FALSE, !.cursor = IF e.all \/ @ = 0 THEN 0 ELSE @ - 1]
right(e) == [e EXCEPT !.all = FALSE, !.cursor = IF e.all \/ @ = Len(e.text) THEN Len(e.text) ELSE @ + 1]

\* alloc_id and start_load: the page stays until the load lands.
start_load(c, url, shown) ==
  Out([c EXCEPT !.mode = "loading", !.edit = NoEdit, !.shown = shown, !.flight = [id |-> c.next, url |-> url], !.focus = 0, !.next = @ + 1],
      [k |-> "commit", url |-> url, id |-> c.next])

\* Mutant: the load in flight is not told.
reject_lineMutant(c) == Out([c EXCEPT !.shown = Failed("not public"), !.flight = Idle], NoEffect)
reject_line(c) == Out([c EXCEPT !.shown = Failed("not public"), !.flight = Idle], Drop(c.flight.id))

\* classify and enter.
enter(c, policy) ==
  LET url == normalize(c.edit.text, policy) IN
  IF c.edit.text = << >> THEN Out(c, NoEffect) ELSE IF url = Err THEN reject_line(c) ELSE start_load(c, url, c.shown)

boot_load(text, policy) == enter([Fresh EXCEPT !.edit = set_text(NoEdit, text)], policy)

on_line_key(c, ev, policy) ==
  IF ev.ctrl THEN Out(c, NoEffect)
  ELSE CASE ev.key = "enter" -> enter(c, policy)
         [] ev.key = "bs" -> Out([c EXCEPT !.edit = backspace(@)], NoEffect)
         [] ev.key = "left" -> Out([c EXCEPT !.edit = left(@)], NoEffect)
         [] ev.key = "right" -> Out([c EXCEPT !.edit = right(@)], NoEffect)
         [] ev.key = "tab" -> Out(c, NoEffect)
         [] OTHER -> Out([c EXCEPT !.edit = insert(@, ev.key)], NoEffect)

\* Ctrl+L.
focus_line(c) ==
  CASE c.mode = "line" -> [c EXCEPT !.edit.all = TRUE, !.edit.cursor = 0]
    [] c.mode = "loading" -> [c EXCEPT !.mode = "line", !.edit = from_url(c.flight.url, TRUE)]
    [] OTHER -> [c EXCEPT !.mode = "line", !.edit = from_url(c.shown.url, TRUE), !.focus = 0]

\* escape and after_escape: back to the page if there is one.
escape(c) ==
  IF c.mode = "reading" THEN Out(c, NoEffect)
  ELSE Out([c EXCEPT !.mode = IF c.shown.k = "page" THEN "reading" ELSE "line", !.focus = 0, !.flight = Idle,
                     !.edit = IF c.shown.k = "page" THEN NoEdit ELSE IF c.mode = "loading" THEN from_url(c.flight.url, FALSE) ELSE @],
           Drop(c.flight.id))

reject_from_page(c, text) ==
  Out([c EXCEPT !.mode = "line", !.edit = set_text(NoEdit, text), !.shown = Failed("not public"), !.focus = 0], NoEffect)

\* activate_focused_link.
Follow(c, href, intent, url) ==
  CASE intent \in {"script", "already"} -> Out(c, NoEffect)
    [] intent = "rejected" \/ url = Err -> reject_from_page(c, trim_ascii(href))
    [] intent = "fetch" -> IF url = c.shown.url THEN Out(c, NoEffect) ELSE start_load(c, url, c.shown)
    [] OTHER -> Out([c EXCEPT !.shown = Page(url), !.focus = 0], NoEffect)
activate(c, href, policy) ==
  LET i == resolve_href(c.shown.url, href) IN Follow(c, href, i.k, normalize(i.url, policy))

\* on_page_key, tab_focus: Tab wraps, Enter follows the focused link.
on_page_key(c, ev, policy, links) ==
  CASE c.mode = "loading" /\ ev.key \in {"tab", "enter"} -> Out(c, NoEffect)
    [] c.mode = "reading" /\ ev.key = "tab" ->
         Out([c EXCEPT !.focus = IF links = << >> THEN 0 ELSE IF @ > Len(links) THEN 1 ELSE (@ % Len(links)) + 1], NoEffect)
    [] c.mode = "reading" /\ ev.key = "enter" ->
         IF c.focus \in DOMAIN links THEN activate(c, links[c.focus], policy) ELSE Out(c, NoEffect)
    [] OTHER -> Out(c, [NoEffect EXCEPT !.k = "page key"])

on_key(c, ev, policy, links) ==
  IF ev.ctrl /\ ev.key = "l" THEN Out(focus_line(c), NoEffect)
  ELSE IF ev.key = "esc" THEN escape(c)
  ELSE IF c.mode = "line" THEN on_line_key(c, ev, policy) ELSE on_page_key(c, ev, policy, links)

\* Mutant: whichever load answers lands.
CurrentMutant(c, id) == c.mode # "reading"
Current(c, id) == c.mode # "reading" /\ c.flight.id = id

\* land: a page goes up under the line as it is; a failure puts its address on it.
land(c, ok, url) ==
  IF ok THEN [c EXCEPT !.mode = IF @ = "line" THEN "line" ELSE "reading", !.shown = Page(url), !.flight = Idle, !.focus = 0]
  ELSE [c EXCEPT !.mode = "line", !.shown = Failed(url), !.flight = Idle,
                 !.edit = IF c.mode = "line" THEN set_text(@, c.flight.url) ELSE from_url(c.flight.url, TRUE)]

-----------------------------------------------------------------------------
Init ==
  /\ \E n \in DOMAIN Loads :
       LET l == Loads[n]  b == boot_load(l.boot, l.policy) IN
       /\ drv = b.c
       /\ q = [load |-> n, left |-> l.presses, want |-> IF b.e.k = "commit" THEN b.e.id ELSE 0, last |-> b.e, stale |-> FALSE,
               answers |-> l.answers, from |-> << >>, href |-> << >>]
       /\ dev = [wire |-> << >>, down |-> {}, kb |-> Kb0, ring |-> << >>, links |-> << >>,
                 out |-> IF b.e.k = "commit" THEN {b.e} ELSE {}]

\* The keyboard driver decodes one byte; KeyRing::push drops into a full ring.
Decode ==
  /\ dev.wire # << >>
  /\ LET r == from_set1(dev.kb, Head(dev.wire)) IN
     dev' = [dev EXCEPT !.wire = Tail(@), !.kb = r.kb, !.ring = IF Len(@) < KEY_CAP THEN @ \o r.out ELSE @]
  /\ UNCHANGED <<drv, q>>

\* KeyRing::pop, Chrome::on_key and what the caller publishes.
Key ==
  /\ dev.ring # << >>
  /\ \E r \in {on_key(drv, Head(dev.ring), Loads[q.load].policy, dev.links)} :
     LET commit == r.e.k = "commit" IN
     /\ drv' = r.c
     /\ dev' = [dev EXCEPT !.ring = Tail(@), !.out = IF commit THEN @ \cup {r.e} ELSE @]
     /\ q' = [q EXCEPT !.last = r.e, !.want = IF commit THEN r.e.id ELSE IF r.e.k = "drop" /\ r.e.id = @ THEN 0 ELSE @,
                       !.from = IF drv.mode = "reading" THEN drv.shown.url ELSE << >>,
                       !.href = IF drv.mode = "reading" /\ drv.focus \in DOMAIN dev.links THEN dev.links[drv.focus] ELSE << >>]

\* Chrome::accept of what the loader answers, now or long after.
Accept ==
  /\ q.answers > 0
  /\ \E l \in dev.out :
       /\ \/ \E url \in Loads[q.load].finals \cup {l.url}, hs \in Loads[q.load].hrefs :
               IF Current(drv, l.id) THEN drv' = land(drv, TRUE, url) /\ dev' = [dev EXCEPT !.out = @ \ {l}, !.links = hs]
               ELSE UNCHANGED drv /\ dev' = [dev EXCEPT !.out = @ \ {l}]
          \/ \E why \in Fails :
               /\ drv' = IF Current(drv, l.id) THEN land(drv, FALSE, why) ELSE drv
               /\ dev' = [dev EXCEPT !.out = @ \ {l}]
       /\ q' = [q EXCEPT !.stale = @ \/ (drv' # drv /\ l.id # q.want), !.want = IF l.id = @ THEN 0 ELSE @, !.answers = @ - 1,
                         !.last = NoEffect, !.from = << >>]

Steps == Decode \/ Key

\* External: fingers.
B(c, up) == [c |-> c, up |-> up]
Bytes(k, up) == CASE k = "rctrl" -> <<B("e0", FALSE), B("ctrl", up)>> [] k = "lctrl" -> <<B("ctrl", up)>>
                  [] k \in {"left", "right"} -> <<B("e0", FALSE), B(k, up)>> [] OTHER -> <<B(k, up)>>
Pause == <<B("e1", FALSE), B("ctrl", FALSE), B("num", FALSE), B("e1", FALSE), B("ctrl", TRUE), B("num", TRUE)>>
Press ==
  /\ q.left > 0 /\ dev.wire = << >> /\ q' = [q EXCEPT !.left = @ - 1]
  /\ \E k \in Loads[q.load].keys :
       dev' = CASE k = "pause" -> [dev EXCEPT !.wire = Pause]
                [] k \in Mods -> [dev EXCEPT !.down = IF k \in @ THEN @ \ {k} ELSE @ \cup {k}, !.wire = Bytes(k, k \in dev.down)]
                [] OTHER -> [dev EXCEPT !.wire = Bytes(k, FALSE)]
  /\ UNCHANGED drv

Next == Steps \/ Accept \/ Press
Spec == Init /\ [][Next]_vars

-----------------------------------------------------------------------------
\* The mode agrees with what is shown and in flight, and the line with its cursor.
TypeOK == /\ drv.mode \in {"line", "loading", "reading"} /\ Len(drv.edit.text) <= LINE_CAP /\ drv.edit.cursor \in 0 .. Len(drv.edit.text)
          /\ (drv.mode = "reading" => drv.shown.k = "page" /\ drv.flight = Idle) /\ (drv.mode = "loading" => drv.flight # Idle)

\* The load in flight is the last one asked for and not given up, and only its
\* answer reaches the screen.
OnlyCurrentLands == ~q.stale /\ drv.flight.id = q.want

\* The segments of a path, and the ones that survive its "..": those after which
\* the ".." never outnumber the other segments.
Raw(path) == LET step(acc, t) == IF t = "/" THEN Append(acc, << >>) ELSE Append(Front(acc), Append(Last(acc), t)) IN
             SelectSeq(FoldLeft(step, <<<< >>>>, path), LAMBDA x : x \notin {<< >>, <<".">>})
Surviving(r) ==
  LET over(i, j) == Cardinality({k \in i + 1 .. j : r[k] = <<"..">>}) > Cardinality({k \in i + 1 .. j : r[k] # <<"..">>})
      keep == {i \in DOMAIN r : r[i] # <<"..">> /\ \A j \in i + 1 .. Len(r) : ~over(i, j)} IN
  [n \in 1 .. Cardinality(keep) |-> r[CHOOSE i \in keep : Cardinality({k \in keep : k < i}) = n - 1]]

\* Every address asked for is a normal https one its policy allows; a link
\* without a host stays with the page's authority and names the path that is
\* left once each ".." has taken the segment before it; and what is taken for a
\* change of the fragment alone is one.
PublicOnly ==
  LET f == split_url(q.from)  h == trim_ascii(q.href)  p == SplitTail(h).path
      hostless == h # << >> /\ ~Has(h, "://") /\ ~(Len(h) > 1 /\ h[1] = "/" /\ h[2] = "/")
      same(u) == <<f.auth, f.path, f.query>> = <<u.auth, u.path, u.query>> IN
  /\ q.last.k = "commit" => normalize(q.last.url, Loads[q.load].policy) = q.last.url
  /\ q.from # << >> /\ q.last.k = "commit" =>
       LET u == split_url(q.last.url) IN
       /\ ~same(u)
       /\ hostless => /\ u.auth = f.auth
                      /\ h[1] \in {"?", "#"} \/ Raw(u.path) = Surviving(Raw(IF h[1] = "/" THEN p ELSE base_directory(f.path) \o p))
  /\ q.from # << >> /\ drv.mode = "reading" => same(split_url(drv.shown.url))

\* The decoder holds exactly the modifiers that are down.
ModifiersHeld == dev.wire = << >> => dev.kb.held = dev.down /\ dev.kb.skip = 0
=============================================================================
