------------------------------ MODULE Console ------------------------------
(***************************************************************************)
(* console-driver and console-shell: scan codes and USB bytes become bytes *)
(* of one queue, the shell drains it, keeps a line, runs its menu and      *)
(* writes the screen through the driver, which shows what changed.  A byte *)
(* is a token: a character, "cr" "nl" "bs" "del" "esc", or a text's        *)
(* stand-in ("menu", "prompt", ...), one cell wide.                        *)
(***************************************************************************)
EXTENDS Integers, Sequences, SequencesExt

CONSTANTS Bytes,     \* bytes a program may write
          Rows, Cols, \* the page
          LineMax,   \* bytes of a line
          RxLen,     \* bytes of the driver's queue
          Loads      \* [usb, keys, codes, ahead, bytes, disk]: is the USB keyboard in charge; which
                     \* scan codes [key, up, ext] are typed, how many, how many before they are
                     \* handled; bytes a program writes instead of the shell; is there a disk result

VARIABLES dev,       \* keyboard, VGA page
          drv,       \* HandlerImpl of the driver
          q          \* notifications, and the shell

vars == <<dev, drv, q>>

Digit(b) == b \in {"0", "1", "2"}
Blank == " "
Page == [r \in 1 .. Rows |-> [c \in 1 .. Cols |-> Blank]]

-----------------------------------------------------------------------------
(* The screen: what a byte does to the cells, and which cells are then      *)
(* written to the page ("none", "all" or one cell).                         *)

Damage(s, d) == [s |-> s, d |-> d]

\* Mutant: a scroll is not reported.
newlineMutant(s) == IF s.row < Rows THEN Damage([s EXCEPT !.row = @ + 1, !.col = 1], "none")
                    ELSE Damage([s EXCEPT !.col = 1, !.cells = [r \in 1 .. Rows |-> IF r = Rows THEN Page[r] ELSE @[r + 1]]],
                                "none")

\* newline and scroll; rows and columns count from one.
newline(s) == IF s.row < Rows THEN Damage([s EXCEPT !.row = @ + 1, !.col = 1], "none")
              ELSE Damage([s EXCEPT !.col = 1, !.cells = [r \in 1 .. Rows |-> IF r = Rows THEN Page[r] ELSE @[r + 1]]],
                          "all")

\* A full row wraps when the next character comes.
put(s, b) == LET n == IF s.col > Cols THEN newline(s) ELSE Damage(s, "none")
                 t == n.s IN
             Damage([t EXCEPT !.cells[t.row][t.col] = b, !.col = @ + 1],
                    IF n.d = "all" THEN "all" ELSE <<t.row, t.col>>)

home(s) == [s EXCEPT !.row = 1, !.col = 1]

ground(s, b) ==
  CASE b = "esc" -> Damage([s EXCEPT !.ansi = "esc"], "none")
    [] b = "cr" -> Damage([s EXCEPT !.col = 1], "none")
    [] b = "nl" -> newline(s)
    [] b = "bs" -> Damage([s EXCEPT !.col = IF @ > 1 THEN @ - 1 ELSE @], "none")
    [] b = "del" -> Damage(s, "none")
    [] OTHER -> put(s, b)

\* A sequence takes the last digit before its letter.
bracket(s, b) ==
  IF Digit(b) THEN Damage([s EXCEPT !.ansi = b], "none")
  ELSE LET t == [s EXCEPT !.ansi = "ground"] IN
       IF b = "H" THEN Damage(home(t), "none")
       ELSE IF b = "J" /\ s.ansi = "2" THEN Damage(home([t EXCEPT !.cells = Page]), "all") ELSE Damage(t, "none")

apply_byte(s, b) ==
  CASE s.ansi = "ground" -> ground(s, b)
    [] s.ansi = "esc" -> Damage([s EXCEPT !.ansi = IF b = "[" THEN "bracket" ELSE "ground"], "none")
    [] OTHER -> bracket(s, b)

\* What is damaged goes to the page v.
present(v, r) == IF r.d = "all" THEN r.s.cells
                 ELSE IF r.d = "none" THEN v ELSE [v EXCEPT ![r.d[1]][r.d[2]] = r.s.cells[r.d[1]][r.d[2]]]

-----------------------------------------------------------------------------
\* with_banner; the shell's init says its menu.
Banner == [Page EXCEPT ![1][1] = "banner"]

Init ==
  /\ \E load \in Loads :
       q = [load |-> load, irq |-> {}, badge |-> {}, told |-> {}, pc |-> "idle", mode |-> "menu", line |-> << >>,
            overflow |-> FALSE, ssid |-> << >>, page |-> << >>, lines |-> << >>, codes |-> 0, bytes |-> 0,
            out |-> <<"menu", "nl">>, prompt |-> << >>, clean |-> TRUE, disk |-> FALSE]
  /\ dev = [ps2 |-> << >>, usb |-> << >>, vga |-> Banner]
  /\ drv = [keys |-> [shift |-> FALSE, ext |-> FALSE], rx |-> << >>, notify |-> TRUE, screen |-> [cells |-> Banner, row |-> 2, col |-> 1, ansi |-> "ground"]]

\* scancode::decode: a prefix swallows the next code, releases and shifts give nothing.
\* A shifted key is another character, of which no command is made: "upper".
decode(k, c) ==
  CASE k.ext -> [k |-> [k EXCEPT !.ext = FALSE], out |-> << >>]
    [] c.ext -> [k |-> [k EXCEPT !.ext = TRUE], out |-> << >>]
    [] c.key = "shift" -> [k |-> [k EXCEPT !.shift = ~c.up], out |-> << >>]
    [] OTHER -> [k |-> k, out |-> IF c.up THEN << >> ELSE <<IF k.shift /\ c.key \notin {"cr", "del"} THEN "upper" ELSE c.key>>]

push_back(rx, out) == IF Len(rx) < RxLen THEN rx \o out ELSE rx

\* Mutant: the client is told only of a byte that comes alone.
TellsMutant(d) == d.notify /\ Len(d.rx) = 1

\* The client is told of bytes once, until it takes one.
Tells(d) == d.notify /\ d.rx # << >>

\* notified: USB bytes first, then the PS/2 codes until none is left, which are
\* thrown away while the USB keyboard is in charge; then the client is told.
Notified ==
  /\ q.badge # {}
  /\ \/ /\ "usb" \in q.badge /\ dev.usb # << >>
        /\ dev' = [dev EXCEPT !.usb = Tail(@)]
        /\ drv' = [drv EXCEPT !.rx = push_back(@, <<Head(dev.usb)>>)]
        /\ UNCHANGED q
     \/ /\ ~("usb" \in q.badge /\ dev.usb # << >>) /\ "ps2" \in q.badge /\ dev.ps2 # << >>
        /\ dev' = [dev EXCEPT !.ps2 = Tail(@)]
        /\ IF q.load.usb THEN UNCHANGED drv
           ELSE LET r == decode(drv.keys, Head(dev.ps2)) IN
                drv' = [drv EXCEPT !.keys = r.k, !.rx = push_back(@, r.out)]
        /\ UNCHANGED q
     \/ /\ ~("usb" \in q.badge /\ dev.usb # << >>) /\ ~("ps2" \in q.badge /\ dev.ps2 # << >>)
        /\ drv' = [drv EXCEPT !.notify = @ /\ ~Tells(drv)]
        /\ q' = [q EXCEPT !.badge = {}, !.irq = @ \ q.badge, !.told = IF Tells(drv) THEN @ \cup {"console"} ELSE @]
        /\ UNCHANGED dev

-----------------------------------------------------------------------------
(* The shell, whose record is r.  What it says goes to the driver a byte a  *)
(* call, and the shell waits for the calls.                                 *)

Says(r, text) == [r EXCEPT !.out = @ \o text]
Prompts(r, mode, text) ==
  [r EXCEPT !.out = @ \o text, !.mode = mode, !.prompt = IF Last(text) = "nl" THEN << >> ELSE <<Last(text)>>, !.clean = TRUE]

trim(line) == LET I == {i \in DOMAIN line : line[i] # Blank} IN
              IF I = {} THEN << >> ELSE SubSeq(line, Min(I), Max(I))

key_ok(ssid, psk) == Len(psk) >= 2 /\ ssid # << >>
wifi_err(r) == Prompts(r, "menu", <<"werr", "nl", "menu", "nl">>)

dispatch_menu(r, line) ==
  CASE line = <<"1">> -> Prompts(r, "menu", <<"none", "nl", "menu", "nl">>)
    [] line = <<"2">> -> Prompts(r, "maths", <<"m>">>)
    [] line = <<"3">> -> Prompts([r EXCEPT !.ssid = << >>], "ssid", <<"s>">>)
    [] OTHER -> Prompts(r, "menu", <<"err", "nl", "menu", "nl">>)

dispatch_ssid(r, line) ==
  IF line = <<"quit">> THEN Prompts(r, "menu", <<"menu", "nl">>)
  ELSE IF line # << >> THEN Prompts([r EXCEPT !.ssid = line], "psk", <<"sok", "nl", "p>">>)
  ELSE wifi_err(r)

\* Mutant: a bad key asks for the key again.
dispatch_pskMutant(r, line) ==
  IF line = <<"quit">> THEN Prompts(r, "menu", <<"menu", "nl">>)
  ELSE IF key_ok(r.ssid, line) THEN Prompts([r EXCEPT !.page = <<r.ssid, line>>], "menu", <<"pok", "nl", "menu", "nl">>)
  ELSE Prompts(r, "psk", <<"werr", "nl", "p>">>)

\* post_wifi writes the page and tells the Wi-Fi domain.
dispatch_psk(r, line) ==
  IF line = <<"quit">> THEN Prompts(r, "menu", <<"menu", "nl">>)
  ELSE IF key_ok(r.ssid, line) THEN Prompts([r EXCEPT !.page = <<r.ssid, line>>], "menu", <<"pok", "nl", "menu", "nl">>)
  ELSE wifi_err(r)

dispatch_maths(r, line) ==
  IF line = <<"quit">> THEN Prompts(r, "menu", <<"menu", "nl">>)
  ELSE Prompts(r, "maths", <<IF line = << >> THEN "merr" ELSE "value", "nl", "m>">>)

reject(r) ==
  CASE r.mode = "menu" -> Prompts(r, "menu", <<"err", "nl", "menu", "nl">>)
    [] r.mode = "maths" -> Prompts(r, "maths", <<"merr", "nl", "m>">>)
    [] OTHER -> wifi_err(r)

dispatch(r, line) ==
  CASE r.mode = "menu" -> dispatch_menu(r, line) [] r.mode = "maths" -> dispatch_maths(r, line)
    [] r.mode = "ssid" -> dispatch_ssid(r, line) [] r.mode = "psk" -> dispatch_psk(r, line)

\* Mutant: the line is not emptied before it is run.
EnterMutant(r) == LET t == Says(r, <<"nl">>)  line == trim(r.line) IN
  [IF r.overflow THEN reject(t) ELSE dispatch(t, line) EXCEPT !.overflow = FALSE, !.lines = Append(@, line)]

Enter(r) == LET t == [Says(r, <<"nl">>) EXCEPT !.line = << >>, !.overflow = FALSE, !.lines = Append(@, trim(r.line))] IN
            IF r.overflow THEN reject(t) ELSE dispatch(t, trim(r.line))

on_byte(r, b) ==
  CASE b = "nl" -> r
    [] b = "cr" -> Enter(r)
    [] b = "del" -> IF r.line = << >> \/ r.overflow THEN r
                    ELSE [Says(r, <<"bs", Blank, "bs">>) EXCEPT !.line = Front(@)]
    [] Len(r.line) = LineMax -> [r EXCEPT !.overflow = TRUE]
    [] OTHER -> [Says(r, <<b>>) EXCEPT !.line = Append(@, b)]

\* emit_disk, once its result is there.
emit_disk(r) == IF r.disk \/ ~r.load.disk THEN r ELSE [Says(r, <<"disk", "nl">>) EXCEPT !.disk = TRUE, !.clean = FALSE]

ShellNotified ==
  /\ q.badge = {} /\ q.out = << >> /\ q.pc = "idle" /\ q.told # {}
  /\ q' = [q EXCEPT !.pc = IF "console" \in q.told THEN "drain" ELSE "disk",
                    !.told = IF "disk" \in @ THEN {"disk"} ELSE {}]
  /\ UNCHANGED <<dev, drv>>

\* drain: one Request::Read and what the shell does with its byte.
Drain ==
  /\ q.badge = {} /\ q.out = << >> /\ q.pc = "drain"
  /\ IF drv.rx = << >> THEN q' = [q EXCEPT !.pc = IF "disk" \in q.told THEN "disk" ELSE "idle"] /\ UNCHANGED <<dev, drv>>
     ELSE /\ q' = on_byte(q, Head(drv.rx))
          /\ drv' = [drv EXCEPT !.rx = Tail(@), !.notify = TRUE]
          /\ UNCHANGED dev

Disk ==
  /\ q.badge = {} /\ q.out = << >> /\ q.pc = "disk"
  /\ q' = [emit_disk(q) EXCEPT !.pc = "idle", !.told = @ \ {"disk"}]
  /\ UNCHANGED <<dev, drv>>

\* emit: Request::Write of the next byte.
Paint ==
  /\ q.badge = {} /\ q.out # << >>
  /\ LET r == apply_byte(drv.screen, Head(q.out)) IN
     dev' = [dev EXCEPT !.vga = present(@, r)] /\ drv' = [drv EXCEPT !.screen = r.s]
  /\ q' = [q EXCEPT !.out = Tail(@)]

-----------------------------------------------------------------------------
(* The keyboards, the disk result, and a program that writes any bytes      *)
(* (external).                                                              *)

Type ==
  /\ q.codes < q.load.codes /\ Len(dev.ps2) + Len(dev.usb) + Len(drv.rx) < q.load.ahead
  /\ \E c \in q.load.keys :
       IF q.load.usb /\ ~c.up /\ ~c.ext /\ c.key # "shift"
       THEN /\ dev' = [dev EXCEPT !.usb = Append(@, c.key)]
            /\ q' = [q EXCEPT !.codes = @ + 1, !.irq = @ \cup {"usb"}]
       ELSE /\ dev' = [dev EXCEPT !.ps2 = Append(@, c)]
            /\ q' = [q EXCEPT !.codes = @ + 1, !.irq = @ \cup {"ps2"}]
  /\ UNCHANGED drv

Interrupt == q.irq \ q.badge # {} /\ q' = [q EXCEPT !.badge = q.irq] /\ UNCHANGED <<dev, drv>>

DiskResult == q.load.disk /\ ~q.disk /\ q.told = {} /\ q' = [q EXCEPT !.told = {"disk"}] /\ UNCHANGED <<dev, drv>>

Program ==
  /\ q.bytes < q.load.bytes /\ q.out = << >>
  /\ \E b \in Bytes : q' = [q EXCEPT !.bytes = @ + 1, !.clean = FALSE, !.out = <<b>>]
  /\ UNCHANGED <<dev, drv>>

Steps == Notified \/ ShellNotified \/ Drain \/ Disk \/ Paint \/ Interrupt
Next == Steps \/ Type \/ DiskResult \/ Program
Spec == Init /\ [][Next]_vars /\ WF_vars(Steps)

-----------------------------------------------------------------------------
\* Cursor, receive deque and shell stay within their arrays.
TypeOK ==
  /\ drv.screen.row \in 1 .. Rows /\ drv.screen.col \in 1 .. Cols + 1 /\ Len(drv.rx) <= RxLen
  /\ Len(q.line) <= LineMax /\ q.mode \in {"menu", "maths", "ssid", "psk"} /\ q.pc \in {"idle", "drain", "disk"}

\* The page shows the cells: what apply_byte reports as damaged is all it changed.
Presented == dev.vga = drv.screen.cells

\* The row of the cursor shows the prompt and the line as it will be run, edits
\* included, while nothing else wrote and the line fits the row.
EchoMatches ==
  q.clean /\ q.out = << >> /\ Len(q.prompt) + Len(q.line) <= Cols =>
    LET shown == q.prompt \o q.line IN
    /\ drv.screen.col = Len(shown) + 1
    /\ SubSeq(drv.screen.cells[drv.screen.row], 1, Cols) = shown \o [i \in 1 .. Cols - Len(shown) |-> Blank]

\* The key handed to the Wi-Fi domain is two lines entered one after the other.
PostsWhatWasTyped ==
  q.page # << >> => \E i \in 1 .. Len(q.lines) - 1 : q.page = <<q.lines[i], q.lines[i + 1]>>

\* Bytes wait only for a shell that is told or draining.
NoStuckKey == q.badge = {} /\ drv.rx # << >> => "console" \in q.told \/ q.pc = "drain"

\* A code or a byte is on its way.
Busy == q.irq # {} \/ drv.rx # << >> \/ q.pc # "idle" \/ q.out # << >>
=============================================================================
