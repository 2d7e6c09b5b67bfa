-------------------------------- MODULE Shell -------------------------------
(***************************************************************************)
(* The shell domain (userspace/pds/sddf-shell/src/main.rs), in two         *)
(* machines.                                                               *)
(*                                                                         *)
(* The file commands (Init, Next): the commands of the prompt that work on *)
(* files, and source, which reads a file and dispatches its lines.  A line *)
(* is a value; Cmd is what split_first and one_name make of it.  A step is *)
(* one operation of Files; the block device may fail in it, and then the   *)
(* server answers an error and no later command of the client is answered. *)
(*                                                                         *)
(* The session (SessionInit, SessionNext): the prompt with the status      *)
(* commands of the fs boards and the small commands of the fetch boards,   *)
(* the seeded file the web boards serve first, and the menu of the browser *)
(* boards.  A byte typed is a word, "cr" or "lf", so that LINE_MAX counts  *)
(* words; a said message is its text and the line end, two bytes of the    *)
(* log.  How the files, the clock, the network and the screen answer is    *)
(* chosen once.  The socket programs are Sockets; the arithmetic and the   *)
(* date stand below by themselves.                                         *)
(***************************************************************************)
EXTENDS PosixFiles

CONSTANTS Cmd(_),     \* line -> [op, from, to, text]
          Order,      \* Name as a sequence: the entries of the root
          Commands,   \* commands typed
          Disks,      \* volumes the shell may start on
          ListMax     \* names of one listing

VARIABLES fs, prog

vars == <<fs, prog>>

Nothing == Done(0, << >>)
Idle == [op |-> "none", from |-> Root, to |-> Root, text |-> << >>]

Init ==
  \E v \in Disks :
    /\ fs = Bound(v)
    /\ prog = [at |-> "prompt", cmd |-> Idle, fd |-> 0, got |-> Nothing, lines |-> << >>,
               sourcing |-> FALSE, ran |-> FALSE, before |-> v, said |-> TRUE]

\* reply: back to the prompt, or to the script the command came from.
Reply(ok) ==
  prog' = [prog EXCEPT !.at = IF prog.sourcing THEN "lines" ELSE "prompt", !.said = ok,
                       !.fd = 0, !.got = Nothing]

\* The stage a command starts at.
FirstStage(c) ==
  CASE c.op \in {"write", "edit", "cat", "backup", "source"} -> "open"
    [] c.op \in {"mkdir", "rm", "mv", "stat"} -> "name"
    [] c.op = "ls" -> "opendir"
    [] OTHER -> "unknown"

\* dispatch.
Dispatch(c, p) == [p EXCEPT !.at = FirstStage(c), !.cmd = c, !.before = fs.vol]

\* worker: read_line, then dispatch.
ReadLine ==
  /\ prog.at = "prompt"
  /\ \E c \in Commands : prog' = Dispatch(c, prog)
  /\ UNCHANGED fs

\* A word no dispatcher takes, or arguments a command does not.
Unknown == prog.at = "unknown" /\ Reply(FALSE) /\ UNCHANGED fs

How(c) == IF c.op \in {"write", "edit"} THEN "create" ELSE "read"

\* The open of write, edit, cat, backup and source; source takes its flag first.
OpenStep ==
  /\ prog.at = "open" /\ ~(prog.cmd.op = "source" /\ prog.sourcing) /\ fs.up
  /\ \E r \in Served(fs, Open(fs, prog.cmd.from, How(prog.cmd))) :
       /\ fs' = r.fs
       /\ IF r.ok THEN prog' = [prog EXCEPT !.at = "io", !.fd = r.val] ELSE Reply(FALSE)

\* Mutant: source does not look at its flag.
SourceNestedMutant ==
  /\ prog.at = "open" /\ prog.cmd.op = "source" /\ prog.sourcing
  /\ prog' = [prog EXCEPT !.lines = fs.vol[prog.cmd.from].text \o @, !.at = "lines"]
  /\ UNCHANGED fs

\* cmd_source inside a script: the flag is set, so it is refused.
SourceNested ==
  prog.at = "open" /\ prog.cmd.op = "source" /\ prog.sourcing /\ Reply(FALSE) /\ UNCHANGED fs

\* Mutant: a failed read returns before the close.
IoStepMutant ==
  /\ prog.at = "io" /\ fs.up
  /\ \E r \in Served(fs, IF How(prog.cmd) = "create" THEN Write(fs, prog.fd, prog.cmd.text)
                         ELSE Read(fs, prog.fd, SectorLen)) :
       /\ fs' = r.fs
       /\ IF r.ok /\ r.val # << >> THEN prog' = [prog EXCEPT !.got = r, !.at = "close"]
          ELSE Reply(FALSE)

\* The one read or write.
IoStep ==
  /\ prog.at = "io" /\ fs.up
  /\ \E r \in Served(fs, IF How(prog.cmd) = "create" THEN Write(fs, prog.fd, prog.cmd.text)
                         ELSE Read(fs, prog.fd, SectorLen)) :
       fs' = r.fs /\ prog' = [prog EXCEPT !.got = r, !.at = "close"]

\* After the close.  What backup has read it writes to its second name the way
\* write does; source goes on with the lines.
AfterClose ==
  LET c == prog.cmd
      nothing == ~prog.got.ok \/ prog.got.val = << >>
  IN CASE c.op \in {"write", "edit"} -> Reply(prog.got.ok /\ prog.got.val = Len(c.text))
       [] c.op = "cat" -> Reply(prog.got.ok)
       [] c.op \in {"backup", "source"} /\ nothing -> Reply(FALSE)
       [] c.op = "backup" ->
            prog' = [prog EXCEPT !.at = "open", !.cmd = [c EXCEPT !.op = "write", !.from = c.to,
                                                           !.text = prog.got.val],
                                 !.fd = 0, !.got = Nothing]
       [] OTHER -> prog' = [prog EXCEPT !.at = "lines", !.lines = prog.got.val, !.sourcing = TRUE,
                                        !.fd = 0, !.got = Nothing]

\* close: its result is ignored.
CloseStep == prog.at = "close" /\ fs.up /\ fs' = Close(fs, prog.fd).fs /\ AfterClose

\* mkdir, mv, rm and stat.
NameStep ==
  /\ prog.at = "name" /\ fs.up
  /\ LET c == prog.cmd
         answer == CASE c.op = "mkdir" -> Mkdir(fs, c.from) [] c.op = "rm" -> Unlink(fs, c.from)
                     [] c.op = "mv" -> Rename(fs, c.from, c.to) [] c.op = "stat" -> Stat(fs, c.from)
     IN \E r \in Served(fs, answer) : fs' = r.fs /\ Reply(r.ok)

-----------------------------------------------------------------------------
(* list_dir.  got.val holds the names found so far, sorted on insertion.    *)

ListOpen ==
  /\ prog.at = "opendir" /\ fs.up
  /\ \E r \in Served(fs, OpenDir(fs, prog.cmd.from, Order)) :
       /\ fs' = r.fs
       /\ IF r.ok THEN prog' = [prog EXCEPT !.at = "readdir", !.fd = r.val, !.got = Done(0, {})]
          ELSE Reply(FALSE)

\* insert: a name beyond ListMax ends the listing with an error.
ListRead ==
  /\ prog.at = "readdir" /\ fs.up
  /\ \E r \in Served(fs, ReadDir(fs, prog.fd)) :
       /\ fs' = r.fs
       /\ prog' = IF ~r.ok \/ (r.val # None /\ Cardinality(prog.got.val) = ListMax)
                  THEN [prog EXCEPT !.at = "closedir", !.got.ok = FALSE]
                  ELSE IF r.val = None THEN [prog EXCEPT !.at = "closedir"]
                  ELSE [prog EXCEPT !.got.val = @ \cup {r.val}]

ListClose == prog.at = "closedir" /\ fs.up /\ fs' = CloseDir(fs, prog.fd).fs /\ Reply(prog.got.ok)

-----------------------------------------------------------------------------
(* source_file: an empty line is skipped, one longer than the line buffer   *)
(* ends the script, and cmd_source clears its flag either way.              *)

EndSource(ok) ==
  prog' = [prog EXCEPT !.at = "prompt", !.sourcing = FALSE, !.lines = << >>,
                       !.ran = FALSE, !.said = ok, !.cmd = Idle]

SourceLine ==
  /\ prog.at = "lines"
  /\ IF prog.lines = << >> THEN EndSource(prog.ran)
     ELSE LET c == Cmd(Head(prog.lines))
              rest == [prog EXCEPT !.lines = Tail(@)]
          IN CASE c.op = "empty" -> prog' = rest
               [] c.op = "long" -> EndSource(FALSE)
               [] OTHER -> prog' = [Dispatch(c, rest) EXCEPT !.ran = TRUE]
  /\ UNCHANGED fs

\* An exchange with a server whose worker has ended never returns.
Stuck ==
  /\ ~fs.up /\ prog.at \in {"open", "io", "close", "name", "opendir", "readdir", "closedir"}
  /\ UNCHANGED vars

Step ==
  \/ OpenStep \/ SourceNested \/ IoStep \/ CloseStep \/ NameStep
  \/ ListOpen \/ ListRead \/ ListClose \/ SourceLine \/ Unknown

Next == ReadLine \/ Step \/ Stuck

Spec == Init /\ [][Next]_vars /\ WF_vars(Step)

-----------------------------------------------------------------------------
\* The volume, the program and its descriptors hold known values.
TypeOK ==
  /\ prog.at \in {"prompt", "open", "io", "close", "name", "opendir", "readdir", "closedir", "lines",
                  "unknown"}
  /\ prog.sourcing \in BOOLEAN /\ Len(prog.lines) <= 2 * SectorLen
  /\ fs.file \in Name \cup {Hostname, None} /\ DOMAIN fs.slots = Fd /\ DOMAIN fs.vol = Name

\* Every path of every command closes what it opened: at the prompt and
\* between the lines of a script nothing is open on either side, and at every
\* other time client and server agree.  (The server has one file: one leak and
\* every later open is refused.)
NothingLeftOpen ==
  /\ fs.up => HandlesAgree(fs)
  /\ fs.up /\ prog.at \in {"prompt", "lines", "opendir", "name"} => NothingOpen(fs)

Kept(names) == \A n \in Name \ names : fs.vol[n] = prog.before[n]

\* What the shell reports is what happened: a command that said ok has done what
\* it says and touched no other name, one that said err has changed nothing.
ReportsTruly ==
  (fs.up /\ prog.at \in {"prompt", "lines"} /\ prog.cmd.op # "source") =>
    LET c == prog.cmd IN
      CASE c.op = "none" -> TRUE
        [] ~prog.said -> Kept({})
        [] c.op \in {"write", "edit"} -> fs.vol[c.from] = File(c.text) /\ Kept({c.from})
        [] c.op = "mkdir" -> fs.vol[c.from] = Directory /\ Kept({c.from})
        [] c.op = "rm" -> fs.vol[c.from] = Absent /\ Kept({c.from})
        [] c.op = "mv" -> fs.vol[c.to] = prog.before[c.from] /\ Kept({c.from, c.to})
        [] OTHER -> Kept({})

\* The prompt comes back after every command, a script that sources itself
\* included, as long as the file server answers.
Busy == prog.at # "prompt" /\ fs.up
PromptReturns == []<>~Busy

-----------------------------------------------------------------------------
(* The session.                                                             *)

CONSTANTS Loads,     \* per behaviour: board, typed (a sequence of bytes), roles and the answers
          LINE_MAX,  \* words of a line
          LOG_CAP,   \* bytes of the log
          RxLen      \* bytes of the receive queue

VARIABLES dev,  \* what is not typed yet, the receive queue
          drv,  \* the worker: where it is, its line, the log, what was sent
          q     \* load

session == <<dev, drv, q>>

Load == Loads[q.load]

Message(text) == <<text, "end">>

----------------------------------------------------------------------------
(* init: the pages of the image are checked and the worker runs.  A worker  *)
(* whose files do not bind ends.                                            *)
FirstPc(load) ==
    CASE ~load.bind -> "ended"
      [] load.bind /\ load.board = "web" -> "seed"
      [] load.bind /\ load.board = "browser" -> "menu"
      [] load.bind /\ load.board \in {"fs", "fetch"} -> "ready"

SessionInit ==
    \E l \in DOMAIN Loads :
        /\ q = [load |-> l]
        /\ dev = [typed |-> 0, rx |-> <<>>]
        /\ drv = [pc |-> FirstPc(Loads[l]), line |-> <<>>, over |-> FALSE, log |-> <<>>, out |-> <<>>]

(* store_serial: the log keeps what fits and is not emptied. *)
store_serialMutant(log, bytes) ==  \* Mutant: the oldest bytes make room
    LET all == log \o bytes
    IN  IF Len(all) <= LOG_CAP THEN all ELSE SubSeq(all, Len(all) - LOG_CAP + 1, Len(all))

store_serial(log, bytes) ==
    LET all == log \o bytes IN IF Len(all) <= LOG_CAP THEN all ELSE SubSeq(all, 1, LOG_CAP)

emit(d, bytes) == [d EXCEPT !.out = @ \o bytes]

say(d, bytes) ==
    [emit(d, bytes) EXCEPT !.log = IF Load.board = "fs" THEN store_serial(@, bytes) ELSE @]

----------------------------------------------------------------------------
(* The commands.  Each is what it says for the rest of its line. *)
reply(ok, name) == Message(IF ok THEN name \o " ok" ELSE name \o " err")

cmd_config(rest) ==
    IF rest = <<"get", "hostname">> /\ Load.file = "some" THEN Message("hostname") ELSE Message("config err")

(* A protected call that answers nothing, or a clock at zero, is no date. *)
cmd_date(rest) == IF rest = <<>> /\ Load.clock > 0 THEN Message("date") ELSE Message("date err")

say_role(n) == Message(Load.roles[n])

cmd_table(rest, name) ==
    LET f[n \in 0 .. Len(Load.roles)] == IF n = 0 THEN <<>> ELSE f[n - 1] \o say_role(n)
    IN  IF rest = <<>> THEN f[Len(Load.roles)] \o Message(name \o " ok") ELSE Message(name \o " err")

cmd_reboot(rest) == IF rest = <<>> THEN Message("reboot") ELSE Message("reboot err")

cmd_cert(rest) == reply(rest = <<>> /\ Load.cert, "cert")

cmd_calc(rest) == IF rest = <<"1+2">> THEN Message("calc 3") ELSE Message("calc err")

cmd_mkdir(rest) == reply(Len(rest) = 1 /\ Load.file = "some", "mkdir")

dispatch_file(cmd, rest) == IF cmd = "mkdir" THEN cmd_mkdir(rest) ELSE <<>>

dispatch_fetch(cmd, rest) ==
    CASE cmd = "calc" -> cmd_calc(rest)
      [] cmd = "cert" -> cmd_cert(rest)
      [] OTHER -> <<>>

dispatch_fs_board(cmd, rest) ==
    CASE cmd = "config" -> cmd_config(rest)
      [] cmd = "date" -> cmd_date(rest)
      [] cmd \in {"ps", "qos"} -> cmd_table(rest, cmd)
      [] cmd = "reboot" -> cmd_reboot(rest)
      [] OTHER -> <<>>

(* What dispatch says for a line, dmesg aside. *)
Says(line) ==
    LET cmd == Head(line)
        rest == Tail(line)
        file == dispatch_file(cmd, rest)
        other == CASE Load.board = "fetch" -> dispatch_fetch(cmd, rest)
                   [] Load.board = "fs" -> dispatch_fs_board(cmd, rest)
                   [] OTHER -> <<>>
    IN  IF line = <<>> THEN Message("err")
        ELSE IF file # <<>> THEN file ELSE IF other # <<>> THEN other ELSE Message("err")

(* cmd_dmesg sends the log without adding it to the log. *)
cmd_dmesgMutant(d, rest) ==  \* Mutant: the dump is said, and so stored
    IF rest = <<>> THEN say(d, d.log) ELSE say(d, Message("dmesg err"))

cmd_dmesg(d, rest) == IF rest = <<>> THEN emit(d, d.log) ELSE say(d, Message("dmesg err"))

dispatch(d, line) ==
    IF Load.board = "fs" /\ line # <<>> /\ Head(line) = "dmesg" THEN cmd_dmesg(d, Tail(line))
    ELSE say(d, Says(line))

----------------------------------------------------------------------------
(* The menu of the browser boards: browse shows the title, then the page;   *)
(* maths evaluates lines until quit.                                        *)
page_title == IF Load.title \in {"none", "empty", "long"} THEN "err" ELSE "title"

browse ==
    (IF ~Load.fetch \/ page_title = "err" THEN Message("title err") ELSE Message("title"))
        \o (IF Load.screen THEN Message("pixel") ELSE Message("pixel err"))

Evaluated(line) == IF line = <<"1+2">> THEN Message("maths 3") ELSE Message("maths err")

app_menu(d, line) ==
    CASE line \in {<<"1">>, <<"browser">>} -> [say(d, browse) EXCEPT !.pc = "menu"]
      [] line \in {<<"2">>, <<"maths">>} -> [d EXCEPT !.pc = "maths"]
      [] OTHER -> [say(d, Message("err")) EXCEPT !.pc = "menu"]

maths_replMutant(d, line) ==  \* Mutant: one sum ends the session
    [say(d, Evaluated(line)) EXCEPT !.pc = "menu"]

maths_repl(d, line) ==
    IF line = <<"quit">> THEN [d EXCEPT !.pc = "menu"] ELSE [say(d, Evaluated(line)) EXCEPT !.pc = "maths"]

----------------------------------------------------------------------------
(* What the worker says before it reads: the menu, the prompt of the maths  *)
(* session, or once that the shell is ready.                                *)
Prompt ==
    /\ drv.pc \in {"ready", "menu", "maths"}
    /\ drv' = CASE drv.pc = "ready" -> [say(drv, Message("ready")) EXCEPT !.pc = "line"]
                [] drv.pc = "menu" -> [say(drv, Message("menu")) EXCEPT !.pc = "choice"]
                [] drv.pc = "maths" -> [say(drv, <<"maths>">>) EXCEPT !.pc = "sum"]
    /\ UNCHANGED <<dev, q>>

(* serve_seeded_file: without a seed, or a socket, the shell starts anyway. *)
serve_seeded_file ==
    /\ drv.pc = "seed"
    /\ drv' = [say(drv, CASE Load.file # "some" \/ ~Load.listen -> Message("web err")
                          [] Load.file = "some" /\ Load.listen /\ Load.serve -> Message("web listening")
                          [] Load.file = "some" /\ Load.listen /\ ~Load.serve ->
                                 Message("web listening") \o Message("web err"))
               EXCEPT !.pc = "ready"]
    /\ UNCHANGED <<dev, q>>

(* A whole line, at its carriage return; one that did not fit is empty. *)
WholeMutant == drv.line  \* Mutant: a line that did not fit is cut

Whole == IF drv.over THEN <<>> ELSE drv.line

Reading == drv.pc \in {"line", "choice", "sum"}

read_line ==
    LET byte == Head(dev.rx)
        fresh == [drv EXCEPT !.line = <<>>, !.over = FALSE]
    IN  /\ Reading /\ dev.rx # <<>>
        /\ drv' = CASE byte = "lf" -> drv
                    [] byte = "cr" /\ drv.pc = "line" -> dispatch(fresh, Whole)
                    [] byte = "cr" /\ drv.pc = "choice" -> app_menu(fresh, Whole)
                    [] byte = "cr" /\ drv.pc = "sum" -> maths_repl(fresh, Whole)
                    [] byte \notin {"cr", "lf"} /\ Len(drv.line) = LINE_MAX -> [drv EXCEPT !.over = TRUE]
                    [] byte \notin {"cr", "lf"} /\ Len(drv.line) < LINE_MAX -> [drv EXCEPT !.line = Append(@, byte)]
        /\ dev' = [dev EXCEPT !.rx = Tail(@)]
        /\ UNCHANGED q

(* The receive virtualiser delivers a byte while the queue has room. *)
Typed ==
    /\ dev.typed < Len(Load.typed) /\ Len(dev.rx) < RxLen
    /\ dev' = [typed |-> dev.typed + 1, rx |-> Append(dev.rx, Load.typed[dev.typed + 1])]
    /\ UNCHANGED <<drv, q>>

SessionSteps == Prompt \/ serve_seeded_file \/ read_line

SessionNext == SessionSteps \/ Typed

SessionSpec == SessionInit /\ [][SessionNext]_session /\ WF_session(SessionSteps) /\ WF_session(Typed)

----------------------------------------------------------------------------
(* The type invariant. *)
SessionTypeOK ==
    /\ drv.pc \in {"ended", "seed", "ready", "line", "menu", "choice", "maths", "sum"}
    /\ Len(drv.line) <= LINE_MAX /\ Len(drv.log) <= LOG_CAP /\ Len(dev.rx) <= RxLen

(* The lines typed so far and read: what stood between carriage returns,    *)
(* line feeds aside.                                                        *)
ReadSoFar == SelectSeq(SubSeq(Load.typed, 1, dev.typed - Len(dev.rx)), LAMBDA b : b # "lf")

Ends(s) == {n \in DOMAIN s : s[n] = "cr"}

LineAt(s, n) ==
    LET start == CHOOSE m \in 0 .. n - 1 :
                     (m = 0 \/ s[m] = "cr") /\ \A k \in m + 1 .. n - 1 : s[k] # "cr"
    IN  SubSeq(s, start + 1, n - 1)

(* The dumps of the log, and what the lines before n said otherwise. *)
IsDump(s, n) == LineAt(s, n) = <<"dmesg">>

SaidAt(s, n) ==
    LET line == LineAt(s, n)
    IN  CASE Len(line) > LINE_MAX -> Message("err")
          [] Len(line) <= LINE_MAX /\ line # <<>> /\ Head(line) = "dmesg" -> Message("dmesg err")
          [] OTHER -> Says(line)

SaidBefore(s, n) ==
    LET f[m \in 0 .. n] ==
            IF m = 0 THEN Message("ready")
            ELSE IF m \in Ends(s) /\ m < n /\ ~IsDump(s, m) THEN f[m - 1] \o SaidAt(s, m) ELSE f[m - 1]
    IN  f[n]

SentBy(s) ==
    LET cut(b) == SubSeq(b, 1, IF Len(b) < LOG_CAP THEN Len(b) ELSE LOG_CAP)
        f[m \in 0 .. Len(s)] ==
            IF m = 0 THEN Message("ready")
            ELSE IF m \notin Ends(s) THEN f[m - 1]
            ELSE f[m - 1] \o (IF IsDump(s, m) THEN cut(SaidBefore(s, m)) ELSE SaidAt(s, m))
    IN  f[Len(s)]

(* On an fs board every line typed has its own answer, in order, a line too *)
(* long is refused as a whole, and each dmesg shows the first bytes said    *)
(* since the start, no dump among them (read_line, dispatch, store_serial,  *)
(* cmd_dmesg).                                                              *)
AnswersEachLine ==
    Load.board = "fs" /\ drv.pc = "line" => drv.out = SentBy(ReadSoFar)

(* The prompts of the browser boards: a menu before each choice and a maths *)
(* prompt before each sum; only 2 or maths leads into the session and only  *)
(* quit out of it (app_menu, maths_repl).                                   *)
PromptsFollow ==
    LET s == ReadSoFar
        after(m, line) == CASE m = "menu" /\ line \in {<<"2">>, <<"maths">>} -> "maths>"
                            [] m = "maths>" /\ line = <<"quit">> -> "menu"
                            [] OTHER -> m
        f[n \in 0 .. Len(s)] ==
            IF n = 0 THEN <<"menu">>
            ELSE IF s[n] # "cr" THEN f[n - 1]
            ELSE Append(f[n - 1], after(f[n - 1][Len(f[n - 1])], LineAt(s, n)))
    IN  Load.board = "browser" /\ Reading =>
            SelectSeq(drv.out, LAMBDA c : c \in {"menu", "maths>"}) = f[Len(s)]

(* Something is typed that the worker has not answered. *)
SessionBusy == drv.pc # "ended" /\ ~(Reading /\ dev.rx = <<>> /\ dev.typed = Len(Load.typed))

-----------------------------------------------------------------------------
(***************************************************************************)
(* The two computations of the shell.                                      *)
(*                                                                         *)
(* The integer expressions of the calc command and the maths session       *)
(* (userspace/crates/lerux-calc): a recursive-descent parser that          *)
(* evaluates as it reads, in saturating arithmetic of a fixed width.  An   *)
(* input is a sequence of characters that grows as it is typed.  The       *)
(* evaluator is compared with a definition that reads the expression from  *)
(* the outside in, splitting it at its last operator.                      *)
(*                                                                         *)
(* The time the date command shows (userspace/crates/lerux-sddf timer.rs): *)
(* counter ticks become nanoseconds, nanoseconds a day number, and the day *)
(* number a calendar date.  The clock advances day by day beside a         *)
(* calendar that only knows how long a month is; a second is scaled to     *)
(* NS_PER_S units and a counter of 64 bits to TicksMax.                    *)
(***************************************************************************)

CONSTANTS Chars,   \* the characters typed
          LenMax,  \* length of a typed input
          Longer,  \* longer inputs, taken whole
          MAX      \* i64::MAX

VARIABLE text

MIN == -MAX - 1

Digits == {"0", "1", "2", "3", "4", "5", "6", "7", "8", "9"}

DigitOf == [c \in Digits |-> CHOOSE n \in 0 .. 9 : <<"0", "1", "2", "3", "4", "5", "6", "7", "8", "9">>[n + 1] = c]

Sat(n) == IF n > MAX THEN MAX ELSE IF n < MIN THEN MIN ELSE n

(* Division truncates toward zero. *)
Quot(a, b) ==
    LET abs(n) == IF n < 0 THEN -n ELSE n
        m == abs(a) \div abs(b)
    IN  IF (a < 0) # (b < 0) THEN -m ELSE m

(* A parser result: the position after what was read, and a value, an error *)
(* or a panic (an overflowing division traps).                              *)
Val(i, v) == [i |-> i, k |-> "val", v |-> v]
Err(i) == [i |-> i, k |-> "err", v |-> 0]
Panic(i) == [i |-> i, k |-> "panic", v |-> 0]

----------------------------------------------------------------------------
RECURSIVE skip(_, _)
skip(s, i) == IF i <= Len(s) /\ s[i] = " " THEN skip(s, i + 1) ELSE i

peek(s, i) == IF skip(s, i) <= Len(s) THEN s[skip(s, i)] ELSE "end"

bump(s, i) == skip(s, i) + 1

RECURSIVE parse_number(_, _, _)
parse_number(s, i, value) ==
    IF i <= Len(s) /\ s[i] \in Digits
    THEN parse_number(s, i + 1, Sat(Sat(value * 10) + DigitOf[s[i]]))
    ELSE Val(i, value)

RECURSIVE parse_expr(_, _), parse_term(_, _), parse_factor(_, _), Sum(_, _), Product(_, _)

parse_factor(s, i) ==
    LET c == peek(s, i)
        n == bump(s, i)
    IN  CASE c = "(" -> LET e == parse_expr(s, n)
                        IN  IF e.k # "val" THEN e
                            ELSE IF peek(s, e.i) = ")" THEN Val(bump(s, e.i), e.v) ELSE Err(e.i)
          [] c = "+" -> parse_factor(s, n)
          [] c = "-" -> LET f == parse_factor(s, n)
                        IN  IF f.k = "val" THEN Val(f.i, Sat(-f.v)) ELSE f
          [] c \in Digits -> parse_number(s, skip(s, i), 0)
          [] OTHER -> Err(i)

(* value /= right is checked for a divisor of zero, not for the one quotient *)
(* that does not fit.                                                        *)
Divided(i, a, b) == IF b = 0 THEN Err(i) ELSE IF a = MIN /\ b = -1 THEN Panic(i) ELSE Val(i, Quot(a, b))

(* The loop of parse_term: the product so far is left. *)
Product(s, left) ==
    LET c == peek(s, left.i)
        f == parse_factor(s, bump(s, left.i))
    IN  IF left.k # "val" \/ c \notin {"*", "/"} THEN left
        ELSE IF f.k # "val" THEN f
        ELSE Product(s, IF c = "*" THEN Val(f.i, Sat(left.v * f.v)) ELSE Divided(f.i, left.v, f.v))

parse_term(s, i) == Product(s, parse_factor(s, i))

(* The loop of parse_expr. *)
SumMutant(s, left) ==  \* Mutant: the rest of the sum is read first
    LET c == peek(s, left.i)
        t == parse_expr(s, bump(s, left.i))
    IN  IF left.k # "val" \/ c \notin {"+", "-"} THEN left
        ELSE IF t.k # "val" THEN t
        ELSE Val(t.i, Sat(IF c = "+" THEN left.v + t.v ELSE left.v - t.v))

Sum(s, left) ==
    LET c == peek(s, left.i)
        t == parse_term(s, bump(s, left.i))
    IN  IF left.k # "val" \/ c \notin {"+", "-"} THEN left
        ELSE IF t.k # "val" THEN t
        ELSE Sum(s, Val(t.i, Sat(IF c = "+" THEN left.v + t.v ELSE left.v - t.v)))

parse_expr(s, i) == Sum(s, parse_term(s, i))

eval(s) ==
    LET e == parse_expr(s, 1)
    IN  IF e.k = "val" /\ skip(s, e.i) # Len(s) + 1 THEN Err(e.i) ELSE e

----------------------------------------------------------------------------
(* The reference.  A binary operator follows, spaces aside, a digit or a    *)
(* closing parenthesis; Depth counts the parentheses open before it.        *)
Depth(s, i) ==
    Cardinality({j \in 1 .. i - 1 : s[j] = "("}) - Cardinality({j \in 1 .. i - 1 : s[j] = ")"})

Binary(s, ops) ==
    {i \in DOMAIN s : /\ s[i] \in ops /\ Depth(s, i) = 0
                      /\ \E j \in 1 .. i - 1 : /\ s[j] \in Digits \union {")"}
                                               /\ \A k \in j + 1 .. i - 1 : s[k] = " "}

Apply(op, a, b) ==
    IF a.k # "val" THEN a ELSE IF b.k # "val" THEN b
    ELSE CASE op = "+" -> Val(0, Sat(a.v + b.v))
           [] op = "-" -> Val(0, Sat(a.v - b.v))
           [] op = "*" -> Val(0, Sat(a.v * b.v))
           [] op = "/" -> Divided(0, a.v, b.v)

Number(s) ==
    LET f[n \in 0 .. Len(s)] == IF n = 0 THEN 0 ELSE Sat(Sat(f[n - 1] * 10) + DigitOf[s[n]])
    IN  f[Len(s)]

RECURSIVE Meaning(_)
Meaning(s) ==
    LET sums == Binary(s, {"+", "-"})
        cuts == IF sums # {} THEN sums ELSE Binary(s, {"*", "/"})
        at == CHOOSE i \in cuts : \A j \in cuts : j <= i
        n == Len(s)
    IN  CASE cuts # {} -> Apply(s[at], Meaning(SubSeq(s, 1, at - 1)), Meaning(SubSeq(s, at + 1, n)))
          [] cuts = {} /\ n = 0 -> Err(0)
          [] cuts = {} /\ n > 0 /\ s[1] = " " -> Meaning(Tail(s))
          [] cuts = {} /\ n > 0 /\ s[1] # " " /\ s[n] = " " -> Meaning(SubSeq(s, 1, n - 1))
          [] cuts = {} /\ n > 0 /\ \A i \in 1 .. n : s[i] \in Digits -> Val(0, Number(s))
          [] cuts = {} /\ n > 0 /\ s[1] = "+" -> Meaning(Tail(s))
          [] cuts = {} /\ n > 0 /\ s[1] = "-" -> Apply("-", Val(0, 0), Meaning(Tail(s)))
          [] cuts = {} /\ n > 1 /\ s[1] = "(" /\ s[n] = ")" /\ (\A i \in 2 .. n : Depth(s, i) > 0) ->
                 Meaning(SubSeq(s, 2, n - 1))
          [] OTHER -> Err(0)

----------------------------------------------------------------------------
CalcInit == text \in {<<>>} \union Longer

Type == Len(text) < LenMax /\ \E c \in Chars : text' = Append(text, c)

CalcNext == Type

CalcSpec == CalcInit /\ [][CalcNext]_text

(* What is typed is typed from the characters of the line. *)
CalcTypeOK == text \in Longer \/ Len(text) <= LenMax

(* The left-to-right evaluation gives what the expression means: the        *)
(* priorities, the association to the left, the signs, the saturation and   *)
(* the refusals of eval agree with the outside-in reading, except that a    *)
(* panic comes before an error further to the right.                        *)
EvalAgrees ==
    LET e == eval(text)
        m == Meaning(text)
    IN  e.k # "panic" => e.k = m.k /\ e.v = m.v

-----------------------------------------------------------------------------
CONSTANTS Starts,    \* days to start from, with their dates
          Walk,      \* days walked from a start
          NS_PER_S,  \* nanoseconds of a second, scaled
          Freqs,     \* frequencies of the counter
          TicksMax

VARIABLES day, date, clock

clocks == <<day, date, clock>>

ticks_to_nsMutant(ticks, freq) ==  \* Mutant: the ticks of the last second are dropped
    IF freq = 0 THEN 0 ELSE (ticks \div freq) * NS_PER_S

ticks_to_ns(ticks, freq) ==
    IF freq = 0 THEN 0
    ELSE (ticks \div freq) * NS_PER_S + ((ticks % freq) * NS_PER_S) \div freq

(* The years of an era count from March, so that the leap day is the last. *)
civil_from_daysMutant(days) ==  \* Mutant: a century is a leap year
    LET z == days + 719468
        doe == z % 146097
        yoe == (doe - doe \div 1460 - doe \div 146096) \div 365
        doy == doe - (365 * yoe + yoe \div 4)
        mp == (5 * doy + 2) \div 153
        month == IF mp < 10 THEN mp + 3 ELSE mp - 9
        y == yoe + (z \div 146097) * 400
    IN  [y |-> IF month <= 2 THEN y + 1 ELSE y, m |-> month, d |-> doy - (153 * mp + 2) \div 5 + 1]

civil_from_days(days) ==
    LET z == days + 719468
        era == z \div 146097
        doe == z - era * 146097
        yoe == (doe - doe \div 1460 + doe \div 36524 - doe \div 146096) \div 365
        y == yoe + era * 400
        doy == doe - (365 * yoe + yoe \div 4 - yoe \div 100)
        mp == (5 * doy + 2) \div 153
        month == IF mp < 10 THEN mp + 3 ELSE mp - 9
    IN  [y |-> IF month <= 2 THEN y + 1 ELSE y, m |-> month, d |-> doy - (153 * mp + 2) \div 5 + 1]

----------------------------------------------------------------------------
Leap(y) == y % 4 = 0 /\ (y % 100 = 0 => y % 400 = 0)

MonthLength(y, m) ==
    IF m = 2 THEN (IF Leap(y) THEN 29 ELSE 28) ELSE IF m \in {4, 6, 9, 11} THEN 30 ELSE 31

Tomorrow(t) ==
    CASE t.d < MonthLength(t.y, t.m) -> [t EXCEPT !.d = @ + 1]
      [] t.d = MonthLength(t.y, t.m) /\ t.m < 12 -> [t EXCEPT !.d = 1, !.m = @ + 1]
      [] t.d = MonthLength(t.y, t.m) /\ t.m = 12 -> [y |-> t.y + 1, m |-> 1, d |-> 1]

DateInit ==
    /\ \E s \in Starts : day = [at |-> s.at, to |-> s.at + Walk] /\ date = s.date
    /\ \E f \in Freqs : clock = [freq |-> f, ticks |-> 0]

(* A day passes, and the counter counts. *)
Pass ==
    /\ day.at < day.to
    /\ day' = [day EXCEPT !.at = @ + 1] /\ date' = Tomorrow(date)
    /\ clock' = [clock EXCEPT !.ticks = IF @ < TicksMax THEN @ + 1 ELSE @]

DateNext == Pass

DateSpec == DateInit /\ [][DateNext]_clocks

(* The date of a day number is the one a walk through the calendar reaches, *)
(* across month ends, leap days and centuries (civil_from_days).            *)
DateRight == civil_from_days(day.at) = date

(* The nanoseconds of a tick count are exact to the tick and never go back  *)
(* (ticks_to_ns).                                                           *)
TimeRight ==
    LET ns == ticks_to_ns(clock.ticks, clock.freq)
    IN  IF clock.freq = 0 THEN ns = 0
        ELSE /\ ns * clock.freq <= clock.ticks * NS_PER_S
             /\ (ns + 1) * clock.freq > clock.ticks * NS_PER_S
=============================================================================
