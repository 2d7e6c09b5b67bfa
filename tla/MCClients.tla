------------------------------ MODULE MCClients -----------------------------
(* The programs above the drivers, one part per behaviour.  Above the file   *)
(* server and the network stack: the file commands of sddf-shell, the file   *)
(* tools of sddf-agent, the page between sddf-grok and sddf-agent, the       *)
(* programs of the one socket, the signed modules of sddf-program.  The      *)
(* programs a person meets: the x86 console, the desk, the web server, the   *)
(* prompt of the shell, its calculator and its clock, and the older serial   *)
(* server with its loggers.  The host tools: the image builder, the smoke    *)
(* runner, its log reader, the boot media and the EFI partition's image.     *)
EXTENDS Integers, Sequences

VARIABLES part, dev, drv, q, badge, sem

v == <<part, dev, drv, q, badge, sem>>

File(t) == [kind |-> "file", text |-> t]
Gone == [kind |-> "absent", text |-> << >>]
Dir == [kind |-> "dir", text |-> << >>]
Disk(x, y) == [n \in {"x", "y", "config"} |-> CASE n = "x" -> x [] n = "y" -> y [] OTHER -> Dir]

\* Lines are the two commands a script may hold, an empty and an overlong one.
C(op, from, to, text) == [op |-> op, from |-> from, to |-> to, text |-> text]
MCCmd(l) == CASE l = "rm x" -> C("rm", "x", ".", << >>) [] l = "source y" -> C("source", "y", ".", << >>)
              [] l = "" -> C("empty", ".", ".", << >>) [] OTHER -> C("long", ".", ".", << >>)
Commanded == {C("write", n, ".", <<l>>) : n \in {"x", "y"}, l \in {"rm x", "source y"}}
         \cup {C(op, "x", "y", << >>) : op \in {"cat", "backup", "mv", "mkdir", "stat", "ls", "bad"}}
         \cup {C("source", "y", ".", << >>), C("rm", "y", ".", << >>), C("ls", ".", ".", << >>),
               C("cat", "config/hostname", ".", << >>)}
Scripts == {Disk(Gone, Gone), Disk(File(<<"long", "rm x">>), File(<<"rm x", "source y">>)),
            Disk(File(<< >>), File(<<"", "rm x">>))}

\* A volume that holds two entries is full.
T(kind, name, from, text) == [kind |-> kind, name |-> name, from |-> from, text |-> text]
Asked == {T("read", n, << >>, << >>) : n \in {"x", "config/hostname"}}
         \cup {T("write", n, << >>, t) : n \in {"x", "y", "config"}, t \in {<<1>>, <<2, 1>>, << >>}}
         \cup {T("edit", n, f, t) : n \in {"x", "y"}, f \in {<<1>>, << >>}, t \in {<< >>, <<2, 2>>}}
         \cup {T("list", n, << >>, << >>) : n \in {".", "x", "config"}}
         \cup {T("search", n, <<1>>, << >>) : n \in {".", "config"}} \cup {T("other", "x", << >>, << >>)}
Texts == {Disk(Gone, Gone), Disk(File(<<1, 1, 2>>), Gone), Disk(Dir, Gone), Disk(Gone, File(<<2>>))}
Agents == INSTANCE Agent WITH fs <- dev, tool <- drv, Name <- {"x", "y", "config"}, Config <- "config",
            Hostname <- "config/hostname", Seed <- <<1>>, TableLen <- 2, DataLen <- 3, SectorLen <- 3,
            Entries <- 2, Requests <- Asked, Order <- <<"config", "x", "y">>, ListMax <- 2,
            Disks <- Texts, ResultCap <- 2, page <- dev, grok <- drv, agent <- q, Names <- {"x", "y"},
            LongName <- "long", Kinds <- {"read", "write"}

\* A response is a handshake, a header that declares its length, body records
\* and an alert; whole, short, too long for the caller, without a length, invalid.
R(kind) == [kind |-> kind, len |-> 0]
H(n) == [kind |-> "head", len |-> n]
Sent == {<<R("hs"), H(2), R("body"), R("body")>>, <<R("hs"), H(2), R("body"), R("notify")>>,
         <<R("hs"), H(1), R("body"), R("notify")>>, <<R("hs"), H(3), R("body"), R("body"), R("body")>>,
         <<R("hs"), H(99), R("body"), R("body"), R("body"), R("body")>>, <<R("hs"), R("bad")>>,
         <<R("echo")>>, <<R("body"), R("body"), H(0)>>}
Net == INSTANCE Sockets WITH sk <- dev, prog <- drv, Limit <- 3, Rounds <- 9, PlainCap <- 1, RawCap <- 4,
         OutCap <- 2, ReqCap <- 2, Streams <- Sent,
         Images <- {{"fetch", "chat"}, {"serve"}, {"web_fetch"}}

\* The signed modules: a good pair, and pairs with each fault; a module of four
\* bytes of memory, that calls twice.
B(m, w, n, rest, sig, mod) == [magic |-> m, version |-> w, wasm |-> n, rest |-> rest, signed |-> sig, module |-> mod]
Good == B(TRUE, TRUE, 2, 2, 2, "ok")
Forged == B(TRUE, TRUE, 2, 2, -1, "ok")
Second == {Good, Forged, B(TRUE, TRUE, 2, 2, 2, "bad"), B(TRUE, TRUE, 2, 2, 2, "noexport"), B(FALSE, TRUE, 2, 2, 2, "ok"),
           B(TRUE, FALSE, 2, 2, 2, "ok"), B(TRUE, TRUE, 0, 2, 2, "ok"), B(TRUE, TRUE, 4, 4, 4, "ok"),
           B(TRUE, TRUE, 2, -1, 2, "ok"), B(TRUE, TRUE, 2, 1, 2, "ok"), B(TRUE, TRUE, 1, 1, 2, "ok")}
MCPath(bytes) == CASE bytes = <<0>> -> "config/hostname" [] bytes = <<1>> -> "x" [] bytes = <<2>> -> "y" [] OTHER -> "none"
Range(p, l) == [ptr |-> p, len |-> l]
Guest == INSTANCE WasmProgram WITH fs <- dev, prog <- drv, Name <- {"x", "y", "config"}, Config <- "config",
           Hostname <- "config/hostname", Seed <- <<3, 3, 2>>, TableLen <- 2, DataLen <- 3, SectorLen <- 3, Entries <- 3,
           MaxWasm <- 3, Blobs <- {<<Forged, s>> : s \in Second} \cup {<<Good, Good>>}, Disks <- {Disk(File(<< >>), Gone)},
           Mem <- 4, Ranges <- {Range(0, 1), Range(1, 1), Range(2, 1), Range(1, 3), Range(2, 3), Range(-1, 1), Range(3, -1)},
           Calls <- 2, Path <- MCPath

\* The console: long lines, the disk prompt, editing keys, a USB keyboard that is
\* ready, and a busy client.
K(k) == [key |-> k, up |-> FALSE, ext |-> FALSE]
Up(k) == [K(k) EXCEPT !.up = TRUE]
Keys(u, k, c, a, b, d) == [usb |-> u, keys |-> k, codes |-> c, ahead |-> a, bytes |-> b, disk |-> d]
Keyboards ==
  {Keys(FALSE, {K("3"), K("cr")}, 9, 1, 0, FALSE),
   Keys(FALSE, {K("1"), K("2"), K(" "), K("cr"), K("quit")}, 3, 2, 0, TRUE),
   Keys(FALSE, {K("1"), K("cr"), K("del"), K("shift"), Up("shift"), [K("x") EXCEPT !.ext = TRUE]}, 3, 3, 0, FALSE),
   Keys(TRUE, {K("1"), Up("1"), K("cr")}, 3, 2, 0, FALSE), Keys(FALSE, {}, 0, 0, 4, FALSE)}
Text == INSTANCE Console WITH Bytes <- {"a", "esc", "[", "2", "J", "H", "nl", "bs", "cr"}, Rows <- 3,
          Cols <- 3, LineMax <- 3, RxLen <- 2, Loads <- Keyboards

\* The desk: two loads with focus and Escape, editing, links of up to three
\* tokens against a base with a path and a query, the demo policy, modifiers.
Url(t) == <<"https", "://", "a">> \o t
Use(p, b, k, n, f, h, a) ==
  [policy |-> p, boot |-> b, keys |-> k, presses |-> n, finals |-> f, hrefs |-> h, answers |-> a]
Hrefs == UNION {[1 .. n -> {"/", "?", "#", "x", "..", "js"}] : n \in 0 .. 3}
Uses ==
  <<Use("public", <<"a">>, {"lctrl", "l", "esc", "enter", "a"}, 5, {}, {<< >>}, 2),
    Use("public", << >>, {"a", "bs", "left", "right", "/", "enter", "lctrl", "l"}, 4, {}, {<< >>}, 1),
    Use("public", Url(<<"/", "x", "/", "y", "?", "x">>), {"tab", "enter"}, 3, {Url(<<"/", "x", "#", "y">>)},
        {<<h>> : h \in Hrefs}, 1),
    Use("demo", <<"HOST", ":", "443">>, {"tab", "enter", "esc"}, 5, {},
        {<<<<"https", "://", "a">>, <<"/", "/", "host">>>>, <<<<" ", "x", " ">>>>}, 2),
    Use("demo", <<"http", "://", "host">>, {"lctrl", "rctrl", "lshift", "caps", "pause", "host", "l"}, 4, {},
        {<< >>}, 0)>>
Pages == INSTANCE Desk WITH Loads <- Uses, KEY_CAP <- 2, Names <- {"a", "x", "host"}, Ports <- {"443"},
           LINE_CAP <- 12, Fails <- {"lookup"}

\* The web server alone and behind the composed image, clients that leave.
Client(c, x, s, l) == [composed |-> c, x86 |-> x, send |-> s, leave |-> l]
Http == INSTANCE HttpServer WITH ROUNDS <- 2, RxMax <- 2,
          Loads <- <<Client(FALSE, FALSE, <<"get", "part">>, "rst"), Client(TRUE, FALSE, <<"get", "get">>, "rst"),
                     Client(FALSE, TRUE, <<"get", "part">>, "rst"), Client(FALSE, FALSE, <<"get", "get">>, "fin")>>

\* Sessions: what is typed on a board, and what the board's services answer.
A(b, t) == [board |-> b, typed |-> t, roles |-> <<"r1", "r2">>, file |-> "some", clock |-> 1, cert |-> TRUE,
            bind |-> TRUE, fetch |-> TRUE, title |-> "some", screen |-> TRUE, listen |-> TRUE, serve |-> TRUE]
Sessions ==
  <<A("fs", <<"dmesg", "cr", "lf", "date", "cr", "dmesg", "cr", "dmesg", "cr">>),
    A("fs", <<"config", "get", "hostname", "cr", "ps", "cr", "dmesg", "cr", "reboot", "cr">>),
    [A("fs", <<"config", "get", "hostname", "x", "cr", "config", "get", "hostname", "cr", "date", "cr",
               "mkdir", "d", "cr", "dmesg", "cr">>) EXCEPT !.file = "none", !.clock = 0],
    A("fs", <<"dmesg", "x", "cr", "qos", "cr", "cr", "reboot", "now", "cr", "dmesg", "cr">>),
    A("browser", <<"1", "cr", "2", "cr", "1+2", "cr", "x", "cr", "quit", "cr", "quit", "cr", "maths", "cr">>),
    [A("browser", <<"browser", "cr", "lf">>) EXCEPT !.title = "none", !.screen = FALSE],
    [A("browser", <<"browser", "cr">>) EXCEPT !.fetch = FALSE],
    A("fetch", <<"calc", "1+2", "cr", "calc", "cr", "cert", "cr", "date", "cr">>),
    [A("fetch", <<"cert", "cr">>) EXCEPT !.bind = FALSE],
    A("web", <<"mkdir", "x", "cr">>), [A("web", <<"mkdir", "cr">>) EXCEPT !.file = "none"],
    [A("web", <<"ls", "cr">>) EXCEPT !.serve = FALSE]>>
\* Every line of four characters over numbers of three bits, and some longer; and
\* three walks over a year end and a February, from the epoch, 2000 and 2100.
Longest == {<<"1", "-", "2", "-", "3">>, <<"8", "/", "2", "/", "3">>, <<"2", "*", "(", "1", "-", "3", ")">>,
            <<"-", "(", "1", "+", "2", ")", "*", "-", "3">>, <<"(", "1", ")", "2">>, <<"(", "(", "1", ")">>,
            <<"(", "1", ")", "*", "(", "2", ")">>, <<"7", "*", "-", "7", "/", "-", "1">>}
Day(n, y) == [at |-> n, date |-> [y |-> y, m |-> 1, d |-> 1]]
Shell == INSTANCE Shell WITH fs <- dev, prog <- drv, Name <- {"x", "y", "config"}, Config <- "config",
           Hostname <- "config/hostname", Seed <- <<"lerux">>, TableLen <- 2, DataLen <- 2,
           SectorLen <- 2, Entries <- 3, Cmd <- MCCmd, Order <- <<"config", "x", "y">>,
           Commands <- Commanded, ListMax <- 2, Disks <- Scripts,
           Loads <- Sessions, LINE_MAX <- 3, LOG_CAP <- 7, RxLen <- 3,
           text <- dev, day <- dev, date <- drv, clock <- q, LenMax <- 4, MAX <- 7, Longer <- Longest,
           Chars <- {"1", "2", " ", "+", "-", "*", "/", "(", ")", "x"}, Walk <- 400, NS_PER_S <- 10,
           Starts <- {Day(0, 1970), Day(10957, 2000), Day(47482, 2100)}, Freqs <- {0, 1, 3, 7, 24}, TicksMax <- 100

\* The serial server: two loggers, one of which reads; more bytes than fit, and a
\* character that the end of a line buffer cuts.
Uart(n, t) == [typed |-> n, texts |-> t]
Com == INSTANCE SerialServer WITH Fifo <- 2, ReadBuf <- 2, Cap <- 3,
         Loads <- {Uart(4, <<<<<<"a", "b">>, <<"c", "d", "nl">>>>, << >>>>),
                   Uart(6, <<<<<<"a", "cr">>>>, << >>>>),
                   Uart(1, <<<<<<"a", "u1">>, <<"u2", "b", "nl", "nl", "c", "cr">>>>,
                             <<<<"x", "nl", "y">>, <<"z", "u1", "u2", "nl">>>>>>)}

\* The boards of the recipes, on the architectures that have them.
Board(a, t, s, d, n, g) == [arch |-> a, token |-> t, sddf |-> s, disk |-> d, net |-> n, gpu |-> g]
Arches == {"aarch64", "riscv64", "x86"}
MCBoards ==
  {Board(a, "serial", TRUE, FALSE, FALSE, FALSE) : a \in Arches}
  \cup {Board(a, t, TRUE, TRUE, TRUE, FALSE) : a \in Arches, t \in {"fetch", "web", "agent", "program"}}
  \cup {Board(a, "net", TRUE, FALSE, TRUE, FALSE) : a \in Arches}
  \cup {Board(a, "fs", TRUE, TRUE, a = "aarch64", FALSE) : a \in Arches}
  \cup {Board(a, "browser", TRUE, TRUE, TRUE, TRUE) : a \in Arches}
  \cup {Board("x86", "net_e1000e", FALSE, FALSE, TRUE, FALSE), Board("x86", "fs_ahci", FALSE, TRUE, FALSE, FALSE),
        Board("x86", "fetch_native", FALSE, TRUE, TRUE, FALSE), Board("aarch64", "fs_ahci", FALSE, TRUE, TRUE, FALSE),
        Board("riscv64", "http", FALSE, FALSE, TRUE, FALSE), Board("riscv64", "html", TRUE, FALSE, FALSE, FALSE)}
Built == INSTANCE Images WITH Boards <- MCBoards, IdMax <- 255

\* Scripts that ask for an old line again and reboot, key presses, unordered
\* expectations, a serial board, a test without QMP; with and without a fault.
Ask(s, e) == [send |-> s, expect |-> e]
Test(k, a, m, h) ==
  [kind |-> k, arch |-> a, mode |-> m, hardware |-> h, qmp |-> TRUE, boot |-> <<"hello", "ready">>,
   expects |-> <<"ready">>, unordered |-> FALSE, curl |-> FALSE, keys |-> << >>, key_expect |-> "typed",
   script |-> << >>, faults |-> 0]
Again == <<Ask("dmesg", "hello"), Ask("reboot", "ready")>>
MCTests ==
  <<[Test("pipe", "aarch64", "auto", FALSE) EXCEPT !.script = Again],
    [Test("log", "x86_64", "auto", FALSE) EXCEPT !.script = Again, !.faults = 1],
    [Test("pipe", "x86_64", "qemu", FALSE) EXCEPT !.keys = <<"k", "k">>, !.faults = 1, !.curl = TRUE,
                                                  !.expects = <<"hello", "ready">>],
    [Test("pipe", "riscv64", "auto", FALSE) EXCEPT !.unordered = TRUE, !.script = <<Ask("ls", "file")>>,
                                                   !.expects = <<"ready", "hello">>],
    [Test("hw", "aarch64", "auto", TRUE) EXCEPT !.script = Again, !.faults = 1],
    [Test("pipe", "aarch64", "auto", FALSE) EXCEPT !.script = Again, !.qmp = FALSE],
    Test("pipe", "aarch64", "qemu", TRUE), Test("pipe", "aarch64", "auto", TRUE)>>
Output == [c \in {"dmesg", "reboot", "k", "ls"} |->
             CASE c = "dmesg" -> <<"hello", "ready">> [] c = "reboot" -> <<"reboot">>
               [] c = "k" -> <<"typed">> [] c = "ls" -> <<"file">>]
\* Two lines of one prefix are interleaved by character.
Smoke == INSTANCE SmokeRun WITH Tests <- MCTests, Answer <- Output, raw <- dev, at <- drv, turns <- q,
           Lines <- <<<<"L", "T", " ", "a", "b", "c", " ", "d", "nl">>, <<"L", "T", " ", "v", "w", "x", " ", "y", "nl">>>>

\* Short names that collide, names too long, deep and wrong paths; clusters of
\* two bytes and directories of six entries, so that each limit is met.
Code == [c \in {"A", "B", "C", "1", "2", "3", " ", "~"} |->
           CASE c = "A" -> 65 [] c = "B" -> 66 [] c = "C" -> 67 [] c = "1" -> 49 [] c = "2" -> 50
             [] c = "3" -> 51 [] c = " " -> 32 [] c = "~" -> 126]
MCPaths ==
  {<<<<"a">>>>, <<<<"A">>>>, <<<<"a", "b", "c", "1">>>>, <<<<"a", "b", "c", "2">>>>, <<<<"a", ".", "b">>>>,
   <<<<"a">>, <<"b">>>>, <<<<"a">>, <<"a", "b">>, <<"c", ".", "1">>>>, <<<<"a">>, <<"a", "b">>, <<"c", "+", "2">>>>,
   <<<<"b">>, <<".", ".">>>>, <<<<"c">>, << >>>>, <<<<"a", "b", "c", ".", "1", "2">>>>,
   <<<<"c">>, <<"a", "b", "c", "1", "2", "3">>>>}
Media == INSTANCE BootMedia WITH Arches <- {"x86_64", "aarch64"}, EditMax <- 1, KillMax <- 1, JobMax <- 3,
           files <- dev, Paths <- MCPaths, Lens <- {0, 3}, FilesMax <- 3, CLUSTER_BYTES <- 2,
           DIR_ENTRIES <- 6, ROOT_ENTRIES <- 8, MIN_CLUSTERS <- 3, MAX_CLUSTERS <- 7, BASE <- 3, EXT <- 1,
           SUFFIX_MAX <- 2, UNITS <- 2, NAME_MAX <- 6, Ord <- Code

-----------------------------------------------------------------------------
NoSem == badge = 0 /\ sem = 0
NoQ == q = 0 /\ NoSem
Lone == drv = 0 /\ NoQ
Init == \/ part = "shell" /\ Shell!Init /\ NoQ
        \/ part = "tools" /\ Agents!Init /\ NoQ
        \/ part = "page" /\ Agents!PageInit
        \/ part = "net" /\ Net!Init /\ NoQ
        \/ part = "wasm" /\ Guest!Init /\ NoQ
        \/ part = "console" /\ Text!Init /\ NoSem
        \/ part = "desk" /\ Pages!Init /\ NoSem
        \/ part = "http" /\ Http!Init /\ NoSem
        \/ part = "prompt" /\ Shell!SessionInit /\ NoSem
        \/ part = "calc" /\ Shell!CalcInit /\ Lone
        \/ part = "clock" /\ Shell!DateInit /\ NoSem
        \/ part = "com" /\ Com!Init /\ NoSem
        \/ part = "image" /\ Built!Init /\ NoSem
        \/ part = "smoke" /\ Smoke!Init /\ NoSem
        \/ part = "log" /\ Smoke!LogInit /\ NoSem
        \/ part = "media" /\ Media!Init /\ NoSem
        \/ part = "esp" /\ Media!EspInit /\ Lone

KeepSem == UNCHANGED <<badge, sem>>
KeepQ == UNCHANGED <<q, badge, sem>>
Alone == UNCHANGED <<drv, q, badge, sem>>
Next == /\ UNCHANGED part
        /\ \/ part = "shell" /\ Shell!Next /\ KeepQ
           \/ part = "tools" /\ Agents!Next /\ KeepQ
           \/ part = "page" /\ Agents!PageNext
           \/ part = "net" /\ Net!Next /\ KeepQ
           \/ part = "wasm" /\ Guest!Next /\ KeepQ
           \/ part = "console" /\ Text!Next /\ KeepSem
           \/ part = "desk" /\ Pages!Next /\ KeepSem
           \/ part = "http" /\ Http!Next /\ KeepSem
           \/ part = "prompt" /\ Shell!SessionNext /\ KeepSem
           \/ part = "calc" /\ Shell!CalcNext /\ Alone
           \/ part = "clock" /\ Shell!DateNext /\ KeepSem
           \/ part = "com" /\ Com!Next /\ KeepSem
           \/ part = "image" /\ Built!Next /\ KeepSem
           \/ part = "smoke" /\ Smoke!Next /\ KeepSem
           \/ part = "log" /\ Smoke!LogNext /\ KeepSem
           \/ part = "media" /\ Media!Next /\ KeepSem
           \/ part = "esp" /\ Media!EspNext /\ Alone

\* The program of each part runs; in the prompt's part somebody types; in the web
\* server's part a patient client comes again and again and the others leave.
Steps == \/ part = "shell" /\ Shell!Step /\ KeepQ
         \/ part = "tools" /\ Agents!Step /\ KeepQ
         \/ part = "page" /\ Agents!PageSteps
         \/ part = "net" /\ Net!Steps /\ KeepQ
         \/ part = "wasm" /\ Guest!Step /\ KeepQ
         \/ part = "console" /\ Text!Steps /\ KeepSem
         \/ part = "http" /\ Http!Steps /\ KeepSem
         \/ part = "prompt" /\ Shell!SessionSteps /\ KeepSem
         \/ part = "com" /\ Com!Steps /\ KeepSem
         \/ part = "image" /\ Built!Steps /\ KeepSem
         \/ part = "smoke" /\ Smoke!Steps /\ KeepSem
         \/ part = "media" /\ Media!Step /\ KeepSem
Typed == part = "prompt" /\ Shell!Typed
Patient == part = "http" /\ Http!Patient
Leaves == part = "http" /\ Http!Leaves
Same == UNCHANGED <<part, badge, sem>>
Spec == /\ Init /\ [][Next]_v /\ WF_v(Steps /\ UNCHANGED part) /\ WF_v(Typed /\ Same)
        /\ SF_v(Patient /\ Same) /\ SF_v(Leaves /\ Same)

-----------------------------------------------------------------------------
\* Type correctness of every part that has a type invariant.
TypeOK == CASE part = "shell" -> Shell!TypeOK [] part = "tools" -> Agents!TypeOK
            [] part = "page" -> Agents!PageTypeOK [] part = "net" -> Net!TypeOK [] part = "wasm" -> Guest!TypeOK
            [] part = "console" -> Text!TypeOK [] part = "desk" -> Pages!TypeOK [] part = "http" -> Http!TypeOK
            [] part = "prompt" -> Shell!SessionTypeOK [] part = "calc" -> Shell!CalcTypeOK [] part = "com" -> Com!TypeOK
            [] part = "image" -> Built!TypeOK [] part = "smoke" -> Smoke!TypeOK [] part = "media" -> Media!TypeOK
            [] OTHER -> TRUE

\* Every path of a command, a tool or a network program gives back what it took:
\* no file, directory or socket stays open behind it (Shell, Agent,
\* Sockets, WasmProgram).
NothingLeftOpen == CASE part = "shell" -> Shell!NothingLeftOpen [] part = "tools" -> Agents!NothingLeftOpen
                     [] part = "net" -> Net!SocketFreed [] part = "wasm" -> Guest!NothingLeftOpen [] OTHER -> TRUE

\* What a program reports is what happened: a command that said ok has done what it
\* says, a tool that failed has left the volume alone, the answer grok reads is that
\* of the tool it asked for, a fetched body is whole, and a module that ran was
\* signed whole and its memory holds what it read (in each module).
ReportsTruly == CASE part = "shell" -> Shell!ReportsTruly [] part = "tools" -> Agents!ReplacesWhole
                  [] part = "page" -> Agents!AnswersItsTool [] part = "net" -> Net!WholeBody
                  [] part = "wasm" -> Guest!ReportsTruly /\ Guest!MemoryKept [] OTHER -> TRUE

\* What a person sees answers what was typed last: the console shows and posts the
\* line that was typed, the desk lands only the load in flight and only on allowed
\* addresses, the web server and the prompt answer each request once and in order,
\* the calculator and the clock compute the value of the line and of the date, and
\* the serial server hands out bytes and lines whole and in order (Console, Desk,
\* HttpServer, Shell, SerialServer).
Answers == CASE part = "console" -> Text!Presented /\ Text!EchoMatches /\ Text!PostsWhatWasTyped /\ Text!NoStuckKey
             [] part = "desk" -> Pages!OnlyCurrentLands /\ Pages!PublicOnly /\ Pages!ModifiersHeld
             [] part = "http" -> Http!OneAnswer
             [] part = "prompt" -> Shell!AnswersEachLine /\ Shell!PromptsFollow
             [] part = "calc" -> Shell!EvalAgrees
             [] part = "clock" -> Shell!DateRight /\ Shell!TimeRight
             [] part = "com" -> Com!ReadInOrder /\ Com!LinesKept [] OTHER -> TRUE

\* What the host tools produce fits together: both sides of a channel agree on their
\* pages, a smoke test judges the boot it asked about and leaves nothing running once
\* a guest was started, the log reader finds every line, a delivered medium holds what
\* was last built and verified, but for the changes a cached ISO cannot show, and
\* firmware reads back every file of its partition (Images, SmokeRun, BootMedia).
Builds == CASE part = "image" -> Built!PagesMatch /\ Built!Exclusive /\ Built!DeviceFound
            [] part = "smoke" -> Smoke!RightBoot /\ Smoke!CleanEnd
            [] part = "log" -> Smoke!PayloadsFound /\ Smoke!PlacesKept
            [] part = "media" -> Media!DeliversCurrent /\ Media!VerifiedWhole
            [] part = "esp" -> Media!ReadsBack /\ Media!RefusedRightly /\ Media!ShortNamesDiffer [] OTHER -> TRUE

Busy == CASE part = "shell" -> Shell!Busy [] part = "tools" -> Agents!Busy [] part = "page" -> Agents!PageBusy
          [] part = "net" -> Net!Busy [] part = "wasm" -> Guest!Busy [] part = "console" -> Text!Busy
          [] part = "http" -> Http!Busy [] part = "prompt" -> Shell!SessionBusy [] part = "com" -> Com!Busy
          [] part = "image" -> Built!Busy [] part = "smoke" -> Smoke!Busy [] part = "media" -> Media!Busy
          [] OTHER -> FALSE

\* Every command, tool, browse, network program, prompt, smoke run and build comes
\* to its end, with an error if it must, as long as the file server answers; a peer
\* is only asked to come again where the web server waits for one.
ComesBack == []<>~Busy
=============================================================================
