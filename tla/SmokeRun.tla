------------------------------ MODULE SmokeRun ------------------------------
(***************************************************************************)
(* One smoke test (tools/lerux-cli/src/test.rs): the harness starts a      *)
(* guest, waits for its boot lines, presses keys, types a script, restarts *)
(* the guest at a reboot step, and ends with a verdict, while a thread     *)
(* pumps what the guest prints into the capture the harness searches.      *)
(*                                                                         *)
(* A line is [text, boot]: what it says, and which boot of the guest said  *)
(* it, which the harness cannot see.  Matching works on whole lines here;  *)
(* the splices of two lines are at the end.  Time is a choice: a waiting   *)
(* loop may find its deadline passed at any look.                          *)
(*                                                                         *)
(* q.kind is how the guest is attached: "pipe" (stdout and stderr through  *)
(* a pipe, reset over QMP), "log" (both into a file, a new process for a   *)
(* reboot: x86) or "hw" (a serial device).                                 *)
(***************************************************************************)
EXTENDS Integers, Sequences, FiniteSets

CONSTANTS Tests,   \* a sequence of tests; q.load is an index into it
          Answer   \* Answer[c]: the lines the guest prints for the command c

VARIABLES dev,  \* the guest: on, its boot, lines to print, commands typed, all it printed
          drv,  \* the harness: see Init
          q     \* the test, faults left, and per passed step the boots it matched

vars == <<dev, drv, q>>

T == Tests[q.load]

NoLine == "junk"

(* drv: pc, the expect or step in hand, the search cursor or mark, whether  *)
(* a guest was started and its stdin is held, the pump thread (idle, run,   *)
(* ended), its stop flag and file offset, the capture, the helper           *)
(* processes, and the verdict.                                              *)
Init ==
    \E l \in DOMAIN Tests :
        /\ q = [load |-> l, faults |-> Tests[l].faults, hits |-> <<>>]
        /\ dev = [on |-> Tests[l].kind = "hw", boot |-> 1, left |-> Tests[l].boot,
                  typed |-> <<>>, out |-> <<>>]
        /\ drv = [pc |-> "mode", i |-> 1, cur |-> 0, child |-> FALSE, stdin |-> FALSE,
                  pump |-> "idle", stop |-> FALSE, off |-> 0, cap |-> <<>>, helpers |-> FALSE, ok |-> FALSE]

At(pc) == drv.pc = pc

Go(pc) == drv' = [drv EXCEPT !.pc = pc]

(* drive_smoke has returned an error: what is left is the tear-down. *)
Fail == drv' = [drv EXCEPT !.pc = IF T.kind = "hw" THEN "done" ELSE "kill"]

----------------------------------------------------------------------------
(* select_hw_mode, then the checks of launch_qemu_smoke before any spawn. *)
Reboots == \E i \in DOMAIN T.script : T.script[i].send = "reboot"

NeedsQmp == T.keys # <<>> \/ Reboots

reboot_needs_new_process(arch, reboots) == reboots /\ arch = "x86_64"

Fresh == reboot_needs_new_process(T.arch, Reboots)

StdioLogMutant == FALSE  \* Mutant: the restart is chosen, the log file is not

StdioLog == Fresh

(* run_board_test_with_mode: a hardware board without a serial device is    *)
(* only reported as built.                                                  *)
SelectMode ==
    /\ At("mode")
    /\ UNCHANGED <<dev, q>>
    /\ CASE T.mode = "qemu" /\ T.hardware -> Go("done")
         [] T.mode = "auto" /\ T.hardware /\ T.kind # "hw" ->
                drv' = [drv EXCEPT !.pc = "done", !.ok = TRUE]
         [] T.kind = "hw" -> Go("open")
         [] OTHER -> drv' = [drv EXCEPT !.helpers = TRUE,
                                        !.pc = IF NeedsQmp /\ ~T.qmp THEN "done" ELSE "spawn"]

(* run_hw_serial_smoke: stty and the open may fail; the board runs already. *)
OpenSerial ==
    /\ At("open")
    /\ UNCHANGED <<dev, q>>
    /\ \/ Go("done")
       \/ drv' = [drv EXCEPT !.pc = "boot", !.pump = "run"]

(* spawn_smoke_qemu.  The log is emptied at the first spawn and appended to *)
(* at a restart, when the pump starts at the length the file has then.      *)
StartOffsetMutant == 0  \* Mutant: a restarted pump reads the log from its start

StartOffset == Len(dev.out)

Spawned(pc) ==
    /\ dev' = [dev EXCEPT !.on = TRUE]
    /\ drv' = [drv EXCEPT !.pc = pc, !.pump = "run", !.child = TRUE, !.stdin = T.script # <<>>,
                          !.off = StartOffset]
    /\ UNCHANGED q

(* The log is opened and its pump started before the process; cmd.spawn may *)
(* fail after that, or the opening before it.                               *)
SpawnFails(then) ==
    /\ \/ drv' = then
       \/ StdioLog /\ drv' = [then EXCEPT !.pump = "run", !.off = StartOffset]
    /\ UNCHANGED <<dev, q>>

(* An error of the first spawn leaves run_smoke_inner by `?`, which joins   *)
(* nothing: the harness ends, and the pump it may have started with it.     *)
spawn_smoke_qemu ==
    /\ At("spawn")
    /\ Spawned("boot") \/ SpawnFails([drv EXCEPT !.pc = "done"])

----------------------------------------------------------------------------
(* The searches: the first captured line with a text at or after a cursor,  *)
(* and whether a text is captured after a mark.                             *)
Found(text, from) == {k \in from + 1 .. Len(drv.cap) : drv.cap[k].text = text}

MinOf(S) == CHOOSE k \in S : \A m \in S : k <= m

(* await_boot_expects: one pattern after the other, the cursor moved past   *)
(* each hit, or all of them in any order.                                   *)
expect_ordered ==
    /\ At("boot") /\ ~T.unordered /\ drv.i <= Len(T.expects)
    /\ Found(T.expects[drv.i], drv.cur) # {}
    /\ drv' = [drv EXCEPT !.i = @ + 1, !.cur = MinOf(Found(T.expects[drv.i], drv.cur))]
    /\ UNCHANGED <<dev, q>>

expect_unordered ==
    /\ At("boot") /\ T.unordered /\ drv.i <= Len(T.expects)
    /\ \A k \in DOMAIN T.expects : Found(T.expects[k], 0) # {}
    /\ drv' = [drv EXCEPT !.i = Len(T.expects) + 1]
    /\ UNCHANGED <<dev, q>>

Booted ==
    /\ At("boot") /\ drv.i > Len(T.expects)
    /\ drv' = [drv EXCEPT !.i = 1, !.pc = CASE T.kind = "hw" -> "step"
                                            [] T.curl -> "curl"
                                            [] OTHER -> "keys"]
    /\ UNCHANGED <<dev, q>>

curl_check ==
    /\ At("curl")
    /\ Go("keys") \/ Fail
    /\ UNCHANGED <<dev, q>>

(* inject_qmp_keys: the line it waits for is searched from the start. *)
inject_qmp_keys ==
    /\ At("keys")
    /\ UNCHANGED q
    /\ \/ T.keys = <<>> /\ Go("step") /\ UNCHANGED dev
       \/ T.keys # <<>> /\ Fail /\ UNCHANGED dev
       \/ T.keys # <<>> /\ Go("keywait") /\ dev' = [dev EXCEPT !.typed = @ \o T.keys]

KeysSeen ==
    /\ At("keywait")
    /\ Found(T.key_expect, 0) # {}
    /\ Go("step")
    /\ UNCHANGED <<dev, q>>

----------------------------------------------------------------------------
(* run_script_steps: mark the capture, write the command, wait.  Nothing is *)
(* written when guest stdin was given up.                                   *)
Step == T.script[drv.i]

Mark(pc) == drv' = [drv EXCEPT !.pc = pc, !.cur = Len(drv.cap)]

NextStep ==
    /\ At("step")
    /\ UNCHANGED <<dev, q>>
    /\ IF drv.i > Len(T.script)
       THEN drv' = [drv EXCEPT !.ok = TRUE, !.pc = IF T.kind = "hw" THEN "done" ELSE "kill"]
       ELSE Mark("send")

deliver_script_step ==
    /\ At("send")
    /\ Go(IF Step.send = "reboot" THEN "line" ELSE "expect")
    /\ dev' = IF drv.stdin \/ T.kind = "hw"
              THEN [dev EXCEPT !.typed = Append(@, Step.send)] ELSE dev
    /\ UNCHANGED q

(* handle_script_reboot: wait for the guest's own word, give up stdin, then *)
(* a new process or a QMP reset, then a new mark.                           *)
RebootLine ==
    /\ At("line")
    /\ Found("reboot", drv.cur) # {}
    /\ drv' = [drv EXCEPT !.stdin = FALSE,
                          !.pc = CASE Fresh -> "release"
                                   [] T.kind = "hw" -> "done"
                                   [] OTHER -> "reset"]
    /\ UNCHANGED <<dev, q>>

Rebooting(d) == [d EXCEPT !.boot = @ + 1, !.left = T.boot, !.typed = <<>>]

qmp_system_reset ==
    /\ At("reset")
    /\ UNCHANGED q
    /\ \/ Fail /\ UNCHANGED dev
       \/ Go("mark") /\ dev' = Rebooting(dev)

(* HostRestart: the pump is stopped and joined, the child killed, another   *)
(* one started.                                                             *)
release_for_restart ==
    /\ At("release")
    /\ UNCHANGED <<dev, q>>
    /\ \/ ~drv.stop /\ drv' = [drv EXCEPT !.stop = TRUE]
       \/ drv.pump # "run" /\ drv' = [drv EXCEPT !.stop = FALSE, !.pc = "rekill"]

restart ==
    /\ At("rekill")
    /\ dev' = [Rebooting(dev) EXCEPT !.on = FALSE]
    /\ Go("respawn")
    /\ UNCHANGED q

Respawn ==
    /\ At("respawn")
    /\ \/ Spawned("mark")
       \/ SpawnFails([drv EXCEPT !.pc = "kill"])

RemarkMutant == Go("expect")  \* Mutant: the mark of the send is kept

Remark == Mark("expect")

handle_script_reboot == At("mark") /\ Remark /\ UNCHANGED <<dev, q>>

(* wait_script_expect; q.hits remembers which boots the matching lines are  *)
(* from.                                                                    *)
wait_script_expect ==
    /\ At("expect")
    /\ Found(Step.expect, drv.cur) # {}
    /\ q' = [q EXCEPT !.hits = Append(@, {drv.cap[k].boot : k \in Found(Step.expect, drv.cur)})]
    /\ drv' = [drv EXCEPT !.pc = "step", !.i = @ + 1]
    /\ UNCHANGED dev

(* Every one of those loops gives up at its deadline. *)
Timeout ==
    /\ \E pc \in {"boot", "keywait", "line", "expect"} : At(pc)
    /\ Fail
    /\ UNCHANGED <<dev, q>>

----------------------------------------------------------------------------
(* The end of run_smoke_inner, then of run_qemu_smoke. *)
TearDownMutant == <<"join", "kill">>  \* Mutant: the threads are joined first

TearDown == <<"kill", "join">>

Kill ==
    /\ At("kill")
    /\ \/ /\ TearDown[1] = "kill" \/ drv.pump # "run"
          /\ dev' = [dev EXCEPT !.on = FALSE]
          /\ drv' = [drv EXCEPT !.stdin = FALSE, !.pc = "join"]
       \/ /\ TearDown[1] = "join" /\ ~drv.stop
          /\ drv' = [drv EXCEPT !.stop = TRUE]
          /\ UNCHANGED dev
    /\ UNCHANGED q

join ==
    /\ At("join")
    /\ UNCHANGED <<dev, q>>
    /\ \/ ~drv.stop /\ drv' = [drv EXCEPT !.stop = TRUE]
       \/ /\ drv.pump # "run"
          /\ drv' = [drv EXCEPT !.pc = "done", !.helpers = @ /\ ~drv.ok]

----------------------------------------------------------------------------
(* pump_reader: one line at a time until the end of file; a line that is    *)
(* not UTF-8 is an error and ends the thread.                               *)
pump_reader ==
    /\ ~StdioLog /\ drv.pump = "run"
    /\ UNCHANGED <<dev, q>>
    /\ IF drv.off < Len(dev.out)
       THEN LET l == dev.out[drv.off + 1]
            IN  drv' = IF l.text = NoLine THEN [drv EXCEPT !.pump = "ended"]
                       ELSE [drv EXCEPT !.off = @ + 1, !.cap = Append(@, l)]
       ELSE ~dev.on /\ drv' = [drv EXCEPT !.pump = "ended"]

(* drain_stdio_log: all that is new; undecodable bytes are replaced. *)
drain_stdio_log == [drv EXCEPT !.off = Len(dev.out),
                               !.cap = @ \o SubSeq(dev.out, drv.off + 1, Len(dev.out))]

(* pump_stdio_log_file: drain while not stopped, and once more. *)
pump_stdio_log_file ==
    /\ StdioLog /\ drv.pump = "run"
    /\ UNCHANGED <<dev, q>>
    /\ \/ ~drv.stop /\ drv.off < Len(dev.out) /\ drv' = drain_stdio_log
       \/ drv.stop /\ drv' = [drain_stdio_log EXCEPT !.pump = "ended"]

Steps ==
    \/ SelectMode \/ OpenSerial \/ spawn_smoke_qemu
    \/ expect_ordered \/ expect_unordered \/ Booted \/ curl_check
    \/ inject_qmp_keys \/ KeysSeen
    \/ NextStep \/ deliver_script_step \/ RebootLine \/ qmp_system_reset
    \/ release_for_restart \/ restart \/ Respawn \/ handle_script_reboot
    \/ wait_script_expect \/ Timeout \/ Kill \/ join
    \/ pump_reader \/ pump_stdio_log_file

----------------------------------------------------------------------------
(* The guest: it prints its boot lines, then what each command answers, the *)
(* commands in order; the serial line may add a line of noise.              *)
Speak ==
    /\ dev.on /\ dev.left # <<>>
    /\ dev' = [dev EXCEPT !.left = Tail(@),
                          !.out = Append(@, [text |-> Head(dev.left), boot |-> dev.boot])]
    /\ UNCHANGED <<drv, q>>

Shell ==
    /\ dev.on /\ dev.left = <<>> /\ dev.typed # <<>>
    /\ dev' = [dev EXCEPT !.typed = Tail(@), !.left = Answer[Head(dev.typed)]]
    /\ UNCHANGED <<drv, q>>

Noise ==
    /\ dev.on /\ q.faults > 0
    /\ q' = [q EXCEPT !.faults = @ - 1]
    /\ dev' = [dev EXCEPT !.out = Append(@, [text |-> NoLine, boot |-> dev.boot])]
    /\ UNCHANGED drv

Guest == Speak \/ Shell \/ Noise

Next == Steps \/ Guest

(* A harness step, the passing of time included, is never put off forever. *)
Spec == Init /\ [][Next]_vars /\ WF_vars(Steps)

----------------------------------------------------------------------------
(* The harness has not ended. *)
Busy == ~At("done")

(* The type invariant. *)
TypeOK ==
    /\ drv.i \in 1 .. 9 /\ drv.cur \in 0 .. Len(drv.cap) /\ drv.off \in 0 .. Len(dev.out)
    /\ drv.pump \in {"idle", "run", "ended"}
    /\ \A f \in {drv.child, drv.stdin, drv.stop, drv.helpers, drv.ok, dev.on} : f \in BOOLEAN
    /\ Len(q.hits) <= Len(T.script) /\ q.faults \in 0 .. T.faults

(* A script step passes on lines of the boot it runs in: after a reboot     *)
(* step the harness accepts nothing the guest printed before it, although   *)
(* the same words were printed at the first boot (handle_script_reboot      *)
(* takes its mark again, attach_stdio_log starts at the end of the log).    *)
RightBoot ==
    \A s \in DOMAIN q.hits :
        q.hits[s] = {1 + Cardinality({k \in 1 .. s : T.script[k].send = "reboot"})}

(* The harness ends with the guest stopped and, once one was started, both  *)
(* pump threads gone, also when a restart fails; the helpers are stopped    *)
(* when the test passed, and the saved capture holds all that the last      *)
(* guest process printed, unless noise ended the pump (run_smoke_inner      *)
(* kills and waits before it joins).  A first spawn that fails leaves the   *)
(* log's pump running.                                                      *)
CleanEnd ==
    At("done") /\ T.kind # "hw" =>
        /\ ~dev.on /\ (drv.child => drv.pump # "run")
        /\ drv.ok => ~drv.helpers
        /\ LET Last(l) == Fresh => l.boot = dev.boot
           IN  q.faults = T.faults /\ drv.pump = "ended" =>
                   SelectSeq(drv.cap, Last) = SelectSeq(dev.out, Last)

----------------------------------------------------------------------------
(* How the harness reads log lines that domains printed into each other     *)
(* (collapse_traced and what it calls).  Writers print their lines on one   *)
(* UART, a character at a time, and may be preempted anywhere.  A line is a *)
(* prefix, a payload and "nl".  The prefix is three characters: "L" (the    *)
(* level and the target up to a cut), "T" (the rest of the target and its   *)
(* bracket) and the space.  A traced text is a sequence of characters, each *)
(* with the place it was read from, or 0 when it was inserted.              *)

CONSTANTS Lines  \* the sequence of lines printed, one per writer

VARIABLES raw,   \* what the UART printed
          at,    \* how much of its line each writer has printed
          turns  \* the writers in the order they held the UART

printing == <<raw, at, turns>>

Payload(w) == SubSeq(Lines[w], 4, Len(Lines[w]) - 1)

----------------------------------------------------------------------------
(* Texts. *)

From(t, n) == SubSeq(t, n, Len(t))

Read(c, n) == [c |-> c, src |-> n]

Inserted(c) == [c |-> c, src |-> 0]

Contains(t, p) == \E n \in 0 .. Len(t) - Len(p) : \A k \in 1 .. Len(p) : t[n + k].c = p[k]

(* "L" and the letters are alphanumeric; "T" begins so and ends in a        *)
(* bracket.                                                                 *)
StartsAlnum(c) == c \notin {" ", "nl"}
EndsAlnum(c) == c \notin {" ", "nl", "T"}

leading_alnum_len(t) ==
    LET stop == {n \in DOMAIN t : ~StartsAlnum(t[n].c) \/ (n > 1 /\ t[n - 1].c = "T")}
    IN  IF stop = {} THEN Len(t) ELSE (CHOOSE n \in stop : \A m \in stop : n <= m) - 1

trailing_alnum_len(t) ==
    LET stop == {n \in DOMAIN t : ~EndsAlnum(t[n].c)}
    IN  IF stop = {} THEN Len(t) ELSE Len(t) - (CHOOSE n \in stop : \A m \in stop : n >= m)

mid_word_join(left, right) ==
    left # <<>> /\ right # <<>> /\ EndsAlnum(left[Len(left)].c) /\ StartsAlnum(right[1].c)

(* sel4_log_prefix_len: 0 stands for None.  The space is missing when       *)
(* another prefix, or the end of the capture, follows the bracket.          *)
sel4_log_prefix_len(t) ==
    IF Len(t) < 2 \/ t[1].c # "L" \/ t[2].c # "T" THEN 0
    ELSE IF Len(t) = 2 \/ t[3].c = "L" THEN 2
    ELSE IF t[3].c = " " THEN 3 ELSE 0

is_prefix_only(t) == t # <<>> /\ sel4_log_prefix_len(t) = Len(t)

rest_of_line(t) ==
    LET ends == {n \in DOMAIN t : t[n].c = "nl"}
    IN  IF ends = {} THEN t ELSE SubSeq(t, 1, (CHOOSE n \in ends : \A m \in ends : n <= m) - 1)

----------------------------------------------------------------------------
(* An outer line that was preempted before its payload takes the newline of *)
(* the inner one: the inner payload is split at its first space.            *)
StealsMutant(cur, oldest) == FALSE  \* Mutant: the newline is always the inner line's

Steals(cur, oldest) ==
    LET plen == sel4_log_prefix_len(cur)
        spaces == {n \in plen + 1 .. Len(cur) : cur[n].c = " "}
    IN  /\ is_prefix_only(oldest) /\ plen > 0 /\ spaces # {}
        /\ LET sp == CHOOSE n \in spaces : \A m \in spaces : n <= m
           IN  sp > plen + 1 /\ sp < Len(cur)

steal_preempted_outer_payload(cur) ==
    LET plen == sel4_log_prefix_len(cur)
        spaces == {n \in plen + 1 .. Len(cur) : cur[n].c = " "}
        sp == CHOOSE n \in spaces : \A m \in spaces : n <= m
    IN  [inner |-> SubSeq(cur, 1, sp - 1), tail |-> From(cur, sp + 1)]

(* The places a current payload may be cut into the inner head and the      *)
(* outer tail, and the best of them.                                        *)
Cuts(old, cur, after) ==
    {s \in 1 .. Len(cur) - 1 :
        LET b1 == SubSeq(cur, 1, s)
            a2 == From(cur, s + 1)
        IN  /\ mid_word_join(old, a2) /\ mid_word_join(b1, a2)
            /\ mid_word_join(b1, after) \/ after[1].c = " "}

score_resumed_splits(old, cur, after) ==
    LET score(s) == trailing_alnum_len(old) + leading_alnum_len(From(cur, s + 1))
                        + trailing_alnum_len(SubSeq(cur, 1, s)) + leading_alnum_len(after)
        cuts == Cuts(old, cur, after)
    IN  {s \in cuts : \A r \in cuts : score(r) <= score(s)}

emit_resumed_lines(oldest, cur, after, nl, plen, splits) ==
    LET both(s) == oldest \o From(cur, plen + s + 1) \o <<nl>>
                       \o SubSeq(cur, 1, plen + s) \o after \o <<Inserted("nl")>>
        f[n \in 0 .. Len(cur)] ==
            IF n = 0 THEN <<>> ELSE IF n \in splits THEN f[n - 1] \o both(n) ELSE f[n - 1]
    IN  f[Len(cur)]

resumed_outer_linesMutant(oldest, cur, after, nl) == <<>>  \* Mutant: no split is tried

resumed_outer_lines(oldest, cur, after, nl) ==
    LET old_pre == sel4_log_prefix_len(oldest)
        cur_pre == sel4_log_prefix_len(cur)
        old_pay == From(oldest, old_pre + 1)
        cur_pay == From(cur, cur_pre + 1)
    IN  IF old_pre = 0 \/ cur_pre = 0 \/ sel4_log_prefix_len(after) > 0
              \/ old_pay = <<>> \/ cur_pay = <<>> \/ after = <<>>
        THEN <<>>
        ELSE emit_resumed_lines(oldest, cur, after, nl, cur_pre, score_resumed_splits(old_pay, cur_pay, after))

(* The state of collapse_traced: done, the unfinished lines in the order    *)
(* they were begun, the current line and whether there is one.              *)
Start == [done |-> <<>>, open |-> <<>>, cur |-> <<>>, has |-> FALSE]

take_traced_prefix(st, prefix) ==
    [st EXCEPT !.open = IF st.has THEN Append(@, st.cur) ELSE @, !.cur = prefix, !.has = TRUE]

close_traced_line(st, after, nl) ==
    LET cur == st.cur
        some == st.open # <<>>
        resumed == IF some THEN resumed_outer_lines(st.open[Len(st.open)], cur, after, nl) ELSE <<>>
        front == IF some THEN Head(st.open) ELSE <<>>
        stolen == steal_preempted_outer_payload(cur)
        gap == IF front[Len(front)].c # " " /\ stolen.tail[1].c # " " THEN <<Inserted(" ")>> ELSE <<>>
    IN  IF some /\ Steals(cur, front)
        THEN [done |-> st.done \o resumed \o front \o gap \o stolen.tail \o <<nl>>,
              open |-> Tail(st.open), cur |-> stolen.inner, has |-> TRUE]
        ELSE [st EXCEPT !.done = @ \o resumed \o cur \o <<nl>>, !.cur = <<>>, !.has = FALSE]

apply_traced_char(st, ch, after) ==
    LET front == Append(Head(st.open), ch)
    IN  CASE st.has /\ ch.c = "nl" -> close_traced_line(st, after, ch)
          [] st.has /\ ch.c # "nl" -> [st EXCEPT !.cur = Append(@, ch)]
          [] ~st.has /\ st.open # <<>> /\ ch.c = "nl" -> [st EXCEPT !.done = @ \o front, !.open = Tail(@)]
          [] ~st.has /\ st.open # <<>> /\ ch.c # "nl" -> [st EXCEPT !.open[1] = front]
          [] ~st.has /\ st.open = <<>> -> [st EXCEPT !.done = Append(@, ch)]

finish_tracedMutant(st) ==  \* Mutant: the line still current is dropped
    LET f[n \in 0 .. Len(st.open)] == IF n = 0 THEN st.done ELSE f[n - 1] \o st.open[n]
    IN  f[Len(st.open)]

finish_traced(st) ==
    LET open == IF st.has THEN Append(st.open, st.cur) ELSE st.open
        f[n \in 0 .. Len(open)] == IF n = 0 THEN st.done ELSE f[n - 1] \o open[n]
    IN  f[Len(open)]

RECURSIVE Collapse(_, _)
Collapse(t, st) ==
    LET plen == sel4_log_prefix_len(t)
    IN  CASE t = <<>> -> finish_traced(st)
          [] t # <<>> /\ plen > 0 -> Collapse(From(t, plen + 1), take_traced_prefix(st, SubSeq(t, 1, plen)))
          [] t # <<>> /\ plen = 0 -> Collapse(Tail(t), apply_traced_char(st, Head(t), rest_of_line(Tail(t))))

collapse_traced(text) == Collapse([n \in DOMAIN text |-> Read(text[n], n)], Start)

capture_contains(text, p) ==
    \/ \E n \in 0 .. Len(text) - Len(p) : SubSeq(text, n + 1, n + Len(p)) = p
    \/ Contains(collapse_traced(text), p)

----------------------------------------------------------------------------
Writers == DOMAIN Lines

LogInit == raw = <<>> /\ at = [w \in Writers |-> 0] /\ turns = <<>>

(* A writer prints its next character; another one may print next. *)
Put(w) ==
    /\ at[w] < Len(Lines[w])
    /\ raw' = Append(raw, Lines[w][at[w] + 1])
    /\ at' = [at EXCEPT ![w] = @ + 1]
    /\ turns' = IF turns # <<>> /\ turns[Len(turns)].w = w
                THEN [turns EXCEPT ![Len(turns)].to = @ + 1]
                ELSE Append(turns, [w |-> w, to |-> at[w] + 1])
    /\ Len(turns') <= 4

LogNext == \E w \in Writers : Put(w)

LogSpec == LogInit /\ [][LogNext]_vars

Printed == \A w \in Writers : at[w] = Len(Lines[w])

(* The orders the runner is written for: one line inside the other, or two  *)
(* lines crossed.  The outer one is cut inside a word and the inner one     *)
(* after a letter, or the outer one at the bracket of its prefix and the    *)
(* inner one after its first word.                                          *)
Nested == Len(turns) <= 3

Letter(w, n) == n > 3 /\ n < Len(Lines[w]) /\ Lines[w][n] # " "

FirstWord(w, n) == (\A k \in 4 .. n : Letter(w, k)) /\ n > 3 /\ Lines[w][n + 1] = " "

Crossed ==
    /\ Len(turns) = 4
    /\ LET o == turns[1]
           i == turns[2]
       IN  \/ Letter(o.w, o.to) /\ Letter(o.w, o.to + 1) /\ Letter(i.w, i.to) /\ i.to + 1 < Len(Lines[i.w])
           \/ o.to = 2 /\ FirstWord(i.w, i.to)

(* A payload printed inside another line, or crossed with one, is found in  *)
(* the capture whatever the place of the cuts (capture_contains).           *)
PayloadsFound ==
    Printed /\ (Nested \/ Crossed) => \A w \in Writers : capture_contains(raw, Payload(w))

(* Every character of the collapsed text that was not inserted is the one   *)
(* read at its place, and no character but a space is lost: what the runner *)
(* reports as the place of a match is where it was printed (Traced).        *)
PlacesKept ==
    LET t == collapse_traced(raw)
    IN  /\ \A n \in DOMAIN t : t[n].src > 0 => raw[t[n].src] = t[n].c
        /\ \A k \in DOMAIN raw : raw[k] # " " => \E n \in DOMAIN t : t[n].src = k
=============================================================================
