----------------------------- MODULE WasmProgram -----------------------------
(***************************************************************************)
(* sddf-program and lerux-wasm: two signed modules are checked and, when   *)
(* the check passes, run; the first must be refused for its signature.     *)
(* The interpreter and the module are external: a running module makes any *)
(* calls of its imports with any addresses, and returns or traps.          *)
(***************************************************************************)
EXTENDS PosixFiles

CONSTANTS MaxWasm,    \* MAX_WASM_LEN
          Blobs,      \* pairs of [magic, version, wasm, rest, signed, module]: the declared length, the
                      \* bytes after the header and before the signature, the length that was signed
                      \* (-1: another key), and the module: "ok", "bad" or "noexport"
          Disks,      \* volumes
          Mem,        \* bytes of the module's memory
          Ranges,     \* [ptr, len] a module passes
          Calls,      \* imports called by one module
          Path(_)     \* the file a sequence of bytes names

VARIABLES fs, prog
vars == <<fs, prog>>

NoCall == [dst |-> [ptr |-> 0, len |-> 0], path |-> Root, before |-> << >>, ret |-> 0, text |-> << >>]
Memory == [i \in 0 .. Mem - 1 |-> i]

\* bind_files and bind_sockets; the module's data is where its bytes say.
Init ==
  /\ \E v \in Disks : fs = Bound(v)
  /\ \E b \in Blobs : prog = [blobs |-> b, now |-> 1, at |-> "verify", logged |-> FALSE, out |-> << >>, mem |-> Memory,
                              calls |-> 0, fd |-> 0, got |-> Done(0, << >>), call |-> NoCall, socket |-> "Empty",
                              ran |-> {}, result |-> << >>]

Blob == prog.blobs[prog.now]

\* Mutant: the length of the blob is not compared with its header.
verifyMutant(b) ==
  CASE b.rest < 0 -> "Truncated" [] ~b.magic -> "Magic" [] ~b.version -> "Version"
    [] b.wasm = 0 \/ b.wasm > MaxWasm -> "WasmLen"
    [] b.signed < 0 -> "Signature" [] OTHER -> "Ok"

\* verify: lengths, magic and version before the signature, which is over the
\* header and the payload.
verify(b) ==
  CASE b.rest < 0 -> "Truncated" [] ~b.magic -> "Magic" [] ~b.version -> "Version"
    [] b.wasm = 0 \/ b.wasm > MaxWasm -> "WasmLen" [] b.rest # b.wasm -> "Truncated"
    [] b.signed # b.wasm -> "Signature" [] OTHER -> "Ok"

Says(line) == [prog EXCEPT !.out = Append(@, line)]

\* Mutant: an error of the second module is not looked at.
worker_resultMutant(r) ==
  IF prog.now = 1 THEN IF r = "Signature" THEN [Says("rejected") EXCEPT !.now = 2, !.at = "verify", !.logged = FALSE]
                       ELSE [Says("err") EXCEPT !.at = "end"]
  ELSE IF ~prog.logged THEN [Says("err") EXCEPT !.at = "end"] ELSE [prog EXCEPT !.at = "end"]

\* worker: what follows the result r of run_signed.
worker_result(r) ==
  IF prog.now = 1 THEN IF r = "Signature" THEN [Says("rejected") EXCEPT !.now = 2, !.at = "verify", !.logged = FALSE]
                       ELSE [Says("err") EXCEPT !.at = "end"]
  ELSE IF r # "Ok" \/ ~prog.logged THEN [Says("err") EXCEPT !.at = "end"] ELSE [prog EXCEPT !.at = "end"]

Ends(r) == prog' = [worker_result(r) EXCEPT !.result = Append(@, r)] /\ UNCHANGED fs

\* run_signed, up to the call of start.
Verify ==
  /\ prog.at = "verify"
  /\ IF verify(Blob) # "Ok" THEN Ends(verify(Blob))
     ELSE prog' = [prog EXCEPT !.at = "instantiate"] /\ UNCHANGED fs

Instantiate ==
  /\ prog.at = "instantiate"
  /\ CASE Blob.module = "bad" -> Ends("Module")
       [] Blob.module = "noexport" -> Ends("Export")
       [] OTHER -> prog' = [prog EXCEPT !.at = "guest", !.mem = Memory, !.calls = 0, !.call = NoCall, !.ran = @ \cup {prog.now}]
                   /\ UNCHANGED fs

\* start returns, traps or fails without a trap.
Return == prog.at = "guest" /\ \E r \in {"Ok", "Trap", "Module"} : Ends(r)

-----------------------------------------------------------------------------
(* The imports.                                                             *)

Inside(r, n) == r.ptr >= 0 /\ n >= 0 /\ r.ptr + n <= Mem
load_bytes(r) == [i \in 1 .. r.len |-> prog.mem[r.ptr + i - 1]]
Calling == prog.at = "guest" /\ prog.calls < Calls

\* log_import: a range outside the memory prints nothing.
Log ==
  /\ Calling
  /\ \E r \in Ranges :
       prog' = IF Inside(r, r.len) THEN [Says("guest") EXCEPT !.logged = TRUE, !.calls = @ + 1] ELSE [prog EXCEPT !.calls = @ + 1]
  /\ UNCHANGED fs

\* Returning n from the read into dst; text is what was stored.
Returns(p, n, text) == [p EXCEPT !.at = "guest", !.call.ret = n, !.call.text = text]

\* read_import, up to the host's read.
ReadCall ==
  /\ Calling
  /\ \E p, d \in Ranges :
       LET c == [prog EXCEPT !.calls = @ + 1, !.call = [NoCall EXCEPT !.dst = d, !.before = prog.mem]] IN
       prog' = IF ~Inside(p, p.len) \/ d.ptr < 0 \/ d.len < 0 THEN Returns(c, -1, << >>)
               ELSE [c EXCEPT !.at = "open", !.call.path = Path(load_bytes(p))]
  /\ UNCHANGED fs

\* read_file: open, one read, close.
OpenStep ==
  /\ prog.at = "open" /\ fs.up
  /\ \E r \in Served(fs, Open(fs, prog.call.path, "read")) :
       /\ fs' = r.fs
       /\ prog' = IF r.ok THEN [prog EXCEPT !.at = "io", !.fd = r.val] ELSE Returns(prog, -1, << >>)

\* Mutant: a failed read returns before the close.
IoStepMutant ==
  /\ prog.at = "io" /\ fs.up
  /\ \E r \in Served(fs, Read(fs, prog.fd, prog.call.dst.len)) :
       fs' = r.fs /\ prog' = IF r.ok /\ r.val # << >> THEN [prog EXCEPT !.at = "close", !.got = r] ELSE Returns(prog, -1, << >>)

IoStep ==
  /\ prog.at = "io" /\ fs.up
  /\ \E r \in Served(fs, Read(fs, prog.fd, prog.call.dst.len)) :
       fs' = r.fs /\ prog' = [prog EXCEPT !.at = "close", !.got = r]

\* Mutant: the whole buffer is stored, not the bytes that were read.
storeMutant(p, d, text) ==
  [i \in DOMAIN p.mem |-> IF i >= d.ptr /\ i < d.ptr + d.len
                          THEN IF i - d.ptr < Len(text) THEN text[i - d.ptr + 1] ELSE 0 ELSE p.mem[i]]

\* store_bytes.
store(p, d, text) ==
  [i \in DOMAIN p.mem |-> IF i >= d.ptr /\ i < d.ptr + Len(text) THEN text[i - d.ptr + 1] ELSE p.mem[i]]

\* The close's result is ignored; the bytes go to the module's memory if they fit.
CloseStep ==
  /\ prog.at = "close" /\ fs.up
  /\ fs' = Close(fs, prog.fd).fs
  /\ LET d == prog.call.dst  t == prog.got.val IN
     prog' = IF ~prog.got.ok \/ ~Inside(d, Len(t)) THEN Returns(prog, -1, << >>)
             ELSE Returns([prog EXCEPT !.mem = store(prog, d, t)], Len(t), t)

\* socket_import: there is one socket.
SocketCall ==
  /\ Calling
  /\ prog' = [prog EXCEPT !.calls = @ + 1, !.socket = "Idle",
                            !.call = [NoCall EXCEPT !.ret = IF prog.socket = "Empty" THEN 3 ELSE -1]]
  /\ UNCHANGED fs

Step == Verify \/ Instantiate \/ Return \/ OpenStep \/ IoStep \/ CloseStep
Next == Step \/ Log \/ ReadCall \/ SocketCall
Spec == Init /\ [][Next]_vars /\ WF_vars(Step)

-----------------------------------------------------------------------------
\* Stages, descriptor and memory stay in range.
TypeOK == /\ prog.at \in {"verify", "instantiate", "guest", "open", "io", "close", "end"} /\ prog.now \in {1, 2}
          /\ prog.fd \in {0} \cup Fd /\ DOMAIN prog.mem = 0 .. Mem - 1

\* A module runs only if all of it, and nothing else, was signed; a run that ends
\* without "err" refused the first one for its signature, and ran the second to
\* its end with something printed.
ReportsTruly ==
  /\ \A n \in prog.ran : LET b == prog.blobs[n] IN b.signed = b.wasm /\ b.wasm = b.rest /\ b.wasm \in 1 .. MaxWasm
  /\ prog.at = "end" =>
       (\E i \in DOMAIN prog.out : prog.out[i] = "err") = ~(prog.result = <<"Signature", "Ok">> /\ \E i \in DOMAIN prog.out : prog.out[i] = "guest")

\* After a call the module's memory is as before, but for the bytes that were read,
\* which are the beginning of the file and as many as the call returned.
MemoryKept ==
  prog.at = "guest" /\ prog.call.before # << >> =>
    LET c == prog.call IN
    /\ c.ret = (IF c.ret < 0 THEN -1 ELSE Len(c.text))
    /\ c.ret >= 0 => c.text = SubSeq(Find(fs, c.path).text, 1, c.ret) /\ c.ret <= c.dst.len
    /\ \A i \in 0 .. Mem - 1 : prog.mem[i] = IF c.ret > 0 /\ i >= c.dst.ptr /\ i < c.dst.ptr + c.ret
                                             THEN c.text[i - c.dst.ptr + 1] ELSE c.before[i]

\* read_file leaves nothing open behind it.
NothingLeftOpen == prog.at \in {"guest", "end"} => NothingOpen(fs)

Busy == fs.up /\ prog.at # "end"
=============================================================================
