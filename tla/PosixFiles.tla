----------------------------- MODULE PosixFiles -----------------------------
(***************************************************************************)
(* lerux-posix Files, the descriptor table of a file client, against the   *)
(* file server it talks to.  An operation of Files is one value: the       *)
(* operator takes the state of client and server and returns the next one  *)
(* with the result.  One exchange at a time is in flight and is answered   *)
(* (FsSystem checks that), so an operation is one step of its caller.      *)
(* The server is sddf-fatfs seen from its commands: one open file, one     *)
(* open directory, and a volume of names (FatVolume is its inside).        *)
(***************************************************************************)
EXTENDS Integers, Sequences, FiniteSets

CONSTANTS Name,       \* names of the root directory
          Config,     \* the seeded directory
          Hostname,   \* the path of the seeded file inside it
          Seed,       \* what that file holds
          TableLen,   \* slots of the descriptor table
          DataLen,    \* the largest transfer of one exchange
          SectorLen,  \* the largest file
          Entries     \* entries and clusters of the volume

Root == "."
Fd == 1 .. TableLen
Empty == [kind |-> "empty"]
Slot(kind, how) == [kind |-> kind, how |-> how, cursor |-> 0]
None == "none"
Absent == [kind |-> "absent", text |-> << >>]
Directory == [kind |-> "dir", text |-> << >>]
File(t) == [kind |-> "file", text |-> t]
Least(a, b) == IF a < b THEN a ELSE b

\* Files::bind, and a server that has mounted the volume v.
Bound(v) == [slots |-> [d \in Fd |-> Empty], file |-> None, dir |-> << >>, dirOpen |-> FALSE,
             vol |-> v, up |-> TRUE]

Done(f, val) == [fs |-> f, ok |-> TRUE, val |-> val, code |-> "0"]
Fails(f, code) == [fs |-> f, ok |-> FALSE, val |-> << >>, code |-> code]

\* A command that transfers a block: answered, or the transfer fails, the server
\* answers an error and its worker ends.
Served(f, r) == {r, Fails([f EXCEPT !.up = FALSE], "FILE_ERR")}

\* map_status, over the statuses the server sends.
MapStatus(status) ==
  CASE status = "NO_FILE" -> "ENOENT" [] status = "ALREADY_EXISTS" -> "EEXIST"
    [] status = "NOT_EMPTY" -> "ENOTEMPTY" [] status = "TOO_MANY_OPEN_FILES" -> "EMFILE"
    [] status = "DIRECTORY_IS_FULL" -> "ENOSPC" [] status = "INVALID_NAME" -> "EINVAL"
    [] status = "INVALID_FD" -> "EBADF" [] status \in {"INVALID_READ", "INVALID_WRITE"} -> "EACCES"
    [] OTHER -> "FILE_ERR"

Refused(f, status) == Fails(f, MapStatus(status))

Find(f, p) == IF p = Hostname THEN File(Seed) ELSE IF p \in Name THEN f.vol[p] ELSE Absent
Full(f) == Cardinality({n \in Name : f.vol[n] # Absent}) = Entries
FreeSlot(f) == {d \in Fd : f.slots[d] = Empty}
First(S) == CHOOSE d \in S : \A e \in S : d <= e

-----------------------------------------------------------------------------
(* Opening and closing.                                                     *)

\* handle_open: flags other than read only are refused on a nested path.
ServerOpen(f, p, how) ==
  IF p = Hostname /\ how = "create" THEN "ERROR"
  ELSE IF f.file # None THEN "TOO_MANY_OPEN_FILES"
  ELSE IF how = "create"
       THEN IF Find(f, p) # Absent THEN "ALREADY_EXISTS" ELSE IF Full(f) THEN "DIRECTORY_IS_FULL" ELSE "SUCCESS"
       ELSE IF Find(f, p) = Absent THEN "NO_FILE"
            ELSE IF Find(f, p).kind = "dir" THEN "ERROR" ELSE "SUCCESS"


\* Files::open: the slot is taken when the server has answered, not before.
Open(f, p, how) ==
  IF FreeSlot(f) = {} THEN Fails(f, "EMFILE")
  ELSE LET status == ServerOpen(f, p, how) IN
       IF status # "SUCCESS" THEN Refused(f, status)
       ELSE Done([f EXCEPT !.slots[First(FreeSlot(f))] = Slot("file", how), !.file = p,
                           !.vol = IF how = "create" THEN [@ EXCEPT ![p] = File(<< >>)] ELSE @],
                 First(FreeSlot(f)))

\* Files::close: any completion frees the slot.
Close(f, d) ==
  IF f.slots[d].kind # "file" THEN Fails(f, "EBADF")
  ELSE LET g == [f EXCEPT !.slots[d] = Empty] IN
       IF f.file = None THEN Refused(g, "INVALID_FD") ELSE Done([g EXCEPT !.file = None], << >>)

\* handle_dir_open and Files::open_dir; the listing is the one of the opening.
Listing(f, p, order) ==
  IF p = Root THEN SelectSeq(order, LAMBDA n : f.vol[n] # Absent)
  ELSE IF p = Config THEN <<Hostname>> ELSE << >>

OpenDir(f, p, order) ==
  IF FreeSlot(f) = {} THEN Fails(f, "EMFILE")
  ELSE IF f.dirOpen THEN Refused(f, "TOO_MANY_OPEN_FILES")
  ELSE IF p # Root /\ Find(f, p).kind # "dir" THEN Refused(f, "NO_FILE")
  ELSE Done([f EXCEPT !.slots[First(FreeSlot(f))] = Slot("dir", "read"),
                      !.dir = Listing(f, p, order), !.dirOpen = TRUE], First(FreeSlot(f)))

\* Files::read_dir: the empty value stands for None, the end of the directory.
ReadDir(f, d) ==
  IF f.slots[d].kind # "dir" THEN Fails(f, "EBADF")
  ELSE IF ~f.dirOpen THEN Refused(f, "INVALID_FD")
  ELSE IF f.dir = << >> THEN Done(f, None)
  ELSE Done([f EXCEPT !.dir = Tail(@)], Head(f.dir))

CloseDir(f, d) ==
  IF f.slots[d].kind # "dir" THEN Fails(f, "EBADF")
  ELSE LET g == [f EXCEPT !.slots[d] = Empty] IN
       IF ~f.dirOpen THEN Refused(g, "INVALID_FD")
       ELSE Done([g EXCEPT !.dir = << >>, !.dirOpen = FALSE], << >>)

-----------------------------------------------------------------------------
(* Reading and writing.  The server serves offset 0 only, so the loop of    *)
(* Files ends at its first exchange or at the second one's error, which     *)
(* keep_or turns into what the first one moved.                             *)

Read(f, d, buflen) ==
  LET s == f.slots[d]
      n == Least(Least(buflen, DataLen), Len(Find(f, f.file).text))
  IN IF s.kind # "file" THEN Fails(f, "EBADF")
     ELSE IF s.how # "read" THEN Fails(f, "EACCES")
     ELSE IF f.file = None THEN Refused(f, "INVALID_FD")
     ELSE IF s.cursor # 0 THEN Refused(f, "INVALID_READ")
     ELSE Done([f EXCEPT !.slots[d].cursor = n], SubSeq(Find(f, f.file).text, 1, n))

Write(f, d, text) ==
  LET s == f.slots[d]
      n == Least(Len(text), DataLen)
      kept == SubSeq(text, 1, n)
  IN IF s.kind # "file" THEN Fails(f, "EBADF")
     ELSE IF s.how = "read" THEN Fails(f, "EACCES")
     ELSE IF text = << >> THEN Done(f, 0)
     ELSE IF f.file = None THEN Refused(f, "INVALID_FD")
     ELSE IF s.cursor # 0 \/ n > SectorLen THEN Refused(f, "INVALID_WRITE")
     ELSE Done([f EXCEPT !.slots[d].cursor = n, !.vol[f.file] = File(kept)], n)

-----------------------------------------------------------------------------
(* Operations on names.  A removed open file is no longer open.             *)

Mkdir(f, p) ==
  IF p \notin Name THEN Refused(f, "INVALID_NAME")
  ELSE IF f.vol[p] # Absent THEN Refused(f, "ALREADY_EXISTS")
  ELSE IF Full(f) THEN Refused(f, "DIRECTORY_IS_FULL")
  ELSE Done([f EXCEPT !.vol[p] = Directory], << >>)

Unlink(f, p) ==
  IF p \notin Name THEN Refused(f, "INVALID_NAME")
  ELSE IF f.vol[p] = Absent THEN Refused(f, "NO_FILE")
  ELSE IF p = Config THEN Refused(f, "NOT_EMPTY")
  ELSE Done([f EXCEPT !.vol[p] = Absent, !.file = IF @ = p THEN None ELSE @], << >>)

Rename(f, p, q) ==
  IF p \notin Name \/ q \notin Name THEN Refused(f, "INVALID_NAME")
  ELSE IF f.vol[p] = Absent THEN Refused(f, "NO_FILE")
  ELSE IF p # q /\ f.vol[q] # Absent THEN Refused(f, "ALREADY_EXISTS")
  ELSE Done([f EXCEPT !.vol = [n \in Name |-> IF n = q THEN f.vol[p] ELSE IF n = p THEN Absent
                                               ELSE f.vol[n]]], << >>)

\* handle_stat names entries of the root only.
Stat(f, p) ==
  IF p = Root THEN Done(f, "dir")
  ELSE IF p \notin Name THEN Refused(f, "INVALID_NAME")
  ELSE IF f.vol[p] = Absent THEN Refused(f, "NO_FILE")
  ELSE Done(f, f.vol[p].kind)

-----------------------------------------------------------------------------
\* What client and server hold open agrees, and both hold at most one of each.
HandlesAgree(f) ==
  /\ (f.file # None) = (\E d \in Fd : f.slots[d].kind = "file")
  /\ f.dirOpen = (\E d \in Fd : f.slots[d].kind = "dir")

NothingOpen(f) == f.file = None /\ ~f.dirOpen /\ FreeSlot(f) = Fd
=============================================================================
