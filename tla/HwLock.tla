------------------------------- MODULE HwLock -------------------------------
(***************************************************************************)
(* The advisory lock of one hardware board (tools/lerux-cli/src/           *)
(* hw_lock.rs): a file made with create_new, into which the holder then    *)
(* writes its process id; a lock with no readable id, or the id of a dead  *)
(* process, is stale and is removed by whoever finds it.                   *)
(*                                                                         *)
(* Every call on the file system is a step of its own.  An open file is an *)
(* inode: a write to a file that another process has unlinked goes nowhere *)
(* that anybody will read.                                                 *)
(***************************************************************************)
EXTENDS Naturals, Sequences

CONSTANTS Procs,      \* process ids that want the board
          MaxInodes,  \* bound: lock files made in one behaviour
          MaxDeaths   \* bound: processes killed

VARIABLES dir,   \* at: the inode the path names (0: none); text: what each inode holds
          proc,  \* where each process is, and the inode it has open
          lost   \* processes killed

vars == <<dir, proc, lost>>

NoPid == "none"

Init == /\ dir = [at |-> 0, text |-> <<>>]
        /\ proc = [p \in Procs |-> [pc |-> "create", ino |-> 0]]
        /\ lost = 0

Go(p, pc) == proc' = [proc EXCEPT ![p].pc = pc]

At(p, pc) == proc[p].pc = pc

(* The open of try_create_lock: it makes an empty file or fails. *)
create_new(p) ==
    /\ At(p, "create")
    /\ UNCHANGED lost
    /\ \/ /\ dir.at = 0
          /\ Len(dir.text) < MaxInodes
          /\ dir' = [at |-> Len(dir.text) + 1, text |-> Append(dir.text, NoPid)]
          /\ proc' = [proc EXCEPT ![p] = [pc |-> "write", ino |-> Len(dir.text) + 1]]
       \/ /\ dir.at # 0
          /\ Go(p, "exists")
          /\ UNCHANGED dir

(* The writeln! and the sync_all of try_create_lock; acquire returns. *)
write_pid(p) ==
    /\ At(p, "write")
    /\ dir' = [dir EXCEPT !.text[proc[p].ino] = p]
    /\ Go(p, "held")
    /\ UNCHANGED lost

(* A failed create is an error of its own when the path has gone meanwhile; *)
(* otherwise the process waits until its deadline.                          *)
exists(p) ==
    /\ At(p, "exists")
    /\ IF dir.at = 0 THEN Go(p, "failed")
       ELSE Go(p, "stale") \/ Go(p, "failed")
    /\ UNCHANGED <<dir, lost>>

(* What read_to_string and /proc say of the path. *)
is_stale ==
    \/ dir.at = 0
    \/ dir.text[dir.at] = NoPid
    \/ At(dir.text[dir.at], "dead")

check_stale(p) ==
    /\ At(p, "stale")
    /\ Go(p, IF is_stale THEN "steal" ELSE "create")
    /\ UNCHANGED <<dir, lost>>

(* remove_file names the path, whatever inode it now leads to. *)
remove_file(p) ==
    /\ At(p, "steal")
    /\ dir' = [dir EXCEPT !.at = 0]
    /\ Go(p, "create")
    /\ UNCHANGED lost

(* Drop: the smoke is over and the path is removed. *)
release(p) ==
    /\ At(p, "held")
    /\ dir' = [dir EXCEPT !.at = 0]
    /\ Go(p, "done")
    /\ UNCHANGED lost

(* A process is killed; its file stays. *)
Die(p) ==
    /\ lost < MaxDeaths
    /\ ~ \E s \in {"done", "failed", "dead"} : At(p, s)
    /\ Go(p, "dead")
    /\ lost' = lost + 1
    /\ UNCHANGED dir

Next == \E p \in Procs :
    \/ create_new(p)
    \/ write_pid(p)
    \/ exists(p)
    \/ check_stale(p)
    \/ remove_file(p)
    \/ release(p)
    \/ Die(p)

Spec == Init /\ [][Next]_vars

(* "Held exclusive lock for one hardware board": no two live processes are  *)
(* past acquire and before the drop of their BoardLock at the same time.    *)
OneHolder == \A p, r \in Procs : At(p, "held") /\ At(r, "held") => p = r

=============================================================================
