----------------------------- MODULE FatVolume ------------------------------
(***************************************************************************)
(* sddf-fatfs: the worker of the file system server, its one-block write-  *)
(* back cache and the volume.  The volume is the four transfer blocks its  *)
(* first clusters and root entries live in: 0 (boot sector, first table),  *)
(* 4 (second table), 8 (root directory), 12 (data clusters).  A handler    *)
(* looks everything up, then makes a list of edits; each edit is applied   *)
(* to the cached block, and another block is written and read only when    *)
(* the list moves on to it.  A reset may come between any two transfers.   *)
(***************************************************************************)
EXTENDS Integers, Sequences

CONSTANTS Name,           \* root names; packing them is left out
          Config,         \* the name "config"
          Clusters,       \* CLUSTER_SCAN - 2
          Slots,          \* ROOT_ENTRIES
          SectorLen,      \* cells of a sector
          Letter,         \* the contents of a cell
          Interruptible   \* the operations a reset or a block error may cut short

ASSUME FatVolumeAssumption ==
    /\ Config \in Name /\ {Slots, SectorLen} \subseteq Nat \ {0}
    /\ Clusters \in 1 .. 7    \* clusters 2 .. 8 share transfer block 12

Cluster == 2 .. Clusters + 1
Slot == 1 .. Slots
Text == UNION {[1 .. n -> Letter] : n \in 1 .. SectorLen}
Fat1 == 0
Fat2 == 4
Root == 8
Data == 12
Boot == 1      \* the place of the boot sector in block 0; clusters start at 2

VARIABLES disk,       \* the four blocks
          cache,      \* block_no (-1 when not valid), block_dirty and the bytes
          pc, todo,   \* where the worker is; the edits the handler has left
          cmd,        \* the command being served
          file, dir,  \* State.file, State.dir
          promised,   \* what completed commands have made of each name
          stale       \* the volume has been mounted on the root of a former one

vars == <<disk, cache, pc, todo, cmd, file, dir, promised, stale>>

End == [st |-> "end", name |-> Config, dir |-> FALSE, cluster |-> 0, size |-> 0]
Live(n, isDir, c, size) == [st |-> "live", name |-> n, dir |-> isDir, cluster |-> c, size |-> size]
Blank == [text |-> [i \in 1 .. SectorLen |-> ""], host |-> 0]
Hostname == [i \in 1 .. SectorLen |-> "lerux"]
Absent == [kind |-> "absent", text |-> << >>]
Directory == [kind |-> "dir", text |-> << >>]
File(t) == [kind |-> "file", text |-> t]
NoFile == [cluster |-> 0, size |-> 0, dir_index |-> 0, parent |-> 0]
NoDir == [cluster |-> -1, index |-> 0, due |-> {}]
NoCmd == [op |-> "none", names |-> {}, file |-> NoFile, dir |-> NoDir, promised |-> << >>]
NoCache == [no |-> -1, dirty |-> FALSE, val |-> << >>]

Zero == [b \in {Fat1, Fat2, Root, Data} |->
  CASE b = Fat1 -> [c \in Cluster \cup {Boot} |-> 0]
    [] b = Fat2 -> [c \in Cluster |-> 0]
    [] b = Root -> [i \in Slot |-> End]
    [] b = Data -> [c \in Cluster |-> Blank]]

\* A disk that held something else: tables and root hold its bytes, which read
\* as an entry for n.
Foreign(n) == [Zero EXCEPT ![Fat1] = [c \in Cluster \cup {Boot} |-> IF c = Boot THEN 0 ELSE 1],
                           ![Root][1] = Live(n, FALSE, 2, 1)]

Init ==
  /\ disk \in {Zero} \cup {Foreign(n) : n \in Name}
  /\ cache = NoCache /\ pc = "boot" /\ cmd = NoCmd
  /\ todo = <<[op |-> "load", no |-> Fat1]>>
  /\ file = NoFile /\ dir = NoDir
  /\ promised = [n \in Name |-> Absent] /\ stale = FALSE

-----------------------------------------------------------------------------
(* Transfers.  Edits are [op, no] with a place and a value for op "edit".   *)

Load(b) == [op |-> "load", no |-> b]
Put(b, at, val) == [op |-> "edit", no |-> b, at |-> at, val |-> val]
Flush == [op |-> "flush", no |-> -1]

\* Mutant: the second table is not written.
SetFirstOnly(c, v) == <<Put(Fat1, c, v)>>

SetFat(c, v) == <<Put(Fat1, c, v), Put(Fat2, c, v)>>
StageZero(b) == [op |-> "zero", no |-> b]

\* Mutant: moving on to another block forgets the cached one was dirty.
WriteBackForgets ==
  /\ todo # << >> /\ cache.dirty
  /\ Head(todo).op \in {"flush", "zero"} \/ Head(todo).no # cache.no
  /\ disk' = IF Head(todo).op = "load" \/ Head(todo).op = "edit" THEN disk
             ELSE [disk EXCEPT ![cache.no] = cache.val]
  /\ cache' = [cache EXCEPT !.dirty = FALSE]
  /\ UNCHANGED <<pc, todo, cmd, file, dir, promised, stale>>

\* flush_block of a dirty block, from load_block, stage_zero or the handler.
WriteBack ==
  /\ todo # << >> /\ cache.dirty
  /\ Head(todo).op \in {"flush", "zero"} \/ Head(todo).no # cache.no
  /\ disk' = [disk EXCEPT ![cache.no] = cache.val]
  /\ cache' = [cache EXCEPT !.dirty = FALSE]
  /\ UNCHANGED <<pc, todo, cmd, file, dir, promised, stale>>

\* load_block of another block.
ReadBlock ==
  /\ todo # << >> /\ ~cache.dirty
  /\ Head(todo).op \in {"load", "edit"} /\ Head(todo).no # cache.no
  /\ cache' = [no |-> Head(todo).no, dirty |-> FALSE, val |-> disk[Head(todo).no]]
  /\ UNCHANGED <<disk, pc, todo, cmd, file, dir, promised, stale>>

\* What needs no transfer: a hit, an edit of the cached block, a staged zero.
InCache ==
  /\ todo # << >> /\ todo' = Tail(todo)
  /\ LET e == Head(todo) IN
       \/ e.op = "load" /\ e.no = cache.no /\ UNCHANGED cache
       \/ e.op = "flush" /\ ~cache.dirty /\ UNCHANGED cache
       \/ /\ e.op = "edit" /\ e.no = cache.no
          /\ cache' = [cache EXCEPT !.val[e.at] = e.val, !.dirty = TRUE]
       \/ /\ e.op = "zero" /\ ~cache.dirty
          /\ cache' = [no |-> e.no, dirty |-> TRUE, val |-> Zero[e.no]]
  /\ UNCHANGED <<disk, pc, cmd, file, dir, promised, stale>>

\* A block as the worker sees it.
Seen(b) == IF cache.no = b THEN cache.val ELSE disk[b]

-----------------------------------------------------------------------------
(* Lookups.  0 stands for Scan::Missing.                                    *)

First(S) == IF S = {} THEN 0 ELSE CHOOSE i \in S : \A j \in S : i <= j

\* find_name: a scan that a never used entry ends.
FindName(root, n) ==
  First({i \in Slot : /\ root[i].st = "live" /\ root[i].name = n
                      /\ \A j \in 1 .. i : root[j].st # "end"})

FindFree == First({i \in Slot : Seen(Root)[i].st # "live"})

\* Mutant: the scan includes its bound.
AllocInclusive ==
  First({c \in Cluster \cup {Clusters + 2} : c = Clusters + 2 \/ Seen(Fat1)[c] = 0})

AllocCluster == First({c \in Cluster : Seen(Fat1)[c] = 0})

\* directory_empty: only the seeded directory ever holds a file.
DirectoryEmpty(c) == Seen(Data)[c].host = 0

-----------------------------------------------------------------------------
(* prepare: load the boot block, format a volume without the signature,     *)
(* and seed config/hostname when it is missing.                             *)

Prepare(next, edits, op) ==
  /\ pc' = next /\ todo' = edits
  /\ cmd' = [NoCmd EXCEPT !.op = op, !.names = IF op = "seed" THEN {Config} ELSE {}]
  /\ UNCHANGED <<disk, cache, file, dir, promised, stale>>

VolumeOk == Seen(Fat1)[Boot] = 1

\* format_volume: the signature is in the first block it writes.
FormatVolume ==
  /\ pc = "boot" /\ todo = << >> /\ ~VolumeOk
  /\ Prepare("seed", <<StageZero(Fat1), Put(Fat1, Boot, 1), StageZero(Fat2), StageZero(Root),
                       StageZero(Data), Flush, Load(Root)>>, "format")

Mount == pc = "boot" /\ todo = << >> /\ VolumeOk /\ Prepare("seed", <<Load(Root)>>, "seed")

\* create_directory, as handle_mkdir runs it too.
MakeDirectory(n, slot, c) ==
  <<Load(Fat1)>> \o SetFat(c, 1) \o <<Put(Data, c, Blank), Put(Root, slot, Live(n, TRUE, c, 0)), Flush>>

SeedDirectory ==
  /\ pc = "seed" /\ todo = << >> /\ FindName(Seen(Root), Config) = 0
  /\ \/ /\ FindFree # 0 /\ AllocCluster # 0
        /\ Prepare("host", MakeDirectory(Config, FindFree, AllocCluster) \o <<Load(Root)>>, "seed")
     \/ FindFree * AllocCluster = 0 /\ Prepare("dead", << >>, "none")

SeedFound ==
  /\ pc = "seed" /\ todo = << >> /\ FindName(Seen(Root), Config) # 0
  /\ Prepare(IF Seen(Root)[FindName(Seen(Root), Config)].dir THEN "host" ELSE "dead", << >>, "seed")

ConfigCluster == disk[Root][FindName(disk[Root], Config)].cluster

\* find_in_cluster, then write_seed_file when the file is missing.
SeedFile ==
  /\ pc = "host" /\ todo = << >>
  /\ LET c == AllocCluster IN
       \/ Seen(Data)[ConfigCluster].host # 0 /\ Prepare("ready", <<Load(Data)>>, "seed")
       \/ Seen(Data)[ConfigCluster].host = 0 /\ c = 0 /\ Prepare("dead", << >>, "none")
       \/ /\ Seen(Data)[ConfigCluster].host = 0 /\ c # 0
          /\ Prepare("ready", <<Load(Data), Load(Fat1)>> \o SetFat(c, 1)
               \o <<Put(Data, c, [text |-> Hostname, host |-> 0]),
                    Put(Data, ConfigCluster, [Blank EXCEPT !.host = c]), Flush>>, "seed")

\* The worker serves; the seeded directory is part of what the volume holds.
Ready ==
  /\ pc = "ready" /\ todo = << >>
  /\ pc' = "wait" /\ cmd' = NoCmd
  /\ promised' = [promised EXCEPT ![Config] = Directory]
  /\ UNCHANGED <<disk, cache, todo, file, dir, stale>>

-----------------------------------------------------------------------------
(* The handlers.  Accept starts the edits of a command that will succeed;   *)
(* Refuse the lookups of one that fails with a status and changes nothing.  *)

Accept(op, names, edits, f, d, p) ==
  /\ pc' = "run" /\ todo' = edits
  /\ cmd' = [op |-> op, names |-> names, file |-> f, dir |-> d, promised |-> p]
  /\ UNCHANGED <<disk, cache, file, dir, promised, stale>>

Refuse(edits) == Accept("refused", {}, edits, file, dir, promised)

Lookup(n) == FindName(Seen(Root), n)
EntryOf(n) == IF Lookup(n) = 0 THEN End ELSE Seen(Root)[Lookup(n)]
Waiting == pc = "wait"

\* complete: the command's effect on the open file and directory.
Complete ==
  /\ pc = "run" /\ todo = << >>
  /\ pc' = "wait" /\ cmd' = NoCmd
  /\ file' = cmd.file /\ dir' = cmd.dir /\ promised' = cmd.promised
  /\ UNCHANGED <<disk, cache, todo, stale>>

\* Mutant: the entry reaches the disk before the tables.
CreateEntryFirst(n, slot, c) ==
  <<Load(Fat1), Put(Root, slot, Live(n, FALSE, c, 0))>> \o SetFat(c, 1) \o <<Flush>>

\* The edits of create_file: the tables, then the entry.
CreateEdits(n, slot, c) ==
  <<Load(Fat1)>> \o SetFat(c, 1) \o <<Put(Root, slot, Live(n, FALSE, c, 0)), Flush>>

CreateFile(n) ==
  /\ Waiting
  /\ LET slot == FindFree
         c == AllocCluster
     IN \/ file # NoFile /\ Refuse(<< >>)
        \/ file = NoFile /\ (Lookup(n) # 0 \/ slot = 0) /\ Refuse(<<Load(Root)>>)
        \/ file = NoFile /\ Lookup(n) = 0 /\ slot # 0 /\ c = 0 /\ Refuse(<<Load(Root), Load(Fat1)>>)
        \/ /\ file = NoFile /\ Lookup(n) = 0 /\ slot # 0 /\ c # 0
           /\ Accept("create", {n}, <<Load(Root)>> \o CreateEdits(n, slot, c),
                [cluster |-> c, size |-> 0, dir_index |-> slot, parent |-> 0], dir,
                [promised EXCEPT ![n] = File(<< >>)])

OpenRead(n) ==
  /\ Waiting
  /\ \/ file # NoFile /\ Refuse(<< >>)
     \/ file = NoFile /\ (Lookup(n) = 0 \/ EntryOf(n).dir) /\ Refuse(<<Load(Root)>>)
     \/ /\ file = NoFile /\ Lookup(n) # 0 /\ ~EntryOf(n).dir
        /\ Accept("open", {}, <<Load(Root)>>,
             [cluster |-> EntryOf(n).cluster, size |-> EntryOf(n).size, dir_index |-> Lookup(n),
              parent |-> 0], dir, promised)

\* open_nested_read of n/hostname.
OpenNestedRead(n) ==
  /\ Waiting /\ file = NoFile /\ Lookup(n) # 0 /\ EntryOf(n).dir
  /\ LET host == Seen(Data)[EntryOf(n).cluster].host IN
       \/ host = 0 /\ Refuse(<<Load(Root), Load(Data)>>)
       \/ /\ host # 0
          /\ Accept("open", {}, <<Load(Root), Load(Data)>>,
               [cluster |-> host, size |-> SectorLen, dir_index |-> 3, parent |-> EntryOf(n).cluster],
               dir, promised)

HandleClose == Waiting /\ file # NoFile /\ Accept("close", {}, << >>, NoFile, dir, promised)

OpenName == Seen(Root)[file.dir_index].name
Overlay(sector, t) ==
  [text |-> [i \in 1 .. SectorLen |-> IF i <= Len(t) THEN t[i] ELSE sector.text[i]], host |-> 0]

HandleWrite(t) ==
  /\ Waiting /\ file # NoFile
  /\ \/ file.parent # 0 /\ Refuse(<< >>)
     \/ /\ file.parent = 0
        /\ Accept("write", {OpenName},
             <<Put(Data, file.cluster, Overlay(Seen(Data)[file.cluster], t)),
               Put(Root, file.dir_index, [Seen(Root)[file.dir_index] EXCEPT !.size = Len(t)]), Flush>>,
             [file EXCEPT !.size = Len(t)], dir, [promised EXCEPT ![OpenName] = File(t)])

HandleRead == Waiting /\ file.size > 0 /\ Refuse(<<Load(Data)>>)

HandleStat == Waiting /\ Refuse(<<Load(Root)>>)

HandleRename(old, new) ==
  /\ Waiting
  /\ \/ (Lookup(old) = 0 \/ (old # new /\ Lookup(new) # 0)) /\ Refuse(<<Load(Root)>>)
     \/ /\ Lookup(old) # 0 /\ (old = new \/ Lookup(new) = 0)
        /\ Accept("rename", {old, new},
             <<Load(Root), Put(Root, Lookup(old), [EntryOf(old) EXCEPT !.name = new]), Flush>>,
             file, [dir EXCEPT !.due = @ \ {old, new}],
             [promised EXCEPT ![old] = Absent, ![new] = promised[old]])

\* Mutant: the open file stays open when its entry is deleted.
RemoveKeepsOpen(slot) == file

CloseRemoved(slot) == IF file.parent = 0 /\ file.dir_index = slot THEN NoFile ELSE file

\* mark_deleted.
Deleted(e) == [End EXCEPT !.st = "deleted"]

\* handle_remove: the cluster is freed before the entry is deleted.
HandleRemove(n) ==
  /\ Waiting
  /\ \/ Lookup(n) = 0 /\ Refuse(<<Load(Root)>>)
     \/ /\ Lookup(n) # 0 /\ EntryOf(n).dir /\ ~DirectoryEmpty(EntryOf(n).cluster)
        /\ Refuse(<<Load(Root), Load(Data)>>)
     \/ /\ Lookup(n) # 0 /\ (EntryOf(n).dir => DirectoryEmpty(EntryOf(n).cluster))
        /\ Accept("remove", {n},
             <<Load(Root)>> \o (IF EntryOf(n).dir THEN <<Load(Data)>> ELSE << >>)
               \o SetFat(EntryOf(n).cluster, 0)
               \o <<Put(Root, Lookup(n), Deleted(EntryOf(n))), Flush>>,
             CloseRemoved(Lookup(n)), [dir EXCEPT !.due = @ \ {n}], [promised EXCEPT ![n] = Absent])

HandleMkdir(n) ==
  /\ Waiting
  /\ \/ (Lookup(n) # 0 \/ FindFree = 0 \/ AllocCluster = 0) /\ Refuse(<<Load(Root), Load(Fat1)>>)
     \/ /\ Lookup(n) = 0 /\ FindFree # 0 /\ AllocCluster # 0
        /\ Accept("mkdir", {n}, <<Load(Root)>> \o MakeDirectory(n, FindFree, AllocCluster),
             file, dir, [promised EXCEPT ![n] = Directory])

\* handle_dir_open of a directory, and of the root: due are the names still to
\* be listed.
HandleDirOpen(n) ==
  /\ Waiting
  /\ \/ dir # NoDir /\ Refuse(<< >>)
     \/ dir = NoDir /\ ~EntryOf(n).dir /\ Refuse(<<Load(Root)>>)
     \/ /\ dir = NoDir /\ EntryOf(n).dir
        /\ Accept("dir_open", {}, <<Load(Root)>>, file,
             [cluster |-> EntryOf(n).cluster, index |-> 0, due |-> {}], promised)

HandleDirOpenRoot ==
  /\ Waiting /\ dir = NoDir
  /\ Accept("dir_open", {}, << >>, file,
       [cluster |-> 0, index |-> 0, due |-> {n \in Name : Lookup(n) # 0}], promised)

\* The entry a read of the root stops at: the first one that is not deleted.
\* A subdirectory has at most one entry to list, the third.
NextEntry == First({i \in Slot : i > dir.index /\ Seen(Root)[i].st # "deleted"})

\* Mutant: a read resumes two entries on.
DirReadSkips ==
  /\ Waiting /\ dir # NoDir
  /\ Accept("dir_read", {}, <<Load(Root)>>, file,
       [dir EXCEPT !.index = IF NextEntry = 0 THEN @ ELSE NextEntry + 1,
                   !.due = IF NextEntry = 0 THEN @ ELSE @ \ {Seen(Root)[NextEntry].name}], promised)

HandleDirRead ==
  /\ Waiting /\ dir # NoDir
  /\ \/ dir.cluster # 0 /\ Accept("dir_read", {}, <<Load(Data)>>, file, [dir EXCEPT !.index = 3], promised)
     \/ dir.cluster = 0 /\ NextEntry = 0 /\ Refuse(<<Load(Root)>>)
     \/ /\ dir.cluster = 0 /\ NextEntry # 0
        /\ Accept("dir_read", {}, <<Load(Root)>>, file,
             [dir EXCEPT !.index = NextEntry,
                         !.due = IF Seen(Root)[NextEntry].st = "end" THEN @
                                 ELSE @ \ {Seen(Root)[NextEntry].name}], promised)

HandleDirClose == Waiting /\ dir # NoDir /\ Accept("dir_close", {}, << >>, file, NoDir, promised)

-----------------------------------------------------------------------------
\* What a volume holds under name n.
View(d, n) ==
  LET i == FindName(d[Root], n) IN
  IF i = 0 THEN Absent
  ELSE IF d[Root][i].dir THEN Directory
  ELSE File(SubSeq(d[Data][d[Root][i].cluster].text, 1, d[Root][i].size))

\* A transfer fails: the worker answers FS_STATUS_ERROR and returns for good.
BlockError ==
  /\ todo # << >> /\ cmd.op \in Interruptible
  /\ pc' = "dead" /\ todo' = << >> /\ UNCHANGED <<disk, cache, cmd, file, dir, promised, stale>>

\* A reset: only the disk stays.  The names of an interrupted command hold
\* whatever of it had reached the disk.  A format that is cut short after its first
\* block and before the root leaves the signature over a root it has not zeroed,
\* and the next boot mounts that.
Reset ==
  /\ pc # "boot" /\ (pc = "dead" \/ cmd.op \in Interruptible \cup {"none"})
  /\ pc' = "boot" /\ todo' = <<Load(Fat1)>> /\ cmd' = NoCmd
  /\ cache' = NoCache /\ file' = NoFile /\ dir' = NoDir
  /\ promised' = [n \in Name |-> IF n \in cmd.names THEN View(disk, n) ELSE promised[n]]
  /\ stale' = (stale \/ (cmd.op = "format" /\ disk[Fat1][Boot] = 1 /\ disk[Root] # Zero[Root]))
  /\ UNCHANGED disk

\* worker, serve_one.
Serve ==
  \/ \E n \in Name : \/ CreateFile(n) \/ OpenRead(n) \/ OpenNestedRead(n)
                     \/ HandleRemove(n) \/ HandleMkdir(n) \/ HandleDirOpen(n)
  \/ \E old, new \in Name : HandleRename(old, new)
  \/ \E t \in Text : HandleWrite(t)
  \/ HandleClose \/ HandleRead \/ HandleStat
  \/ HandleDirOpenRoot \/ HandleDirRead \/ HandleDirClose

Transfer == WriteBack \/ ReadBlock \/ InCache

Boots == Mount \/ FormatVolume \/ SeedDirectory \/ SeedFound \/ SeedFile \/ Ready

\* Of a volume mounted on the root of a former one the boot is followed, and not
\* the commands: nothing is promised of what they find there.
Next == Transfer \/ Boots \/ (~stale /\ Serve) \/ Complete \/ BlockError \/ Reset

Spec == Init /\ [][Next]_vars

-----------------------------------------------------------------------------
Sector == [text : [1 .. SectorLen -> Letter \cup {"", "lerux"}], host : Cluster \cup {0}]
EntryType == [st : {"live", "deleted", "end"}, name : Name, dir : BOOLEAN, cluster : Cluster \cup {0},
              size : 0 .. SectorLen]

\* The volume's blocks, the cache, the open file and directory keep their shapes.
TypeOK ==
  /\ disk[Fat1] \in [Cluster \cup {Boot} -> {0, 1}] /\ disk[Fat2] \in [Cluster -> {0, 1}]
  /\ disk[Root] \in [Slot -> EntryType] /\ disk[Data] \in [Cluster -> Sector]
  /\ cache.no \in {-1, Fat1, Fat2, Root, Data} /\ (cache.dirty => cache.no # -1)
  /\ file.cluster \in Cluster \cup {0} /\ dir.due \subseteq Name

\* Served commands are durable: with no command being served, the volume on
\* disk, not only the cached block, holds under every name exactly what the
\* completed creates, writes, renames, removes and mkdirs made of it, and a
\* reset changes nothing but the names of the command it cut short.  It says
\* nothing of a volume mounted on the root of a former one.
Faithful == Waiting /\ ~stale => \A n \in Name : View(disk, n) = promised[n]

\* The clusters the live entries name: root entries and the seeded file.
LiveSlots == {i \in Slot : disk[Root][i].st = "live"}
Hosts == {i \in LiveSlots : disk[Root][i].dir /\ disk[Data][disk[Root][i].cluster].host # 0}

\* No cluster is shared: every live entry, the nested one included, has a
\* cluster of its own that the first table, the one alloc_cluster scans,
\* calls taken; so no later create can hand it out again.  A volume mounted on
\* the root of a former one is excluded here too: its entries' clusters are free.
NoSharedCluster ==
  Waiting /\ ~stale =>
    /\ \A i \in LiveSlots : disk[Fat1][disk[Root][i].cluster] = 1
    /\ \A i, j \in LiveSlots : i # j => disk[Root][i].cluster # disk[Root][j].cluster
    /\ \A h \in Hosts : LET c == disk[Data][disk[Root][h].cluster].host IN
         disk[Fat1][c] = 1 /\ \A i \in LiveSlots : disk[Root][i].cluster # c

\* Without resets inside a command nothing leaks: the two tables agree and a
\* taken cluster belongs to a live entry.
NoLeak ==
  Waiting =>
    \A c \in Cluster :
      /\ disk[Fat1][c] = disk[Fat2][c]
      /\ disk[Fat1][c] = 1 => \/ \E i \in LiveSlots : disk[Root][i].cluster = c
                              \/ \E h \in Hosts : disk[Data][disk[Root][h].cluster].host = c

\* The open file: through renames of it and removes around it, the descriptor
\* keeps the cluster and size of the entry it was opened by, so reads return
\* what that entry promises.
OpenFileCurrent ==
  Waiting /\ ~stale /\ file # NoFile =>
    \/ /\ file.parent = 0
       /\ LET e == disk[Root][file.dir_index] IN
            /\ e.st = "live" /\ e.cluster = file.cluster /\ e.size = file.size
            /\ promised[e.name] = File(SubSeq(disk[Data][file.cluster].text, 1, file.size))
    \/ /\ file.parent # 0 /\ disk[Data][file.parent].host = file.cluster
       /\ disk[Data][file.cluster].text = Hostname

\* A finished listing of the root has returned every name that was there when
\* it began and was neither renamed nor removed since.
ListsAll ==
  Waiting /\ dir.cluster = 0 /\ (dir.index >= Slots \/ (dir.index > 0 /\ disk[Root][dir.index].st = "end"))
    => dir.due = {}

=============================================================================
