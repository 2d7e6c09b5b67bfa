-------------------------------- MODULE Nvme --------------------------------
(***************************************************************************)
(* swift-nvme: the controller is brought up once, LERUX.TXT is looked for  *)
(* behind the boot sector or the partition table, and one report is left   *)
(* for the shell.  Commands go one at a time through queues of two         *)
(* entries; the controller (external) may answer late or never.  A sector  *)
(* is a record of what the search reads in it.                             *)
(***************************************************************************)
EXTENDS Integers, Sequences, FiniteSets

CONSTANTS Disks,      \* [table, parts]: parts is a sequence of [start, vol]
          PerSector,  \* entries of a table sector, slots of a directory sector
          Records,    \* file records that are looked at
          RecSectors  \* sectors of a file record

VARIABLES dev,        \* controller: queues, data page, the disk
          drv,        \* Ctrl and the place in the search
          q           \* the result page

vars == <<dev, drv, q>>

-----------------------------------------------------------------------------
(* The disk (external).  A volume is [fs, spc, files]: the files of a FAT   *)
(* root are [name, cluster, text], the records of an NTFS table are         *)
(* [name, inUse, whole, text]; text "none" is data outside the record.      *)

Reserved == 2  \* boot sector and one file allocation table
TableLba == 2  \* entry array of the partition table
RootSectors(vol) == (Len(vol.files) + PerSector - 1) \div PerSector
FirstData(vol) == Reserved + RootSectors(vol)
Slots(s, i) == [k \in 1 .. PerSector |-> IF i * PerSector + k <= Len(s) THEN s[i * PerSector + k]
                                         ELSE [name |-> "end", cluster |-> 0, text |-> "none"]]
Empty == [kind |-> "other"]

FatSector(vol, n) ==
  IF n = 0 THEN [kind |-> "fat", root |-> Reserved, dirs |-> RootSectors(vol)]
  ELSE IF n \in Reserved .. FirstData(vol) - 1 THEN [kind |-> "dir", slots |-> Slots(vol.files, n - Reserved)]
  ELSE LET f == {i \in DOMAIN vol.files : /\ vol.files[i].cluster >= 2 /\ vol.files[i].name # "deleted"
                                          /\ n = FirstData(vol) + (vol.files[i].cluster - 2) * vol.spc}
       IN IF f = {} THEN Empty ELSE [kind |-> "data", text |-> vol.files[CHOOSE i \in f : TRUE].text]

NtfsSector(vol, n) ==
  IF n = 0 THEN [kind |-> "ntfs", mft |-> 1, spc |-> vol.spc]
  ELSE LET i == (n - vol.spc) \div RecSectors + 1 IN
       IF n >= vol.spc /\ i \in DOMAIN vol.files /\ (n - vol.spc) % RecSectors = 0
       THEN [kind |-> "record", file |-> vol.files[i]] ELSE Empty

VolSector(vol, n) ==
  CASE vol.fs = "fat" -> FatSector(vol, n) [] vol.fs = "ntfs" -> NtfsSector(vol, n) [] OTHER -> Empty

SectorAt(disk, lba) ==
  LET inside == {i \in DOMAIN disk.parts : disk.parts[i].start # 0 /\ lba >= disk.parts[i].start}
      part == CHOOSE i \in inside : \A j \in inside : disk.parts[j].start <= disk.parts[i].start
  IN CASE disk.table = "none" -> VolSector(disk.parts[1].vol, lba)
       [] lba = 0 -> [kind |-> "mbr"]
       [] lba = 1 -> [kind |-> "gpt", ok |-> disk.table = "gpt", count |-> Len(disk.parts)]
       [] lba >= TableLba /\ inside = {} -> [kind |-> "entries", first |-> (lba - TableLba) * PerSector]
       [] OTHER -> VolSector(disk.parts[part].vol, lba - disk.parts[part].start)

-----------------------------------------------------------------------------
Queues == {"admin", "io"}
At(step, start, i) == [step |-> step, start |-> start, i |-> i, s |-> 0, entry |-> 0, lba |-> 0, boot |-> Empty,
                      rec |-> Empty]

Init ==
  /\ \E d \in Disks : dev = [disk |-> d, cq |-> [k \in Queues |-> <<0, 0>>], bad |-> FALSE,
                             head |-> [k \in Queues |-> 0], phase |-> [k \in Queues |-> 1],
                             todo |-> << >>, page |-> Empty]
  /\ drv = [pc |-> "present", head |-> [k \in Queues |-> 0], phase |-> [k \in Queues |-> 1],
            at |-> At("boot", 0, 0), saw |-> FALSE, missed |-> FALSE]
  /\ q = [report |-> "none", told |-> FALSE]

Goto(pc) == [drv EXCEPT !.pc = pc]
Report(r) == [q EXCEPT !.report = r, !.told = TRUE]  \* write_result, then notify

\* init and bring_up: each stage passes or ends in its own report.
Stages == [present |-> [next |-> "version", fails |-> "absent"],
           version |-> [next |-> "disable", fails |-> "regs"],
           disable |-> [next |-> "enable", fails |-> "enable"],
           enable  |-> [next |-> "createCq", fails |-> "enable"]]

BringUp ==
  /\ drv.pc \in DOMAIN Stages
  /\ \/ drv' = Goto(Stages[drv.pc].next) /\ UNCHANGED q
     \/ drv' = Goto("end") /\ q' = Report(Stages[drv.pc].fails)
  /\ UNCHANGED dev

-----------------------------------------------------------------------------
(* submit, ring and poll, for the admin and the data queue alike.           *)

Queue == IF drv.pc \in {"pollCq", "pollSq"} THEN "admin" ELSE "io"

admin ==
  /\ drv.pc \in {"createCq", "createSq"}
  /\ dev' = [dev EXCEPT !.todo = Append(@, [q |-> "admin", lba |-> 0])]
  /\ drv' = Goto(IF drv.pc = "createCq" THEN "pollCq" ELSE "pollSq") /\ UNCHANGED q

Lba(at) ==
  CASE at.step = "boot" -> 0 [] at.step = "header" -> 1
    [] at.step = "entry" -> TableLba + at.i \div PerSector
    [] at.step = "volume" -> at.start
    [] at.step = "dir" -> at.start + at.boot.root + at.i
    [] at.step = "data" -> at.start + at.lba
    [] at.step = "mft" -> at.start + at.boot.mft * at.boot.spc + at.i * RecSectors + at.s

\* The data page is cleared before each read.
io_read ==
  /\ drv.pc = "read"
  /\ dev' = [dev EXCEPT !.page = Empty, !.todo = Append(@, [q |-> "io", lba |-> Lba(drv.at)])]
  /\ drv' = Goto("poll") /\ UNCHANGED q

\* Mutant: the phase does not turn when the head wraps.
StepHeadMutant(k) == [drv EXCEPT !.head[k] = 1 - @]

\* After a completion the head moves, and the phase turns when it wraps.
StepHead(k) == [drv EXCEPT !.head[k] = 1 - @, !.phase[k] = IF drv.head[k] = 1 THEN 1 - @ ELSE @]

\* Only the phase of the entry is looked at, not which command it completes.
poll ==
  /\ drv.pc \in {"poll", "pollCq", "pollSq"}
  /\ LET k == Queue
         there == dev.cq[k][drv.head[k] + 1] = drv.phase[k] IN
     IF there /\ ~dev.bad
     THEN drv' = [StepHead(k) EXCEPT !.pc = CASE drv.pc = "pollCq" -> "createSq" [] drv.pc = "pollSq" -> "read"
                                              [] OTHER -> "got"]
     ELSE drv' = [drv EXCEPT !.pc = "missed"]
  /\ UNCHANGED <<dev, q>>

\* The controller takes the oldest command, now or long after it was given up.
Complete ==
  /\ dev.todo # << >>
  /\ LET c == Head(dev.todo) IN
     \E bad \in BOOLEAN :
       dev' = [dev EXCEPT !.todo = Tail(@), !.bad = bad,
                 !.page = IF c.q = "io" /\ ~bad THEN SectorAt(dev.disk, c.lba) ELSE @,
                 !.cq[c.q][dev.head[c.q] + 1] = dev.phase[c.q],
                 !.head[c.q] = 1 - @, !.phase[c.q] = IF dev.head[c.q] = 1 THEN 1 - @ ELSE @]
  /\ UNCHANGED <<drv, q>>

-----------------------------------------------------------------------------
(* The search.                                                              *)

\* Mutant: a sector that was missed counts as a volume without the file.
MissedMutant ==
  /\ drv.pc = "missed"
  /\ IF drv.at.step \in {"volume", "dir", "mft"} /\ drv.at.start # 0
     THEN drv' = [drv EXCEPT !.pc = "entry", !.missed = TRUE] /\ UNCHANGED q
     ELSE drv' = [drv EXCEPT !.pc = "end", !.missed = TRUE] /\ q' = Report("admin")
  /\ UNCHANGED dev

\* A read or an admin command that does not return ends the whole search.
Missed ==
  /\ drv.pc = "missed"
  /\ drv' = [drv EXCEPT !.pc = "end", !.missed = TRUE] /\ q' = Report("admin") /\ UNCHANGED dev

Read(at) == drv' = [drv EXCEPT !.pc = "read", !.at = at] /\ UNCHANGED q
End(r) == drv' = Goto("end") /\ q' = Report(r)

\* load_volume is over: behind a partition table the next entry is tried.
Over(r) ==
  IF drv.at.start = 0 THEN End(r)
  ELSE drv' = [drv EXCEPT !.pc = "entry", !.saw = @ \/ r = "missing"] /\ UNCHANGED q

\* load_gpt: the next entry, or the report when none is left.
NextEntry ==
  /\ drv.pc = "entry"
  /\ LET i == drv.at.entry IN
       IF i = Len(dev.disk.parts) THEN End(IF drv.saw THEN "missing" ELSE "raw")
       ELSE Read([At("entry", 0, i) EXCEPT !.entry = i + 1])
  /\ UNCHANGED dev

Here(step, i) == [drv.at EXCEPT !.step = step, !.i = i, !.s = 0]

\* load_named, load_gpt and load_volume on the sector just read.
Volume ==
  /\ drv.pc = "got" /\ drv.at.step \in {"boot", "volume"}
  /\ LET b == dev.page IN
       CASE b.kind = "ntfs" -> Read([Here("mft", 0) EXCEPT !.boot = b])
         [] b.kind = "fat" -> IF b.dirs = 0 THEN Over("raw") ELSE Read([Here("dir", 0) EXCEPT !.boot = b])
         [] b.kind = "mbr" /\ drv.at.step = "boot" -> Read(Here("header", 0))
         [] OTHER -> Over("raw")
  /\ UNCHANGED dev

Table ==
  /\ drv.pc = "got" /\ drv.at.step \in {"header", "entry"}
  /\ IF drv.at.step = "header"
     THEN IF dev.page.kind = "gpt" /\ dev.page.ok THEN drv' = Goto("entry") /\ UNCHANGED q ELSE End("raw")
     ELSE LET start == dev.disk.parts[drv.at.i + 1].start IN
          IF start = 0 \/ dev.page.kind # "entries" THEN drv' = Goto("entry") /\ UNCHANGED q
          ELSE Read([drv.at EXCEPT !.step = "volume", !.start = start])
  /\ UNCHANGED dev


FatStop(s) == s.name \in {"end", "want"}

\* load_fat: the first slot of the sector that ends the scan, or the next sector.
load_fat ==
  /\ drv.pc = "got" /\ drv.at.step = "dir"
  /\ LET stops == {k \in 1 .. PerSector : FatStop(dev.page.slots[k])}
         slot == dev.page.slots[CHOOSE k \in stops : \A j \in stops : k <= j]
         root == drv.at.boot.root + drv.at.boot.dirs
         after == IF slot.cluster < 2 THEN 0 ELSE slot.cluster - 2 IN
       IF stops = {} THEN IF drv.at.i + 1 = drv.at.boot.dirs THEN Over("missing") ELSE Read(Here("dir", drv.at.i + 1))
       ELSE IF slot.name # "want" THEN Over("missing")
       ELSE IF slot.text = "empty" THEN End("empty")
       ELSE Read([Here("data", 0) EXCEPT !.lba = root + after])
  /\ UNCHANGED dev

read_bytes ==
  /\ drv.pc = "got" /\ drv.at.step = "data"
  /\ End(IF dev.page.kind = "data" THEN dev.page.text ELSE "garbage") /\ UNCHANGED dev

\* file_in_record: whole after its fixups, in use, named, and its data resident.
Found(f) == f.name = "want" /\ f.inUse /\ f.whole /\ f.text # "none"

\* load_ntfs: the sectors of one record after the other, up to a fixed number.
load_ntfs ==
  /\ drv.pc = "got" /\ drv.at.step = "mft"
  /\ LET at == [drv.at EXCEPT !.rec = IF drv.at.s = 0 THEN dev.page ELSE @]
         rec == at.rec IN
       IF at.s + 1 < RecSectors THEN Read([at EXCEPT !.s = @ + 1])
       ELSE IF rec.kind = "record" /\ Found(rec.file) THEN End(rec.file.text)
       ELSE IF at.i + 1 = Records THEN Over("missing")
       ELSE Read([at EXCEPT !.i = @ + 1, !.s = 0])
  /\ UNCHANGED dev

Steps == BringUp \/ admin \/ io_read \/ poll \/ Missed \/ NextEntry \/ Volume \/ Table \/ load_fat
         \/ read_bytes \/ load_ntfs
Next == Steps \/ Complete
Spec == Init /\ [][Next]_vars /\ WF_vars(Steps)

-----------------------------------------------------------------------------
(* Reference: what the file of a volume is, and which volume's is reported. *)

HasFile(vol) == vol.fs # "raw" /\ \E i \in DOMAIN vol.files : vol.files[i].name = "want" /\
                  (vol.fs = "ntfs" => Found(vol.files[i]))
FileOf(vol) == vol.files[CHOOSE i \in DOMAIN vol.files : vol.files[i].name = "want" /\
                                                          (vol.fs = "ntfs" => Found(vol.files[i]))].text
Used(disk) == {i \in DOMAIN disk.parts : disk.parts[i].start # 0 \/ disk.table = "none"}
With(disk) == {i \in Used(disk) : HasFile(disk.parts[i].vol)}
FirstWith(disk) == disk.parts[CHOOSE i \in With(disk) : \A j \in With(disk) : i <= j]
Expected(disk) ==
  LET vols == Used(disk)
      fs == {i \in vols : disk.parts[i].vol.fs # "raw" /\ disk.parts[i].vol.files # << >>}
  IN IF disk.table = "bad" THEN "raw"
     ELSE IF With(disk) # {} THEN FileOf(FirstWith(disk).vol)
     ELSE IF fs # {} THEN "missing" ELSE "raw"

\* load_fat counts one sector for a cluster: true of the first cluster, and of
\* volumes that have no larger ones.
Placed(vol) ==
  vol.fs = "fat" /\ vol.spc > 1 => \A i \in DOMAIN vol.files : vol.files[i].name = "want" => vol.files[i].cluster <= 2

\* The queue pair, the search position and the report hold known values.
TypeOK ==
  /\ drv.pc \in DOMAIN Stages \cup {"createCq", "pollCq", "createSq", "pollSq", "read", "poll", "got", "missed",
                                    "entry", "end"}
  /\ \A k \in Queues : {drv.head[k], drv.phase[k], dev.head[k], dev.phase[k]} \subseteq 0 .. 1
  /\ q.told \in BOOLEAN

\* The sector a read returns is the one at its address: a completion that comes
\* after its command was given up is never taken for that of another command.
RightSector == drv.pc = "got" => dev.page = SectorAt(dev.disk, Lba(drv.at))

\* The report is the file of the first volume that has it, missing when there is
\* none, raw when there is no volume; a sector that did not come is never one of these.
\* Of a file behind the first cluster of a FAT volume with larger clusters only this
\* is known: the volume is the one that the report is from.
ReportsTruly ==
  drv.pc = "end" => IF drv.missed THEN q.report = "admin"
                    ELSE \/ q.report \in {"absent", "regs", "enable", Expected(dev.disk)}
                         \/ /\ dev.disk.table # "bad" /\ With(dev.disk) # {} /\ ~Placed(FirstWith(dev.disk).vol)
                            /\ drv.at.step = "data" /\ drv.at.start = FirstWith(dev.disk).start

\* The report has not been made.
Busy == ~q.told
=============================================================================
