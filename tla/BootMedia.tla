----------------------------- MODULE BootMedia -----------------------------
(***************************************************************************)
(* Boot images on the developer's host: `lerux image` links loader.img and *)
(* copies sel4.elf beside it, each with a SHA-256 sidecar (build.rs,       *)
(* image_digest.rs); `lerux iso` and the QEMU smokes pack them with the    *)
(* Multiboot 2 stub and GRUB into a cached ISO (iso.rs, boot_volume.rs);   *)
(* `lerux deploy` writes them to mounted boot media (deploy.rs).           *)
(*                                                                         *)
(* A file is the version of what it was made from: NONE when it is absent, *)
(* TORN when the command was killed while writing it.  A digest is the     *)
(* version it was computed of.  Modification times appear only as the set  *)
(* `newer` of inputs changed after the ISO was written, which is all that  *)
(* iso_is_current reads from them.  `unseen` are the inputs that changed    *)
(* behind times and stamp.  One command runs at a time, and the sources    *)
(* change only between commands.                                           *)
(*                                                                         *)
(* The FAT16 volume the ISO boots from is modelled at the end.             *)
(***************************************************************************)
EXTENDS Integers, Sequences, SequencesExt, FiniteSets, TLC

CONSTANTS Arches,     \* architectures of the boards that are built
          EditMax,    \* changes to something new of the sources, the SDK, the stub, GRUB, the tool
          KillMax,    \* commands killed half way
          JobMax      \* commands run

VARIABLES dev,  \* the host: sources and the build directory
          drv,  \* the running command: steps left, what it has read
          q     \* the mounted boot media

vars == <<dev, drv, q>>

NONE == 0
TORN == 99
Payloads == {"kernel", "loader"}
Made == Payloads \cup {"stub", "grub"}
Sources == Made \cup {"recipe"}
Media == Made \cup {"cfg", "root", "helper"}
NoImage == [p \in Sources |-> NONE]

Init ==
  /\ dev \in { [arch |-> a, src |-> [p \in Sources |-> 1],
                built |-> [p \in Payloads |-> NONE], side |-> [p \in Payloads |-> NONE],
                partial |-> NoImage, iso |-> NoImage, stamp |-> NONE, newer |-> {}, unseen |-> {},
                edits |-> 0, kills |-> 0, jobs |-> 0] : a \in Arches }
  /\ drv = [todo |-> <<>>, verify |-> TRUE, got |-> NoImage, done |-> "none"]
  /\ q \in { [file |-> [[m \in Media |-> NONE] EXCEPT !["root"] = r],
              side |-> [m \in Payloads \cup {"root"} |-> NONE]] : r \in {NONE, TORN} }

-----------------------------------------------------------------------------
(* The commands as the file operations they perform, in order.             *)

stage_x86_kernel == << <<"copy", "kernel">>, <<"digest", "kernel">> >>

assemble_image == << <<"link", "loader">>, <<"digest", "loader">> >>
                  \o IF dev.arch = "x86_64" THEN stage_x86_kernel ELSE <<>>

Verify(p) == IF drv.verify THEN << <<"verify", p>> >> ELSE <<>>

uefi_boot_volume == Verify("kernel") \o Verify("loader")
  \o << <<"read", "kernel">>, <<"read", "loader">>, <<"make", "stub">>,
        <<"payloads", "all">>, <<"mkimage", "grub">> >>

write_uefi_iso == << <<"xorriso", "iso">>, <<"rename", "iso">>, <<"stamp", "iso">> >>

pack_iso == << <<"need", "kernel">>, <<"need", "loader">>, <<"volume", "iso">> >>

write_to == << <<"put", "grub">>, <<"put", "cfg">>, <<"put", "stub">>,
               <<"put", "kernel">>, <<"put", "loader">>, <<"retire", "root">> >>

deploy_x86 == Verify("kernel") \o uefi_boot_volume \o write_to
              \o << <<"beside", "kernel">>, <<"beside", "loader">>, <<"end", "esp">> >>

deploy_uboot == << <<"put", "root">>, <<"beside", "root">>, <<"put", "helper">>,
                   <<"end", "uboot">> >>

\* The deploy goes on as an x86 one when a kernel lies beside the loader.
deploy_loader == IF dev.built["kernel"] # NONE THEN deploy_x86 ELSE deploy_uboot

\* iso.rs iso_is_current: the ISO exists, its stamp is this tool's recipe,
\* and no input is newer than the ISO.
IsoReusedOnTime ==
  /\ dev.iso # NoImage
  /\ \A p \in Made : p \notin dev.newer

iso_is_current ==
  /\ dev.iso # NoImage
  /\ dev.stamp = dev.src["recipe"]
  /\ \A p \in Payloads : dev.built[p] # NONE
  /\ \A p \in Made : p \notin dev.newer

Begin(todo, verify) ==
  /\ drv.todo = <<>> /\ dev.jobs < JobMax
  /\ drv' = [todo |-> todo, verify |-> verify, got |-> NoImage, done |-> "none"]
  /\ dev' = [dev EXCEPT !.jobs = @ + 1]
  /\ UNCHANGED q

image == Begin(assemble_image \o << <<"end", "image">> >>, TRUE)

build_iso ==
  /\ dev.arch = "x86_64"
  /\ \E build, verify \in BOOLEAN :
       Begin((IF build THEN assemble_image ELSE <<>>) \o pack_iso, verify)

ensure_iso_for_qemu ==
  /\ dev.arch = "x86_64"
  /\ Begin(IF iso_is_current THEN << <<"end", "iso">> >> ELSE pack_iso, TRUE)

ensure_loader(build) ==
  IF dev.built["loader"] # NONE THEN <<>>
  ELSE IF build THEN assemble_image ELSE << <<"need", "loader">> >>

Deploy ==
  \E build, verify \in BOOLEAN :
    Begin(ensure_loader(build) \o (IF verify THEN << <<"verify", "loader">> >> ELSE <<>>)
          \o << <<"deploy", "media">> >>, verify)

-----------------------------------------------------------------------------
(* One file operation of the running command.                              *)

Op == Head(drv.todo)[1]
On == Head(drv.todo)[2]
Pop == [drv EXCEPT !.todo = Tail(@)]
Then(steps) == [drv EXCEPT !.todo = steps \o Tail(@)]
Fail == [drv EXCEPT !.todo = <<>>, !.done = "failed"]

\* image_digest.rs verify_sidecar: the file and its sidecar exist and agree.
VerifySkipsMissing(p) == dev.side[p] = NONE \/ dev.side[p] = dev.built[p]

verify_sidecar(p) ==
  /\ dev.built[p] # NONE
  /\ dev.side[p] # NONE
  /\ dev.side[p] = dev.built[p]

Compile ==
  /\ Op \in {"link", "copy"}
  /\ dev' = [dev EXCEPT !.built[On] = dev.src[On], !.newer = @ \cup {On}]
  /\ drv' = Pop /\ UNCHANGED q

write_sidecar ==
  /\ Op = "digest"
  /\ dev' = [dev EXCEPT !.side[On] = dev.built[On]]
  /\ drv' = Pop /\ UNCHANGED q

Check ==
  /\ Op \in {"need", "verify"}
  /\ drv' = IF CASE Op = "need"   -> dev.built[On] # NONE
                 [] Op = "verify" -> verify_sidecar(On)
            THEN Pop ELSE Fail
  /\ UNCHANGED <<dev, q>>

Read ==
  /\ Op = "read"
  /\ drv' = [Pop EXCEPT !.got[On] = dev.built[On]]
  /\ UNCHANGED <<dev, q>>

\* The stub is compiled again for every pack.
build_mb2_stub ==
  /\ Op = "make"
  /\ drv' = [Pop EXCEPT !.got["stub"] = dev.src["stub"]]
  /\ UNCHANGED <<dev, q>>

\* An empty payload is refused; a torn file may be empty.
StubPayloads_new ==
  /\ Op = "payloads"
  /\ \/ drv' = Pop
     \/ (\E p \in Payloads : drv.got[p] = TORN) /\ drv' = Fail
  /\ UNCHANGED <<dev, q>>

GrubEfi_build ==
  /\ Op = "mkimage"
  /\ drv' = [Pop EXCEPT !.got["grub"] = dev.src["grub"]]
  /\ UNCHANGED <<dev, q>>

Branch ==
  /\ Op \in {"volume", "deploy"}
  /\ drv' = IF Op = "volume"
            THEN Then(uefi_boot_volume \o write_uefi_iso \o << <<"end", "iso">> >>)
            ELSE Then(deploy_loader)
  /\ UNCHANGED <<dev, q>>

Packed == [drv.got EXCEPT !["recipe"] = dev.src["recipe"]]

\* The rename puts the finished image in place; its time is xorriso's.
StampsFirst ==
  dev' = CASE Op = "xorriso" -> [dev EXCEPT !.partial = Packed, !.stamp = dev.src["recipe"]]
           [] Op = "rename"  -> [dev EXCEPT !.iso = dev.partial, !.partial = NoImage,
                                            !.newer = {}, !.unseen = {}]
           [] Op = "stamp"   -> dev

PackFiles ==
  dev' = CASE Op = "xorriso" -> [dev EXCEPT !.partial = Packed]
           [] Op = "rename"  -> [dev EXCEPT !.iso = dev.partial, !.partial = NoImage,
                                            !.newer = {}, !.unseen = {}]
           [] Op = "stamp"   -> [dev EXCEPT !.stamp = dev.src["recipe"]]

Publish ==
  /\ Op \in {"xorriso", "rename", "stamp"}
  /\ PackFiles
  /\ drv' = Pop /\ UNCHANGED q

\* What a write to the media stores.
Bytes(m) == CASE m \in Made    -> drv.got[m]
              [] m = "cfg"     -> dev.src["recipe"]
              [] m = "root"    -> dev.built["loader"]
              [] m = "helper"  -> 1

Built(m) == IF m = "root" THEN "loader" ELSE m

\* A sidecar is copied beside the file when the build directory has one.
copy_sidecar_beside(m) ==
  IF dev.side[Built(m)] = NONE THEN q ELSE [q EXCEPT !.side[m] = dev.side[Built(m)]]

KeepsRoot == q' = CASE Op = "put"    -> [q EXCEPT !.file[On] = Bytes(On)]
                    [] Op = "retire" -> q
                    [] Op = "beside" -> copy_sidecar_beside(On)

MediaFiles == q' = CASE Op = "put"    -> [q EXCEPT !.file[On] = Bytes(On)]
                     [] Op = "retire" -> [q EXCEPT !.file["root"] = NONE]
                     [] Op = "beside" -> copy_sidecar_beside(On)

ToMedia ==
  /\ Op \in {"put", "retire", "beside"}
  /\ MediaFiles
  /\ drv' = Pop /\ UNCHANGED dev

End ==
  /\ Op = "end"
  /\ drv' = [Pop EXCEPT !.done = On]
  /\ UNCHANGED <<dev, q>>

Step == /\ drv.todo # <<>>
        /\ \/ Compile \/ write_sidecar \/ Check \/ Read \/ build_mb2_stub
           \/ StubPayloads_new \/ GrubEfi_build \/ Branch \/ Publish \/ ToMedia \/ End

-----------------------------------------------------------------------------
(* The command is killed, or a program it runs fails; the file it was      *)
(* writing may be left torn.                                               *)

Kill ==
  /\ drv.todo # <<>> /\ dev.kills < KillMax
  /\ drv' = Fail
  /\ \E torn \in BOOLEAN :
       /\ dev' = [dev EXCEPT
                    !.kills = @ + 1,
                    !.built = IF torn /\ Op \in {"link", "copy"} THEN [@ EXCEPT ![On] = TORN] ELSE @,
                    !.newer = IF torn /\ Op \in {"link", "copy"} THEN @ \cup {On} ELSE @,
                    !.side = IF torn /\ Op = "digest" THEN [@ EXCEPT ![On] = NONE] ELSE @,
                    !.partial = IF torn /\ Op = "xorriso"
                                THEN [p \in Sources |-> TORN] ELSE @]
       /\ q' = IF torn /\ Op = "put" THEN [q EXCEPT !.file[On] = TORN] ELSE q

\* Between commands: an edit or a new SDK; another version of the tool, with a
\* newer or an older recipe; another GRUB, whose files carry the times of their
\* package.  What the ISO's time and stamp cannot tell of this is a GRUB whose files
\* are older than the ISO, and a return to the recipe of the stamp after a pack that
\* was killed between its rename and its stamp.
Edit ==
  /\ drv.todo = <<>>
  /\ \/ /\ dev.edits < EditMax
        /\ \E p \in Made : dev' = [dev EXCEPT !.src[p] = @ + 1, !.edits = @ + 1,
                                    !.newer = IF p \in {"stub", "grub"} THEN @ \cup {p} ELSE @]
     \/ /\ dev.edits < EditMax
        /\ dev' = [dev EXCEPT !.src["grub"] = @ + 1, !.edits = @ + 1, !.unseen = @ \cup {"grub"}]
     \/ \E v \in 1 .. EditMax + 1 :
          /\ v < dev.src["recipe"] \/ (v > dev.src["recipe"] /\ dev.edits < EditMax)
          /\ dev' = [dev EXCEPT !.src["recipe"] = v, !.edits = IF v > dev.src["recipe"] THEN @ + 1 ELSE @,
                                !.unseen = IF dev.stamp = v /\ dev.iso["recipe"] # v
                                           THEN @ \cup {"recipe"} ELSE @ \ {"recipe"}]
  /\ drv' = [drv EXCEPT !.done = "none"]
  /\ UNCHANGED q

Next == image \/ build_iso \/ ensure_iso_for_qemu \/ Deploy \/ Step \/ Kill \/ Edit

Spec == Init /\ [][Next]_vars /\ WF_vars(Step)

-----------------------------------------------------------------------------
Busy == drv.todo # <<>>

Versions == {NONE, TORN} \cup 1 .. EditMax + 1

\* The build directory and the media hold known versions only.
TypeOK ==
  /\ \A p \in Payloads : dev.built[p] \in Versions /\ dev.side[p] \in Versions \ {TORN}
  /\ \A m \in Media : q.file[m] \in Versions
  /\ dev.newer \subseteq Made /\ dev.unseen \subseteq {"grub", "recipe"}
  /\ drv.done \in {"none", "failed", "image", "iso", "esp", "uboot"}

\* What the build directory and the host hold now.
Now == [p \in Sources |-> IF p \in Payloads THEN dev.built[p] ELSE dev.src[p]]

\* A command that ends well delivered what the build directory and the host
\* hold now: the ISO a smoke boots, reused or packed, is made of the current
\* kernel, loader, stub, GRUB and recipe, and a deploy leaves all boot files
\* current, with no file of the old layout at the root (ensure_iso_for_qemu,
\* write_to).  This spans kills, torn files and source changes between runs, but
\* for the two changes that iso_is_current has no way to see.
DeliversCurrent ==
  /\ drv.done = "iso" => \A p \in Sources \ dev.unseen : dev.iso[p] = Now[p]
  /\ drv.done = "esp" => /\ \A p \in Made : q.file[p] = Now[p]
                         /\ q.file["cfg"] = Now["recipe"]
                         /\ q.file["root"] = NONE
  /\ drv.done = "uboot" => q.file["root"] = Now["loader"]

\* A verified deploy never leaves a torn payload on the media, and the
\* sidecars it copies describe the payloads they lie beside (deploy_loader,
\* copy_sidecar_beside); the ISO in place is never xorriso's torn output.
VerifiedWhole ==
  /\ drv.done = "esp" /\ drv.verify =>
       \A p \in Payloads : q.file[p] # TORN /\ q.side[p] = q.file[p]
  /\ drv.done = "uboot" /\ drv.verify =>
       q.file["root"] # TORN /\ q.side["root"] = q.file["root"]
  /\ \A p \in {"stub", "grub", "recipe"} : dev.iso[p] # TORN

-----------------------------------------------------------------------------
(* The volume (fat_esp.rs): write_image builds a tree of the given files,   *)
(* allocates clusters depth first, and writes directories whose entries     *)
(* carry a long name and a unique short one.  The reader after it is the    *)
(* firmware's: it shares nothing with the writer but the layout.  Bytes are *)
(* <<file, offset>> pairs, names are sequences of characters, and the       *)
(* widths (8.3 names, 13 units per long entry, clusters, entries per        *)
(* directory) are constants, so that small names and files cross them.      *)

CONSTANTS Paths,          \* the paths that may be asked for
          Lens,           \* lengths of their contents
          FilesMax,
          CLUSTER_BYTES, DIR_ENTRIES, ROOT_ENTRIES,
          MIN_CLUSTERS, MAX_CLUSTERS,
          BASE, EXT,      \* widths of a short name (8 and 3)
          SUFFIX_MAX,     \* the last ~n tried (999)
          UNITS,          \* characters per long-name entry (13)
          NAME_MAX,       \* longest name of a path (255)
          Ord             \* the byte of each short-name character

VARIABLE files  \* the argument of write_image: a sequence of [path, bytes]

EOC == -1
Content(f, n) == [k \in 1 .. n |-> <<f, k>>]
DivCeil(a, b) == (a + b - 1) \div b

clusters_for(len) == IF len = 0 THEN 0 ELSE DivCeil(len, CLUSTER_BYTES)

-----------------------------------------------------------------------------
(* The tree of files.                                                      *)

Node(name, kids, bytes, isDir) == [name |-> name, kids |-> kids, bytes |-> bytes, dir |-> isDir]
Refused == [ok |-> FALSE, dir |-> <<>>]
Named(dir, name) == SelectInSeq(dir, LAMBDA n : n.name = name)

RECURSIVE InsertOver(_, _, _)
InsertOver(dir, path, bytes) ==
  LET first == Head(path) IN
  IF Len(path) = 1
  THEN [ok |-> TRUE, dir |-> Append(dir, Node(first, <<>>, bytes, FALSE))]
  ELSE LET i == Named(dir, first)
           r == InsertOver(IF i = 0 THEN <<>> ELSE dir[i].kids, Tail(path), bytes)
       IN [ok |-> r.ok,
           dir |-> IF i = 0 THEN Append(dir, Node(first, r.dir, <<>>, TRUE))
                   ELSE [dir EXCEPT ![i].kids = r.dir]]

RECURSIVE insert(_, _, _)
insert(dir, path, bytes) ==
  LET first == Head(path)
      i == Named(dir, first)
  IN CASE first \in {<<>>, <<".">>, <<".", ".">>} \/ Len(first) > NAME_MAX -> Refused
       [] OTHER ->
          IF Len(path) = 1
          THEN IF i # 0 THEN Refused
               ELSE [ok |-> TRUE, dir |-> Append(dir, Node(first, <<>>, bytes, FALSE))]
          ELSE IF path[2] = <<>> \/ (i # 0 /\ ~dir[i].dir) THEN Refused
          ELSE LET r == insert(IF i = 0 THEN <<>> ELSE dir[i].kids, Tail(path), bytes)
               IN IF ~r.ok THEN Refused
                  ELSE [ok |-> TRUE,
                        dir |-> IF i = 0 THEN Append(dir, Node(first, r.dir, <<>>, TRUE))
                                ELSE [dir EXCEPT ![i].kids = r.dir]]

tree_from(fs) ==
  FoldLeft(LAMBDA t, k :
             IF ~t.ok \/ \E j \in 1 .. k - 1 : fs[j].path = fs[k].path THEN Refused
             ELSE insert(t.dir, fs[k].path, fs[k].bytes),
           [ok |-> TRUE, dir |-> <<>>], [k \in 1 .. Len(fs) |-> k])

RECURSIVE count_dirs(_)
count_dirs(nodes) ==
  FoldLeft(LAMBDA n, node : n + IF node.dir THEN 1 + count_dirs(node.kids) ELSE 0, 0, nodes)

-----------------------------------------------------------------------------
(* Names.                                                                  *)

Upper(c) == CASE c = "a" -> "A" [] c = "b" -> "B" [] c = "c" -> "C" [] OTHER -> c

UpperAll(text) == [i \in DOMAIN text |-> Upper(text[i])]
fat_chars(text) == SelectSeq(UpperAll(text), LAMBDA c : c \in DOMAIN Ord \ {" ", "~"})

Pad(s, w) == [i \in 1 .. w |-> IF i <= Len(s) THEN s[i] ELSE " "]
pad_8_3(base, ext) == Pad(base, BASE) \o Pad(ext, EXT)
Take(s, n) == SubSeq(s, 1, IF n < Len(s) THEN n ELSE Len(s))

\* The last dot splits a name when there is text on both sides of it.
Split(name) ==
  LET d == SelectLastInSeq(name, LAMBDA c : c = ".")
  IN IF d <= 1 \/ d = Len(name) THEN <<name, <<>>>>
     ELSE <<SubSeq(name, 1, d - 1), SubSeq(name, d + 1, Len(name))>>

Digits == <<"1", "2", "3", "4", "5", "6", "7", "8", "9">>
Suffixed(base, n) == Take(base, BASE - 2) \o <<"~", Digits[n]>>

\* The 8.3 form when it fits and is free, else the first free stem~n.
ShortNameUnchecked(name, used) ==
  pad_8_3(fat_chars(Split(name)[1]), Take(fat_chars(Split(name)[2]), EXT))

Tried(base, ext) ==
  (IF Len(base) <= BASE /\ Len(ext) <= EXT THEN <<pad_8_3(base, ext)>> ELSE <<>>)
  \o [n \in 1 .. SUFFIX_MAX |-> pad_8_3(Suffixed(base, n), Take(ext, EXT))]

FirstFree(tried, used) ==
  LET free == { k \in DOMAIN tried : tried[k] \notin used } IN
  IF free = {} THEN <<>> ELSE tried[Min(free)]

short_name(name, used) ==
  FirstFree(Tried(fat_chars(Split(name)[1]), fat_chars(Split(name)[2])), used)

\* Rotate right by one and add, in eight bits.
lfn_checksum(short) ==
  FoldLeft(LAMBDA sum, c : ((sum \div 2) + (sum % 2) * 128 + Ord[c]) % 256, 0, short)

slot_chars(units, index) ==
  [i \in 1 .. UNITS |-> LET k == index * UNITS + i IN
     CASE k <= Len(units)     -> units[k]
       [] k = Len(units) + 1  -> "end"
       [] OTHER               -> "pad"]

\* The entries of a long name, the last part first.
LfnForward(name, sum) ==
  LET n == IF name = <<>> THEN 1 ELSE DivCeil(Len(name), UNITS) IN
  [k \in 1 .. n |-> [long |-> TRUE, ord |-> k, end |-> k = n, sum |-> sum,
                     chars |-> slot_chars(name, k - 1)]]

push_lfn(name, sum) ==
  LET n == IF name = <<>> THEN 1 ELSE DivCeil(Len(name), UNITS) IN
  [k \in 1 .. n |-> [long |-> TRUE, ord |-> n + 1 - k, end |-> k = 1, sum |-> sum,
                     chars |-> slot_chars(name, n - k)]]

push_short(short, isDir, at, size) ==
  <<[long |-> FALSE, name |-> short, dir |-> isDir, at |-> at, size |-> size]>>

-----------------------------------------------------------------------------
(* Clusters and directories.  st is [raw, used, fat, data, next, ok].      *)

alloc_one(st) == [st EXCEPT !.fat = (st.next :> EOC) @@ @,
                            !.data = (st.next :> <<>>) @@ @,
                            !.next = @ + 1]

alloc_file(st, bytes) ==
  LET n == clusters_for(Len(bytes))
      at == st.next .. st.next + n - 1
      last == st.next + n - 1
      end(c) == IF c = last THEN Len(bytes) ELSE (c - st.next + 1) * CLUSTER_BYTES
  IN [st EXCEPT !.next = @ + n,
                !.fat = [c \in at |-> IF c = last THEN EOC ELSE c + 1] @@ @,
                !.data = [c \in at |-> SubSeq(bytes, (c - st.next) * CLUSTER_BYTES + 1, end(c))] @@ @]

\* The entry of a directory, and the cluster it was given.
DirEntry(st, short, cluster) == st.raw \o push_short(short, TRUE, cluster, 0)
InCluster(child, st, short, cluster) ==
  [child EXCEPT !.raw = DirEntry(st, short, cluster), !.used = st.used, !.data[cluster] = child.raw]

AddEmpty(st, short) == [st EXCEPT !.raw = @ \o push_short(short, FALSE, 0, 0)]
AddBytes(st, short, bytes) ==
  alloc_file([st EXCEPT !.raw = @ \o push_short(short, FALSE, st.next, Len(bytes))], bytes)

WithName(st, name, short) == [st EXCEPT !.used = @ \cup {short},
                                        !.raw = @ \o push_lfn(name, lfn_checksum(short))]
Fits(st, limit) == [st EXCEPT !.ok = @ /\ Len(st.raw) <= limit]

RECURSIVE write_dir(_, _, _, _, _)
write_dir(nodes, self, parent, isRoot, from) ==
  LET AddNamed(st, node, short) ==
        IF ~node.dir
        THEN IF node.bytes = <<>> THEN AddEmpty(st, short) ELSE AddBytes(st, short, node.bytes)
        ELSE InCluster(write_dir(node.kids, st.next, IF isRoot THEN 0 ELSE self, FALSE, alloc_one(st)),
                       st, short, st.next)
      AddShort(st, node, short) ==
        IF short = <<>> THEN [st EXCEPT !.ok = FALSE]
        ELSE AddNamed(WithName(st, node.name, short), node, short)
      AddNode(st, node) == IF st.ok THEN AddShort(st, node, short_name(node.name, st.used)) ELSE st
  IN Fits(FoldLeft(AddNode,
                   [from EXCEPT !.used = {},
                      !.raw = IF isRoot THEN <<>>
                              ELSE push_short(Pad(<<".">>, BASE + EXT), TRUE, self, 0)
                                   \o push_short(Pad(<<".", ".">>, BASE + EXT), TRUE, parent, 0)],
                   nodes),
          IF isRoot THEN ROOT_ENTRIES ELSE DIR_ENTRIES)

FileClusters(fs) == FoldLeft(LAMBDA n, f : n + clusters_for(Len(f.bytes)), 0, fs)

NoVolume == [ok |-> FALSE]
Blank == [raw |-> <<>>, used |-> {}, fat |-> <<>>, data |-> <<>>, next |-> 2, ok |-> TRUE]
Volume(v, clusters) ==
  IF ~v.ok THEN NoVolume
  ELSE [ok |-> TRUE, root |-> v.raw, fat |-> v.fat, data |-> v.data, clusters |-> clusters]

VolumeOf(tree, clusters) ==
  IF ~tree.ok \/ clusters > MAX_CLUSTERS THEN NoVolume
  ELSE Volume(write_dir(tree.dir, 0, 0, TRUE, Blank), clusters)

Image(tree, fs) == VolumeOf(tree, Max({MIN_CLUSTERS, count_dirs(tree.dir) + FileClusters(fs)}))

write_image(fs) == Image(tree_from(fs), fs)

-----------------------------------------------------------------------------
EspInit == files = <<>>

AddFile == /\ Len(files) < FilesMax
           /\ \E p \in Paths, n \in Lens :
                files' = Append(files, [path |-> p, bytes |-> Content(Len(files) + 1, n)])

EspNext == AddFile

EspSpec == EspInit /\ [][EspNext]_files

-----------------------------------------------------------------------------
(* The firmware's reader.                                                  *)

\* Long entries run backwards from a short one to the entry marked last.
LongParts(raw, i) ==
  LET ends == { k \in 1 .. i - 1 : raw[i - k].long /\ raw[i - k].end
                  /\ \A j \in 1 .. k : raw[i - j].long /\ raw[i - j].ord = j
                                       /\ raw[i - j].sum = lfn_checksum(raw[i].name) }
  IN IF ends = {} THEN 0 ELSE CHOOSE k \in ends : \A m \in ends : k <= m

LongName(raw, i) ==
  LET all == FlattenSeq([j \in 1 .. LongParts(raw, i) |-> raw[i - j].chars])
      e == SelectInSeq(all, LAMBDA c : c = "end")
  IN IF e = 0 THEN all ELSE SubSeq(all, 1, e - 1)

Entries(raw) == { i \in DOMAIN raw : ~raw[i].long /\ LongParts(raw, i) > 0 }

RECURSIVE ReadChain(_, _, _)
ReadChain(v, c, fuel) ==
  IF c = EOC \/ fuel = 0 \/ c \notin DOMAIN v.fat THEN <<>>
  ELSE v.data[c] \o ReadChain(v, v.fat[c], fuel - 1)

RECURSIVE Listing(_, _, _)
Listing(v, raw, at) ==
  UNION { IF raw[i].dir THEN Listing(v, v.data[raw[i].at], Append(at, LongName(raw, i)))
          ELSE { [path |-> Append(at, LongName(raw, i)),
                  bytes |-> IF raw[i].size = 0 THEN <<>>
                            ELSE Take(ReadChain(v, raw[i].at, v.clusters), raw[i].size)] }
          : i \in Entries(raw) }

Prefix(p, r) == Len(p) < Len(r) /\ SubSeq(r, 1, Len(p)) = p
Valid(p) == \A i \in DOMAIN p : p[i] \notin {<<>>, <<".">>, <<".", ".">>} /\ Len(p[i]) <= NAME_MAX

\* Every volume write_image makes holds exactly the files it was given:
\* reading it back through long names, checksums and cluster chains gives
\* each path its bytes and nothing else (write_dir, push_lfn, alloc_file).
ReadsBack ==
  \A v \in {write_image(files)} :
    v.ok => Listing(v, v.root, <<>>) = { files[i] : i \in DOMAIN files }

\* The files form a tree, and the tree fits the volume.
IsTree == /\ \A i \in DOMAIN files : Valid(files[i].path)
          /\ \A i, j \in DOMAIN files :
               i # j => files[i].path # files[j].path /\ ~Prefix(files[i].path, files[j].path)
DirPaths == UNION { { SubSeq(files[i].path, 1, k) : k \in 0 .. Len(files[i].path) - 1 }
                    : i \in DOMAIN files }
NamesIn(d) == { files[i].path[Len(d) + 1] : i \in { i \in DOMAIN files : Prefix(d, files[i].path) } }
Cost(d) == FoldLeft(LAMBDA n, name : n + 1 + DivCeil(Len(name), UNITS),
                    IF d = <<>> THEN 0 ELSE 2, SetToSeq(NamesIn(d)))
Roomy == /\ Cardinality(DirPaths \ {<<>>}) + FileClusters(files) <= MAX_CLUSTERS
         /\ \A d \in DirPaths : Cost(d) <= IF d = <<>> THEN ROOT_ENTRIES ELSE DIR_ENTRIES
         /\ \A d \in DirPaths : Cardinality(NamesIn(d)) <= SUFFIX_MAX + 1

\* A set of files that is no tree (a bad name, a path given twice, a file
\* where a directory is needed) is refused, and one that is a tree is refused
\* only for want of room or of a short name (insert, write_dir).
RefusedRightly ==
  \A v \in {write_image(files)} : /\ ~IsTree => ~v.ok
                                  /\ IsTree /\ Roomy => v.ok

RECURSIVE ShortUnique(_, _)
ShortUnique(v, raw) ==
  LET shorts == { i \in DOMAIN raw : ~raw[i].long } IN
  /\ \A i, j \in shorts : raw[i].name = raw[j].name => i = j
  /\ \A i \in Entries(raw) : raw[i].dir => ShortUnique(v, v.data[raw[i].at])

\* The short names of a directory differ, as a reader of 8.3 names needs (short_name).
ShortNamesDiffer == \A v \in {write_image(files)} : v.ok => ShortUnique(v, v.root)
=============================================================================
