------------------------------- MODULE Fat16 -------------------------------
(***************************************************************************)
(* The FAT16 driver (fat16.rs) on a disk that may lose power between any   *)
(* two sector writes.  The disk is the file allocation table, the data     *)
(* clusters and the root directory.  Every action below makes at most one  *)
(* sector write, and ide.rs sends a flush after each one: on a drive that  *)
(* obeys it, as assumed here, a crash finds the disk as some prefix of the *)
(* writes left it.  (Ata has a drive that may be too busy to obey.)  No    *)
(* operation awaits anything, so on one core they never overlap.           *)
(*                                                                         *)
(* A file's bytes are counted in clusters: a content is a sequence of      *)
(* cluster-sized chunks.  The model's clusters, FAT and root directory are *)
(* one sector each, so one write stores a chunk, and one of format_drive   *)
(* replaces the whole table.                                               *)
(***************************************************************************)
EXTENDS Integers, Sequences, FiniteSets

CONSTANTS
    LastEntry,   \* last entry of the FAT: sectors_per_fat * 256 - 1
    LastData,    \* last cluster that lies on the disk
    RootEntries, \* number of root directory slots
    Names,       \* 8.3 names
    BootName,    \* the name kernel_main writes at every boot
    Chunks,      \* cluster contents
    MaxChunks,   \* bound: longest file, in clusters
    MaxOps,      \* bound: commands in a behaviour
    MaxCrashes,  \* bound: power failures in a behaviour
    Free,        \* a directory slot whose first byte is 0x00
    Deleted,     \* a directory slot whose first byte is 0xE5
    Unknown      \* the content of a file in flux, in FileStore

Entries == 0 .. LastEntry
Clusters == 2 .. LastEntry
Slots == 1 .. RootEntries
EOC == 65535       \* the mark the code writes at the end of a chain
EndMark == 65528   \* 0xFFF8: a chain ends at any entry from here on
NoSlot == 0

Contents == UNION {[1 .. n -> Chunks] : n \in 0 .. MaxChunks}
BootContent == <<CHOOSE x \in Chunks : TRUE>>
FileEntry == [name : Names, cluster : Entries, size : 0 .. MaxChunks]

ASSUME Fat16Constants ==
    /\ LastEntry \in Nat /\ LastEntry < EndMark /\ LastData \in 2 .. LastEntry
    /\ RootEntries \in Nat /\ MaxChunks \in Nat \ {0}
    /\ MaxOps \in Nat /\ MaxCrashes \in Nat
    /\ BootName \in Names /\ Chunks # {}
    /\ Free \notin FileEntry /\ Deleted \notin FileEntry /\ Free # Deleted
    /\ Free \notin [name : Names, bytes : Contents \cup {Unknown}]

VARIABLES
    formatted,         \* the boot sector holds a BPB with 512-byte sectors
    fat, data, root,   \* the rest of the disk
    step,              \* next step of the operation in progress, or "idle"
    kind,              \* which operation that is
    slot,              \* its directory slot
    name, content,     \* its arguments
    written,           \* chunks written so far (bytes_written)
    first, prev, cur,  \* first_cluster, previous_cluster, current_cluster (0: None)
    ops, crashes,      \* commands started and power failures so far
    stored,            \* what each slot's file was last written with
    suspect,           \* files whose overwrite or format was cut short
    cut                \* some operation was cut short since the last format

disk == <<formatted, fat, data, root>>
opvars == <<kind, slot, name, content, written, first, prev, cur>>
ghosts == <<stored, suspect, cut>>
vars == <<disk, step, opvars, ops, crashes, ghosts>>

\* "off": powered down; "boot": before kernel_main's write; "idle": at the
\* prompt; "unwrap", "panic", "hung": the machine has stopped.
Steps == {"off", "boot", "idle", "free", "alloc", "link", "data", "entry",
          "fmt_boot", "fmt_fat", "fmt_root", "unwrap", "panic", "hung"}

\* A blank disk, or a volume formatted on the host, perhaps with a deleted file
\* in its root.
Init ==
    /\ formatted \in BOOLEAN
    /\ fat = [c \in Entries |-> IF formatted /\ c < 2 THEN EOC ELSE 0]
    /\ data \in [2 .. LastData -> {CHOOSE x \in Chunks : TRUE}]
    /\ \E gone \in IF formatted THEN SUBSET {1} ELSE {{}} :
          root = [s \in Slots |-> IF s \in gone THEN Deleted ELSE Free]
    /\ step = "boot"
    /\ kind = "none" /\ slot = NoSlot /\ name = BootName /\ content = <<>>
    /\ written = 0 /\ first = 0 /\ prev = 0 /\ cur = 0
    /\ ops = 0 /\ crashes = 0
    /\ stored = [s \in Slots |-> Free]
    /\ suspect = {} /\ cut = FALSE
-----------------------------------------------------------------------------
\* Scans of the disk.

\* find_empty_root_slot: the first slot that is free or deleted.
EmptySlots == {s \in Slots : root[s] \in {Free, Deleted}}
find_empty_root_slot == CHOOSE s \in EmptySlots : \A t \in EmptySlots : s <= t

\* find_file and find_file_location: the first entry with the name, looking no
\* further than the first free slot.
Matches(n) ==
    {s \in Slots : /\ root[s] \notin {Free, Deleted} /\ root[s].name = n
                   /\ \A t \in 1 .. s : root[t] # Free}
find_file_location(n) == CHOOSE s \in Matches(n) : \A t \in Matches(n) : s <= t

\* find_free_cluster: the first zero entry of the whole FAT.
FreeEntries == {c \in Entries : fat[c] = 0}
find_free_cluster == CHOOSE c \in FreeEntries : \A d \in FreeEntries : c <= d

\* set_fat_entry writes the first copy of the FAT, the only one that is read.
set_fat_entry(c, next) == [fat EXCEPT ![c] = next]

\* The clusters read_file visits for n chunks: it follows the FAT from the entry's
\* first cluster until it has the bytes it wants, or meets an end-of-chain mark.
get_fat_entry(c) == IF c \in Entries THEN fat[c] ELSE EOC
Visited(c, n) ==
    LET chain[i \in 1 .. n] == IF i = 1 THEN c ELSE get_fat_entry(chain[i - 1])
    IN  chain

\* read_file: ok is FALSE where cluster_to_lba underflows (a panic) or the cluster
\* is not on the disk (the drive never answers).  An empty file's first cluster
\* is read all the same.
read_file(entry) ==
    LET wanted == IF entry.size = 0 THEN 1 ELSE entry.size
        chain  == Visited(entry.cluster, wanted)
        upto   == {n \in 0 .. wanted : \A i \in 1 .. n : chain[i] < EndMark}
        n      == CHOOSE m \in upto : \A k \in upto : k <= m
        good   == \A i \in 1 .. n : chain[i] \in 2 .. LastData
    IN  [ok    |-> good,
         bytes |-> IF good
                   THEN [i \in 1 .. (IF entry.size = 0 THEN 0 ELSE n) |-> data[chain[i]]]
                   ELSE <<>>]

\* The file of slot s is in flux: overwrite_file has begun to free its old chain
\* and has not written the entry of the new one, or format_drive has cleared the
\* FAT and not the root directory.
InFlux(s) ==
    \/ /\ kind = "overwrite" /\ slot = s
       /\ ~(step = "free" /\ cur = root[s].cluster)
    \/ step = "fmt_root"

Files == {s \in Slots : root[s] \notin {Free, Deleted}}

\* The operation in progress ends here, and with it any file in flux.
CutShort ==
    /\ suspect' = suspect \cup {s \in Files : InFlux(s)}
    /\ cut' = (cut \/ kind # "none")
-----------------------------------------------------------------------------
\* The operations, one sector write at a time.

Start(k, s, n, c, next) ==
    /\ kind' = k /\ slot' = s /\ name' = n /\ content' = c
    /\ written' = 0 /\ first' = 0 /\ prev' = 0 /\ cur' = 0
    /\ step' = next

\* An operation returns to the prompt, with Ok or with Err.
Return ==
    /\ step' = "idle"
    /\ kind' = "none" /\ slot' = NoSlot /\ name' = BootName /\ content' = <<>>
    /\ written' = 0 /\ first' = 0 /\ prev' = 0 /\ cur' = 0

\* write_new_file up to its first write; "Root directory full" changes nothing.
BeginWrite(n, c) ==
    /\ IF EmptySlots # {}
       THEN Start("write", find_empty_root_slot, n, c, "alloc")
       ELSE Return
    /\ UNCHANGED <<disk, ghosts>>

\* A bug: the old chain is not freed.
BeginOverwrite_NoFree(n, c) ==
    /\ IF Matches(n) # {}
       THEN Start("overwrite", find_file_location(n), n, c, "alloc")
       ELSE Return
    /\ UNCHANGED <<disk, ghosts>>

\* overwrite_file up to its first write; "File not found" changes nothing.
BeginOverwrite(n, c) ==
    /\ IF Matches(n) # {}
       THEN LET s == find_file_location(n) IN
            /\ kind' = "overwrite" /\ slot' = s /\ name' = n /\ content' = c
            /\ written' = 0 /\ first' = 0 /\ prev' = 0
            /\ cur' = root[s].cluster
            /\ step' = IF root[s].cluster >= 2 THEN "free" ELSE "alloc"
       ELSE Return
    /\ UNCHANGED <<disk, ghosts>>

\* format_drive takes IDE's lock only and leaves FS as it is.
BeginFormat ==
    /\ Start("format", NoSlot, BootName, <<>>, "fmt_boot")
    /\ UNCHANGED <<disk, ghosts>>

\* fat16::init reads the boot sector and sets FS if it accepts it; kernel_main
\* then unwraps FS to write its test file.
Boot ==
    /\ step = "boot"
    /\ IF formatted
       THEN BeginWrite(BootName, BootContent)
       ELSE step' = "unwrap" /\ UNCHANGED <<disk, opvars, ghosts>>
    /\ UNCHANGED <<ops, crashes>>

\* A command at the prompt: mkdir, the editor's save, or formatd.
Command ==
    /\ step = "idle" /\ ops < MaxOps
    /\ ops' = ops + 1
    /\ \/ \E n \in Names, c \in Contents :
             \/ BeginWrite(n, c)
             \/ BeginOverwrite(n, c)
       \/ BeginFormat
    /\ UNCHANGED crashes

\* A bug: the loop without its end-of-chain test.
FreeCluster_NoEndTest ==
    /\ step = "free"
    /\ IF cur >= 2
       THEN /\ fat' = [c \in Entries |-> IF c = cur THEN 0 ELSE fat[c]]
            /\ cur' = get_fat_entry(cur)
            /\ suspect' = (IF slot \in suspect THEN suspect \cup Files ELSE suspect)
            /\ UNCHANGED step
       ELSE /\ step' = "alloc"
            /\ cur' = 0
            /\ UNCHANGED <<fat, suspect>>
    /\ UNCHANGED <<formatted, data, root, kind, slot, name, content, written, first, prev,
                   ops, crashes, stored, cut>>

\* One round of free_cluster_chain's loop.  The chain of a suspect file is stale:
\* what it frees may be another file's by now.
FreeCluster ==
    /\ step = "free"
    /\ IF cur >= 2 /\ cur < EndMark
       THEN /\ fat' = set_fat_entry(cur, 0)
            /\ cur' = get_fat_entry(cur)
            /\ suspect' = (IF slot \in suspect THEN suspect \cup Files ELSE suspect)
            /\ UNCHANGED step
       ELSE /\ step' = "alloc"
            /\ cur' = 0
            /\ UNCHANGED <<fat, suspect>>
    /\ UNCHANGED <<formatted, data, root, kind, slot, name, content, written, first, prev,
                   ops, crashes, stored, cut>>

\* A bug: the cluster is used without being marked.
Alloc_Unmarked ==
    /\ step = "alloc"
    /\ IF FreeEntries # {}
       THEN /\ cur' = find_free_cluster
            /\ step' = "link"
            /\ UNCHANGED <<kind, slot, name, content, written, first, prev,
                           suspect, cut>>
       ELSE /\ Return
            /\ CutShort
    /\ UNCHANGED <<formatted, fat, data, root, ops, crashes, stored>>

\* find_free_cluster and set_fat_entry(current, 0xFFFF), or "Disk full".  Giving
\* up leaves the clusters allocated so far, and an overwritten entry as it was.
Alloc ==
    /\ step = "alloc"
    /\ IF FreeEntries # {}
       THEN /\ fat' = set_fat_entry(find_free_cluster, EOC)
            /\ cur' = find_free_cluster
            /\ step' = "link"
            /\ UNCHANGED <<kind, slot, name, content, written, first, prev,
                           suspect, cut>>
       ELSE /\ Return
            /\ CutShort
            /\ UNCHANGED fat
    /\ UNCHANGED <<formatted, data, root, ops, crashes, stored>>

\* Bugs: the link goes the wrong way; first_cluster is noted on every round.
Link_Backwards ==
    /\ step = "link"
    /\ step' = "data"
    /\ IF prev = 0
       THEN first' = cur /\ UNCHANGED fat
       ELSE fat' = [fat EXCEPT ![cur] = prev] /\ UNCHANGED first
    /\ UNCHANGED <<formatted, data, root, kind, slot, name, content, written, prev, cur,
                   ops, crashes, ghosts>>

Link_AlwaysFirst ==
    /\ step = "link"
    /\ step' = "data"
    /\ first' = cur
    /\ fat' = IF prev = 0 THEN fat ELSE [fat EXCEPT ![prev] = cur]
    /\ UNCHANGED <<formatted, data, root, kind, slot, name, content, written, prev, cur,
                   ops, crashes, ghosts>>

\* first_cluster is noted, or the previous cluster is linked to this one.
Link ==
    /\ step = "link"
    /\ step' = "data"
    /\ IF prev = 0
       THEN first' = cur /\ UNCHANGED fat
       ELSE fat' = set_fat_entry(prev, cur) /\ UNCHANGED first
    /\ UNCHANGED <<formatted, data, root, kind, slot, name, content, written, prev, cur,
                   ops, crashes, ghosts>>

\* The chunk is written to the cluster.  cluster_to_lba panics below cluster 2;
\* past the end of the disk the drive reports an error the driver waits out.
WriteData ==
    /\ step = "data"
    /\ IF cur < 2
       THEN step' = "panic" /\ UNCHANGED <<data, written, prev>>
       ELSE IF content # <<>> /\ cur > LastData
       THEN step' = "hung" /\ UNCHANGED <<data, written, prev>>
       ELSE /\ IF content = <<>>
               THEN UNCHANGED <<data, written>>
               ELSE /\ data' = [data EXCEPT ![cur] = content[written + 1]]
                    /\ written' = written + 1
            /\ prev' = cur
            /\ step' = IF written' < Len(content) THEN "alloc" ELSE "entry"
    /\ UNCHANGED <<formatted, fat, root, kind, slot, name, content, first, cur,
                   ops, crashes, ghosts>>

\* The directory entry is written last.
WriteEntry ==
    /\ step = "entry"
    /\ root' = [root EXCEPT ![slot] =
                   [name |-> name, cluster |-> first, size |-> Len(content)]]
    /\ stored' = [stored EXCEPT ![slot] = content]
    /\ suspect' = suspect \ {slot}
    /\ Return
    /\ UNCHANGED <<formatted, fat, data, ops, crashes, cut>>

\* A bug: the media type is stored without its high byte.
FormatFat_LowByte ==
    /\ step = "fmt_fat"
    /\ fat' = [c \in Entries |-> IF c = 0 THEN 248 ELSE IF c = 1 THEN EOC ELSE 0]
    /\ step' = "fmt_root"
    /\ UNCHANGED <<formatted, data, root, opvars, ops, crashes, ghosts>>

\* format_drive: the boot sector, then the FAT, then the root directory.
FormatBoot ==
    /\ step = "fmt_boot"
    /\ formatted' = TRUE
    /\ step' = "fmt_fat"
    /\ UNCHANGED <<fat, data, root, opvars, ops, crashes, ghosts>>

FormatFat ==
    /\ step = "fmt_fat"
    /\ fat' = [c \in Entries |-> IF c < 2 THEN EOC ELSE 0]
    /\ step' = "fmt_root"
    /\ UNCHANGED <<formatted, data, root, opvars, ops, crashes, ghosts>>

FormatRoot ==
    /\ step = "fmt_root"
    /\ root' = [s \in Slots |-> Free]
    /\ stored' = [s \in Slots |-> Free]
    /\ suspect' = {} /\ cut' = FALSE
    /\ Return
    /\ UNCHANGED <<formatted, fat, data, ops, crashes>>

\* Power is lost, or a stopped machine is switched off; the disk stays.
Crash ==
    /\ step # "off"
    /\ crashes < MaxCrashes
    /\ crashes' = crashes + 1
    /\ Start("none", NoSlot, BootName, <<>>, "off")
    /\ CutShort
    /\ UNCHANGED <<disk, ops, stored>>

PowerOn ==
    /\ step = "off"
    /\ step' = "boot"
    /\ UNCHANGED <<disk, opvars, ops, crashes, ghosts>>

Operation ==
    \/ FreeCluster \/ Alloc \/ Link \/ WriteData \/ WriteEntry
    \/ FormatBoot \/ FormatFat \/ FormatRoot

Next == Boot \/ Command \/ Operation \/ Crash \/ PowerOn

Spec == Init /\ [][Next]_vars
FairSpec == Spec /\ WF_vars(Operation) /\ WF_vars(Boot)
-----------------------------------------------------------------------------
\* The disk and the operation in progress are well formed: every cluster number
\* that is stored or used is an entry of the FAT.
TypeOK ==
    /\ formatted \in BOOLEAN
    /\ fat \in [Entries -> Entries \cup {EOC}]
    /\ data \in [2 .. LastData -> Chunks]
    /\ root \in [Slots -> FileEntry \cup {Free, Deleted}]
    /\ step \in Steps
    /\ kind \in {"none", "write", "overwrite", "format"}
    /\ slot \in Slots \cup {NoSlot}
    /\ name \in Names /\ content \in Contents
    /\ written \in 0 .. Len(content)
    /\ first \in Entries /\ prev \in Entries /\ cur \in Entries \cup {EOC}
    /\ ops \in 0 .. MaxOps /\ crashes \in 0 .. MaxCrashes
    /\ stored \in [Slots -> Contents \cup {Free}]
    /\ suspect \subseteq Slots /\ cut \in BOOLEAN

\* The clusters a file of n chunks occupies: an empty one has one all the same.
ChainLength(n) == IF n = 0 THEN 1 ELSE n

\* An empty file may have been given a cluster that is not on the disk, since
\* nothing is written to it.
Readable(s) == root[s].size > 0 \/ root[s].cluster <= LastData

\* A file whose content can be relied on.
Sound == {s \in Files \ suspect : ~InFlux(s)}

\* A file reads back exactly as it was last written, whatever else is created or
\* overwritten, through crashes and writes that run out of space.  An overwrite or a
\* format cut short costs only its own files, until one of those is overwritten
\* again; a complete format restores the guarantee.
ReadBack ==
    \A s \in Sound : Readable(s) =>
        read_file(root[s]) = [ok |-> TRUE, bytes |-> stored[s]]

\* The clusters of the file in slot s.
Chain(s) ==
    LET n == ChainLength(root[s].size)
        v == Visited(root[s].cluster, n)
    IN  {v[i] : i \in 1 .. n}

\* The chains on the disk are sound: no cluster belongs to two files, or to a file
\* and to the chain being written, and a file's chain ends with an end-of-chain
\* mark exactly where its size says.
ChainsAreSound ==
    \A s \in Sound :
        LET n == ChainLength(root[s].size)
        IN  /\ \A t \in Sound \ {s} : Chain(s) \cap Chain(t) = {}
            /\ step \in {"link", "data", "entry"} => {first, prev, cur} \cap Chain(s) = {}
            /\ get_fat_entry(Visited(root[s].cluster, n)[n]) = EOC
            /\ Chain(s) \subseteq Clusters /\ Cardinality(Chain(s)) = n

\* At the prompt every marked cluster is in some file's chain, unless an operation
\* was cut short by a crash or by "Disk full": overwrites give all of the old
\* chain back, and the writes that fail before they allocate take nothing.
NothingLeaks ==
    step = "idle" /\ ~cut =>
        {c \in Clusters : fat[c] # 0} = UNION {Chain(s) : s \in Files}

\* Seen through its directory, the disk is a FileStore.
Abstract ==
    INSTANCE FileStore WITH
        None <- Free,
        erasing <- kind = "format",
        dir <- [s \in Slots |->
                  IF s \notin Files THEN Free
                  ELSE [name  |-> root[s].name,
                        bytes |-> IF s \notin Sound THEN Unknown
                                  ELSE IF Readable(s) THEN read_file(root[s]).bytes
                                  ELSE <<>>]]

\* write_new_file and overwrite_file, crashes and "Disk full" included, change
\* the directory only as FileStore allows: files appear whole, are replaced
\* under their own name, and nothing else is touched.
ImplementsFileStore == Abstract!Spec

\* Every operation returns to the prompt unless the power fails or the drive
\* stops answering: the loops over the disk are finite, and no write underflows
\* cluster_to_lba on a reserved entry of the FAT ("panic"), on a damaged disk too.
OperationEnds == step \in Steps \ {"idle", "off"} ~> step \in {"idle", "off", "unwrap", "hung"}

\* A disk that is not a FAT16 volume leaves FS None, which every caller handles:
\* the kernel reaches the prompt, where formatd can format it.
BlankDiskBoots == step # "unwrap"
=============================================================================
