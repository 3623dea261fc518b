---------------------------- MODULE Fat16Proofs ----------------------------
(***************************************************************************)
(* The file system keeps its promises for every size of the disk, every    *)
(* number of files, commands and crashes, and Fat16 implements FileStore.  *)
(* The inductive invariant Inv follows an operation sector write by sector *)
(* write: the files that can be relied on have whole chains that share no  *)
(* cluster (FilesOK), the chain under construction is whole up to its last *)
(* link and belongs to nobody (BuildOK), the chain being freed is the rest *)
(* of the old file (FreeOK), and no cluster is marked besides these        *)
(* (Accounted).                                                            *)
(*                                                                         *)
(* A chain is a sequence of clusters (Spans); that the loop of read_file   *)
(* visits exactly that sequence is shown by the least counterexample.      *)
(***************************************************************************)
EXTENDS Fat16, DataLemmas, FiniteSetTheorems

\* v is a chain of the FAT f: n different clusters, from c on, each one's entry
\* naming the next, and the last one's an end-of-chain mark.
Spans(f, v, c, n) ==
    /\ n \in Nat \ {0}
    /\ v \in [1 .. n -> Clusters]
    /\ v[1] = c
    /\ \A i, j \in 1 .. n : v[i] = v[j] => i = j
    /\ \A i \in 1 .. n - 1 : f[v[i]] = v[i + 1]
    /\ f[v[n]] = EOC

\* The clusters read_file visits, for any FAT.
Follow(f, c, n) ==
    LET chain[i \in 1 .. n] == IF i = 1 THEN c
                               ELSE IF chain[i - 1] \in Entries THEN f[chain[i - 1]] ELSE EOC
    IN  chain

\* Reading follows the chain: the clusters visited are the chain's.
LEMMA FollowSpans ==
    ASSUME NEW f, NEW v, NEW c, NEW n, Spans(f, v, c, n)
    PROVE  Follow(f, c, n) = v
  <1> DEFINE Step(g) == [i \in 1 .. n |->
                            IF i = 1 THEN c
                            ELSE IF g[i - 1] \in Entries THEN f[g[i - 1]] ELSE EOC]
             w == CHOOSE g : g = Step(g)
  <1>1. Follow(f, c, n) = w
    BY Zenon DEF Follow
  <1>2. v = Step(v)
    BY DEF Spans, Clusters, Entries
  <1>3. w = Step(w)
    BY <1>2, Zenon
  <1> HIDE DEF w
  <1>4. ASSUME NEW i \in 1 .. n, w[i] # v[i] PROVE FALSE
    <2> DEFINE T == {k \in 1 .. n : w[k] # v[k]}
    <2>1. T \in SUBSET Nat /\ T # {}
      BY <1>4
    <2>2. PICK k \in T : \A m \in T : k <= m
      BY <2>1, LeastNumber, Zenon
    <2>3. k = 1 \/ (k - 1 \in 1 .. n /\ w[k - 1] = v[k - 1])
      BY <2>2 DEF Spans
    <2>4. w[k] = Step(v)[k]
      BY <1>3, <2>2, <2>3, Zenon
    <2> QED
      BY <1>2, <2>2, <2>4, Zenon
  <1> QED
    BY <1>1, <1>2, <1>3, <1>4

\* An end-of-chain mark is neither a free entry nor a cluster, and get_fat_entry
\* gives a cluster, a mark, or an entry that is free or reserved.
LEMMA Marks ==
    /\ EOC # 0 /\ EOC \notin Entries /\ ~(EOC < EndMark)
    /\ 0 \in Entries /\ 1 \in Entries /\ 0 \notin Clusters /\ 1 \notin Clusters
    /\ Clusters \subseteq Entries
    /\ \A c \in Entries \cup {EOC} : c >= 2 /\ c < EndMark => c \in Clusters
    /\ \A c \in Clusters : c >= 2 /\ c < EndMark
  BY Fat16Constants DEF Entries, Clusters, EOC, EndMark

\* A chain is not disturbed by what is written to the entries of other clusters.
LEMMA SpansFrame ==
    ASSUME NEW f, NEW g, NEW v, NEW c, NEW n, Spans(f, v, c, n),
           \A i \in 1 .. n : g[v[i]] = f[v[i]]
    PROVE  Spans(g, v, c, n)
  <1>1. n \in 1 .. n /\ \A i \in 1 .. n - 1 : i \in 1 .. n
    BY DEF Spans
  <1> QED
    BY <1>1, Zenon DEF Spans

\* A marked cluster is a chain.
LEMMA SpansOne ==
    ASSUME NEW f, NEW c \in Clusters, f[c] = EOC
    PROVE  Spans(f, [i \in 1 .. 1 |-> c], c, 1)
  BY SMTT(30) DEF Spans

\* Linking a marked cluster to the last of a chain makes a longer chain.
LEMMA SpansLink ==
    ASSUME NEW f \in [Entries -> Entries \cup {EOC}], NEW v, NEW c, NEW n, Spans(f, v, c, n),
           NEW d \in Clusters, f[d] = EOC, \A i \in 1 .. n : v[i] # d
    PROVE  Spans([f EXCEPT ![v[n]] = d], [i \in 1 .. n + 1 |-> IF i <= n THEN v[i] ELSE d],
                 c, n + 1)
  <1> DEFINE g == [f EXCEPT ![v[n]] = d]
             w == [i \in 1 .. n + 1 |-> IF i <= n THEN v[i] ELSE d]
  <1>1. n \in Nat \ {0} /\ v \in [1 .. n -> Clusters] /\ Clusters \subseteq Entries
    BY DEF Spans, Clusters, Entries
  <1>2. \A i \in 1 .. n : w[i] = v[i]
    BY <1>1
  <1>3. w[n + 1] = d /\ w \in [1 .. n + 1 -> Clusters]
    BY <1>1
  <1>4. g[v[n]] = d /\ \A e \in Entries : e # v[n] => g[e] = f[e]
    BY <1>1
  <1> HIDE DEF g, w
  <1>5. \A i, j \in 1 .. n + 1 : w[i] = w[j] => i = j
    BY <1>1, <1>2, <1>3 DEF Spans
  <1>6. ASSUME NEW i \in 1 .. n PROVE g[w[i]] = w[i + 1]
    <2>1. CASE i = n
      BY <1>1, <1>2, <1>3, <1>4, <2>1, Zenon
    <2>2. CASE i # n
      <3>1. i \in 1 .. n - 1 /\ n \in 1 .. n /\ i + 1 \in 1 .. n
        BY <1>1, <2>2
      <3>2. v[i] # v[n] /\ f[v[i]] = v[i + 1] /\ v[i] \in Entries
        BY <1>1, <2>2, <3>1, Zenon DEF Spans
      <3> QED
        BY <1>2, <1>4, <3>1, <3>2, Zenon
    <2> QED
      BY <2>1, <2>2, Zenon
  <1>7. g[w[n + 1]] = EOC
    BY <1>1, <1>3, <1>4
  <1> QED
    BY <1>1, <1>2, <1>3, <1>5, <1>6, <1>7 DEF Spans, g, w

\* Freeing the first cluster of a chain leaves the chain of the others.
LEMMA SpansFree ==
    ASSUME NEW f \in [Entries -> Entries \cup {EOC}], NEW v, NEW c, NEW n, Spans(f, v, c, n)
    PROVE  /\ n = 1 => f[c] = EOC
           /\ n > 1 => Spans([f EXCEPT ![c] = 0], [i \in 1 .. n - 1 |-> v[i + 1]], f[c], n - 1)
  <1> DEFINE g == [f EXCEPT ![c] = 0]
             w == [i \in 1 .. n - 1 |-> v[i + 1]]
  <1>1. n \in Nat \ {0} /\ v \in [1 .. n -> Clusters] /\ Clusters \subseteq Entries /\ v[1] = c
    BY DEF Spans, Clusters, Entries
  <1>2. n = 1 => f[c] = EOC
    BY <1>1, Zenon DEF Spans
  <1> SUFFICES ASSUME n > 1 PROVE Spans(g, w, f[c], n - 1)
    BY <1>2, Zenon
  <1>3. \A i \in 1 .. n - 1 : i + 1 \in 1 .. n /\ w[i] = v[i + 1]
    BY <1>1
  <1>4. w \in [1 .. n - 1 -> Clusters] /\ w[1] = f[c]
    BY <1>1, <1>3 DEF Spans
  <1>5. \A e \in Entries : e # c => g[e] = f[e]
    BY <1>1, Zenon
  <1>6. \A i \in 1 .. n - 1 : w[i] # c
    BY <1>1, <1>3 DEF Spans
  <1> HIDE DEF g, w
  <1>7. \A i, j \in 1 .. n - 1 : w[i] = w[j] => i = j
    BY <1>1, <1>3 DEF Spans
  <1>8. ASSUME NEW i \in 1 .. n - 2 PROVE g[w[i]] = w[i + 1]
    <2>1. i \in 1 .. n - 1 /\ i + 1 \in 1 .. n - 1
      BY <1>1
    <2>2. w[i] = v[i + 1] /\ w[i + 1] = v[i + 2] /\ w[i] # c /\ w[i] \in Entries
      BY <1>1, <1>3, <1>4, <1>6, <2>1
    <2>3. f[v[i + 1]] = v[i + 2]
      BY <1>1, <2>1 DEF Spans
    <2> QED
      BY <1>5, <2>2, <2>3, Zenon
  <1>9. g[w[n - 1]] = EOC
    <2>1. n - 1 \in 1 .. n - 1 /\ w[n - 1] = v[n] /\ w[n - 1] # c /\ w[n - 1] \in Entries
      BY <1>1, <1>3, <1>4, <1>6
    <2> QED
      BY <1>5, <2>1, Zenon DEF Spans
  <1> QED
    BY <1>1, <1>4, <1>7, <1>8, <1>9 DEF Spans

\* The clusters of a file, in order, and their number.
Size(s) == ChainLength(root[s].size)
File(s) == Visited(root[s].cluster, Size(s))

\* A file's chain is whole and holds what was stored.
FileOK(s) ==
    /\ Spans(fat, File(s), root[s].cluster, Size(s))
    /\ stored[s] \in Contents /\ Len(stored[s]) = root[s].size
    /\ \A i \in 1 .. root[s].size :
          File(s)[i] <= LastData /\ data[File(s)[i]] = stored[s][i]

\* The clusters of the chain under construction, cur excepted while it is not
\* linked yet.
BuiltLen ==
    CASE step \in {"alloc", "link"} -> written
      [] step = "data" -> written + 1
      [] step = "entry" -> ChainLength(written)
      [] OTHER -> 0
Built == Visited(first, BuiltLen)

\* The chain under construction: its links are written in order, ahead of the clusters'
\* data by one at most; it holds the content written so far and is no file's yet.
BuildOK ==
    step \in {"alloc", "link", "data", "entry"} =>
    /\ BuiltLen = 0 => first = 0
    /\ BuiltLen > 0 => Spans(fat, Built, first, BuiltLen)
    /\ step # "entry" => prev = (IF written = 0 THEN 0 ELSE Built[written])
    /\ step = "entry" => prev = cur
    /\ step \in {"data", "entry"} => cur = Built[BuiltLen]
    /\ \A i \in 1 .. written : Built[i] <= LastData /\ data[Built[i]] = content[i]
    /\ \A s \in Sound : \A i \in 1 .. BuiltLen, j \in 1 .. Size(s) : Built[i] # File(s)[j]
    /\ step = "link" =>
          /\ cur \in Clusters /\ fat[cur] = EOC
          /\ \A i \in 1 .. BuiltLen : Built[i] # cur
          /\ \A s \in Sound : \A j \in 1 .. Size(s) : File(s)[j] # cur

\* Some file of S has the cluster c.
Owned(c, S) == \E s \in S : \E i \in 1 .. Size(s) : File(s)[i] = c

\* m clusters of the overwritten file's chain remain to be freed, from cur on.
Freeing(m) ==
    /\ m = 0 => cur = EOC
    /\ m > 0 => Spans(fat, Visited(cur, m), cur, m)
    /\ cur # root[slot].cluster => fat[root[slot].cluster] = 0
    /\ \A s \in Sound \ {slot} :
          \A i \in 1 .. m, j \in 1 .. Size(s) : Visited(cur, m)[i] # File(s)[j]
    /\ ~cut => \A c \in Clusters :
          fat[c] # 0 <=> \/ Owned(c, Sound \ {slot})
                         \/ \E i \in 1 .. m : Visited(cur, m)[i] = c

\* What is left of a chain is known unless the file was suspect to begin with.
FreeOK == step = "free" /\ slot \notin suspect => \E m \in 0 .. MaxChunks : Freeing(m)

\* While no operation has been cut short, the marked clusters are those of the files
\* and of the chain under construction, and no others.
Accounted ==
    ~cut /\ step \notin {"hung", "free"} =>
       \A c \in Clusters :
          fat[c] # 0 <=> \/ Owned(c, Sound)
                         \/ \E i \in 1 .. BuiltLen : Built[i] = c
                         \/ step = "link" /\ c = cur

\* The files that can be relied on are whole and share no cluster.
FilesOK ==
    /\ \A s \in Sound : FileOK(s)
    /\ \A s, t \in Sound : s # t =>
          \A i \in 1 .. Size(s), j \in 1 .. Size(t) : File(s)[i] # File(t)[j]

\* How the steps of an operation go with its arguments and its progress.
Control ==
    /\ step \in {"off", "boot", "idle", "unwrap"} <=> kind = "none"
    /\ step \in {"fmt_boot", "fmt_fat", "fmt_root"} <=> kind = "format"
    /\ step = "free" => kind = "overwrite" /\ written = 0 /\ first = 0 /\ prev = 0
    /\ kind \in {"write", "overwrite"} => slot \in Slots
    /\ kind = "write" => slot \in EmptySlots
    /\ kind = "overwrite" => slot \in Files /\ root[slot].name = name
    /\ step \in {"alloc", "link", "data"} => written < ChainLength(Len(content))
    /\ step = "entry" => written = Len(content)
    /\ step \in {"link", "data"} => cur \in Clusters
    /\ step # "panic"

\* The reserved entries of the FAT are never free on a disk that is used, a file
\* always has a cluster, and files are suspect only after a cut.
DiskOK ==
    /\ step \notin {"off", "boot", "unwrap"} => formatted
    /\ formatted => fat[0] # 0 /\ fat[1] # 0
    /\ \A s \in Files : root[s].cluster \in Clusters
    /\ ~cut => suspect = {}
    /\ step = "fmt_root" => \A c \in Clusters : fat[c] = 0

\* The inductive invariant.
Inv == TypeOK /\ Control /\ DiskOK /\ FilesOK /\ BuildOK /\ FreeOK /\ Accounted
-----------------------------------------------------------------------------
\* What the operators return.

\* A scan for the first of several returns the first.
LEMMA FirstOf ==
    ASSUME NEW T \in SUBSET Nat, T # {}
    PROVE  (CHOOSE s \in T : \A t \in T : s <= t) \in T
  <1>1. \E n \in T : \A m \in T : n <= m
    BY LeastNumber, Zenon
  <1> QED
    BY <1>1, Zenon

\* find_empty_root_slot finds a slot that is free or deleted.
LEMMA FoundSlot == EmptySlots # {} => find_empty_root_slot \in EmptySlots
  <1>1. EmptySlots \in SUBSET Nat
    BY Fat16Constants DEF EmptySlots, Slots
  <1> QED
    BY <1>1, FirstOf, Zenon DEF find_empty_root_slot

\* find_file_location finds a file of the name it is given.
LEMMA FoundFile ==
    ASSUME NEW n, Matches(n) # {}
    PROVE  find_file_location(n) \in Files /\ root[find_file_location(n)].name = n
  <1>1. Matches(n) \in SUBSET Nat
    BY Fat16Constants DEF Matches, Slots
  <1>2. find_file_location(n) \in Matches(n)
    BY <1>1, FirstOf, Zenon DEF find_file_location
  <1> QED
    BY <1>2, Zenon DEF Matches, Files

\* find_free_cluster finds an entry that is 0.
LEMMA FoundCluster ==
    FreeEntries # {} => find_free_cluster \in Entries /\ fat[find_free_cluster] = 0
  <1>1. FreeEntries \in SUBSET Nat
    BY Fat16Constants DEF FreeEntries, Entries
  <1>2. FreeEntries # {} => find_free_cluster \in FreeEntries
    BY <1>1, FirstOf, Zenon DEF find_free_cluster
  <1> QED
    BY <1>2, Zenon DEF FreeEntries

\* A content is a sequence of chunks.
LEMMA ContentsAre ==
    ASSUME NEW c \in Contents
    PROVE  /\ Len(c) \in 0 .. MaxChunks /\ c \in [1 .. Len(c) -> Chunks]
           /\ Len(c) = 0 <=> c = <<>>
  <1>1. PICK n \in 0 .. MaxChunks : c \in [1 .. n -> Chunks]
    BY Zenon DEF Contents
  <1>2. n \in Nat
    BY Fat16Constants
  <1>3. Len(c) = n /\ c \in Seq(Chunks)
    BY <1>1, <1>2
  <1>4. Len(c) = 0 <=> c = <<>>
    BY <1>3
  <1> QED
    BY <1>1, <1>3, <1>4, Zenon

\* An empty file, and the one kernel_main writes, can be written.
LEMMA ContentsHave == <<>> \in Contents /\ BootContent \in Contents /\ Len(BootContent) = 1
  <1>0. 0 \in 0 .. MaxChunks /\ 1 \in 0 .. MaxChunks
    BY Fat16Constants
  <1>1. [1 .. 0 -> Chunks] \subseteq Contents /\ [1 .. 1 -> Chunks] \subseteq Contents
    BY <1>0, Zenon DEF Contents
  <1>2. <<>> \in [1 .. 0 -> Chunks]
    OBVIOUS
  <1>3. BootContent \in [1 .. 1 -> Chunks]
    BY Fat16Constants DEF BootContent
  <1> QED
    BY <1>1, <1>2, <1>3, Zenon DEF BootContent
-----------------------------------------------------------------------------
\* The operation's variables after it has returned to the prompt, or the power failed.
LEMMA AtRest ==
    ASSUME TypeOK, Return \/ Start("none", NoSlot, BootName, <<>>, "off")
    PROVE  /\ step' \in Steps /\ kind' = "none" /\ slot' \in Slots \cup {NoSlot}
           /\ name' \in Names /\ content' \in Contents
           /\ written' \in 0 .. Len(content')
           /\ first' \in Entries /\ prev' \in Entries /\ cur' \in Entries \cup {EOC}
  <1>1. /\ step' \in Steps /\ kind' = "none" /\ slot' = NoSlot /\ name' = BootName
        /\ content' = <<>> /\ written' = 0 /\ first' = 0 /\ prev' = 0 /\ cur' = 0
    BY Zenon DEF Return, Start, Steps
  <1>2. 0 \in 0 .. Len(<<>>) /\ 0 \in Entries /\ BootName \in Names
    BY Fat16Constants DEF Entries
  <1> QED
    BY <1>1, <1>2, ContentsHave, Zenon

\* Type correctness is preserved by every step.
LEMMA TypePreserved ==
    ASSUME TypeOK, Control, [Next]_vars
    PROVE  TypeOK'
  <1> USE DEF TypeOK
  <1>0. 0 \in Entries /\ Clusters \subseteq Entries /\ EOC \notin Entries /\ 0 # EOC
        /\ LastEntry \in Nat
    BY Fat16Constants, Marks, Zenon
  <1>1. ASSUME NEW n \in Names, NEW c \in Contents, BeginWrite(n, c)
        PROVE  /\ UNCHANGED <<disk, ghosts>>
               /\ step' \in Steps /\ kind' \in {"none", "write", "overwrite", "format"}
               /\ slot' \in Slots \cup {NoSlot} /\ name' \in Names /\ content' \in Contents
               /\ written' \in 0 .. Len(content')
               /\ first' \in Entries /\ prev' \in Entries /\ cur' \in Entries \cup {EOC}
    <2>1. CASE EmptySlots # {}
      <3>1. Start("write", find_empty_root_slot, n, c, "alloc") /\ find_empty_root_slot \in Slots
        BY <1>1, <2>1, FoundSlot, Zenon DEF BeginWrite, EmptySlots
      <3>2. 0 \in 0 .. Len(c)
        BY ContentsAre
      <3> QED
        BY <1>0, <1>1, <3>1, <3>2, Zenon DEF BeginWrite, Start, Steps
    <2>2. CASE EmptySlots = {}
      BY <1>1, <2>2, AtRest, Zenon DEF BeginWrite
    <2> QED
      BY <2>1, <2>2, Zenon
  <1>2. ASSUME NEW n \in Names, NEW c \in Contents, BeginOverwrite(n, c)
        PROVE  /\ UNCHANGED <<disk, ghosts>>
               /\ step' \in Steps /\ kind' \in {"none", "write", "overwrite", "format"}
               /\ slot' \in Slots \cup {NoSlot} /\ name' \in Names /\ content' \in Contents
               /\ written' \in 0 .. Len(content')
               /\ first' \in Entries /\ prev' \in Entries /\ cur' \in Entries \cup {EOC}
    <2>1. CASE Matches(n) # {}
      <3>1. find_file_location(n) \in Files
        BY <2>1, FoundFile, Zenon
      <3>2. 0 \in 0 .. Len(c)
        BY ContentsAre
      <3>3. root[find_file_location(n)].cluster \in Entries
        BY <3>1, Zenon DEF Files, FileEntry
      <3> QED
        BY <1>0, <1>2, <2>1, <3>1, <3>2, <3>3, Zenon DEF BeginOverwrite, Files, Steps
    <2>2. CASE Matches(n) = {}
      BY <1>2, <2>2, AtRest, Zenon DEF BeginOverwrite
    <2> QED
      BY <2>1, <2>2, Zenon
  <1>3. CASE Boot
    <2>1. CASE formatted
      <3>1. BeginWrite(BootName, BootContent) /\ UNCHANGED <<ops, crashes>>
        BY <1>3, <2>1, Zenon DEF Boot
      <3> QED
        BY <1>1, <3>1, ContentsHave, Fat16Constants, Zenon DEF disk, ghosts
    <2>2. CASE ~formatted
      BY <1>3, <2>2, Zenon DEF Boot, disk, opvars, ghosts, Steps
    <2> QED
      BY <2>1, <2>2, Zenon
  <1>4. CASE Command
    <2>1. ops' \in 0 .. MaxOps /\ crashes' = crashes
      BY <1>4, Fat16Constants DEF Command
    <2>2. CASE BeginFormat
      <3>1. 0 \in 0 .. Len(<<>>) /\ BootName \in Names
        BY Fat16Constants
      <3> QED
        BY <1>0, <2>1, <2>2, <3>1, ContentsHave, Zenon DEF BeginFormat, Start, disk, ghosts, Steps
    <2>3. CASE ~BeginFormat
      <3>1. PICK n \in Names, c \in Contents : BeginWrite(n, c) \/ BeginOverwrite(n, c)
        BY <1>4, <2>3, Zenon DEF Command
      <3> QED
        BY <1>1, <1>2, <2>1, <3>1, Zenon DEF disk, ghosts
    <2> QED
      BY <2>2, <2>3, Zenon
  <1>5. CASE FreeCluster
    <2>1. CASE cur >= 2 /\ cur < EndMark
      <3>1. cur \in Entries
        BY <2>1, Marks, Zenon
      <3>2. cur' \in Entries \cup {EOC} /\ fat' \in [Entries -> Entries \cup {EOC}]
        BY <1>0, <1>5, <2>1, <3>1, Zenon DEF FreeCluster, set_fat_entry, get_fat_entry
      <3>3. suspect' \subseteq Slots
        BY <1>5, <2>1, Zenon DEF FreeCluster, Files
      <3> QED
        BY <1>5, <2>1, <3>2, <3>3, Zenon DEF FreeCluster
    <2>2. CASE ~(cur >= 2 /\ cur < EndMark)
      BY <1>0, <1>5, <2>2, Zenon DEF FreeCluster, Steps
    <2> QED
      BY <2>1, <2>2, Zenon
  <1>6. CASE Alloc
    <2>1. CASE FreeEntries # {}
      <3>1. find_free_cluster \in Entries
        BY <2>1, FoundCluster, Zenon
      <3>2. fat' \in [Entries -> Entries \cup {EOC}] /\ cur' \in Entries
        BY <1>6, <2>1, <3>1, Zenon DEF Alloc, set_fat_entry
      <3> QED
        BY <1>6, <2>1, <3>2, Zenon DEF Alloc, Steps
    <2>2. CASE FreeEntries = {}
      <3>1. Return /\ CutShort /\ UNCHANGED <<disk, ops, crashes, stored>>
        BY <1>6, <2>2, Zenon DEF Alloc, disk
      <3>2. suspect' \subseteq Slots /\ cut' \in BOOLEAN
        BY <3>1, Zenon DEF CutShort, Files
      <3> QED
        BY <3>1, <3>2, AtRest, Zenon DEF disk
    <2> QED
      BY <2>1, <2>2, Zenon
  <1>7. CASE Link
    <2>1. cur \in Entries
      BY <1>0, <1>7, Zenon DEF Link, Control
    <2>2. fat' \in [Entries -> Entries \cup {EOC}] /\ first' \in Entries
      BY <1>7, <2>1, Zenon DEF Link, set_fat_entry
    <2> QED
      BY <1>7, <2>2, Zenon DEF Link, Steps, ghosts
  <1>8. CASE WriteData
    <2>1. cur \in Entries
      BY <1>0, <1>8, Zenon DEF WriteData, Control
    <2>2. /\ prev' \in Entries /\ step' \in Steps
          /\ UNCHANGED <<formatted, fat, root, kind, slot, name, content, first, cur,
                         ops, crashes, ghosts>>
      BY <1>8, <2>1, Zenon DEF WriteData, Steps
    <2>3. data' \in [2 .. LastData -> Chunks] /\ written' \in 0 .. Len(content)
      <3>1. CASE UNCHANGED <<data, written>>
        BY <3>1, Zenon
      <3>2. CASE ~(UNCHANGED <<data, written>>)
        <4>1. /\ data' = [data EXCEPT ![cur] = content[written + 1]]
              /\ written' = written + 1
              /\ cur \in 2 .. LastData /\ content # <<>>
          BY <1>0, <1>8, <2>1, <3>2, Fat16Constants DEF WriteData, Entries
        <4>2. Len(content) \in Nat /\ content \in [1 .. Len(content) -> Chunks]
          BY ContentsAre, SMTT(30)
        <4>3. written < Len(content)
          BY <1>8, <4>1, <4>2 DEF WriteData, Control, ChainLength
        <4> QED
          BY <4>1, <4>2, <4>3, SMTT(30)
      <3> QED
        BY <3>1, <3>2, Zenon
    <2> QED
      BY <2>2, <2>3, Zenon DEF ghosts
  <1>9. CASE WriteEntry
    <2>1. slot \in Slots
      BY <1>9, Zenon DEF WriteEntry, Control
    <2>2. root' \in [Slots -> FileEntry \cup {Free, Deleted}]
      <3>1. Len(content) \in 0 .. MaxChunks
        BY ContentsAre, Zenon
      <3>2. [name |-> name, cluster |-> first, size |-> Len(content)] \in FileEntry
        BY <3>1, Zenon DEF FileEntry
      <3> QED
        BY <1>9, <2>1, <3>2, Zenon DEF WriteEntry
    <2>3. stored' \in [Slots -> Contents \cup {Free}] /\ suspect' \subseteq Slots
      BY <1>9, <2>1, Zenon DEF WriteEntry
    <2> QED
      BY <1>9, <2>2, <2>3, AtRest, Zenon DEF WriteEntry
  <1>10. CASE FormatBoot \/ FormatFat
    <2>1. fat' \in [Entries -> Entries \cup {EOC}]
      BY <1>0, <1>10, Zenon DEF FormatBoot, FormatFat
    <2> QED
      BY <1>10, <2>1, Zenon DEF FormatBoot, FormatFat, opvars, ghosts, Steps
  <1>11. CASE FormatRoot
    BY <1>11, AtRest, Zenon DEF FormatRoot
  <1>12. CASE Crash
    <2>1. suspect' \subseteq Slots /\ cut' \in BOOLEAN /\ crashes' \in 0 .. MaxCrashes
      BY <1>12, Fat16Constants DEF Crash, CutShort, Files
    <2> QED
      BY <1>12, <2>1, AtRest, Zenon DEF Crash, disk
  <1>13. CASE PowerOn
    BY <1>13, Zenon DEF PowerOn, disk, opvars, ghosts, Steps
  <1>14. CASE UNCHANGED vars
    BY <1>14, Zenon DEF vars, disk, opvars, ghosts
  <1> QED
    BY <1>3, <1>4, <1>5, <1>6, <1>7, <1>8, <1>9, <1>10, <1>11, <1>12, <1>13, <1>14, Zenon
    DEF Next, Operation

\* The free cluster found on a disk in use is a data cluster.
LEMMA FoundDataCluster ==
    ASSUME TypeOK, DiskOK, formatted, FreeEntries # {}
    PROVE  find_free_cluster \in Clusters /\ fat[find_free_cluster] = 0
  <1>1. find_free_cluster \in Entries /\ fat[find_free_cluster] = 0
    BY FoundCluster, Zenon
  <1>2. find_free_cluster # 0 /\ find_free_cluster # 1
    BY <1>1, Zenon DEF DiskOK
  <1> QED
    BY <1>1, <1>2, Fat16Constants DEF Entries, Clusters

\* The order of an operation's steps is preserved.
LEMMA ControlPreserved ==
    ASSUME TypeOK, Control, DiskOK, [Next]_vars
    PROVE  Control'
  <1> USE DEF Control
  <1>0. TypeOK'
    BY TypePreserved, Zenon
  <1>1. ASSUME Return \/ Start("none", NoSlot, BootName, <<>>, "off")
        PROVE  Control'
    BY <1>1, Zenon DEF Return, Start
  <1>2. ASSUME NEW n \in Names, NEW c \in Contents, BeginWrite(n, c)
        PROVE  Control'
    <2>1. CASE EmptySlots # {}
      <3>1. /\ Start("write", find_empty_root_slot, n, c, "alloc") /\ root' = root
            /\ find_empty_root_slot \in EmptySlots
        BY <1>2, <2>1, FoundSlot, Zenon DEF BeginWrite, disk
      <3>2. 0 < ChainLength(Len(c))
        BY ContentsAre DEF ChainLength
      <3> QED
        BY <3>1, <3>2, Zenon DEF Start, EmptySlots
    <2>2. CASE EmptySlots = {}
      BY <1>1, <1>2, <2>2, Zenon DEF BeginWrite
    <2> QED
      BY <2>1, <2>2, Zenon
  <1>3. ASSUME NEW n \in Names, NEW c \in Contents, BeginOverwrite(n, c)
        PROVE  Control'
    <2>1. CASE Matches(n) # {}
      <3>1. /\ find_file_location(n) \in Files /\ root[find_file_location(n)].name = n
            /\ root[find_file_location(n)].cluster >= 2
        BY <2>1, FoundFile, Fat16Constants DEF DiskOK, Clusters
      <3>2. /\ root' = root /\ kind' = "overwrite" /\ slot' = find_file_location(n) /\ name' = n
            /\ written' = 0 /\ first' = 0 /\ prev' = 0 /\ step' = "free"
        BY <1>3, <2>1, <3>1, Zenon DEF BeginOverwrite, disk
      <3> QED
        BY <3>1, <3>2, Zenon DEF Files
    <2>2. CASE Matches(n) = {}
      BY <1>1, <1>3, <2>2, Zenon DEF BeginOverwrite
    <2> QED
      BY <2>1, <2>2, Zenon
  <1>4. CASE Boot
    <2>1. CASE formatted
      BY <1>2, <1>4, <2>1, ContentsHave, Fat16Constants, Zenon DEF Boot
    <2>2. CASE ~formatted
      BY <1>4, <2>2, Zenon DEF Boot, opvars
    <2> QED
      BY <2>1, <2>2, Zenon
  <1>5. CASE Command
    <2>1. CASE BeginFormat
      BY <2>1, Zenon DEF BeginFormat, Start
    <2>2. CASE ~BeginFormat
      BY <1>2, <1>3, <1>5, <2>2, Zenon DEF Command
    <2> QED
      BY <2>1, <2>2, Zenon
  <1>6. CASE FreeCluster
    <2>1. 0 < ChainLength(Len(content))
      BY ContentsAre DEF ChainLength, TypeOK
    <2> QED
      BY <1>6, <2>1, Zenon DEF FreeCluster, Files, EmptySlots
  <1>7. CASE Alloc
    <2>1. CASE FreeEntries # {}
      <3>1. find_free_cluster \in Clusters
        BY <1>7, <2>1, FoundDataCluster, Zenon DEF Alloc, DiskOK
      <3> QED
        BY <1>7, <2>1, <3>1, Zenon DEF Alloc, Files, EmptySlots
    <2>2. CASE FreeEntries = {}
      BY <1>1, <1>7, <2>2, Zenon DEF Alloc
    <2> QED
      BY <2>1, <2>2, Zenon
  <1>8. CASE Link
    BY <1>8, Zenon DEF Link, Files, EmptySlots
  <1>9. CASE WriteData
    <2>1. cur \in Int /\ cur >= 2 /\ Len(content) \in Nat /\ written \in Nat
      BY <1>9, ContentsAre DEF WriteData, Clusters, TypeOK
    <2>2. UNCHANGED <<root, kind, slot, name, content, first, cur>> /\ step = "data"
      BY <1>9, Zenon DEF WriteData
    <2>3. \/ step' = "hung"
          \/ step' = "alloc" /\ written' < ChainLength(Len(content))
          \/ step' = "entry" /\ written' = Len(content)
      <3>1. CASE content = <<>>
        <4>1. Len(content) = 0 /\ written = 0
          BY <2>1, <2>2, <3>1, ContentsAre, SMTT(30) DEF ChainLength, TypeOK
        <4> QED
          BY <1>9, <2>1, <3>1, <4>1, SMTT(30) DEF WriteData, ChainLength
      <3>2. CASE content # <<>>
        <4>1. written < Len(content) /\ Len(content) > 0
          BY <2>1, <2>2, <3>2, ContentsAre DEF ChainLength, TypeOK
        <4> QED
          BY <1>9, <2>1, <3>2, <4>1, SMTT(30) DEF WriteData, ChainLength
      <3> QED
        BY <3>1, <3>2, Zenon
    <2> QED
      BY <2>2, <2>3, Zenon DEF Files, EmptySlots
  <1>10. CASE WriteEntry \/ FormatRoot \/ Crash
    BY <1>1, <1>10, Zenon DEF WriteEntry, FormatRoot, Crash
  <1>11. CASE FormatBoot \/ FormatFat
    BY <1>11, Zenon DEF FormatBoot, FormatFat, opvars
  <1>12. CASE PowerOn
    BY <1>12, Zenon DEF PowerOn, opvars
  <1>13. CASE UNCHANGED vars
    BY <1>13, Zenon DEF vars, disk, opvars, Files, EmptySlots
  <1> HIDE DEF Control
  <1> QED
    BY <1>4, <1>5, <1>6, <1>7, <1>8, <1>9, <1>10, <1>11, <1>12, <1>13, Zenon
    DEF Next, Operation

-----------------------------------------------------------------------------
\* Chains from one state to the next.

\* The entries of a chain's clusters are not free.
LEMMA SpansMarked ==
    ASSUME NEW f, NEW v, NEW c, NEW n, Spans(f, v, c, n)
    PROVE  \A i \in 1 .. n : f[v[i]] # 0
  <1>1. ASSUME NEW i \in 1 .. n PROVE f[v[i]] # 0
    <2>1. CASE i = n
      BY <2>1, Marks, Zenon DEF Spans
    <2>2. CASE i # n
      <3>1. i \in 1 .. n - 1 /\ i + 1 \in 1 .. n
        BY <2>2 DEF Spans
      <3>2. f[v[i]] = v[i + 1] /\ v[i + 1] \in Clusters
        BY <3>1, Zenon DEF Spans
      <3> QED
        BY <3>2 DEF Clusters
    <2> QED
      BY <2>1, <2>2, Zenon
  <1> QED
    BY <1>1, Zenon

\* The clusters of a file depend on its entry and on the FAT alone.
LEMMA FileFollows ==
    ASSUME NEW s
    PROVE  /\ File(s) = Follow(fat, root[s].cluster, Size(s))
           /\ File(s)' = Follow(fat', root'[s].cluster, Size(s)')
  BY Zenon DEF File, Visited, Follow, get_fat_entry

\* So do those of the chain under construction, on its first cluster.
LEMMA BuiltFollows ==
    Built = Follow(fat, first, BuiltLen) /\ Built' = Follow(fat', first', BuiltLen')
  BY Zenon DEF Built, Visited, Follow, get_fat_entry

\* A file whose directory entry, FAT entries and data are left alone stays as it is.
LEMMA FileKept ==
    ASSUME NEW s, FileOK(s), root'[s] = root[s], stored'[s] = stored[s],
           \A i \in 1 .. Size(s) : fat'[File(s)[i]] = fat[File(s)[i]],
           \A i \in 1 .. root[s].size : data'[File(s)[i]] = data[File(s)[i]]
    PROVE  Size(s)' = Size(s) /\ File(s)' = File(s) /\ FileOK(s)'
  <1>1. Size(s)' = Size(s)
    BY Zenon DEF Size
  <1>2. Spans(fat, File(s), root[s].cluster, Size(s))
    BY Zenon DEF FileOK
  <1>3. Spans(fat', File(s), root[s].cluster, Size(s))
    BY <1>2, SpansFrame, Zenon
  <1>4. File(s)' = File(s)
    BY <1>1, <1>3, FileFollows, FollowSpans, Zenon
  <1> QED
    BY <1>1, <1>3, <1>4 DEF FileOK

\* What a step leaves alone of the files that can be relied on after it.
Leaves ==
    /\ Sound' \subseteq Sound
    /\ \A s \in Sound' :
          /\ root'[s] = root[s] /\ stored'[s] = stored[s]
          /\ \A i \in 1 .. Size(s) : fat'[File(s)[i]] = fat[File(s)[i]]
          /\ \A i \in 1 .. root[s].size : data'[File(s)[i]] = data[File(s)[i]]

\* A step that leaves the files to rely on alone keeps them whole and apart.
LEMMA FilesKept ==
    ASSUME FilesOK, Leaves
    PROVE  /\ FilesOK'
           /\ \A s \in Sound' : Size(s)' = Size(s) /\ File(s)' = File(s)
  <1>1. ASSUME NEW s \in Sound'
        PROVE  Size(s)' = Size(s) /\ File(s)' = File(s) /\ FileOK(s)'
    BY FileKept, Zenon DEF FilesOK, Leaves
  <1> QED
    BY <1>1 DEF FilesOK, Leaves

\* Operations that start, give up, are cut short or go on allocating do not change
\* which files can be relied on.
LEMMA SoundKept ==
    ASSUME TypeOK, Control, DiskOK,
           Boot \/ Command \/ Alloc \/ Link \/ WriteData \/ FormatBoot \/ Crash \/ PowerOn
    PROVE  Sound' = Sound
  <1> USE DEF Sound, Files, InFlux
  <1>1. ASSUME kind = "none", step' # "fmt_root", kind' # "overwrite",
               UNCHANGED <<root, suspect>>
        PROVE  Sound' = Sound
    BY <1>1, Zenon DEF Control
  <1>2. ASSUME NEW n, NEW c, BeginWrite(n, c), kind = "none"
        PROVE  Sound' = Sound
    BY <1>1, <1>2, Zenon DEF BeginWrite, Start, Return, disk, ghosts
  <1>3. ASSUME NEW n, NEW c, BeginOverwrite(n, c), kind = "none"
        PROVE  Sound' = Sound
    <2>1. CASE Matches(n) # {}
      <3>1. /\ find_file_location(n) \in Files
            /\ root[find_file_location(n)].cluster >= 2
        BY <2>1, FoundFile, Fat16Constants DEF DiskOK, Clusters
      <3>2. /\ kind' = "overwrite" /\ slot' = find_file_location(n)
            /\ cur' = root[find_file_location(n)].cluster /\ step' = "free"
            /\ root' = root /\ suspect' = suspect
        BY <1>3, <2>1, <3>1, Zenon DEF BeginOverwrite, disk, ghosts
      <3> QED
        BY <1>3, <3>2, Zenon DEF Control
    <2>2. CASE Matches(n) = {}
      BY <1>1, <1>3, <2>2, Zenon DEF BeginOverwrite, Return, disk, ghosts
    <2> QED
      BY <2>1, <2>2, Zenon
  <1>4. CASE Boot
    <2>1. kind = "none"
      BY <1>4, Zenon DEF Boot, Control
    <2> QED
      BY <1>1, <1>2, <1>4, <2>1, Zenon DEF Boot, disk, opvars, ghosts
  <1>5. CASE Command
    <2>1. kind = "none"
      BY <1>5, Zenon DEF Command, Control
    <2>2. CASE BeginFormat
      BY <1>1, <2>1, <2>2, Zenon DEF BeginFormat, Start, disk, ghosts
    <2> QED
      BY <1>2, <1>3, <1>5, <2>1, <2>2, Zenon DEF Command
  <1>6. CASE Alloc
    <2>1. CASE FreeEntries # {}
      BY <1>6, <2>1, Zenon DEF Alloc
    <2>2. CASE FreeEntries = {}
      BY <1>6, <2>2, Zenon DEF Alloc, Return, CutShort
    <2> QED
      BY <2>1, <2>2, Zenon
  <1>7. CASE Link \/ FormatBoot \/ PowerOn
    BY <1>7, Zenon DEF Link, FormatBoot, PowerOn, disk, opvars, ghosts, Control
  <1>8. CASE WriteData
    <2>1. step = "data" /\ step' # "free" /\ step' # "fmt_root"
          /\ UNCHANGED <<root, kind, slot, suspect>>
      BY <1>8, Zenon DEF WriteData, ghosts
    <2> QED
      BY <2>1, Zenon
  <1>9. CASE Crash
    BY <1>9, Zenon DEF Crash, CutShort, Start, disk
  <1> QED
    BY <1>4, <1>5, <1>6, <1>7, <1>8, <1>9, Zenon

\* Freeing the clusters of a file that could be relied on costs that file only.
LEMMA SoundWhenFreed ==
    ASSUME TypeOK, Control, DiskOK, FreeOK, FreeCluster
    PROVE  /\ Sound' \subseteq Sound \ {slot}
           /\ slot \notin suspect => Sound' = Sound \ {slot} /\ suspect' = suspect
           /\ UNCHANGED <<root, kind, slot, cut>>
  <1>0. UNCHANGED <<root, kind, slot, cut>> /\ kind = "overwrite" /\ slot \in Files
        /\ step = "free"
    BY Zenon DEF FreeCluster, Control
  <1>1. CASE slot \in suspect /\ cur >= 2 /\ cur < EndMark
    <2>1. suspect' = suspect \cup Files
      BY <1>1, Zenon DEF FreeCluster
    <2> QED
      BY <1>0, <1>1, <2>1, Zenon DEF Sound, Files
  <1>2. CASE slot \in suspect /\ ~(cur >= 2 /\ cur < EndMark)
    <2>1. suspect' = suspect /\ step' = "alloc"
      BY <1>2, Zenon DEF FreeCluster
    <2> QED
      BY <1>0, <1>2, <2>1, Zenon DEF Sound, Files, InFlux
  <1>3. CASE slot \notin suspect
    <2>1. suspect' = suspect /\ step' \in {"free", "alloc"}
      BY <1>0, <1>3, Zenon DEF FreeCluster
    <2>2. ~(step' = "free" /\ cur' = root[slot].cluster)
      <3>1. CASE cur >= 2 /\ cur < EndMark
        <4>1. PICK m \in 0 .. MaxChunks :
                /\ m = 0 => cur = EOC
                /\ m > 0 => Spans(fat, Visited(cur, m), cur, m)
                /\ cur # root[slot].cluster => fat[root[slot].cluster] = 0
          BY <1>0, <1>3, Zenon DEF FreeOK, Freeing
        <4>2. m > 0 /\ m \in Nat
          BY <3>1, <4>1, Fat16Constants, Marks
        <4> DEFINE u == Visited(cur, m)
        <4>3. Spans(fat, u, cur, m) /\ cur \in Entries
          BY <1>0, <3>1, <4>1, <4>2, Marks, Zenon DEF TypeOK
        <4>4. cur' = fat[cur]
          BY <3>1, <4>3, Zenon DEF FreeCluster, get_fat_entry
        <4> HIDE DEF u
        <4>5. CASE m = 1
          <5>1. cur' = EOC
            BY <4>3, <4>4, <4>5, SMTT(30) DEF Spans
          <5>2. root[slot].cluster \in Entries
            BY <1>0 DEF TypeOK, FileEntry, Files
          <5> QED
            BY <5>1, <5>2, Marks, Zenon
        <4>6. CASE m > 1
          <5>1. 1 \in 1 .. m - 1 /\ 1 \in 1 .. m /\ 2 \in 1 .. m
            BY <4>2, <4>6, SMTT(30)
          <5>2. cur' = u[2] /\ u[2] # cur
            BY <4>3, <4>4, <5>1 DEF Spans
          <5>3. fat[u[2]] # 0
            BY <4>3, <5>1, SpansMarked, Zenon
          <5> QED
            BY <4>1, <5>2, <5>3, Zenon
        <4> QED
          BY <4>2, <4>5, <4>6
      <3>2. CASE ~(cur >= 2 /\ cur < EndMark)
        BY <3>2, Zenon DEF FreeCluster
      <3> QED
        BY <3>1, <3>2, Zenon
    <2> QED
      BY <1>0, <1>3, <2>1, <2>2, Zenon DEF Sound, Files, InFlux
  <1> QED
    BY <1>0, <1>1, <1>2, <1>3, Zenon

\* The file of a directory entry just written takes over the chain that was built
\* for it.
LEMMA SoundWhenWritten ==
    ASSUME TypeOK, Control, WriteEntry
    PROVE  /\ slot \in Slots \ Sound
           /\ Sound' = Sound \cup {slot}
           /\ root'[slot] = [name |-> name, cluster |-> first, size |-> Len(content)]
           /\ stored'[slot] = content
           /\ \A s \in Sound : root'[s] = root[s] /\ stored'[s] = stored[s]
  <1>1. /\ step = "entry" /\ slot \in Slots /\ step' = "idle" /\ kind' = "none"
        /\ kind \in {"write", "overwrite"} /\ suspect' = suspect \ {slot}
        /\ kind = "write" => slot \in EmptySlots
    BY Zenon DEF WriteEntry, Return, Control, TypeOK
  <1>2. slot \notin Sound
    BY <1>1, Zenon DEF Sound, Files, InFlux, EmptySlots
  <1>3. /\ root'[slot] = [name |-> name, cluster |-> first, size |-> Len(content)]
        /\ stored'[slot] = content
        /\ \A s \in Slots : s # slot => root'[s] = root[s] /\ stored'[s] = stored[s]
    BY <1>1, Zenon DEF WriteEntry, TypeOK
  <1>4. root'[slot] \in FileEntry
    <2>1. Len(content) \in 0 .. MaxChunks
      BY ContentsAre, Zenon DEF TypeOK
    <2> QED
      BY <1>3, <2>1 DEF TypeOK, FileEntry
  <1>5. root'[slot] \notin {Free, Deleted}
    BY <1>4, Fat16Constants, Zenon
  <1>6. Sound' = Sound \cup {slot}
    <2>1. ASSUME NEW s \in Slots, s # slot PROVE s \in Sound' <=> s \in Sound
      BY <1>1, <1>3, <2>1, Zenon DEF Sound, Files, InFlux
    <2>2. slot \in Sound'
      BY <1>1, <1>5, Zenon DEF Sound, Files, InFlux
    <2> QED
      BY <1>1, <2>1, <2>2, Zenon DEF Sound, Files
  <1> QED
    BY <1>1, <1>2, <1>3, <1>6, Zenon DEF Sound, Files

\* Formatting leaves no file to rely on.
LEMMA SoundWhenFormatted ==
    ASSUME FormatFat \/ FormatRoot
    PROVE  Sound' = {}
  BY Zenon DEF FormatFat, FormatRoot, Sound, Files, InFlux

\* A cluster found free is in no chain that is relied on.
LEMMA FreeIsUnused ==
    ASSUME TypeOK, FilesOK, BuildOK, NEW c, fat[c] = 0
    PROVE  /\ \A s \in Sound : \A i \in 1 .. Size(s) : File(s)[i] # c
           /\ step = "alloc" => \A i \in 1 .. BuiltLen : Built[i] # c
  <1>1. ASSUME NEW s \in Sound, NEW i \in 1 .. Size(s) PROVE File(s)[i] # c
    <2>1. Spans(fat, File(s), root[s].cluster, Size(s))
      BY Zenon DEF FilesOK, FileOK
    <2> QED
      BY <2>1, SpansMarked, Zenon
  <1>2. ASSUME step = "alloc", NEW i \in 1 .. BuiltLen PROVE Built[i] # c
    <2>1. BuiltLen > 0
      BY <1>2, ContentsAre DEF BuiltLen, TypeOK
    <2>2. Spans(fat, Built, first, BuiltLen)
      BY <1>2, <2>1, Zenon DEF BuildOK
    <2> QED
      BY <2>2, SpansMarked, Zenon
  <1> QED
    BY <1>1, <1>2, Zenon

\* Every step but WriteEntry leaves the files that can be relied on after it alone.
LEMMA StepLeaves ==
    ASSUME TypeOK, Control, DiskOK, FilesOK, BuildOK, FreeOK, [Next]_vars, ~WriteEntry
    PROVE  Leaves
  <1>0. \A s \in Sound : s \in Slots /\ root[s].size \in Nat /\ root[s].size <= Size(s)
                         /\ Size(s) \in Nat
    BY Fat16Constants DEF Sound, Files, TypeOK, FileEntry, Size, ChainLength
  <1>1. CASE UNCHANGED <<fat, data, root, stored>> /\ Sound' = Sound
    BY <1>1, Zenon DEF Leaves
  <1>2. CASE Boot \/ Command \/ FormatBoot \/ Crash \/ PowerOn
    <2>1. UNCHANGED <<fat, data, root, stored>>
      BY <1>2, Zenon DEF Boot, Command, BeginWrite, BeginOverwrite, BeginFormat, FormatBoot,
         Crash, PowerOn, disk, ghosts
    <2> QED
      BY <1>1, <1>2, <2>1, SoundKept, Zenon
  <1>3. CASE FreeCluster
    <2>1. Sound' \subseteq Sound \ {slot} /\ UNCHANGED <<data, root, stored>> /\ step = "free"
      BY <1>3, SoundWhenFreed, Zenon DEF FreeCluster
    <2>2. CASE slot \in suspect /\ cur >= 2 /\ cur < EndMark
      <3>1. suspect' = suspect \cup Files
        BY <1>3, <2>2, Zenon DEF FreeCluster
      <3>2. Sound' = {}
        BY <2>1, <3>1, Zenon DEF Sound, Files
      <3> QED
        BY <3>2, Zenon DEF Leaves
    <2>3. CASE ~(cur >= 2 /\ cur < EndMark)
      <3>1. fat' = fat
        BY <1>3, <2>3, Zenon DEF FreeCluster
      <3> QED
        BY <2>1, <3>1, Zenon DEF Leaves
    <2>4. CASE slot \notin suspect /\ cur >= 2 /\ cur < EndMark
      <3>1. PICK m \in 0 .. MaxChunks :
                /\ m = 0 => cur = EOC
                /\ m > 0 => Spans(fat, Visited(cur, m), cur, m)
                /\ \A s \in Sound \ {slot} :
                      \A i \in 1 .. m, j \in 1 .. Size(s) : Visited(cur, m)[i] # File(s)[j]
        BY <2>1, <2>4, Zenon DEF FreeOK, Freeing
      <3>2. m > 0 /\ 1 \in 1 .. m
        BY <2>4, <3>1, Fat16Constants, Marks
      <3>3. Visited(cur, m)[1] = cur /\ cur \in Entries
        BY <3>1, <3>2, Marks, Zenon DEF Spans
      <3>4. \A s \in Sound \ {slot} : \A j \in 1 .. Size(s) : File(s)[j] # cur
        BY <3>1, <3>2, <3>3, Zenon
      <3>5. fat' = [fat EXCEPT ![cur] = 0]
        BY <1>3, <2>4, Zenon DEF FreeCluster, set_fat_entry
      <3>6. \A c \in Entries : c # cur => fat'[c] = fat[c]
        BY <3>3, <3>5, Zenon DEF TypeOK
      <3>7. \A s \in Sound : \A j \in 1 .. Size(s) : File(s)[j] \in Entries
        BY DEF FilesOK, FileOK, Spans, Clusters, Entries
      <3> QED
        BY <2>1, <3>4, <3>6, <3>7, Zenon DEF Leaves
    <2> QED
      BY <2>2, <2>3, <2>4, Zenon
  <1>4. CASE Alloc
    <2>1. CASE FreeEntries # {}
      <3>1. find_free_cluster \in Entries /\ fat[find_free_cluster] = 0
        BY <2>1, FoundCluster, Zenon
      <3>2. fat' = [fat EXCEPT ![find_free_cluster] = EOC] /\ UNCHANGED <<data, root, stored>>
        BY <1>4, <2>1, Zenon DEF Alloc, set_fat_entry
      <3>3. \A c \in Entries : c # find_free_cluster => fat'[c] = fat[c]
        BY <3>1, <3>2, Zenon DEF TypeOK
      <3>4. \A s \in Sound : \A j \in 1 .. Size(s) : File(s)[j] \in Entries
        BY DEF FilesOK, FileOK, Spans, Clusters, Entries
      <3> QED
        BY <1>4, <3>1, <3>2, <3>3, <3>4, SoundKept, FreeIsUnused, Zenon DEF Leaves
    <2>2. CASE FreeEntries = {}
      BY <1>1, <1>4, <2>2, SoundKept, Zenon DEF Alloc
    <2> QED
      BY <2>1, <2>2, Zenon
  <1>5. CASE Link
    <2>1. UNCHANGED <<data, root, stored>> /\ Sound' = Sound /\ step = "link"
      BY <1>5, SoundKept, Zenon DEF Link, ghosts
    <2>2. CASE prev = 0
      BY <1>1, <1>5, <2>1, <2>2, Zenon DEF Link
    <2>3. CASE prev # 0
      <3>1. written \in Nat /\ written # 0 /\ BuiltLen = written /\ prev = Built[written]
        BY <2>1, <2>3, ContentsAre, SMTT(30) DEF BuildOK, BuiltLen, TypeOK
      <3>2. \A s \in Sound : \A j \in 1 .. Size(s) : File(s)[j] # prev
        BY <2>1, <3>1 DEF BuildOK
      <3>3. fat' = [fat EXCEPT ![prev] = cur]
        BY <1>5, <2>3, Zenon DEF Link, set_fat_entry
      <3>4. \A c \in Entries : c # prev => fat'[c] = fat[c]
        BY <3>3, Zenon DEF TypeOK
      <3>5. \A s \in Sound : \A j \in 1 .. Size(s) : File(s)[j] \in Entries
        BY DEF FilesOK, FileOK, Spans, Clusters, Entries
      <3> QED
        BY <2>1, <3>2, <3>4, <3>5, Zenon DEF Leaves
    <2> QED
      BY <2>2, <2>3, Zenon
  <1>6. CASE WriteData
    <2>1. UNCHANGED <<fat, root, stored>> /\ Sound' = Sound /\ step = "data"
      BY <1>6, SoundKept, Zenon DEF WriteData, ghosts
    <2>2. CASE data' = data
      BY <1>1, <2>1, <2>2, Zenon
    <2>3. CASE data' # data
      <3>1. data' = [data EXCEPT ![cur] = content[written + 1]]
        BY <1>6, <2>3, Zenon DEF WriteData
      <3>2. written \in Nat /\ BuiltLen = written + 1 /\ cur = Built[BuiltLen]
        BY <2>1, ContentsAre, SMTT(30) DEF BuildOK, BuiltLen, TypeOK
      <3>3. \A s \in Sound : \A j \in 1 .. Size(s) : File(s)[j] # cur
        BY <2>1, <3>2 DEF BuildOK
      <3>4. \A c \in 2 .. LastData : c # cur => data'[c] = data[c]
        BY <3>1, Zenon DEF TypeOK
      <3>5. \A s \in Sound : \A j \in 1 .. root[s].size :
               File(s)[j] \in 2 .. LastData /\ j \in 1 .. Size(s)
        <4> SUFFICES ASSUME NEW s \in Sound, NEW j \in 1 .. root[s].size
                     PROVE  File(s)[j] \in 2 .. LastData /\ j \in 1 .. Size(s)
          BY Zenon
        <4>1. j \in 1 .. Size(s)
          BY <1>0
        <4>2. File(s)[j] \in Clusters /\ File(s)[j] <= LastData
          BY <4>1, Zenon DEF FilesOK, FileOK, Spans
        <4> QED
          BY <4>1, <4>2, Fat16Constants DEF Clusters
      <3> QED
        BY <2>1, <3>3, <3>4, <3>5, Zenon DEF Leaves
    <2> QED
      BY <2>2, <2>3, Zenon
  <1>7. CASE FormatFat \/ FormatRoot
    BY <1>7, SoundWhenFormatted, Zenon DEF Leaves
  <1>8. CASE UNCHANGED vars
    <2>1. Sound' = Sound
      BY <1>8, Zenon DEF Sound, Files, InFlux, vars, disk, opvars, ghosts
    <2> QED
      BY <1>1, <1>8, <2>1, Zenon DEF vars, disk, ghosts
  <1> QED
    BY <1>2, <1>3, <1>4, <1>5, <1>6, <1>7, <1>8, Zenon DEF Next, Operation

\* The files that can be relied on stay whole, apart from each other, and hold what
\* was stored.
LEMMA FilesPreserved ==
    ASSUME TypeOK, Control, DiskOK, FilesOK, BuildOK, FreeOK, [Next]_vars
    PROVE  FilesOK'
  <1>1. CASE ~WriteEntry
    BY <1>1, StepLeaves, FilesKept, Zenon
  <1>2. CASE WriteEntry
    <2>1. /\ slot \in Slots \ Sound
          /\ Sound' = Sound \cup {slot}
          /\ root'[slot] = [name |-> name, cluster |-> first, size |-> Len(content)]
          /\ stored'[slot] = content
          /\ \A s \in Sound : root'[s] = root[s] /\ stored'[s] = stored[s]
      BY <1>2, SoundWhenWritten, Zenon
    <2>2. UNCHANGED <<fat, data>> /\ step = "entry"
      BY <1>2, Zenon DEF WriteEntry
    <2>3. ASSUME NEW s \in Sound
          PROVE  Size(s)' = Size(s) /\ File(s)' = File(s) /\ FileOK(s)'
      BY <2>1, <2>2, FileKept, Zenon DEF FilesOK
    <2>4. BuiltLen = ChainLength(Len(content)) /\ BuiltLen > 0 /\ written = Len(content)
          /\ Len(content) \in Nat
      BY <2>2, ContentsAre DEF BuiltLen, Control, ChainLength, TypeOK
    <2>5. Spans(fat, Built, first, BuiltLen)
      BY <2>2, <2>4, Zenon DEF BuildOK
    <2>6. ASSUME NEW s, s = slot
          PROVE  /\ Size(s)' = BuiltLen /\ File(s)' = Built /\ FileOK(s)'
      <3>1. Size(s)' = BuiltLen
        BY <2>1, <2>4, <2>6, SMTT(30) DEF Size
      <3>2. File(s)' = Follow(fat', first, BuiltLen)
        BY <2>1, <2>6, <3>1, FileFollows
      <3>3. File(s)' = Built
        BY <2>2, <2>5, <3>2, FollowSpans, Zenon
      <3>4. Spans(fat', File(s)', root'[s].cluster, Size(s)')
        BY <2>1, <2>2, <2>5, <2>6, <3>1, <3>3
      <3>5. \A i \in 1 .. written : Built[i] <= LastData /\ data[Built[i]] = content[i]
        BY <2>2, Zenon DEF BuildOK
      <3>6. content \in Contents
        BY Zenon DEF TypeOK
      <3> QED
        BY <2>1, <2>2, <2>4, <2>6, <3>1, <3>3, <3>4, <3>5, <3>6 DEF FileOK
    <2>7. ASSUME NEW s \in Sound, NEW i \in 1 .. BuiltLen, NEW j \in 1 .. Size(s)
          PROVE  Built[i] # File(s)[j]
      BY <2>2, Zenon DEF BuildOK
    <2>8. \A s \in Sound' : FileOK(s)'
      BY <2>1, <2>3, <2>6, Zenon
    <2>9. ASSUME NEW s \in Sound', NEW t \in Sound', s # t,
                 NEW i \in 1 .. Size(s)', NEW j \in 1 .. Size(t)'
          PROVE  File(s)'[i] # File(t)'[j]
      <3>1. CASE s \in Sound /\ t \in Sound
        BY <2>3, <2>9, <3>1, Zenon DEF FilesOK
      <3>2. CASE s = slot /\ t \in Sound
        BY <2>3, <2>6, <2>7, <2>9, <3>2, Zenon
      <3>3. CASE t = slot /\ s \in Sound
        BY <2>3, <2>6, <2>7, <2>9, <3>3, Zenon
      <3> QED
        BY <2>1, <2>9, <3>1, <3>2, <3>3, Zenon
    <2> QED
      BY <2>8, <2>9, Zenon DEF FilesOK
  <1> QED
    BY <1>1, <1>2, Zenon

\* The chain under construction stays whole and apart from the files.
LEMMA BuildPreserved ==
    ASSUME TypeOK, Control, DiskOK, FilesOK, BuildOK, FreeOK, [Next]_vars
    PROVE  BuildOK'
  <1>0. written \in Nat /\ Control' /\ Clusters \subseteq Entries /\ TypeOK'
    <2>1. written \in Nat
      BY ContentsAre, SMTT(30) DEF TypeOK
    <2> QED
      BY <2>1, ControlPreserved, TypePreserved, Marks, Zenon
  <1>1. ASSUME step' = "alloc", written' = 0, first' = 0, prev' = 0
        PROVE  BuildOK'
    <2>1. BuiltLen' = 0
      BY <1>1, Zenon DEF BuiltLen
    <2> QED
      BY <1>1, <2>1 DEF BuildOK
  <1>2. ASSUME step' \notin {"alloc", "link", "data", "entry"}
        PROVE  BuildOK'
    BY <1>2, Zenon DEF BuildOK
  <1>3. CASE Boot \/ Command
    <2>1. \/ step' \in {"unwrap", "idle", "free", "fmt_boot"}
          \/ step' = "alloc" /\ written' = 0 /\ first' = 0 /\ prev' = 0
      BY <1>3, Zenon DEF Boot, Command, BeginWrite, BeginOverwrite, BeginFormat, Start, Return
    <2> QED
      BY <1>1, <1>2, <2>1, Zenon
  <1>4. CASE FreeCluster
    <2>1. step' \in {"free", "alloc"} /\ written' = 0 /\ first' = 0 /\ prev' = 0
      BY <1>4, Zenon DEF FreeCluster, Control
    <2> QED
      BY <1>1, <1>2, <2>1, Zenon
  <1>5. CASE WriteEntry \/ FormatBoot \/ FormatFat \/ FormatRoot \/ Crash \/ PowerOn
    BY <1>2, <1>5, Zenon DEF WriteEntry, FormatBoot, FormatFat, FormatRoot, Crash, PowerOn,
       Return, Start
  <1>6. CASE UNCHANGED vars
    <2>1. /\ UNCHANGED <<fat, data, root, step, content, written, first, prev, cur>>
          /\ Sound' = Sound
      BY <1>6, Zenon DEF vars, disk, opvars, ghosts, Sound, Files, InFlux
    <2>2. BuiltLen' = BuiltLen /\ Built' = Built
      BY <2>1, BuiltFollows, Zenon DEF BuiltLen
    <2>3. ASSUME NEW s PROVE Size(s)' = Size(s) /\ File(s)' = File(s)
      BY <2>1, FileFollows, Zenon DEF Size
    <2> QED
      BY <2>1, <2>2, <2>3 DEF BuildOK
  <1>7. ASSUME Alloc \/ Link \/ WriteData
        PROVE  /\ Sound' = Sound
               /\ \A s \in Sound : Size(s)' = Size(s) /\ File(s)' = File(s)
    <2>1. ~WriteEntry
      BY <1>7, Zenon DEF Alloc, Link, WriteData, WriteEntry
    <2> QED
      BY <1>7, <2>1, SoundKept, StepLeaves, FilesKept, Zenon
  <1>8. CASE Alloc
    <2>1. CASE FreeEntries = {}
      BY <1>2, <1>8, <2>1, Zenon DEF Alloc, Return
    <2>2. CASE FreeEntries # {}
      <3> DEFINE d == find_free_cluster
      <3>1. d \in Clusters /\ fat[d] = 0 /\ d \in Entries
        BY <1>0, <1>8, <2>2, FoundDataCluster, Zenon DEF Alloc, DiskOK
      <3>2. /\ fat' = [fat EXCEPT ![d] = EOC] /\ cur' = d /\ step = "alloc" /\ step' = "link"
            /\ UNCHANGED <<data, content, written, first, prev>>
        BY <1>8, <2>2, Zenon DEF Alloc, set_fat_entry
      <3> HIDE DEF d
      <3>3. BuiltLen = written /\ BuiltLen' = written
        BY <3>2, Zenon DEF BuiltLen
      <3>4. /\ \A i \in 1 .. BuiltLen : Built[i] # d
            /\ \A s \in Sound : \A j \in 1 .. Size(s) : File(s)[j] # d
        BY <3>1, <3>2, FreeIsUnused, Zenon
      <3>5. fat'[d] = EOC /\ \A c \in Entries : c # d => fat'[c] = fat[c]
        BY <3>1, <3>2, Zenon DEF TypeOK
      <3>6. CASE written = 0
        BY <1>7, <1>8, <3>1, <3>2, <3>3, <3>4, <3>5, <3>6, SMTT(30) DEF BuildOK
      <3>7. CASE written > 0
        <4>1. Spans(fat, Built, first, written)
          BY <3>2, <3>3, <3>7, Zenon DEF BuildOK
        <4>2. \A i \in 1 .. written : Built[i] \in Entries
          BY <1>0, <4>1, Zenon DEF Spans
        <4>3. Spans(fat', Built, first, written)
          BY <3>3, <3>4, <3>5, <4>1, <4>2, SpansFrame, Zenon
        <4>4. Built' = Built
          BY <3>2, <3>3, <4>3, BuiltFollows, FollowSpans, Zenon
        <4> QED
          BY <1>7, <1>8, <3>1, <3>2, <3>3, <3>4, <3>5, <3>7, <4>3, <4>4 DEF BuildOK
      <3> QED
        BY <1>0, <3>6, <3>7
    <2> QED
      BY <2>1, <2>2, Zenon
  <1>9. CASE Link
    <2>1. /\ step = "link" /\ step' = "data" /\ cur \in Clusters /\ fat[cur] = EOC
          /\ UNCHANGED <<data, content, written, prev, cur>>
          /\ BuiltLen = written /\ BuiltLen' = written + 1
      BY <1>9, Zenon DEF Link, BuildOK, BuiltLen
    <2>2. CASE written = 0
      <3>1. prev = 0 /\ first' = cur /\ fat' = fat
        BY <1>9, <2>1, <2>2, Zenon DEF Link, BuildOK
      <3>2. Spans(fat', [i \in 1 .. 1 |-> cur], cur, 1)
        BY <2>1, <3>1, SpansOne, Zenon
      <3>3. Built' = [i \in 1 .. 1 |-> cur] /\ BuiltLen' = 1
        BY <2>1, <2>2, <3>1, <3>2, BuiltFollows, FollowSpans
      <3>4. \A s \in Sound : \A j \in 1 .. Size(s) : File(s)[j] # cur
        BY <2>1, Zenon DEF BuildOK
      <3> QED
        BY <1>7, <1>9, <2>1, <2>2, <3>1, <3>2, <3>3, <3>4 DEF BuildOK
    <2>3. CASE written > 0
      <3>1. Spans(fat, Built, first, written) /\ prev = Built[written]
        BY <2>1, <2>3 DEF BuildOK
      <3>2. prev # 0
        BY <1>0, <2>3, <3>1 DEF Spans, Clusters
      <3>3. fat' = [fat EXCEPT ![Built[written]] = cur] /\ first' = first
        BY <1>9, <3>1, <3>2, Zenon DEF Link, set_fat_entry
      <3> DEFINE w == [i \in 1 .. written + 1 |-> IF i <= written THEN Built[i] ELSE cur]
      <3>4. \A i \in 1 .. written : Built[i] # cur
        BY <2>1, Zenon DEF BuildOK
      <3>5. Spans(fat', w, first, written + 1)
        BY <2>1, <3>1, <3>3, <3>4, SpansLink, Zenon DEF TypeOK
      <3>6. \A i \in 1 .. written : w[i] = Built[i]
        BY <1>0, SMTT(30)
      <3>7. w[written + 1] = cur
        BY <1>0
      <3> HIDE DEF w
      <3>8. Built' = w
        BY <2>1, <3>3, <3>5, BuiltFollows, FollowSpans, Zenon
      <3>9. ASSUME NEW s \in Sound, NEW i \in 1 .. written + 1, NEW j \in 1 .. Size(s)
            PROVE  w[i] # File(s)[j]
        <4>1. CASE i \in 1 .. written
          BY <2>1, <3>6, <4>1, Zenon DEF BuildOK
        <4>2. CASE i = written + 1
          BY <2>1, <3>7, <4>2, Zenon DEF BuildOK
        <4> QED
          BY <1>0, <4>1, <4>2
      <3>10. \A i \in 1 .. written : w[i] <= LastData /\ data[w[i]] = content[i]
        BY <2>1, <3>6, Zenon DEF BuildOK
      <3>11. prev = w[written]
        BY <1>0, <2>3, <3>1, <3>6
      <3> QED
        BY <1>0, <1>7, <1>9, <2>1, <2>3, <3>3, <3>5, <3>7, <3>8, <3>9, <3>10, <3>11, SMTT(30) DEF BuildOK
    <2> QED
      BY <1>0, <2>2, <2>3
  <1>10. CASE WriteData
    <2>1. CASE step' = "hung"
      BY <1>2, <2>1, Zenon
    <2>2. CASE step' # "hung"
      <3>1. /\ step = "data" /\ BuiltLen = written + 1 /\ cur \in Clusters
            /\ UNCHANGED <<fat, content, first, cur>>
        BY <1>10, Zenon DEF WriteData, BuiltLen, Control
      <3>2. step' \in {"alloc", "entry"} /\ prev' = cur
        BY <1>0, <1>10, <2>2, Zenon DEF WriteData, Control
      <3>3. Spans(fat, Built, first, BuiltLen) /\ cur = Built[BuiltLen]
        BY <1>0, <3>1 DEF BuildOK
      <3>4. BuiltLen' = BuiltLen /\ BuiltLen \in Nat \ {0}
        <4>1. CASE content = <<>>
          <5>1. written = 0 /\ written' = 0 /\ Len(content) = 0
            BY <1>10, <2>2, <3>1, <3>2, <4>1, ContentsAre, <1>0 DEF WriteData, TypeOK, Control, ChainLength
          <5>2. step' = "entry"
            BY <1>10, <2>2, <3>2, <5>1 DEF WriteData
          <5> QED
            BY <3>1, <5>1, <5>2, SMTT(30) DEF BuiltLen, ChainLength
        <4>2. CASE content # <<>>
          <5>1. written' = written + 1
            BY <1>10, <2>2, <3>1, <3>2, <4>2, Zenon DEF WriteData
          <5> QED
            BY <1>0, <3>1, <3>2, <5>1 DEF BuiltLen, ChainLength
        <4> QED
          BY <4>1, <4>2, Zenon
      <3>5. Built' = Built
        BY <3>1, <3>4, BuiltFollows, Zenon
      <3>6. \A i \in 1 .. written' : Built[i] <= LastData /\ data'[Built[i]] = content[i]
        <4>1. \A i \in 1 .. written : Built[i] <= LastData /\ data[Built[i]] = content[i]
          BY <3>1, Zenon DEF BuildOK
        <4>2. CASE content = <<>>
          BY <1>10, <2>2, <3>2, <4>1, <4>2, Zenon DEF WriteData
        <4>3. CASE content # <<>>
          <5>1. /\ written' = written + 1 /\ data' = [data EXCEPT ![cur] = content[written + 1]]
                /\ cur <= LastData
            BY <1>10, <2>2, <3>1, <3>2, <4>3, Fat16Constants, SMTT(30) DEF WriteData, Clusters
          <5>2. cur \in 2 .. LastData
            BY <3>1, <5>1, Fat16Constants DEF Clusters
          <5>3. data'[cur] = content[written + 1]
                /\ \A c \in 2 .. LastData : c # cur => data'[c] = data[c]
            BY <5>1, <5>2, Zenon DEF TypeOK
          <5>4. \A i \in 1 .. written : Built[i] # cur /\ Built[i] \in 2 .. LastData
            BY <1>0, <3>1, <3>3, <4>1, Fat16Constants, SMTT(30) DEF Spans, Clusters
          <5>5. ASSUME NEW i \in 1 .. written + 1
                PROVE  Built[i] <= LastData /\ data'[Built[i]] = content[i]
            <6>1. CASE i = written + 1
              BY <3>1, <3>3, <5>1, <5>3, <6>1, Zenon
            <6>2. CASE i \in 1 .. written
              BY <4>1, <5>3, <5>4, <6>2, Zenon
            <6> QED
              BY <1>0, <6>1, <6>2
          <5> QED
            BY <5>1, <5>5, Zenon
        <4> QED
          BY <4>2, <4>3, Zenon
      <3>7. step' = "alloc" => written' = BuiltLen
        BY <3>4, Zenon DEF BuiltLen
      <3>8. \A s \in Sound : \A i \in 1 .. BuiltLen, j \in 1 .. Size(s) : Built[i] # File(s)[j]
        BY <3>1, Zenon DEF BuildOK
      <3> QED
        BY <1>7, <1>10, <3>1, <3>2, <3>3, <3>4, <3>5, <3>6, <3>7, <3>8 DEF BuildOK
    <2> QED
      BY <2>1, <2>2, Zenon
  <1> QED
    BY <1>3, <1>4, <1>5, <1>6, <1>8, <1>9, <1>10, Zenon DEF Next, Operation

\* The chain of the file being overwritten is freed to its end, and nothing else.
LEMMA FreePreserved ==
    ASSUME TypeOK, Control, DiskOK, FilesOK, BuildOK, FreeOK, Accounted, [Next]_vars
    PROVE  FreeOK'
  <1>1. ASSUME step' # "free" PROVE FreeOK'
    BY <1>1, Zenon DEF FreeOK
  <1>2. ASSUME ~WriteEntry
        PROVE  /\ \A s \in Sound' : Size(s)' = Size(s) /\ File(s)' = File(s)
               /\ \A c : Owned(c, Sound \ {slot})' <=>
                     \E s \in Sound' \ {slot'} : \E i \in 1 .. Size(s) : File(s)[i] = c
    <2>1. \A s \in Sound' : Size(s)' = Size(s) /\ File(s)' = File(s)
      BY <1>2, StepLeaves, FilesKept, Zenon
    <2> QED
      BY <2>1, Zenon DEF Owned
  <1>3. CASE Boot \/ Alloc \/ Link \/ WriteData \/ WriteEntry \/ FormatBoot \/ FormatFat
             \/ FormatRoot \/ Crash \/ PowerOn
    <2>1. step' # "free"
      BY <1>3, Zenon DEF Boot, BeginWrite, Alloc, Link, WriteData, WriteEntry, FormatBoot,
         FormatFat, FormatRoot, Crash, PowerOn, Return, Start
    <2> QED
      BY <1>1, <2>1, Zenon
  <1>4. ASSUME NEW n, NEW c, BeginOverwrite(n, c), Command, Matches(n) # {},
               NEW s, s = find_file_location(n)
        PROVE  FreeOK'
    <2>1. s \in Files /\ s \in Slots /\ step = "idle" /\ ~WriteEntry /\ Sound' = Sound
      BY <1>4, FoundFile, SoundKept, Zenon DEF Files, Command, WriteEntry
    <2>2. /\ slot' = s /\ cur' = root[s].cluster
          /\ UNCHANGED <<fat, data, root, stored, suspect, cut>>
      BY <1>4, Zenon DEF BeginOverwrite, disk, ghosts
    <2>3. SUFFICES ASSUME s \notin suspect PROVE FreeOK'
      BY <2>2, Zenon DEF FreeOK
    <2>4. s \in Sound /\ kind = "none"
      BY <2>1, <2>3, Zenon DEF Sound, InFlux, Control
    <2>5. Size(s) \in 1 .. MaxChunks
      BY <2>1, Fat16Constants DEF Size, ChainLength, Files, TypeOK, FileEntry
    <2>6. Spans(fat, File(s), root[s].cluster, Size(s))
      BY <2>4, Zenon DEF FilesOK, FileOK
    <2>7. PICK m \in 1 .. MaxChunks : m = Size(s)
      BY <2>5, Zenon
    <2>8. Visited(cur, m)' = File(s)
      <3>1. Visited(cur, m)' = Follow(fat', cur', m)
        BY Zenon DEF Visited, Follow, get_fat_entry
      <3> QED
        BY <2>2, <2>7, <3>1, FileFollows, Zenon
    <2>9. \A c1 \in Clusters : ~cut => (fat[c1] # 0 <=> Owned(c1, Sound))
      <3>1. \A i \in 1 .. BuiltLen : FALSE
        BY <2>1 DEF BuiltLen
      <3> QED
        BY <2>1, <3>1, Zenon DEF Accounted
    <2>10. \A c1 : Owned(c1, Sound) <=> \/ \E t \in Sound \ {s} : \E i \in 1 .. Size(t) : File(t)[i] = c1
                                        \/ \E i \in 1 .. m : File(s)[i] = c1
      BY <2>4, <2>7, Zenon DEF Owned
    <2>11. Freeing(m)'
      <3>1. \A t \in Sound' \ {slot'} : \A i \in 1 .. m, j \in 1 .. Size(t)' :
               Visited(cur, m)'[i] # File(t)'[j]
        BY <1>2, <2>1, <2>2, <2>4, <2>7, <2>8 DEF FilesOK
      <3>2. ~cut' => \A c1 \in Clusters :
               fat'[c1] # 0 <=> \/ Owned(c1, Sound \ {slot})'
                                \/ \E i \in 1 .. m : Visited(cur, m)'[i] = c1
        BY <1>2, <2>1, <2>2, <2>8, <2>9, <2>10, Zenon
      <3>3. Spans(fat', Visited(cur, m)', cur', m)
        BY <2>2, <2>6, <2>7, <2>8, Zenon
      <3>4. cur' = root'[slot'].cluster /\ m # 0
        BY <2>2, <2>7
      <3> QED
        BY <3>1, <3>2, <3>3, <3>4, Zenon DEF Freeing
    <2>12. m \in 0 .. MaxChunks
      BY <2>7
    <2> QED
      BY <2>11, <2>12, Zenon DEF FreeOK
  <1>5. CASE Command
    <2>1. step' = "free" =>
             \E n \in Names, c \in Contents : BeginOverwrite(n, c) /\ Matches(n) # {}
      BY <1>5, Zenon DEF Command, BeginWrite, BeginOverwrite, BeginFormat, Start, Return
    <2> QED
      BY <1>1, <1>4, <1>5, <2>1, Zenon
  <1>6. CASE FreeCluster
    <2>1. SUFFICES ASSUME cur >= 2, cur < EndMark, slot \notin suspect PROVE FreeOK'
      <3>1. slot \in suspect /\ slot' = slot /\ suspect \subseteq suspect' => FreeOK'
        BY Zenon DEF FreeOK
      <3> QED
        BY <1>1, <1>6, <2>1, <3>1, Zenon DEF FreeCluster
    <2>2. /\ step = "free" /\ slot' = slot /\ root' = root /\ cut' = cut /\ ~WriteEntry
          /\ Sound' = Sound \ {slot} /\ fat' = [fat EXCEPT ![cur] = 0]
      BY <1>6, <2>1, SoundWhenFreed, Zenon DEF FreeCluster, set_fat_entry, WriteEntry
    <2>3. PICK m \in 0 .. MaxChunks : Freeing(m)
      BY <2>1, <2>2, Zenon DEF FreeOK
    <2>4. m \in Nat \ {0}
      BY <2>1, <2>3, Fat16Constants, Marks, SMTT(30) DEF Freeing
    <2> DEFINE u == Visited(cur, m)
    <2>5. Spans(fat, u, cur, m)
      BY <2>3, <2>4, SMTT(30) DEF Freeing
    <2>6. cur \in Clusters /\ cur \in Entries /\ Clusters \subseteq Entries
      BY <2>4, <2>5 DEF Spans, Clusters, Entries
    <2>7. cur' = fat[cur]
      BY <1>6, <2>1, <2>6, Zenon DEF FreeCluster, get_fat_entry
    <2>8. fat'[cur] = 0 /\ \A c \in Entries : c # cur => fat'[c] = fat[c]
      BY <2>2, <2>6, Zenon DEF TypeOK
    <2>9. fat'[root[slot].cluster] = 0
      <3>1. root[slot].cluster \in Entries
        BY <2>2, Zenon DEF Control, Files, TypeOK, FileEntry
      <3> QED
        BY <2>3, <2>8, <3>1, Zenon DEF Freeing
    <2>10. /\ \A s \in Sound \ {slot} : \A i \in 1 .. m, j \in 1 .. Size(s) : u[i] # File(s)[j]
           /\ ~cut => \A c \in Clusters :
                 fat[c] # 0 <=> \/ Owned(c, Sound \ {slot})
                                \/ \E i \in 1 .. m : u[i] = c
      BY <2>3, Zenon DEF Freeing
    <2>11. u[1] = cur /\ \A i \in 2 .. m : u[i] # cur
      BY <2>4, <2>5 DEF Spans
    <2>12. \A c : Owned(c, Sound \ {slot})' <=> Owned(c, Sound \ {slot})
      BY <1>2, <2>2, Zenon DEF Owned
    <2>13. ~Owned(cur, Sound \ {slot})
      BY <2>4, <2>10, <2>11, SMTT(30) DEF Owned
    <2>14. PICK k \in 0 .. MaxChunks : k = m - 1
      BY <2>4, Fat16Constants, SMTT(30)
    <2>15. CASE m = 1
      <3>1. cur' = EOC
        BY <2>5, <2>6, <2>7, <2>15, SpansFree, Zenon DEF TypeOK
      <3>2. k = 0 /\ \A i \in 1 .. k : FALSE
        BY <2>14, <2>15
      <3>3. ~cut' => \A c \in Clusters : fat'[c] # 0 <=> Owned(c, Sound \ {slot})'
        <4> HIDE DEF u
        <4>1. ASSUME ~cut', NEW c \in Clusters PROVE fat'[c] # 0 <=> Owned(c, Sound \ {slot})'
          <5>1. CASE c = cur
            BY <2>8, <2>12, <2>13, <5>1, Zenon
          <5>2. CASE c # cur
            <6>1. fat'[c] = fat[c] /\ \A i \in 1 .. m : u[i] # c
              BY <2>6, <2>8, <2>11, <2>15, <5>2
            <6> QED
              BY <2>2, <2>10, <2>12, <4>1, <6>1, Zenon
          <5> QED
            BY <5>1, <5>2, Zenon
        <4> QED
          BY <4>1, Zenon
      <3> QED
        BY <2>2, <2>9, <3>1, <3>2, <3>3 DEF Freeing, FreeOK
    <2>16. CASE m > 1
      <3> DEFINE w == [i \in 1 .. m - 1 |-> u[i + 1]]
      <3>1. Spans(fat', w, cur', k)
        BY <2>2, <2>5, <2>6, <2>7, <2>14, <2>16, SpansFree, Zenon DEF TypeOK
      <3>2. Visited(cur, k)' = w
        <4>1. Visited(cur, k)' = Follow(fat', cur', k)
          BY Zenon DEF Visited, Follow, get_fat_entry
        <4> QED
          BY <3>1, <4>1, FollowSpans, Zenon
      <3>3. \A i \in 1 .. k : w[i] = u[i + 1] /\ i + 1 \in 1 .. m /\ i + 1 \in 2 .. m
        BY <2>4, <2>14, SMTT(30)
      <3>4. \A i \in 2 .. m : i - 1 \in 1 .. k /\ w[i - 1] = u[i]
        BY <2>4, <2>14, SMTT(30)
      <3> HIDE DEF w, u
      <3>5. \A s \in Sound' \ {slot'} : \A i \in 1 .. k, j \in 1 .. Size(s)' : w[i] # File(s)'[j]
        BY <1>2, <2>2, <2>10, <3>3
      <3>6. ASSUME ~cut', NEW c \in Clusters
            PROVE  fat'[c] # 0 <=> Owned(c, Sound \ {slot})' \/ \E i \in 1 .. k : w[i] = c
        <4>1. CASE c = cur
          BY <2>8, <2>11, <2>12, <2>13, <3>3, <4>1
        <4>2. CASE c # cur
          <5>1. fat'[c] = fat[c]
            BY <2>6, <2>8, <4>2, Zenon
          <5>2. (\E i \in 1 .. m : u[i] = c) <=> \E i \in 1 .. k : w[i] = c
            <6>1. ASSUME NEW i \in 1 .. m, u[i] = c PROVE \E j \in 1 .. k : w[j] = c
              <7>1. i \in 2 .. m
                BY <2>4, <2>11, <4>2, <6>1, SMTT(30)
              <7> QED
                BY <3>4, <6>1, <7>1, Zenon
            <6> QED
              BY <3>3, <6>1, Zenon
          <5> QED
            BY <2>2, <2>10, <2>12, <3>6, <5>1, <5>2, Zenon
        <4> QED
          BY <4>1, <4>2, Zenon
      <3>7. k # 0 /\ root'[slot'].cluster = root[slot].cluster
        BY <2>2, <2>4, <2>14, <2>16
      <3>8. ~cut' => \A c \in Clusters :
               fat'[c] # 0 <=> \/ Owned(c, Sound \ {slot})'
                               \/ \E i \in 1 .. k : Visited(cur, k)'[i] = c
        BY <3>2, <3>6, Zenon
      <3>9. Freeing(k)'
        BY <2>9, <3>1, <3>2, <3>5, <3>7, <3>8 DEF Freeing
      <3> QED
        BY <3>9, Zenon DEF FreeOK
    <2> QED
      BY <2>4, <2>15, <2>16
  <1>7. CASE UNCHANGED vars
    <2>1. /\ UNCHANGED <<fat, data, root, stored, step, slot, cur, suspect, cut>>
          /\ Sound' = Sound
      BY <1>7, Zenon DEF vars, disk, opvars, ghosts, Sound, Files, InFlux
    <2>2. ASSUME NEW s PROVE Size(s)' = Size(s) /\ File(s)' = File(s)
      BY <2>1, FileFollows, Zenon DEF Size
    <2>3. ASSUME NEW m PROVE Visited(cur, m)' = Visited(cur, m)
      BY <2>1, Zenon DEF Visited, get_fat_entry
    <2>4. ASSUME NEW m, Freeing(m) PROVE Freeing(m)'
      BY <2>1, <2>2, <2>3, <2>4 DEF Freeing, Owned
    <2> QED
      BY <2>1, <2>4, Zenon DEF FreeOK
  <1> QED
    BY <1>3, <1>5, <1>6, <1>7, Zenon DEF Next, Operation

\* Cutting an operation short makes no file suspect unless there was one to cut.
LEMMA CutShortKeeps ==
    ASSUME TypeOK, Control, DiskOK, CutShort
    PROVE  ~cut' => suspect' = {} /\ kind = "none" /\ ~cut
  <1>1. kind = "none" => {s \in Files : InFlux(s)} = {}
    BY Zenon DEF Control, InFlux
  <1> QED
    BY <1>1, Zenon DEF CutShort, DiskOK, TypeOK

\* The disk in use stays usable.
LEMMA DiskPreserved ==
    ASSUME TypeOK, Control, DiskOK, BuildOK, [Next]_vars
    PROVE  DiskOK'
  <1>0. 0 \in Entries /\ 1 \in Entries /\ Clusters \subseteq Entries /\ 0 \notin Clusters
        /\ 1 \notin Clusters /\ EOC # 0
    BY Marks, Zenon
  <1>1. ASSUME UNCHANGED <<formatted, fat, root, suspect, cut>>, step' # "fmt_root",
               formatted \/ step' \in {"off", "boot", "unwrap"}
        PROVE  DiskOK'
    BY <1>1, Zenon DEF DiskOK, Files
  <1>2. CASE Boot \/ Command
    <2>1. /\ UNCHANGED <<formatted, fat, root, suspect, cut>> /\ step' # "fmt_root"
          /\ formatted \/ step' = "unwrap"
      BY <1>2, Zenon DEF Boot, Command, BeginWrite, BeginOverwrite, BeginFormat, Start, Return,
         disk, ghosts, DiskOK
    <2> QED
      BY <1>1, <2>1, Zenon
  <1>3. CASE FreeCluster
    <2>1. /\ step' \in {"free", "alloc"} /\ UNCHANGED <<formatted, root, cut>> /\ formatted
          /\ suspect = {} => suspect' = {}
      BY <1>3, Zenon DEF FreeCluster, DiskOK
    <2>2. fat'[0] = fat[0] /\ fat'[1] = fat[1]
      BY <1>0, <1>3 DEF FreeCluster, set_fat_entry, TypeOK
    <2> QED
      BY <2>1, <2>2, Zenon DEF DiskOK, Files
  <1>4. CASE Alloc
    <2>1. CASE FreeEntries # {}
      <3>1. find_free_cluster \in Clusters
        BY <1>4, <2>1, FoundDataCluster, Zenon DEF Alloc, DiskOK
      <3>2. fat'[0] = fat[0] /\ fat'[1] = fat[1]
        BY <1>0, <1>4, <2>1, <3>1, Zenon DEF Alloc, set_fat_entry, TypeOK
      <3> QED
        BY <1>4, <2>1, <3>2, Zenon DEF Alloc, DiskOK, Files
    <2>2. CASE FreeEntries = {}
      <3>1. CutShort /\ UNCHANGED <<formatted, fat, root>> /\ step' = "idle" /\ formatted
        BY <1>4, <2>2, Zenon DEF Alloc, Return, DiskOK
      <3> QED
        BY <3>1, CutShortKeeps, Zenon DEF DiskOK, Files
    <2> QED
      BY <2>1, <2>2, Zenon
  <1>5. CASE Link
    <2>1. cur \in Clusters /\ UNCHANGED <<formatted, root, suspect, cut>> /\ step' = "data"
          /\ formatted /\ (fat' = fat \/ fat' = [fat EXCEPT ![prev] = cur])
      BY <1>5, Zenon DEF Link, Control, DiskOK, ghosts, set_fat_entry
    <2>2. fat'[0] # 0 /\ fat'[1] # 0
      BY <1>0, <2>1, Zenon DEF TypeOK, DiskOK
    <2> QED
      BY <2>1, <2>2, Zenon DEF DiskOK, Files
  <1>6. CASE WriteData
    <2>1. /\ UNCHANGED <<formatted, fat, root, suspect, cut>> /\ step' # "fmt_root"
          /\ formatted
      BY <1>6, Zenon DEF WriteData, DiskOK, ghosts
    <2> QED
      BY <1>1, <2>1, Zenon
  <1>7. CASE WriteEntry
    <2>1. step = "entry" /\ slot \in Slots /\ UNCHANGED <<formatted, fat, cut>>
          /\ step' = "idle" /\ suspect' = suspect \ {slot} /\ formatted
      BY <1>7, Zenon DEF WriteEntry, Return, Control, DiskOK, TypeOK
    <2>2. BuiltLen > 0
      BY <2>1, ContentsAre, SMTT(30) DEF BuiltLen, Control, ChainLength, TypeOK
    <2>3. first \in Clusters
      BY <2>1, <2>2 DEF BuildOK, Spans
    <2>4. \A s \in Files' : root'[s].cluster \in Clusters
      BY <1>7, <2>1, <2>3, Zenon DEF WriteEntry, DiskOK, Files, TypeOK
    <2> QED
      BY <2>1, <2>4, Zenon DEF DiskOK
  <1>8. CASE FormatBoot
    <2>1. formatted
      BY <1>8, Zenon DEF FormatBoot, DiskOK
    <2> QED
      BY <1>1, <1>8, <2>1, Zenon DEF FormatBoot, ghosts
  <1>9. CASE FormatFat
    <2>1. fat'[0] # 0 /\ fat'[1] # 0 /\ \A c \in Clusters : fat'[c] = 0
      BY <1>0, <1>9 DEF FormatFat, Clusters
    <2> QED
      BY <1>9, <2>1, Zenon DEF FormatFat, DiskOK, Files, ghosts
  <1>10. CASE FormatRoot
    BY <1>10, Zenon DEF FormatRoot, Return, DiskOK, Files
  <1>11. CASE Crash
    <2>1. CutShort /\ UNCHANGED <<formatted, fat, root>> /\ step' = "off"
      BY <1>11, Zenon DEF Crash, Start, disk
    <2> QED
      BY <2>1, CutShortKeeps, Zenon DEF DiskOK, Files
  <1>12. CASE PowerOn
    BY <1>1, <1>12, Zenon DEF PowerOn, disk, ghosts
  <1>13. CASE UNCHANGED vars
    BY <1>13, Zenon DEF vars, disk, ghosts, DiskOK, Files
  <1> QED
    BY <1>2, <1>3, <1>4, <1>5, <1>6, <1>7, <1>8, <1>9, <1>10, <1>11, <1>12, <1>13, Zenon
    DEF Next, Operation

\* Unless an operation was cut short, every marked cluster is accounted for.
LEMMA AccountedPreserved ==
    ASSUME TypeOK, Control, DiskOK, FilesOK, BuildOK, FreeOK, Accounted, [Next]_vars
    PROVE  Accounted'
  <1>0. Clusters \subseteq Entries /\ EOC # 0 /\ written \in Nat /\ 0 \notin Clusters
    BY ContentsAre, Marks DEF TypeOK
  <1>1. ASSUME ~WriteEntry
        PROVE  \A c : Owned(c, Sound)' <=>
                  \E s \in Sound' : \E i \in 1 .. Size(s) : File(s)[i] = c
    <2>1. \A s \in Sound' : Size(s)' = Size(s) /\ File(s)' = File(s)
      BY <1>1, StepLeaves, FilesKept, Zenon
    <2> QED
      BY <2>1, Zenon DEF Owned
  <1>2. ASSUME ~WriteEntry, Sound' = Sound
        PROVE  \A c : Owned(c, Sound)' <=> Owned(c, Sound)
    BY <1>1, <1>2, Zenon DEF Owned
  <1>3. ASSUME NEW c, step \notin {"alloc", "link", "data", "entry"}
        PROVE  ~\E i \in 1 .. BuiltLen : Built[i] = c
    BY <1>3 DEF BuiltLen
  <1>4. ASSUME NEW c, step' \notin {"alloc", "link", "data", "entry"} \/ (step' = "alloc" /\ written' = 0)
        PROVE  ~\E i \in 1 .. BuiltLen' : Built'[i] = c
    BY <1>4 DEF BuiltLen
  <1>5. ASSUME Boot \/ Command \/ FormatBoot \/ Crash \/ PowerOn, ~cut'
        PROVE  /\ UNCHANGED <<fat, root, cut>> /\ ~cut /\ Sound' = Sound /\ ~WriteEntry
               /\ step \notin {"alloc", "link", "data", "entry", "free", "hung"}
               /\ \/ step' \notin {"alloc", "link", "data", "entry"}
                  \/ step' = "alloc" /\ written' = 0
    <2>1. CASE Boot \/ Command \/ FormatBoot \/ PowerOn
      <3>1. Sound' = Sound
        BY <2>1, SoundKept, Zenon
      <3>2. CASE Boot
        BY <1>5, <3>1, <3>2, Zenon DEF Boot, BeginWrite, Start, Return, disk, ghosts, WriteEntry
      <3>3. CASE Command
        BY <1>5, <3>1, <3>3, SMTT(30) DEF Command, BeginWrite, BeginOverwrite, BeginFormat, Start, Return,
           disk, ghosts, WriteEntry
      <3>4. CASE FormatBoot \/ PowerOn
        BY <1>5, <3>1, <3>4 DEF FormatBoot, PowerOn, disk, ghosts, WriteEntry
      <3> QED
        BY <2>1, <3>2, <3>3, <3>4, Zenon
    <2>2. CASE Crash
      <3>1. Sound' = Sound /\ CutShort /\ UNCHANGED disk /\ step' = "off"
        BY <2>2, SoundKept, Zenon DEF Crash, Start
      <3>2. kind = "none" /\ ~cut /\ cut' \in BOOLEAN
        BY <1>5, <3>1, CutShortKeeps, TypePreserved, Zenon DEF TypeOK
      <3> QED
        BY <1>5, <3>1, <3>2, Zenon DEF Control, WriteEntry, disk, TypeOK
    <2> QED
      BY <1>5, <2>1, <2>2, Zenon
  <1>6. CASE Boot \/ Command \/ FormatBoot \/ Crash \/ PowerOn
    <2>1. SUFFICES ASSUME ~cut' PROVE Accounted'
      BY Zenon DEF Accounted
    <2> QED
      BY <1>2, <1>3, <1>4, <1>5, <1>6, <2>1, Zenon DEF Accounted
  <1>7. CASE FreeCluster
    <2>1. SUFFICES ASSUME ~cut', step' # "free" PROVE Accounted'
      BY Zenon DEF Accounted
    <2>2. /\ step = "free" /\ step' = "alloc" /\ written' = 0 /\ ~cut /\ fat' = fat /\ ~WriteEntry
          /\ ~(cur >= 2 /\ cur < EndMark)
      BY <1>7, <2>1, Zenon DEF FreeCluster, Control, WriteEntry
    <2>3. slot \notin suspect
      BY <2>2, Zenon DEF DiskOK
    <2>4. Sound' = Sound \ {slot}
      BY <1>7, <2>3, SoundWhenFreed, Zenon
    <2>5. PICK m \in 0 .. MaxChunks : Freeing(m)
      BY <2>2, <2>3, Zenon DEF FreeOK
    <2>6. m = 0
      <3>1. CASE m > 0
        <4>1. 1 \in 1 .. m
          BY <3>1, Fat16Constants
        <4>2. Spans(fat, Visited(cur, m), cur, m)
          BY <2>5, <3>1, Zenon DEF Freeing
        <4>3. cur \in Clusters
          <5>1. Visited(cur, m) \in [1 .. m -> Clusters] /\ Visited(cur, m)[1] = cur
            BY <4>2, Zenon DEF Spans
          <5> QED
            BY <4>1, <5>1
        <4> QED
          BY <2>2, <4>3, Marks, Zenon
      <3> QED
        BY <3>1, Fat16Constants
    <2>7. \A c \in Clusters : fat[c] # 0 <=> Owned(c, Sound \ {slot})
      BY <2>2, <2>5, <2>6 DEF Freeing
    <2>8. \A c : Owned(c, Sound)' <=> Owned(c, Sound \ {slot})
      BY <1>1, <2>2, <2>4, Zenon DEF Owned
    <2> QED
      BY <1>4, <2>2, <2>7, <2>8, Zenon DEF Accounted
  <1>8. CASE Alloc
    <2>1. SUFFICES ASSUME ~cut' PROVE Accounted'
      BY Zenon DEF Accounted
    <2>2. step = "alloc" /\ Sound' = Sound /\ ~WriteEntry
      BY <1>8, SoundKept, Zenon DEF Alloc, WriteEntry
    <2>3. FreeEntries # {}
      <3>1. SUFFICES ASSUME CutShort PROVE FALSE
        BY <1>8, Zenon DEF Alloc
      <3> QED
        BY <2>1, <2>2, <3>1, CutShortKeeps, Zenon DEF Control
    <2> DEFINE d == find_free_cluster
    <2>4. d \in Clusters /\ fat[d] = 0
      BY <2>2, <2>3, FoundDataCluster, Zenon DEF DiskOK
    <2>5. /\ fat' = [fat EXCEPT ![d] = EOC] /\ cur' = d /\ step' = "link"
          /\ UNCHANGED <<first, written, cut>>
      BY <1>8, <2>3, Zenon DEF Alloc, set_fat_entry
    <2>6. BuiltLen = written /\ BuiltLen' = written
      BY <2>2, <2>5, Zenon DEF BuiltLen
    <2>7. fat'[d] = EOC /\ \A c \in Entries : c # d => fat'[c] = fat[c]
      BY <1>0, <2>4, <2>5, Zenon DEF TypeOK
    <2>8. \A i \in 1 .. written : Built'[i] = Built[i]
      <3>1. CASE written > 0
        <4>1. Spans(fat, Built, first, written)
          BY <2>2, <2>6, <3>1, Zenon DEF BuildOK
        <4>2. \A i \in 1 .. written : Built[i] \in Entries /\ Built[i] # d
          BY <1>0, <2>2, <2>4, <2>6, <4>1, FreeIsUnused, Zenon DEF Spans
        <4>3. Spans(fat', Built, first, written)
          BY <2>7, <4>1, <4>2, SpansFrame, Zenon
        <4> QED
          BY <2>5, <2>6, <4>3, BuiltFollows, FollowSpans, Zenon
      <3> QED
        BY <1>0, <3>1
    <2> HIDE DEF d
    <2>9. ASSUME NEW c \in Clusters
          PROVE  fat'[c] # 0 <=> \/ Owned(c, Sound)'
                                 \/ \E i \in 1 .. BuiltLen' : Built'[i] = c
                                 \/ step' = "link" /\ c = cur'
      <3>1. fat[c] # 0 <=> Owned(c, Sound) \/ \E i \in 1 .. written : Built[i] = c
        BY <2>1, <2>2, <2>5, <2>6, Zenon DEF Accounted
      <3>2. Owned(c, Sound)' <=> Owned(c, Sound)
        BY <1>2, <2>2, Zenon
      <3>3. CASE c = d
        BY <1>0, <2>5, <2>7, <3>3, Zenon
      <3>4. CASE c # d
        <4>1. fat'[c] = fat[c]
          BY <1>0, <2>7, <3>4, Zenon
        <4> QED
          BY <2>5, <2>6, <2>8, <3>1, <3>2, <3>4, <4>1, Zenon
      <3> QED
        BY <3>3, <3>4, Zenon
    <2> QED
      BY <2>9, Zenon DEF Accounted
  <1>9. CASE Link
    <2>1. SUFFICES ASSUME ~cut' PROVE Accounted'
      BY Zenon DEF Accounted
    <2>2. /\ step = "link" /\ Sound' = Sound /\ ~WriteEntry /\ step' = "data" /\ cut' = cut
          /\ cur \in Clusters /\ fat[cur] = EOC /\ BuiltLen = written /\ BuiltLen' = written + 1
          /\ cur' = cur
      BY <1>9, SoundKept, Zenon DEF Link, WriteEntry, ghosts, BuildOK, BuiltLen
    <2>3. \A c \in Clusters : fat'[c] # 0 <=> fat[c] # 0
      <3>1. CASE fat' = fat
        BY <3>1, Zenon
      <3>2. CASE fat' # fat
        <4>1. fat' = [fat EXCEPT ![prev] = cur] /\ prev # 0
          BY <1>9, <3>2, Zenon DEF Link, set_fat_entry
        <4>2. written > 0 /\ prev = Built[written]
          BY <1>0, <2>2, <4>1 DEF BuildOK
        <4>3. Spans(fat, Built, first, written)
          BY <2>2, <4>2, Zenon DEF BuildOK
        <4>4. fat[prev] # 0 /\ cur # 0
          BY <1>0, <2>2, <4>2, <4>3, SpansMarked, SMTT(30)
        <4> QED
          BY <1>0, <4>1, <4>4, Zenon DEF TypeOK
      <3> QED
        BY <3>1, <3>2, Zenon
    <2>4. Built'[written + 1] = cur /\ \A i \in 1 .. written : Built'[i] = Built[i]
      <3>1. BuildOK'
        BY BuildPreserved, Zenon
      <3>2. Built'[written + 1] = cur
        BY <2>2, <3>1, Zenon DEF BuildOK
      <3>3. CASE written > 0
        <4>1. Spans(fat, Built, first, written) /\ prev = Built[written]
          BY <2>2, <3>3, SMTT(30) DEF BuildOK
        <4>2. prev # 0
          BY <1>0, <3>3, <4>1 DEF Spans, Clusters
        <4>3. fat' = [fat EXCEPT ![Built[written]] = cur] /\ first' = first
          BY <1>9, <4>1, <4>2, Zenon DEF Link, set_fat_entry
        <4> DEFINE w == [i \in 1 .. written + 1 |-> IF i <= written THEN Built[i] ELSE cur]
        <4>4. \A i \in 1 .. written : Built[i] # cur
          BY <2>2, Zenon DEF BuildOK
        <4>5. Spans(fat', w, first, written + 1)
          BY <2>2, <4>1, <4>3, <4>4, SpansLink, Zenon DEF TypeOK
        <4>6. \A i \in 1 .. written : w[i] = Built[i]
          BY <1>0
        <4> HIDE DEF w
        <4>7. Built' = w
          BY <2>2, <4>3, <4>5, BuiltFollows, FollowSpans, Zenon
        <4> QED
          BY <3>2, <4>6, <4>7, Zenon
      <3> QED
        BY <1>0, <3>2, <3>3
    <2>5. ASSUME NEW c \in Clusters
          PROVE  fat'[c] # 0 <=> \/ Owned(c, Sound)'
                                 \/ \E i \in 1 .. BuiltLen' : Built'[i] = c
                                 \/ step' = "link" /\ c = cur'
      <3>1. fat[c] # 0 <=> \/ Owned(c, Sound)
                           \/ \E i \in 1 .. written : Built[i] = c
                           \/ c = cur
        BY <2>1, <2>2, Zenon DEF Accounted
      <3>2. Owned(c, Sound)' <=> Owned(c, Sound)
        BY <1>2, <2>2, Zenon
      <3>3. (\E i \in 1 .. written + 1 : Built'[i] = c) <=>
               (\E i \in 1 .. written : Built[i] = c) \/ c = cur
        <4>1. \A i \in 1 .. written + 1 : i = written + 1 \/ i \in 1 .. written
          BY <1>0, SMTT(30)
        <4>2. written + 1 \in 1 .. written + 1 /\ \A i \in 1 .. written : i \in 1 .. written + 1
          BY <1>0
        <4> QED
          BY <2>4, <4>1, <4>2, Zenon
      <3> QED
        BY <2>2, <2>3, <3>1, <3>2, <3>3, Zenon
    <2> QED
      BY <2>5, Zenon DEF Accounted
  <1>10. CASE WriteData
    <2>1. SUFFICES ASSUME ~cut', step' # "hung" PROVE Accounted'
      BY Zenon DEF Accounted
    <2>2. /\ step = "data" /\ Sound' = Sound /\ ~WriteEntry /\ step' \in {"alloc", "entry"}
          /\ UNCHANGED <<fat, cut, first, content, cur>> /\ BuiltLen = written + 1
      BY <1>10, <2>1, SoundKept, ControlPreserved, Zenon DEF WriteData, WriteEntry, ghosts, BuiltLen, Control
    <2>3. BuiltLen' = BuiltLen
      <3>1. CASE content = <<>>
        <4>1. Len(content) = 0
          BY <3>1, ContentsAre, Zenon DEF TypeOK
        <4>2. written < ChainLength(Len(content))
          BY <2>2, Zenon DEF Control
        <4>3. written = 0 /\ ~(0 < 0)
          BY <1>0, <4>1, <4>2 DEF ChainLength
        <4>4. written' = written
          BY <1>10, <3>1, Zenon DEF WriteData
        <4>5. step' = "entry"
          BY <1>10, <2>2, <4>1, <4>3, <4>4, Zenon DEF WriteData
        <4> QED
          BY <2>2, <4>3, <4>4, <4>5 DEF BuiltLen, ChainLength
      <3>2. CASE content # <<>>
        <4>1. written' = written + 1
          BY <1>10, <2>2, <3>2, Zenon DEF WriteData
        <4> QED
          BY <1>0, <2>2, <4>1, SMTT(30) DEF BuiltLen, ChainLength
      <3> QED
        BY <3>1, <3>2, Zenon
    <2>4. Built' = Built
      BY <2>2, <2>3, BuiltFollows, Zenon
    <2> QED
      BY <1>2, <2>1, <2>2, <2>3, <2>4, Zenon DEF Accounted
  <1>11. CASE WriteEntry
    <2>1. SUFFICES ASSUME ~cut' PROVE Accounted'
      BY Zenon DEF Accounted
    <2>2. /\ slot \in Slots \ Sound
          /\ Sound' = Sound \cup {slot}
          /\ root'[slot] = [name |-> name, cluster |-> first, size |-> Len(content)]
          /\ \A s \in Sound : root'[s] = root[s] /\ stored'[s] = stored[s]
      BY <1>11, SoundWhenWritten, Zenon
    <2>3. UNCHANGED <<fat, data, cut>> /\ step = "entry" /\ step' = "idle"
      BY <1>11, Zenon DEF WriteEntry, Return
    <2>4. \A s \in Sound : Size(s)' = Size(s) /\ File(s)' = File(s)
      BY <2>2, <2>3, FileKept, Zenon DEF FilesOK
    <2>5. BuiltLen = ChainLength(Len(content)) /\ BuiltLen > 0
      BY <2>3, ContentsAre DEF BuiltLen, Control, ChainLength, TypeOK
    <2>6. ASSUME NEW s, s = slot PROVE Size(s)' = BuiltLen /\ File(s)' = Built
      <3>1. Size(s)' = BuiltLen
        BY <2>2, <2>5, <2>6, SMTT(30) DEF Size
      <3>2. File(s)' = Follow(fat', first, BuiltLen)
        BY <2>2, <2>6, <3>1, FileFollows, SMTT(30)
      <3> QED
        BY <2>3, <3>1, <3>2, BuiltFollows, Zenon
    <2>7. ASSUME NEW c PROVE Owned(c, Sound)' <=> \/ Owned(c, Sound)
                                                  \/ \E i \in 1 .. BuiltLen : Built[i] = c
      BY <2>2, <2>4, <2>6, SMTT(30) DEF Owned
    <2>8. \A c \in Clusters : fat[c] # 0 <=> \/ Owned(c, Sound)
                                             \/ \E i \in 1 .. BuiltLen : Built[i] = c
      BY <2>1, <2>3, Zenon DEF Accounted
    <2> QED
      BY <1>4, <2>3, <2>7, <2>8, Zenon DEF Accounted
  <1>12. CASE FormatFat \/ FormatRoot
    <2>1. \A c \in Clusters : fat'[c] = 0
      <3>1. CASE FormatFat
        BY <1>0, <3>1, SMTT(30) DEF FormatFat, Clusters
      <3>2. CASE FormatRoot
        BY <3>2, Zenon DEF FormatRoot, DiskOK
      <3> QED
        BY <1>12, <3>1, <3>2, Zenon
    <2>2. Sound' = {} /\ step' \in {"fmt_root", "idle"}
      BY <1>12, SoundWhenFormatted, Zenon DEF FormatFat, FormatRoot, Return
    <2> QED
      BY <1>4, <2>1, <2>2, Zenon DEF Accounted, Owned
  <1>13. CASE UNCHANGED vars
    <2>1. /\ UNCHANGED <<fat, root, step, first, written, cur, cut>> /\ Sound' = Sound
      BY <1>13, Zenon DEF vars, disk, opvars, ghosts, Sound, Files, InFlux
    <2>2. ASSUME NEW s PROVE Size(s)' = Size(s) /\ File(s)' = File(s)
      BY <2>1, FileFollows, Zenon DEF Size
    <2>3. BuiltLen' = BuiltLen /\ Built' = Built
      BY <2>1, BuiltFollows, Zenon DEF BuiltLen
    <2> QED
      BY <2>1, <2>2, <2>3, Zenon DEF Accounted, Owned
  <1> QED
    BY <1>6, <1>7, <1>8, <1>9, <1>10, <1>11, <1>12, <1>13, Zenon DEF Next, Operation
-----------------------------------------------------------------------------
\* A blank disk, or one formatted on the host, satisfies the invariant.
LEMMA InvInit == Init => Inv
  <1> SUFFICES ASSUME Init PROVE Inv
    BY Zenon
  <1>1. 0 \in Entries /\ EOC \notin Entries /\ 0 \in 0 .. Len(<<>>)
        /\ 0 \in 0 .. MaxOps /\ 0 \in 0 .. MaxCrashes /\ EOC # 0
    BY Fat16Constants, Marks, SMTT(30)
  <1>2. fat \in [Entries -> Entries \cup {EOC}] /\ (formatted => fat[0] # 0 /\ fat[1] # 0)
        /\ \A c \in Clusters : fat[c] = 0
    BY <1>1, Fat16Constants DEF Init, Entries, Clusters
  <1>3. root \in [Slots -> {Free, Deleted}] /\ Files = {} /\ Sound = {}
    BY Zenon DEF Init, Files, Sound
  <1>4. data \in [2 .. LastData -> Chunks]
    BY Fat16Constants, Zenon DEF Init
  <1>5. TypeOK
    <2>1. /\ root \in [Slots -> FileEntry \cup {Free, Deleted}]
          /\ stored \in [Slots -> Contents \cup {Free}]
      BY <1>3, Zenon DEF Init
    <2>2. /\ formatted \in BOOLEAN /\ step = "boot" /\ kind = "none" /\ slot = NoSlot
          /\ name = BootName /\ content = <<>> /\ written = 0 /\ first = 0 /\ prev = 0 /\ cur = 0
          /\ ops = 0 /\ crashes = 0 /\ suspect = {} /\ cut = FALSE
      BY Zenon DEF Init
    <2>3. <<>> \in Contents
      BY ContentsHave, Zenon
    <2>4. step \in Steps /\ kind \in {"none", "write", "overwrite", "format"}
      BY <2>2, Zenon DEF Steps
    <2>5. BootName \in Names
      BY Fat16Constants, Zenon
    <2> QED
      BY <1>1, <1>2, <1>4, <2>1, <2>2, <2>3, <2>4, <2>5, Zenon DEF TypeOK
  <1>6. step = "boot" /\ kind = "none" /\ suspect = {}
    BY Zenon DEF Init
  <1>7. Control
    BY <1>6, Zenon DEF Control
  <1>8. DiskOK
    BY <1>2, <1>3, <1>6, Zenon DEF DiskOK
  <1>9. FilesOK /\ BuildOK /\ FreeOK
    BY <1>3, <1>6, Zenon DEF FilesOK, BuildOK, FreeOK
  <1>10. Accounted
    <2>1. BuiltLen = 0
      BY <1>6, Zenon DEF BuiltLen
    <2> QED
      BY <1>2, <1>3, <1>6, <2>1 DEF Accounted, Owned
  <1> QED
    BY <1>5, <1>7, <1>8, <1>9, <1>10, Zenon DEF Inv

\* Every step preserves the inductive invariant.
LEMMA InvNext == Inv /\ [Next]_vars => Inv'
  BY TypePreserved, ControlPreserved, DiskPreserved, FilesPreserved, BuildPreserved,
     FreePreserved, AccountedPreserved, Zenon DEF Inv

\* The file system keeps its inductive invariant.
THEOREM Fat16Invariant == Spec => []Inv
  BY InvInit, InvNext, PTL DEF Spec

\* Type correctness: every cluster number the driver stores or uses is an entry of
\* the FAT, for every size of the disk.
THEOREM Fat16TypeCorrect == Spec => []TypeOK
  <1>1. Inv => TypeOK
    BY Zenon DEF Inv
  <1> QED
    BY <1>1, Fat16Invariant, PTL

\* What read_file returns of a chain that is whole.
LEMMA ReadsWhole ==
    ASSUME TypeOK, FilesOK, NEW s \in Sound, Readable(s)
    PROVE  read_file(root[s]) = [ok |-> TRUE, bytes |-> stored[s]]
  <1> DEFINE v == File(s)
             n == Size(s)
             upto == {k \in 0 .. n : \A i \in 1 .. k : v[i] < EndMark}
             most == CHOOSE m \in upto : \A k \in upto : k <= m
             good == \A i \in 1 .. most : v[i] \in 2 .. LastData
  <1>1. /\ Spans(fat, v, root[s].cluster, n)
        /\ stored[s] \in Contents /\ Len(stored[s]) = root[s].size
        /\ \A i \in 1 .. root[s].size : v[i] <= LastData /\ data[v[i]] = stored[s][i]
    BY Zenon DEF FilesOK, FileOK
  <1>2. root[s].size \in Nat /\ n = (IF root[s].size = 0 THEN 1 ELSE root[s].size)
    BY Fat16Constants DEF Sound, Files, TypeOK, FileEntry, Size, ChainLength
  <1>3. n \in Nat \ {0} /\ \A i \in 1 .. n : v[i] \in Clusters
    BY <1>1, Zenon DEF Spans
  <1>4. v = Visited(root[s].cluster, n)
    BY Zenon DEF File
  <1>5. \A i \in 1 .. n : v[i] \in 2 .. LastData
    <2>1. CASE root[s].size = 0
      <3>1. n = 1 /\ v[1] = root[s].cluster /\ root[s].cluster <= LastData
        BY <1>1, <1>2, <2>1, SMTT(30) DEF Readable, Spans
      <3> QED
        BY <1>3, <3>1, Fat16Constants, SMTT(30) DEF Clusters
    <2>2. CASE root[s].size # 0
      BY <1>1, <1>2, <1>3, <2>2, Fat16Constants DEF Clusters
    <2> QED
      BY <2>1, <2>2, Zenon
  <1>6. read_file(root[s]) =
           [ok |-> good,
            bytes |-> IF good
                      THEN [i \in 1 .. (IF root[s].size = 0 THEN 0 ELSE most) |-> data[v[i]]]
                      ELSE <<>>]
    BY <1>2, <1>4, Zenon DEF read_file
  <1> HIDE DEF v, n
  <1>7. \A i \in 1 .. n : v[i] < EndMark
    BY <1>3, Marks, Zenon
  <1>8. n \in upto /\ \A k \in upto : k <= n
    BY <1>3, <1>7
  <1> HIDE DEF upto
  <1>9. most \in upto /\ \A k \in upto : k <= most
    BY <1>8, Zenon
  <1>10. most = n
    BY <1>3, <1>8, <1>9 DEF upto
  <1> HIDE DEF most
  <1>11. good = TRUE
    BY <1>5, <1>10, Zenon
  <1>12. [i \in 1 .. (IF root[s].size = 0 THEN 0 ELSE most) |-> data[v[i]]] = stored[s]
    <2>1. (IF root[s].size = 0 THEN 0 ELSE most) = root[s].size
      BY <1>2, <1>10, Zenon
    <2>2. stored[s] \in [1 .. root[s].size -> Chunks]
      BY <1>1, ContentsAre, Zenon
    <2> QED
      BY <1>1, <2>1, <2>2, Zenon
  <1> QED
    BY <1>6, <1>11, <1>12, Zenon

\* Files read back as they were last written, through crashes and writes that run out
\* of space, for any number of files, clusters, commands and crashes.
THEOREM Fat16ReadsBack == Spec => []ReadBack
  <1>1. Inv => ReadBack
    BY ReadsWhole, Zenon DEF Inv, ReadBack
  <1> QED
    BY <1>1, Fat16Invariant, PTL

\* A chain of n clusters has n clusters.
LEMMA SpansCount ==
    ASSUME NEW f, NEW v, NEW c, NEW n, Spans(f, v, c, n)
    PROVE  Cardinality({v[i] : i \in 1 .. n}) = n
  <1> DEFINE S == {v[i] : i \in 1 .. n}
  <1>1. v \in [1 .. n -> S] /\ \A i, j \in 1 .. n : v[i] = v[j] => i = j
    BY Zenon DEF Spans
  <1>2. v \in Injection(1 .. n, S)
    BY <1>1, Zenon DEF Injection, IsInjective
  <1>3. v \in Surjection(1 .. n, S)
    BY <1>1, Zenon DEF Surjection
  <1>4. ExistsBijection(1 .. n, S) /\ n \in Nat
    BY <1>2, <1>3, Zenon DEF ExistsBijection, Bijection, Spans
  <1> HIDE DEF S
  <1>5. Cardinality(S) = n
    BY <1>4, FS_CountingElements, Zenon
  <1> QED
    BY <1>5, Zenon DEF S

\* Chains never meet, and end where the files' sizes say.
THEOREM Fat16ChainsAreSound == Spec => []ChainsAreSound
  <1>1. ASSUME Inv PROVE ChainsAreSound
    <2>0. TypeOK /\ FilesOK /\ BuildOK
      BY <1>1, Zenon DEF Inv
    <2>1. ASSUME NEW s \in Sound
          PROVE  /\ Chain(s) = {File(s)[i] : i \in 1 .. Size(s)}
                 /\ File(s) = Visited(root[s].cluster, ChainLength(root[s].size))
                 /\ Size(s) = ChainLength(root[s].size)
                 /\ Spans(fat, File(s), root[s].cluster, Size(s))
      BY <2>0, Zenon DEF Chain, File, Size, FilesOK, FileOK
    <2>2. ASSUME NEW s \in Sound, NEW t \in Sound, s # t PROVE Chain(s) \cap Chain(t) = {}
      <3>1. \A i \in 1 .. Size(s), j \in 1 .. Size(t) : File(s)[i] # File(t)[j]
        BY <2>0, <2>2, Zenon DEF FilesOK
      <3>2. /\ Chain(s) = {File(s)[i] : i \in 1 .. Size(s)}
            /\ Chain(t) = {File(t)[i] : i \in 1 .. Size(t)}
        BY <2>1, Zenon
      <3> QED
        BY <3>1, <3>2, Zenon
    <2>3. ASSUME NEW s \in Sound, step \in {"link", "data", "entry"}
          PROVE  {first, prev, cur} \cap Chain(s) = {}
      <3>1. written \in Nat
        BY <2>0, ContentsAre, SMTT(30) DEF TypeOK
      <3>2. \A i \in 1 .. BuiltLen : Built[i] \notin Chain(s)
        <4>1. Chain(s) = {File(s)[j] : j \in 1 .. Size(s)}
          BY <2>1, Zenon
        <4> QED
          BY <2>0, <2>3, <4>1, Zenon DEF BuildOK
      <3>3. 0 \notin Chain(s)
        BY <2>1 DEF Spans, Clusters
      <3>4. BuiltLen \in Nat /\ (step # "link" => BuiltLen > 0) /\ written <= BuiltLen
        BY <2>3, <3>1, SMTT(30) DEF BuiltLen, ChainLength
      <3>5. BuiltLen > 0 => 1 \in 1 .. BuiltLen /\ first = Built[1]
        BY <2>0, <2>3, <3>4, SMTT(30) DEF BuildOK, Spans
      <3>6. first \notin Chain(s)
        BY <2>0, <2>3, <3>2, <3>3, <3>4, <3>5 DEF BuildOK
      <3>7. cur \notin Chain(s)
        <4>1. CASE step = "link"
          BY <2>0, <2>1, <4>1, SMTT(30) DEF BuildOK
        <4>2. CASE step # "link"
          BY <2>0, <2>3, <3>2, <3>4, <4>2 DEF BuildOK
        <4> QED
          BY <4>1, <4>2, Zenon
      <3>8. prev \notin Chain(s)
        <4>1. CASE step = "entry"
          BY <2>0, <3>7, <4>1, Zenon DEF BuildOK
        <4>2. CASE step # "entry"
          BY <2>0, <2>3, <3>1, <3>2, <3>3, <3>4, <4>2 DEF BuildOK
        <4> QED
          BY <4>1, <4>2, Zenon
      <3> QED
        BY <3>6, <3>7, <3>8, Zenon
    <2>4. ASSUME NEW s \in Sound
          PROVE  /\ get_fat_entry(File(s)[Size(s)]) = EOC
                 /\ Chain(s) \subseteq Clusters /\ Cardinality(Chain(s)) = Size(s)
      <3>1. Cardinality(Chain(s)) = Size(s)
        BY <2>1, SpansCount, SMTT(30)
      <3>2. File(s)[Size(s)] \in Clusters /\ Clusters \subseteq Entries
            /\ fat[File(s)[Size(s)]] = EOC /\ Chain(s) \subseteq Clusters
        BY <2>1, SMTT(30) DEF Spans, Clusters, Entries
      <3> QED
        BY <3>1, <3>2, Zenon DEF get_fat_entry
    <2> QED
      BY <2>1, <2>2, <2>3, <2>4, Zenon DEF ChainsAreSound
  <1> QED
    BY <1>1, Fat16Invariant, PTL

\* Nothing leaks: at the prompt every marked cluster is some file's, unless an
\* operation was cut short.
THEOREM Fat16NothingLeaks == Spec => []NothingLeaks
  <1>1. ASSUME Inv PROVE NothingLeaks
    <2>1. SUFFICES ASSUME step = "idle", ~cut
                   PROVE  {c \in Clusters : fat[c] # 0} = UNION {Chain(s) : s \in Files}
      BY Zenon DEF NothingLeaks
    <2>2. kind = "none" /\ suspect = {}
      BY <1>1, <2>1, Zenon DEF Inv, Control, DiskOK
    <2>3. Sound = Files
      BY <2>1, <2>2, Zenon DEF Sound, InFlux
    <2>4. \A c \in Clusters : fat[c] # 0 <=> Owned(c, Files)
      <3>1. \A i \in 1 .. BuiltLen : FALSE
        BY <2>1, SMTT(30) DEF BuiltLen
      <3> QED
        BY <1>1, <2>1, <2>3, <3>1, Zenon DEF Inv, Accounted
    <2>5. \A s \in Files : Chain(s) = {File(s)[i] : i \in 1 .. Size(s)} /\ Chain(s) \subseteq Clusters
      BY <1>1, <2>3 DEF Inv, FilesOK, FileOK, Spans, Chain, File, Size
    <2> QED
      BY <2>4, <2>5 DEF Owned
  <1> QED
    BY <1>1, Fat16Invariant, PTL

\* No operation underflows cluster_to_lba: the driver never panics on a reserved
\* entry of the FAT, on a damaged disk either.
THEOREM Fat16NeverPanics == Spec => [](step # "panic")
  <1>1. Inv => step # "panic"
    BY Zenon DEF Inv, Control
  <1> QED
    BY <1>1, Fat16Invariant, PTL
-----------------------------------------------------------------------------
\* The disk implements FileStore.

\* The directory that FileStore sees, and the same in terms of what was written.
Shown ==
    [s \in Slots |->
        IF s \notin Files THEN Free
        ELSE [name  |-> root[s].name,
              bytes |-> IF s \notin Sound THEN Unknown
                        ELSE IF Readable(s) THEN read_file(root[s]).bytes
                        ELSE <<>>]]
Listing ==
    [s \in Slots |->
        IF s \notin Files THEN Free
        ELSE [name |-> root[s].name, bytes |-> IF s \in Sound THEN stored[s] ELSE Unknown]]

\* read_file shows what was written; an empty file whose cluster is not on the disk
\* shows as empty.
LEMMA ShowsWritten == Inv => Shown = Listing
  <1> SUFFICES ASSUME Inv PROVE Shown = Listing
    BY Zenon
  <1>1. ASSUME NEW s \in Sound
        PROVE  (IF Readable(s) THEN read_file(root[s]).bytes ELSE <<>>) = stored[s]
    <2>1. CASE Readable(s)
      <3>1. TypeOK /\ FilesOK
        BY Zenon DEF Inv
      <3>2. read_file(root[s]) = [ok |-> TRUE, bytes |-> stored[s]]
        BY <2>1, <3>1, ReadsWhole, Zenon
      <3>3. read_file(root[s]).bytes = stored[s]
        <4> DEFINE r == [ok |-> TRUE, bytes |-> stored[s]]
        <4>1. r.bytes = stored[s]
          BY Zenon
        <4> QED
          BY <3>2, <4>1, Zenon
      <3> QED
        BY <2>1, <3>3, Zenon
    <2>2. CASE ~Readable(s)
      <3>1. stored[s] \in Contents /\ Len(stored[s]) = root[s].size /\ root[s].size \in Nat
        <4>1. stored[s] \in Contents /\ Len(stored[s]) = root[s].size
          BY Zenon DEF Inv, FilesOK, FileOK
        <4>2. root[s] \in FileEntry
          BY Zenon DEF Inv, TypeOK, Sound, Files
        <4>3. root[s].size \in 0 .. MaxChunks
          BY <4>2, Zenon DEF FileEntry
        <4> QED
          BY <4>1, <4>3, SMT
      <3>2. root[s].size = 0
        BY <2>2, <3>1 DEF Readable
      <3>3. stored[s] = <<>>
        BY <3>1, <3>2, ContentsAre, Zenon
      <3> QED
        BY <2>2, <3>3, Zenon
    <2> QED
      BY <2>1, <2>2, Zenon
  <1> QED
    BY <1>1, Zenon DEF Shown, Listing

\* Each step of FileStore, from what it does to the directory: a file that appears
\* whole is created.
LEMMA AsCreate ==
    ASSUME kind # "format", kind' # "format", NEW s \in Slots, Shown[s] = Free,
           Shown'[s] \in [name : Names, bytes : Contents],
           Shown' = [Shown EXCEPT ![s] = Shown'[s]]
    PROVE  Abstract!Next
  <1>1. Abstract!Create
    BY Zenon DEF Abstract!Create, Shown
  <1> QED
    BY <1>1, Zenon DEF Abstract!Next

\* A file that becomes Unknown is being replaced.
LEMMA AsBeginReplace ==
    ASSUME kind # "format", kind' # "format", NEW s \in Slots, Shown[s] # Free,
           Shown' = [Shown EXCEPT ![s] = [name |-> Shown[s].name, bytes |-> Unknown]]
    PROVE  Abstract!Next
  <1>1. Abstract!BeginReplace
    BY Zenon DEF Abstract!BeginReplace, Shown
  <1> QED
    BY <1>1, Zenon DEF Abstract!Next

\* All of the directory may become Unknown once a file of it is.
LEMMA AsReplaceUncertain ==
    ASSUME kind # "format", kind' # "format",
           NEW s \in Slots, Shown[s] # Free, Shown[s].bytes = Unknown,
           Shown' = [t \in Slots |-> IF Shown[t] = Free THEN Free
                                     ELSE [name |-> Shown[t].name, bytes |-> Unknown]]
    PROVE  Abstract!Next
  <1>1. Abstract!ReplaceUncertain
    BY Zenon DEF Abstract!ReplaceUncertain, Abstract!Uncertain, Abstract!Blurred, Shown
  <1> QED
    BY <1>1, Zenon DEF Abstract!Next

\* An Unknown file that gets a content has been replaced.
LEMMA AsEndReplace ==
    ASSUME kind # "format", kind' # "format",
           NEW s \in Slots, Shown[s] # Free, Shown[s].bytes = Unknown, NEW c \in Contents,
           Shown' = [Shown EXCEPT ![s] = [name |-> Shown[s].name, bytes |-> c]]
    PROVE  Abstract!Next
  <1>1. Abstract!EndReplace
    BY Zenon DEF Abstract!EndReplace, Abstract!Uncertain, Shown
  <1> QED
    BY <1>1, Zenon DEF Abstract!Next

\* The steps of a format, and its interruption.
LEMMA AsErasing ==
    ASSUME \/ kind # "format" /\ kind' = "format" /\ Shown' = Shown
           \/ /\ kind = "format" /\ kind' = "format"
              /\ Shown' = [t \in Slots |-> IF Shown[t] = Free THEN Free
                                           ELSE [name |-> Shown[t].name, bytes |-> Unknown]]
           \/ kind = "format" /\ kind' # "format" /\ Shown' = [t \in Slots |-> Free]
           \/ kind = "format" /\ kind' # "format" /\ Shown' = Shown
    PROVE  Abstract!Next
  <1>1. CASE kind # "format" /\ kind' = "format" /\ Shown' = Shown
    <2>1. Abstract!BeginErase
      BY <1>1, Zenon DEF Abstract!BeginErase, Shown
    <2> QED
      BY <2>1, Zenon DEF Abstract!Next
  <1>2. CASE /\ kind = "format" /\ kind' = "format"
             /\ Shown' = [t \in Slots |-> IF Shown[t] = Free THEN Free
                                          ELSE [name |-> Shown[t].name, bytes |-> Unknown]]
    <2>1. Abstract!Erase
      BY <1>2, Zenon DEF Abstract!Erase, Abstract!Blurred, Shown
    <2> QED
      BY <2>1, Zenon DEF Abstract!Next
  <1>3. CASE kind = "format" /\ kind' # "format" /\ Shown' = [t \in Slots |-> Free]
    <2>1. Abstract!EndErase
      BY <1>3, Zenon DEF Abstract!EndErase, Abstract!Empty, Shown
    <2> QED
      BY <2>1, Zenon DEF Abstract!Next
  <1>4. CASE kind = "format" /\ kind' # "format" /\ Shown' = Shown
    <2>1. Abstract!InterruptErase
      BY <1>4, Zenon DEF Abstract!InterruptErase, Shown
    <2> QED
      BY <2>1, Zenon DEF Abstract!Next
  <1> QED
    BY <1>1, <1>2, <1>3, <1>4, Zenon

\* The entry of a file is never taken for an empty one.
LEMMA ListingTyped ==
    ASSUME Inv, NEW t \in Files
    PROVE  /\ Listing[t] # Free
           /\ Listing[t] = [name |-> root[t].name,
                            bytes |-> IF t \in Sound THEN stored[t] ELSE Unknown]
           /\ Listing[t].name = root[t].name
           /\ Listing[t].bytes = IF t \in Sound THEN stored[t] ELSE Unknown
  <1>1. t \in Slots /\ root[t].name \in Names
    BY Zenon DEF Files, Inv, TypeOK, FileEntry
  <1>2. Listing[t] = [name |-> root[t].name,
                      bytes |-> IF t \in Sound THEN stored[t] ELSE Unknown]
    BY <1>1, Zenon DEF Listing
  <1>3. t \in Sound => stored[t] \in Contents
    BY Zenon DEF Inv, FilesOK, FileOK
  <1> DEFINE b == IF t \in Sound THEN stored[t] ELSE Unknown
             w == [name |-> root[t].name, bytes |-> b]
  <1>4. b \in Contents \cup {Unknown}
    BY <1>3, Zenon
  <1>5. Listing[t] # Free
    <2>1. w \in [name : Names, bytes : Contents \cup {Unknown}]
      <3> HIDE DEF b
      <3> QED
        BY <1>1, <1>4, Zenon
    <2>2. Listing[t] = w
      BY <1>2, Zenon
    <2>3. Free \notin [name : Names, bytes : Contents \cup {Unknown}]
      BY Fat16Constants, Zenon
    <2> HIDE DEF w
    <2> QED
      BY <2>1, <2>2, <2>3, Zenon
  <1>6. Listing[t] = w
    BY <1>2, Zenon
  <1>7. w.name = root[t].name /\ w.bytes = b
    <2> HIDE DEF b
    <2>1. w.name = root[t].name
      BY Zenon
    <2>2. w.bytes = b
      BY Zenon
    <2> QED
      BY <2>1, <2>2, Zenon
  <1>8. Listing[t].name = root[t].name /\ Listing[t].bytes = b
    <2> HIDE DEF w, b
    <2> QED
      BY <1>6, <1>7, Zenon
  <1> QED
    BY <1>2, <1>5, <1>8, Zenon

\* The steps that leave the directory and the files to rely on alone.
LEMMA ListingKept ==
    ASSUME UNCHANGED <<root, stored>>, Sound' = Sound
    PROVE  Listing' = Listing
  <1>1. Files' = Files
    BY Zenon DEF Files
  <1> QED
    BY <1>1, Zenon DEF Listing

\* When no file can be relied on, all of the directory is Unknown.
LEMMA ListingBlurred ==
    ASSUME Inv, UNCHANGED root, Sound' = {}
    PROVE  Listing' = [t \in Slots |-> IF Listing[t] = Free THEN Free
                                       ELSE [name |-> Listing[t].name, bytes |-> Unknown]]
  <1>1. Files' = Files
    BY Zenon DEF Files
  <1>2. Listing' = [t \in Slots |-> IF t \notin Files THEN Free
                                    ELSE [name |-> root[t].name, bytes |-> Unknown]]
    BY <1>1, Zenon DEF Listing
  <1>3. \A t \in Files : Listing[t] # Free /\ Listing[t].name = root[t].name
    BY ListingTyped, Zenon
  <1>4. \A t \in Slots \ Files : Listing[t] = Free
    BY Zenon DEF Listing
  <1> QED
    BY <1>2, <1>3, <1>4, Zenon

\* WriteEntry creates the file, or ends its replacement.
LEMMA WriteEntryImplements ==
    ASSUME Inv, WriteEntry, Shown = Listing, Shown' = Listing'
    PROVE  Abstract!Next
  <1>0. TypeOK /\ Control
    BY Zenon DEF Inv
  <1>1. /\ slot \in Slots \ Sound
        /\ Sound' = Sound \cup {slot}
        /\ root'[slot] = [name |-> name, cluster |-> first, size |-> Len(content)]
        /\ stored'[slot] = content
        /\ \A s \in Sound : root'[s] = root[s] /\ stored'[s] = stored[s]
    BY <1>0, SoundWhenWritten, Zenon
  <1>2. /\ kind \in {"write", "overwrite"} /\ kind' = "none"
        /\ root' = [root EXCEPT ![slot] =
                       [name |-> name, cluster |-> first, size |-> Len(content)]]
    BY <1>0, Zenon DEF WriteEntry, Return, Control, TypeOK
  <1>3. name \in Names /\ content \in Contents
    BY <1>0, Zenon DEF TypeOK
  <1>4. Files' = Files \cup {slot}
    <2>1. slot \in Sound'
      BY <1>1, Zenon
    <2>2. slot \in Files'
      BY <2>1, Zenon DEF Sound
    <2>3. \A s \in Slots \ {slot} : root'[s] = root[s]
      BY <1>0, <1>2, Zenon DEF TypeOK
    <2> QED
      BY <1>1, <2>2, <2>3, Zenon DEF Files
  <1>5. Listing' = [Listing EXCEPT ![slot] = [name |-> name, bytes |-> content]]
    <2>1. \A s \in Slots \ {slot} : root'[s] = root[s]
      BY <1>0, <1>2, Zenon DEF TypeOK
    <2>2. \A s \in Slots \ {slot} : Listing'[s] = Listing[s]
      BY <1>1, <1>4, <2>1, Zenon DEF Listing
    <2>3. Listing'[slot] = [name |-> name, bytes |-> content]
      BY <1>1, <1>4, SMTT(30) DEF Listing
    <2>4. Listing = [s \in Slots |-> Listing[s]] /\ Listing' = [s \in Slots |-> Listing'[s]]
      BY Zenon DEF Listing
    <2> QED
      BY <1>1, <2>2, <2>3, <2>4, Zenon
  <1>6. CASE kind = "write"
    <2>1. slot \in Slots \ Files
      BY <1>0, <1>1, <1>6, Zenon DEF Control, EmptySlots, Files
    <2>2. Listing[slot] = Free
      BY <2>1, Zenon DEF Listing
    <2>3. Listing'[slot] = [name |-> name, bytes |-> content]
      BY <1>1, <1>4, SMTT(30) DEF Listing
    <2>4. Shown'[slot] \in [name : Names, bytes : Contents]
      BY <1>3, <2>3
    <2>5. Shown' = [Shown EXCEPT ![slot] = Shown'[slot]]
      BY <1>5, <2>3, Zenon
    <2> QED
      BY <1>2, <1>6, <2>1, <2>2, <2>4, <2>5, AsCreate, Zenon
  <1>7. CASE kind = "overwrite"
    <2>1. slot \in Files /\ root[slot].name = name
      BY <1>0, <1>7, Zenon DEF Control
    <2>2. Listing[slot] # Free /\ Listing[slot] = [name |-> name, bytes |-> Unknown]
      BY <1>1, <2>1, ListingTyped, Zenon
    <2>3. Shown[slot] # Free /\ Shown[slot].bytes = Unknown /\ Shown[slot].name = name
      BY <2>2
    <2>4. Shown' = [Shown EXCEPT ![slot] = [name |-> Shown[slot].name, bytes |-> content]]
      BY <1>5, <2>3, Zenon
    <2> QED
      BY <1>1, <1>2, <1>3, <1>7, <2>3, <2>4, AsEndReplace, Zenon
  <1> QED
    BY <1>2, <1>6, <1>7, Zenon

\* The first FreeCluster begins a replacement; where the chain is stale, every file is
\* uncertain from then on.
LEMMA FreeClusterImplements ==
    ASSUME Inv, FreeCluster, Shown = Listing, Shown' = Listing'
    PROVE  Abstract!Next \/ (Shown' = Shown /\ kind' = kind)
  <1>0. /\ TypeOK /\ Control /\ DiskOK /\ FreeOK
        /\ kind = "overwrite" /\ kind' = kind /\ slot \in Files /\ slot \in Slots
        /\ UNCHANGED <<root, stored>>
    BY Zenon DEF Inv, FreeCluster, Control, Files
  <1>1. Files' = Files
    BY <1>0, Zenon DEF Files
  <1>2. Shown[slot] # Free /\ Shown[slot].name = root[slot].name
        /\ Shown[slot].bytes = IF slot \in Sound THEN stored[slot] ELSE Unknown
    BY <1>0, ListingTyped, Zenon
  <1>3. CASE slot \notin suspect
    <2>1. Sound' = Sound \ {slot}
      BY <1>0, <1>3, SoundWhenFreed, Zenon
    <2>2. Listing' = [Listing EXCEPT ![slot] = [name |-> root[slot].name, bytes |-> Unknown]]
      BY <1>0, <1>1, <2>1, Zenon DEF Listing
    <2> QED
      BY <1>0, <1>2, <2>2, AsBeginReplace, Zenon
  <1>4. CASE slot \in suspect
    <2>0. slot \notin Sound
      BY <1>4, Zenon DEF Sound
    <2>1. CASE Sound' = {}
      BY <1>0, <1>2, <2>0, <2>1, ListingBlurred, AsReplaceUncertain, Zenon
    <2>2. CASE Sound' # {}
      <3>1. UNCHANGED suspect /\ step = "free" /\ step' = "alloc" /\ UNCHANGED slot
        <4>1. suspect' = suspect \cup Files => Sound' = {}
          BY <1>1, Zenon DEF Sound
        <4> QED
          BY <1>4, <2>2, <4>1, Zenon DEF FreeCluster
      <3>2. Sound' = Sound
        BY <1>0, <1>1, <1>4, <3>1, Zenon DEF Sound, InFlux
      <3> QED
        BY <1>0, <3>2, ListingKept, Zenon
    <2> QED
      BY <2>1, <2>2, Zenon
  <1> QED
    BY <1>3, <1>4, Zenon

\* Every step of the driver is a step of FileStore, or changes nothing it sees.
LEMMA StepImplements ==
    ASSUME Inv, [Next]_vars, Inv', Shown = Listing, Shown' = Listing'
    PROVE  Abstract!Next \/ (Shown' = Shown /\ (kind' = "format" <=> kind = "format"))
  <1>0. TypeOK /\ Control /\ DiskOK
    BY Zenon DEF Inv
  <1>1. CASE WriteEntry
    BY <1>1, WriteEntryImplements, Zenon
  <1>2. CASE FreeCluster
    BY <1>2, FreeClusterImplements, Zenon
  <1>3. CASE FormatFat
    <2>1. kind = "format" /\ kind' = "format" /\ UNCHANGED root /\ Sound' = {}
      BY <1>0, <1>3, SoundWhenFormatted, Zenon DEF Control, FormatFat, opvars
    <2> QED
      BY <2>1, ListingBlurred, AsErasing, Zenon
  <1>4. CASE FormatRoot
    <2>1. kind = "format" /\ kind' = "none" /\ root' = [s \in Slots |-> Free]
      BY <1>0, <1>4, Zenon DEF Control, FormatRoot, Return
    <2>2. Files' = {}
      BY <2>1, Zenon DEF Files
    <2>3. Listing' = [s \in Slots |-> Free]
      BY <2>2, Zenon DEF Listing
    <2> QED
      BY <2>1, <2>3, AsErasing, Zenon
  <1>5. CASE Boot \/ Command \/ Alloc \/ Link \/ WriteData \/ FormatBoot \/ Crash \/ PowerOn
    <2>1. Sound' = Sound
      BY <1>0, <1>5, SoundKept, Zenon
    <2>2. UNCHANGED <<root, stored>>
      BY <1>5, Zenon DEF Boot, Command, BeginWrite, BeginOverwrite, BeginFormat, Alloc, Link, WriteData,
         FormatBoot, Crash, PowerOn, disk, ghosts
    <2>3. Shown' = Shown
      BY <2>1, <2>2, ListingKept, Zenon
    <2> QED
      BY <2>3, AsErasing, Zenon
  <1>6. CASE UNCHANGED vars
    <2>1. UNCHANGED <<root, stored, kind, suspect, slot, step, cur>>
      BY <1>6, Zenon DEF vars, disk, opvars, ghosts
    <2>2. Sound' = Sound
      BY <2>1, Zenon DEF Sound, Files, InFlux
    <2> QED
      BY <2>1, <2>2, ListingKept, Zenon
  <1> QED
    BY <1>1, <1>2, <1>3, <1>4, <1>5, <1>6, Zenon DEF Next, Operation

\* Seen through its directory, the disk is a FileStore: files appear whole, are
\* replaced under their own name, and a write, an overwrite or a format touches no
\* file but its own, crashes and full disks included.
THEOREM Fat16ImplementsFileStore == Spec => ImplementsFileStore
  <1>1. ASSUME Init PROVE Abstract!Init
    <2>1. root \in [Slots -> {Free, Deleted}] /\ kind = "none"
      BY <1>1, Zenon DEF Init
    <2>2. Files = {}
      BY <2>1, Zenon DEF Files
    <2> QED
      BY <2>1, <2>2, Zenon DEF Abstract!Init, Abstract!Empty
  <1>2. Inv => Shown = Listing
    BY ShowsWritten, Zenon
  <1>3. Inv' => (Shown = Listing)'
    BY <1>2, PTL
  <1>4. Inv /\ [Next]_vars /\ Inv' => [Abstract!Next]_<<Shown, kind = "format">>
    BY <1>2, <1>3, StepImplements, Zenon
  <1> QED
    BY <1>1, <1>4, Fat16Invariant, PTL DEF Spec, ImplementsFileStore, Abstract!Spec, Shown
=============================================================================
