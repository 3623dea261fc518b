------------------------------- MODULE Memory -------------------------------
(***************************************************************************)
(* Paging and the kernel heap (memory.rs, allocator.rs): kernel_main hands *)
(* the bootloader's memory map to a BootInfoFrameAllocator, and init_heap  *)
(* maps the heap's pages one by one.  Each page takes a frame, and map_to  *)
(* (the x86_64 crate) takes more from the same allocator for the page      *)
(* tables that are missing on the way.  Addresses are counted in frames    *)
(* and pages of 4 KiB.                                                     *)
(***************************************************************************)
EXTENDS Lists, Functions

CONSTANTS
    BootInfos,     \* what a bootloader may pass: the memory map, and in memory
                   \*   the page tables by frame, with the level each is for
    Entries,       \* entries of a page table: 512
    HeapStart,     \* the page of HEAP_START
    HeapPages,     \* HEAP_SIZE in pages
    Cr3,           \* the frame of the level 4 table
    NotPresent, HugePage,  \* an entry that holds no frame, or a huge one
    Garbage        \* what is read of a frame that is not a page table

Page == 0 .. Entries * Entries * Entries * Entries - 1
Heap == HeapStart .. HeapStart + HeapPages - 1
Index == 0 .. Entries - 1
Frame == Nat

\* Page tables in which every entry above level 1 that is present leads to a
\* table of the next level.
WellLinked(t) ==
    /\ DOMAIN t \subseteq Frame
    /\ \A f \in DOMAIN t :
        /\ t[f] \in [level : 1 .. 4, entry : [Index -> Frame \cup {NotPresent, HugePage}]]
        /\ t[f].level > 1 => \A i \in Index : t[f].entry[i] \in Frame =>
              /\ t[f].entry[i] \in DOMAIN t
              /\ t[t[f].entry[i]].level = t[f].level - 1

\* Page tables in which no two entries above level 1 lead to the same table.
Unshared(t) ==
    \A f, g \in DOMAIN t : t[f].level > 1 /\ t[g].level > 1 =>
        \A i, j \in Index : t[f].entry[i] \in Frame /\ t[g].entry[j] = t[f].entry[i] =>
            f = g /\ i = j

\* The frames of the usable regions, in the map's order; a range ends before
\* its end address.
usable_frames(map) ==
    LET usable_regions == SelectSeq(map, LAMBDA r : r.type = "Usable")
    IN  FlattenSeq([i \in 1 .. Len(usable_regions) |->
            [k \in 1 .. usable_regions[i].end - usable_regions[i].start |->
                usable_regions[i].start + k - 1]])

\* BootInfoFrameAllocator::init asks its caller for a valid memory map: the
\* frames that are marked usable are listed once and are really unused.
ASSUME MemoryConstants ==
    /\ \A info \in BootInfos :
        LET frames == usable_frames(info.memory_map) IN
        /\ frames \in Seq(Frame)
        /\ \A i, j \in 1 .. Len(frames) : i # j => frames[i] # frames[j]
        /\ \A i \in 1 .. Len(frames) : frames[i] \notin DOMAIN info.tables
        /\ WellLinked(info.tables)
        /\ Cr3 \in DOMAIN info.tables /\ info.tables[Cr3].level = 4
    /\ Entries \in Nat \ {0} /\ HeapPages \in Nat \ {0} /\ HeapStart \in Nat
    /\ Heap \subseteq Page
    /\ NotPresent \notin Nat /\ HugePage \notin Nat /\ Garbage \notin Nat
    /\ NotPresent # HugePage /\ NotPresent # Garbage /\ HugePage # Garbage

\* The bootloader makes every page table from a frame of its own, as map_to does.
ASSUME UnsharedTables == \A info \in BootInfos : Unshared(info.tables)

VARIABLES
    boot_info, next,   \* the fields of BootInfoFrameAllocator, which keeps the
                       \*   map of boot_info
    tables,            \* the page tables in memory, by frame
    mstep,             \* "allocate", "map", "ready" or "panic"
    page,              \* the page init_heap is at
    frame,             \* the frame it took for that page
    table, level       \* the page table map_to is at

mvars == <<boot_info, next, tables, mstep, page, frame, table, level>>

\* The pages below one entry of a table, by the table's level.
Span == <<1, Entries, Entries * Entries, Entries * Entries * Entries>>

\* The index of a page into its table of a level: p4_index to p1_index.
index(p, l) == (p \div Span[l]) % Entries

\* What entry.frame() finds, following the entry found one level above.
Entry(t, e, i) ==
    IF e \in {NotPresent, HugePage} THEN e
    ELSE IF e \in DOMAIN t THEN t[e].entry[i] ELSE Garbage

\* The turns of translate_addr_inner's loop, and its result: the frame of a page,
\* NotPresent for None, HugePage for the panic.
P3(t, p) == Entry(t, Cr3, index(p, 4))
P2(t, p) == Entry(t, P3(t, p), index(p, 3))
P1(t, p) == Entry(t, P2(t, p), index(p, 2))
translate_addr_inner(t, p) == Entry(t, P1(t, p), index(p, 1))

\* memory::init and BootInfoFrameAllocator::init.
MemoryInit ==
    /\ boot_info \in BootInfos /\ next = 0
    /\ tables = boot_info.tables
    /\ mstep = "allocate" /\ page = HeapStart
    /\ frame = NotPresent /\ table = Cr3 /\ level = 4

\* A bug: the frame is not counted.
allocate_frame_NotCounted ==
    LET frames == usable_frames(boot_info.memory_map)
    IN  [frame |-> IF next < Len(frames) THEN frames[next + 1] ELSE NotPresent,
         next |-> next]

\* A bug: a frame is passed over.
allocate_frame_Skips ==
    LET frames == usable_frames(boot_info.memory_map)
    IN  [frame |-> IF next < Len(frames) THEN frames[next + 1] ELSE NotPresent,
         next |-> next + 2]

\* allocate_frame: the frame number next of the usable ones, or None.  The
\* counter moves on in both cases.
allocate_frame ==
    LET frames == usable_frames(boot_info.memory_map)
    IN  [frame |-> IF next < Len(frames) THEN frames[next + 1] ELSE NotPresent,
         next |-> next + 1]

\* init_heap returns an error, and kernel_main's expect panics.
HeapFails == mstep' = "panic" /\ UNCHANGED <<tables, page, frame, table, level>>

\* The loop of init_heap takes a frame for the page.
AllocatePage ==
    /\ mstep = "allocate"
    /\ next' = allocate_frame.next
    /\ IF allocate_frame.frame = NotPresent THEN HeapFails
       ELSE /\ frame' = allocate_frame.frame
            /\ mstep' = "map" /\ table' = Cr3 /\ level' = 4
            /\ UNCHANGED <<tables, page>>
    /\ UNCHANGED boot_info

Here == tables[table].entry[index(page, level)]

\* map_to goes down into a table that is there.
Descend ==
    /\ mstep = "map" /\ level > 1 /\ Here \in Frame
    /\ table' = Here /\ level' = level - 1
    /\ UNCHANGED <<boot_info, next, tables, mstep, page, frame>>

\* The page tables with one more, empty, entered into the table map_to is at.
WithTable(f) ==
    [g \in DOMAIN tables \cup {f} |->
        IF g = f THEN [level |-> level - 1, entry |-> [i \in Index |-> NotPresent]]
        ELSE IF g = table THEN [tables[g] EXCEPT !.entry[index(page, level)] = f]
        ELSE tables[g]]

\* A bug: a table that is there is replaced.
CreateTable_Always ==
    /\ mstep = "map" /\ level > 1 /\ Here # HugePage
    /\ next' = allocate_frame.next
    /\ IF allocate_frame.frame = NotPresent THEN HeapFails
       ELSE /\ tables' = WithTable(allocate_frame.frame)
            /\ table' = allocate_frame.frame /\ level' = level - 1
            /\ UNCHANGED <<mstep, page, frame>>
    /\ UNCHANGED boot_info

\* map_to makes a missing table from the next frame.
CreateTable ==
    /\ mstep = "map" /\ level > 1 /\ Here = NotPresent
    /\ next' = allocate_frame.next
    /\ IF allocate_frame.frame = NotPresent THEN HeapFails
       ELSE /\ tables' = WithTable(allocate_frame.frame)
            /\ table' = allocate_frame.frame /\ level' = level - 1
            /\ UNCHANGED <<mstep, page, frame>>
    /\ UNCHANGED boot_info

\* map_to finds a huge page on its way, or the page already mapped.
MapFails ==
    /\ mstep = "map" /\ (Here = HugePage \/ (level = 1 /\ Here # NotPresent))
    /\ HeapFails
    /\ UNCHANGED <<boot_info, next>>

\* A bug: the heap's last page is not mapped.
MapPage_EndsEarly ==
    /\ mstep = "map" /\ level = 1 /\ Here = NotPresent
    /\ tables' = [tables EXCEPT ![table].entry[index(page, 1)] = frame]
    /\ page' = page + 1
    /\ mstep' = IF page >= HeapStart + HeapPages - 2 THEN "ready" ELSE "allocate"
    /\ UNCHANGED <<boot_info, next, frame, table, level>>

\* map_to enters the frame; after the last page the allocator gets the heap.
MapPage ==
    /\ mstep = "map" /\ level = 1 /\ Here = NotPresent
    /\ tables' = [tables EXCEPT ![table].entry[index(page, 1)] = frame]
    /\ page' = page + 1
    /\ mstep' = IF page = HeapStart + HeapPages - 1 THEN "ready" ELSE "allocate"
    /\ UNCHANGED <<boot_info, next, frame, table, level>>

MemoryNext == AllocatePage \/ Descend \/ CreateTable \/ MapFails \/ MapPage

MemorySpec == MemoryInit /\ [][MemoryNext]_mvars
-----------------------------------------------------------------------------
\* The heap's pages that are mapped so far.
Mapped == {p \in Heap : p < page}

\* The state of the boot is well formed.
MemoryTypeOK ==
    /\ boot_info \in BootInfos /\ next \in Nat
    /\ WellLinked(tables)
    /\ mstep \in {"allocate", "map", "ready", "panic"}
    /\ page \in HeapStart .. HeapStart + HeapPages
    /\ frame \in Frame \cup {NotPresent} /\ level \in 1 .. 4
    /\ table \in DOMAIN tables /\ (mstep = "map" => tables[table].level = level)

\* Every page of the heap that init_heap mapped lies on a frame of its own,
\* which the memory map calls usable and which holds no page table: nothing
\* that is later written to the heap changes another page or the paging, though
\* pages and tables are taken from the same allocator.
HeapFramesArePrivate ==
    LET At(p) == translate_addr_inner(tables, p) IN
    /\ \A p \in Mapped : At(p) \in Range(usable_frames(boot_info.memory_map)) \ DOMAIN tables
    /\ \A p, q \in Mapped : p # q => At(p) # At(q)

\* When init_heap gives HEAP_START and HEAP_SIZE to the allocator, the whole
\* range is mapped.
HeapIsMapped ==
    mstep = "ready" => \A p \in Heap : translate_addr_inner(tables, p) \in Frame

\* A step keeps every page that is mapped on its frame.
KeepsMappings ==
    \A p \in Page : translate_addr_inner(tables, p) # NotPresent =>
        translate_addr_inner(tables', p) = translate_addr_inner(tables, p)

\* The tables that the heap needs and the bootloader did not make: a level and
\* the part of the page number above it.
MissingTables ==
    LET boot(l, p) == <<P1(boot_info.tables, p), P2(boot_info.tables, p),
                        P3(boot_info.tables, p)>>[l]
    IN  UNION {{<<l, p \div Span[l + 1]>> : p \in {q \in Heap : boot(l, q) = NotPresent}}
               : l \in 1 .. 3}

\* "heap initialization failed" means what it says: the machine has fewer usable
\* frames than the heap's pages and their missing tables need, or the heap's
\* range was not free.  No frame is wasted on the way.
HeapFailsOnlyWhenShort ==
    mstep = "panic" =>
        \/ Len(usable_frames(boot_info.memory_map)) < HeapPages + Cardinality(MissingTables)
        \/ \E p \in Heap : translate_addr_inner(boot_info.tables, p) # NotPresent
=============================================================================
