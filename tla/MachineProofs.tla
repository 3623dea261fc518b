--------------------------- MODULE MachineProofs ---------------------------
(***************************************************************************)
(* Proofs about Ata, for any number of sectors and any contents; about     *)
(* Memory, for page tables of any size, any heap and any valid memory map; *)
(* and about the whole machine, of which the invariants of both hold for   *)
(* any boot, any disk and any number of power cuts.                        *)
(***************************************************************************)
EXTENDS Machine, DataLemmas, FiniteSetTheorems

\* Ata.

\* The drive takes a command at once.
Free == status \in {"idle", "err"}

\* The flush that format_drive started and did not wait for.
Trailing == status = "bsy" /\ job = "flush" /\ formatted

\* The words of a sector are with the drive and not yet in its cache.
Storing == status = "bsy" /\ job = "store"

\* What the drive may be doing at each place of the driver.
Handshake ==
    /\ status = "err" => failed
    /\ astep \in {"idle", "format"} => Free \/ Trailing
    /\ astep \in {"wait_bsy", "wait_drq"} =>
          /\ op \in {"read", "write", "format"}
          /\ \/ status \in {"bsy", "drq"} /\ job = (IF op = "read" THEN "read" ELSE "write")
             \/ Free /\ (failed \/ formatted)
             \/ Trailing
    /\ astep = "send_flush" => op \in {"write", "format"} /\ (Free \/ Storing)
    /\ astep = "wait_last" =>
          /\ op \in {"write", "format", "quit"}
          /\ Free \/ (Storing /\ op # "quit") \/ (status = "bsy" /\ job = "flush")
    /\ astep = "off" => op = "quit" /\ Free
    /\ op = "quit" => astep \in {"wait_last", "off"}
    /\ astep = "format" => op = "format"
    /\ op = "format" /\ astep # "idle" => formatting >= 0

\* The drive's cache and platter hold what the driver sent.
Contents ==
    ~failed =>
        /\ \A s \in Sector : IF Storing /\ s = lba THEN meant[s] = data
                             ELSE View(s) = meant[s]
        /\ op = "quit" /\ ~(status = "bsy" /\ job = "flush") =>
              \A s \in Sector : cache[s] = Clean

\* The inductive invariant of the driver and the drive.
AtaInv == AtaTypeOK /\ Handshake /\ Contents /\ ReadsWhatWasWritten

USE AtaConstants DEF AtaConstants

\* The machine starts in a state that satisfies the invariant.
LEMMA AtaInitInv == AtaInit => AtaInv
<1> SUFFICES ASSUME AtaInit PROVE AtaInv
  BY SMTT(30)
<1>1. AtaTypeOK
  <2>1. formatting \in -1 .. LastSector + 1 /\ lba \in Sector
    BY SMTT(30) DEF AtaInit, Sector
  <2>2. cache \in [Sector -> Data \cup {Clean}]
    BY Zenon DEF AtaInit
  <2> QED
    BY <2>1, <2>2, Zenon DEF AtaInit, AtaTypeOK
<1>2. Handshake
  BY SMTT(30) DEF AtaInit, Handshake, Free, Trailing, Storing
<1>3. Contents
  BY SMTT(30) DEF AtaInit, Contents, Storing, View
<1> QED
  BY <1>1, <1>2, <1>3, Zenon DEF AtaInv, AtaInit, ReadsWhatWasWritten

\* Every step of the driver and of the drive keeps the variables in their types.
LEMMA AtaTypeStep == AtaTypeOK /\ Handshake /\ [AtaNext]_avars => AtaTypeOK'
<1> SUFFICES ASSUME AtaTypeOK, Handshake, [AtaNext]_avars PROVE AtaTypeOK'
  BY SMTT(30)
<1> USE DEF AtaTypeOK, Sector
<1>1. CASE Driver
  <2>1. CASE WaitBsy
    BY <2>1, SMTT(30) DEF WaitBsy, drive
  <2>2. CASE TakeWords
    BY <2>2, Zenon DEF TakeWords, Surface, View
  <2>3. CASE SendWords
    BY <2>3, Zenon DEF SendWords, Surface
  <2>4. CASE SendFlush
    BY <2>4 DEF SendFlush, Command, Surface
  <2>5. CASE WaitLast
    BY <2>5, Zenon DEF WaitLast, drive
  <2>6. CASE FormatSector
    <3>1. lba' \in Sector /\ formatting' \in -1 .. LastSector + 1
      BY <2>6 DEF FormatSector, SendWrite, Handshake
    <3>2. data' \in Data
      BY <2>6, Zenon DEF FormatSector, SendWrite
    <3> QED
      BY <2>6, <3>1, <3>2, Zenon DEF FormatSector, SendWrite, Command, Surface
  <2>7. CASE FormatFlush
    BY <2>7, SMTT(30) DEF FormatFlush, Command, Surface
  <2> QED
    BY <1>1, <2>1, <2>2, <2>3, <2>4, <2>5, <2>6, <2>7, Zenon DEF Driver
<1>2. CASE Operation
  <2>1. ASSUME NEW s \in Sector, read_sector(s) PROVE AtaTypeOK'
    BY <2>1, SMTT(30) DEF read_sector, Idle, Command, Surface
  <2>2. ASSUME NEW s \in Sector, NEW d \in Data, write_sector_bytes(s, d) PROVE AtaTypeOK'
    BY <2>2, SMTT(30) DEF write_sector_bytes, SendWrite, Idle, Command, Surface
  <2>3. CASE format_drive
    BY <2>3, SMTT(30) DEF format_drive, Idle, drive
  <2>4. CASE shutdown
    BY <2>4 DEF shutdown, flush_cache, Idle, Command, Surface
  <2> QED
    BY <1>2, <2>1, <2>2, <2>3, <2>4, Zenon DEF Operation
<1>3. CASE Drive
  <2>1. CASE DriveReady
    BY <2>1, Zenon DEF DriveReady, driver
  <2>2. CASE DriveStores
    BY <2>2, Zenon DEF DriveStores, driver
  <2>3. CASE DriveFlushes
    BY <2>3, Zenon DEF DriveFlushes, driver, View
  <2> QED
    BY <1>3, <2>1, <2>2, <2>3, Zenon DEF Drive
<1>4. CASE DriveChooses
  <2>1. CASE DriveFails
    BY <2>1, Zenon DEF DriveFails, driver
  <2>2. ASSUME NEW s \in Sector, DriveDestages(s) PROVE AtaTypeOK'
    <3>1. cache[s] \in Data
      BY <2>2, Zenon DEF DriveDestages
    <3>2. cache' \in [Sector -> Data \cup {Clean}] /\ platter' \in [Sector -> Data]
      BY <2>2, <3>1, Zenon DEF DriveDestages
    <3>3. /\ astep' = astep /\ op' = op /\ lba' = lba /\ data' = data
          /\ formatting' = formatting /\ status' = status /\ job' = job /\ ops' = ops
          /\ cuts' = cuts /\ meant' = meant /\ failed' = failed /\ formatted' = formatted
      BY <2>2, Zenon DEF DriveDestages, driver
    <3>4. /\ lba' \in Sector /\ data' \in Data /\ formatting' \in -1 .. LastSector + 1
          /\ meant' \in [Sector -> Data] /\ ops' \in Nat /\ cuts' \in Nat
          /\ failed' \in BOOLEAN /\ formatted' \in BOOLEAN
      BY <3>3, Zenon
    <3>5. /\ astep' \in {"idle", "wait_bsy", "wait_drq", "send_flush", "wait_last",
                         "format", "off"}
          /\ op' \in {"none", "read", "write", "format", "quit"}
          /\ status' \in {"idle", "bsy", "drq", "err"}
          /\ job' \in {"none", "read", "write", "store", "flush"}
      BY <3>3
    <3> HIDE DEF Sector
    <3> QED
      BY <3>2, <3>4, <3>5, Zenon DEF AtaTypeOK
  <2> QED
    BY <1>4, <2>1, <2>2, Zenon DEF DriveChooses
<1>5. CASE PowerCut
  <2>1. formatting' \in -1 .. LastSector + 1 /\ lba' \in Sector
    BY <1>5, SMTT(30) DEF PowerCut
  <2>2. cache' \in [Sector -> Data \cup {Clean}]
    BY <1>5, Zenon DEF PowerCut
  <2>3. failed' \in BOOLEAN /\ formatted' \in BOOLEAN
    BY <1>5, Zenon DEF PowerCut
  <2> QED
    BY <1>5, <2>1, <2>2, <2>3 DEF PowerCut
<1>6. CASE UNCHANGED avars
  BY <1>6, SMTT(30) DEF avars, driver, drive
<1> QED
  BY <1>1, <1>2, <1>3, <1>4, <1>5, <1>6, Zenon DEF AtaNext

\* Every step keeps the driver and the drive in agreement on the command.
LEMMA HandshakeStep == AtaTypeOK /\ Handshake /\ [AtaNext]_avars => Handshake'
<1> SUFFICES ASSUME AtaTypeOK, Handshake, [AtaNext]_avars PROVE Handshake'
  BY SMTT(30)
<1> USE DEF Handshake, Free, Trailing, Storing, AtaTypeOK
<1>1. CASE Driver
  <2>1. CASE WaitBsy
    BY <2>1, Zenon DEF WaitBsy, drive
  <2>2. CASE TakeWords
    BY <2>2, Zenon DEF TakeWords, Surface
  <2>3. CASE SendWords
    BY <2>3, Zenon DEF SendWords, Surface
  <2>4. CASE SendFlush
    BY <2>4, Zenon DEF SendFlush, Command, Surface
  <2>5. CASE WaitLast
    BY <2>5, Zenon DEF WaitLast, drive
  <2>6. CASE FormatSector
    BY <2>6, SMTT(30) DEF FormatSector, SendWrite, Command, Surface
  <2>7. CASE FormatFlush
    BY <2>7, Zenon DEF FormatFlush, Command, Surface
  <2> QED
    BY <1>1, <2>1, <2>2, <2>3, <2>4, <2>5, <2>6, <2>7, Zenon DEF Driver
<1>2. CASE Operation
  <2>1. ASSUME NEW s \in Sector, read_sector(s) PROVE Handshake'
    BY <2>1, Zenon DEF read_sector, Idle, Command, Surface
  <2>2. ASSUME NEW s \in Sector, NEW d \in Data, write_sector_bytes(s, d) PROVE Handshake'
    BY <2>2, Zenon DEF write_sector_bytes, SendWrite, Idle, Command, Surface
  <2>3. CASE format_drive
    BY <2>3 DEF format_drive, Idle, drive
  <2>4. CASE shutdown
    BY <2>4, Zenon DEF shutdown, flush_cache, Idle, Command, Surface
  <2> QED
    BY <1>2, <2>1, <2>2, <2>3, <2>4, Zenon DEF Operation
<1>3. CASE Drive
  BY <1>3, Zenon DEF Drive, DriveReady, DriveStores, DriveFlushes, driver
<1>4. CASE DriveChooses
  BY <1>4 DEF DriveChooses, DriveFails, DriveDestages, driver
<1>5. CASE PowerCut
  BY <1>5, Zenon DEF PowerCut
<1>6. CASE UNCHANGED avars
  BY <1>6, SMTT(30) DEF avars, driver, drive
<1> QED
  BY <1>1, <1>2, <1>3, <1>4, <1>5, <1>6, Zenon DEF AtaNext

\* Every step keeps what was sent in the drive, and what quit flushed on the
\* platter.
LEMMA ContentsStep ==
    AtaTypeOK /\ Handshake /\ Contents /\ [AtaNext]_avars => Contents'
<1> SUFFICES ASSUME AtaTypeOK, Handshake, Contents, [AtaNext]_avars PROVE Contents'
  BY SMTT(30)
<1> USE DEF Contents, Storing, View
<1>1. CASE Driver
  <2>1. CASE WaitBsy
    BY <2>1, Zenon DEF WaitBsy, drive
  <2>2. CASE TakeWords
    BY <2>2, Zenon DEF TakeWords, Surface
  <2>3. CASE SendWords
    BY <2>3, Zenon DEF SendWords, Surface, AtaTypeOK
  <2>4. CASE SendFlush
    BY <2>4, Zenon DEF SendFlush, Command, Surface, Handshake
  <2>5. CASE WaitLast
    BY <2>5, Zenon DEF WaitLast, drive
  <2>6. CASE FormatSector
    BY <2>6, Zenon DEF FormatSector, SendWrite, Command, Surface, Handshake, Free, Trailing
  <2>7. CASE FormatFlush
    BY <2>7, Zenon DEF FormatFlush, Command, Surface, Handshake, Free, Trailing
  <2> QED
    BY <1>1, <2>1, <2>2, <2>3, <2>4, <2>5, <2>6, <2>7, Zenon DEF Driver
<1>2. CASE Operation
  <2>1. ASSUME NEW s \in Sector, read_sector(s) PROVE Contents'
    BY <2>1, Zenon DEF read_sector, Idle, Command, Surface, Handshake, Free, Trailing
  <2>2. ASSUME NEW s \in Sector, NEW d \in Data, write_sector_bytes(s, d) PROVE Contents'
    BY <2>2, Zenon DEF write_sector_bytes, SendWrite, Idle, Command, Surface, Handshake,
                Free, Trailing
  <2>3. CASE format_drive
    BY <2>3, Zenon DEF format_drive, Idle, drive, Handshake, Free, Trailing
  <2>4. CASE shutdown
    BY <2>4, Zenon DEF shutdown, flush_cache, Idle, Command, Surface, Handshake, Free, Trailing
  <2> QED
    BY <1>2, <2>1, <2>2, <2>3, <2>4, Zenon DEF Operation
<1>3. CASE Drive
  <2>1. CASE DriveReady
    BY <2>1, Zenon DEF DriveReady, driver
  <2>2. CASE DriveStores
    BY <2>2, Zenon DEF DriveStores, driver, AtaTypeOK, Handshake, Free, Trailing
  <2>3. CASE DriveFlushes
    BY <2>3, Zenon DEF DriveFlushes, driver
  <2> QED
    BY <1>3, <2>1, <2>2, <2>3, Zenon DEF Drive
<1>4. CASE DriveChooses
  <2>1. CASE DriveFails
    BY <2>1, Zenon DEF DriveFails
  <2>2. ASSUME NEW s \in Sector, DriveDestages(s) PROVE Contents'
    BY <2>2, Zenon DEF DriveDestages, driver, AtaTypeOK
  <2> QED
    BY <1>4, <2>1, <2>2, Zenon DEF DriveChooses
<1>5. CASE PowerCut
  BY <1>5, Zenon DEF PowerCut
<1>6. CASE UNCHANGED avars
  BY <1>6, Zenon DEF avars, driver, drive
<1> QED
  BY <1>1, <1>2, <1>3, <1>4, <1>5, <1>6, Zenon DEF AtaNext

\* Every step keeps the answer of a read that returned up to date.
LEMMA ReadStep ==
    AtaInv /\ [AtaNext]_avars => ReadsWhatWasWritten'
<1> SUFFICES ASSUME AtaInv, [AtaNext]_avars PROVE ReadsWhatWasWritten'
  BY SMTT(30)
<1> USE DEF AtaInv, ReadsWhatWasWritten
<1>1. CASE TakeWords
  BY <1>1, Zenon DEF TakeWords, Contents, Storing, AtaTypeOK
<1>2. CASE Driver /\ ~TakeWords
  BY <1>2, Zenon DEF Driver, WaitBsy, SendWords, SendFlush, WaitLast, FormatSector, SendWrite,
              FormatFlush, Handshake
<1>3. CASE Operation
  BY <1>3, Zenon DEF Operation, read_sector, write_sector_bytes, SendWrite, format_drive,
              shutdown, flush_cache
<1>4. CASE Drive \/ DriveChooses
  BY <1>4, Zenon DEF Drive, DriveChooses, DriveReady, DriveStores, DriveFlushes, DriveFails,
              DriveDestages, driver
<1>5. CASE PowerCut
  BY <1>5, Zenon DEF PowerCut
<1>6. CASE UNCHANGED avars
  BY <1>6, Zenon DEF avars, driver
<1> QED
  BY <1>1, <1>2, <1>3, <1>4, <1>5, <1>6, Zenon DEF AtaNext

\* The invariant is inductive.
LEMMA AtaInvStep == AtaInv /\ [AtaNext]_avars => AtaInv'
  BY AtaTypeStep, HandshakeStep, ContentsStep, ReadStep, Zenon DEF AtaInv

\* The invariant implies what the runs check.
LEMMA AtaInvImplies ==
    AtaInv => QuitLosesNothing /\ ReadsWhatWasWritten /\ HangsOnlyAfterFormat
<1> SUFFICES ASSUME AtaInv PROVE QuitLosesNothing /\ HangsOnlyAfterFormat
  BY SMTT(30) DEF AtaInv
<1>1. QuitLosesNothing
  <2> SUFFICES ASSUME astep = "off", ~failed PROVE platter = meant
    BY SMTT(30) DEF QuitLosesNothing
  <2>1. \A s \in Sector : platter[s] = meant[s]
    BY SMTT(30) DEF AtaInv, Handshake, Contents, Storing, Free, View
  <2> QED
    BY <2>1, SMTT(30) DEF AtaInv, AtaTypeOK
<1>2. HangsOnlyAfterFormat
  BY DEF HangsOnlyAfterFormat, Hung, AtaInv, Handshake, Trailing
<1> QED
  BY <1>1, <1>2, Zenon

HIDE AtaConstants DEF AtaConstants
-----------------------------------------------------------------------------
\* Memory.

\* What usable_frames lists.
Frames == usable_frames(boot_info.memory_map)

\* allocate_frame has returned this frame.
Given(f) == \E k \in 1 .. Len(Frames) : k <= next /\ f = Frames[k]

At(p) == translate_addr_inner(tables, p)

\* The table of a level on the way to a page.
Way(t, p, l) ==
    CASE l = 4 -> Cr3 [] l = 3 -> P3(t, p) [] l = 2 -> P2(t, p) [] l = 1 -> P1(t, p)

\* The inductive invariant: page tables and heap pages lie on frames that the
\* allocator gave, no frame was given for two purposes, and map_to stands on the
\* way to the page it maps.
MemoryInv ==
    /\ MemoryTypeOK
    /\ Cr3 \in DOMAIN tables /\ tables[Cr3].level = 4
    /\ \A f \in DOMAIN tables : f \in DOMAIN boot_info.tables \/ Given(f)
    /\ \A p \in Mapped : Given(At(p)) /\ At(p) \notin DOMAIN tables
    /\ \A p, q \in Mapped : p # q => At(p) # At(q)
    /\ mstep = "map" =>
          /\ page \in Heap
          /\ Given(frame) /\ frame \notin DOMAIN tables
          /\ \A p \in Mapped : At(p) # frame
          /\ Way(tables, page, level) = table
    /\ mstep = "allocate" => page \in Heap
    /\ mstep = "ready" => page = HeapStart + HeapPages

\* The values an entry may have are different.
LEMMA Values ==
    /\ NotPresent \notin Frame /\ HugePage \notin Frame /\ Garbage \notin Frame
    /\ NotPresent # HugePage /\ NotPresent # Garbage /\ HugePage # Garbage
  BY MemoryConstants, Zenon DEF MemoryConstants, Frame

\* The bits of an address that select an entry are an index of a table.
LEMMA IndexInRange ==
    ASSUME NEW p \in Page, NEW l \in 1 .. 4
    PROVE  index(p, l) \in Index
<1>0. Entries \in Nat \ {0}
  BY MemoryConstants, Zenon DEF MemoryConstants
<1>1. Entries * Entries \in Nat \ {0}
  BY <1>0
<1>2. Entries * Entries * Entries \in Nat \ {0}
  BY <1>0, <1>1
<1>3. Span[l] \in Nat \ {0}
  BY <1>0, <1>1, <1>2 DEF Span
<1>4. p \in Nat
  BY <1>0, <1>2 DEF Page
<1>5. (p \div Span[l]) \in Nat
  BY <1>3, <1>4
<1> QED
  BY <1>0, <1>5 DEF index, Index

\* Page tables u keep every entry that is present in t.
Extends(t, u) ==
    \A f \in DOMAIN t : f \in DOMAIN u /\ \A i \in Index :
        t[f].entry[i] # NotPresent => u[f].entry[i] = t[f].entry[i]

\* One turn of the walk: an entry that is found, in a table or already above it,
\* is found again when entries are only added.
LEMMA EntryStays ==
    ASSUME NEW t, NEW u, Extends(t, u), NEW e, e \in Frame => e \in DOMAIN t,
           e \in Frame \cup {HugePage, Garbage}, DOMAIN t \subseteq Frame,
           DOMAIN u \subseteq Frame, NEW i \in Index, Entry(t, e, i) # NotPresent
    PROVE  Entry(u, e, i) = Entry(t, e, i)
  BY Values, Zenon DEF Entry, Extends

\* One turn of the walk leads from a table to one of the next level, or to no
\* table at all.
LEMMA EntryLinked ==
    ASSUME NEW t, WellLinked(t), NEW e, NEW l \in 2 .. 4, NEW i \in Index,
           e \in Frame => e \in DOMAIN t /\ t[e].level = l,
           e \in Frame \cup {NotPresent, HugePage, Garbage}
    PROVE  /\ Entry(t, e, i) \in Frame \cup {NotPresent, HugePage, Garbage}
           /\ Entry(t, e, i) \in Frame => /\ Entry(t, e, i) \in DOMAIN t
                                          /\ t[Entry(t, e, i)].level = l - 1
<1>1. CASE e \in {NotPresent, HugePage, Garbage}
  BY <1>1, Values, Zenon DEF Entry, WellLinked
<1>2. CASE e \in Frame
  <2>1. Entry(t, e, i) = t[e].entry[i]
    BY <1>2, Values, Zenon DEF Entry
  <2>2. t[e].entry[i] \in Frame \cup {NotPresent, HugePage}
    BY <1>2, Zenon DEF WellLinked
  <2>3. t[e].level > 1 /\ t[e].level = l
    BY <1>2
  <2> QED
    BY <1>2, <2>1, <2>2, <2>3, Zenon DEF WellLinked
<1> QED
  BY <1>1, <1>2, Zenon

\* The walk stays in the page tables, one level down at each turn.
LEMMA WalkLinked ==
    ASSUME NEW t, WellLinked(t), Cr3 \in DOMAIN t, t[Cr3].level = 4, NEW p \in Page
    PROVE  /\ P3(t, p) \in Frame \cup {NotPresent, HugePage, Garbage}
           /\ P2(t, p) \in Frame \cup {NotPresent, HugePage, Garbage}
           /\ P1(t, p) \in Frame \cup {NotPresent, HugePage, Garbage}
           /\ P3(t, p) \in Frame => P3(t, p) \in DOMAIN t /\ t[P3(t, p)].level = 3
           /\ P2(t, p) \in Frame => P2(t, p) \in DOMAIN t /\ t[P2(t, p)].level = 2
           /\ P1(t, p) \in Frame => P1(t, p) \in DOMAIN t /\ t[P1(t, p)].level = 1
<1> Cr3 \in Frame
  BY Zenon DEF WellLinked
<1> \A l \in 1 .. 4 : index(p, l) \in Index
  BY IndexInRange, Zenon
<1>1. /\ P3(t, p) \in Frame \cup {NotPresent, HugePage, Garbage}
      /\ P3(t, p) \in Frame => P3(t, p) \in DOMAIN t /\ t[P3(t, p)].level = 4 - 1
  BY EntryLinked DEF P3
<1>2. /\ P2(t, p) \in Frame \cup {NotPresent, HugePage, Garbage}
      /\ P2(t, p) \in Frame => P2(t, p) \in DOMAIN t /\ t[P2(t, p)].level = 3 - 1
  BY <1>1, EntryLinked DEF P2
<1>3. /\ P1(t, p) \in Frame \cup {NotPresent, HugePage, Garbage}
      /\ P1(t, p) \in Frame => P1(t, p) \in DOMAIN t /\ t[P1(t, p)].level = 2 - 1
  BY <1>2, EntryLinked DEF P1
<1> QED
  BY <1>1, <1>2, <1>3

\* Adding entries changes no walk that found something.
LEMMA WalkStays ==
    ASSUME NEW t, NEW u, WellLinked(t), DOMAIN u \subseteq Frame, Extends(t, u),
           Cr3 \in DOMAIN t, t[Cr3].level = 4, NEW p \in Page
    PROVE  /\ P3(t, p) # NotPresent => P3(u, p) = P3(t, p)
           /\ P2(t, p) # NotPresent => P2(u, p) = P2(t, p)
           /\ P1(t, p) # NotPresent => P1(u, p) = P1(t, p)
           /\ translate_addr_inner(t, p) # NotPresent =>
                 translate_addr_inner(u, p) = translate_addr_inner(t, p)
<1> DOMAIN t \subseteq Frame /\ Cr3 \in Frame
  BY Zenon DEF WellLinked
<1> \A l \in 1 .. 4 : index(p, l) \in Index
  BY IndexInRange, Zenon
<1>0. /\ P2(t, p) # NotPresent => P3(t, p) # NotPresent
      /\ P1(t, p) # NotPresent => P2(t, p) # NotPresent
      /\ translate_addr_inner(t, p) # NotPresent => P1(t, p) # NotPresent
  BY Zenon DEF P2, P1, translate_addr_inner, Entry
<1>1. P3(t, p) # NotPresent => P3(u, p) = P3(t, p)
  BY EntryStays, SMTT(30) DEF P3
<1>2. P2(t, p) # NotPresent => P2(u, p) = P2(t, p)
  BY <1>0, <1>1, EntryStays, WalkLinked DEF P2
<1>3. P1(t, p) # NotPresent => P1(u, p) = P1(t, p)
  BY <1>0, <1>2, EntryStays, WalkLinked DEF P1
<1>4. translate_addr_inner(t, p) # NotPresent =>
         translate_addr_inner(u, p) = translate_addr_inner(t, p)
  BY <1>0, <1>3, EntryStays, WalkLinked DEF translate_addr_inner
<1> QED
  BY <1>1, <1>2, <1>3, <1>4, Zenon

\* What the memory map promises of the frames it lists.
LEMMA FramesValid ==
    ASSUME boot_info \in BootInfos
    PROVE  /\ Frames \in Seq(Frame)
           /\ \A i, j \in 1 .. Len(Frames) : i # j => Frames[i] # Frames[j]
           /\ \A i \in 1 .. Len(Frames) : Frames[i] \notin DOMAIN boot_info.tables
           /\ WellLinked(boot_info.tables)
           /\ Cr3 \in DOMAIN boot_info.tables /\ boot_info.tables[Cr3].level = 4
  BY MemoryConstants, Zenon DEF MemoryConstants, Frames

\* The frame that allocate_frame gives next is neither a page table's nor one it
\* gave before.
LEMMA FreshFrame ==
    ASSUME MemoryInv, next < Len(Frames)
    PROVE  /\ Frames[next + 1] \in Frame /\ Frames[next + 1] \notin DOMAIN tables
           /\ ~Given(Frames[next + 1])
           /\ allocate_frame.frame = Frames[next + 1]
           /\ allocate_frame.next = next + 1
<1> next \in Nat /\ boot_info \in BootInfos
  BY Zenon DEF MemoryInv, MemoryTypeOK
<1>1. next + 1 \in 1 .. Len(Frames)
  BY FramesValid, SMTT(30)
<1>2. ~Given(Frames[next + 1])
  BY <1>1, FramesValid DEF Given
<1>3. Frames[next + 1] \in Frame
  BY <1>1, FramesValid
<1>4. Frames[next + 1] \notin DOMAIN tables
  BY <1>1, <1>2, FramesValid, Zenon DEF MemoryInv
<1> QED
  BY <1>2, <1>3, <1>4, Zenon DEF allocate_frame, Frames

\* Without a frame left allocate_frame says so, and otherwise it gives one.
LEMMA AllocateFrame ==
    ASSUME MemoryInv
    PROVE  /\ allocate_frame.next = next + 1
           /\ allocate_frame.frame # NotPresent => next < Len(Frames)
  BY Zenon DEF allocate_frame, Frames

\* A frame that was given stays given.
LEMMA GivenStays ==
    ASSUME MemoryInv, boot_info' = boot_info, next' \in {next, next + 1}
    PROVE  /\ \A f : Given(f) => Given(f)'
           /\ next < Len(Frames) /\ next' = next + 1 =>
                 \A f : f = Frames[next + 1] => Given(f)'
<1> next \in Nat /\ boot_info \in BootInfos /\ Frames' = Frames
  BY Zenon DEF MemoryInv, MemoryTypeOK, Frames
<1>1. Len(Frames) \in Nat
  BY FramesValid
<1>2. \A f : Given(f) => Given(f)'
  BY <1>1 DEF Given
<1>3. ASSUME next < Len(Frames), next' = next + 1, NEW f, f = Frames[next + 1]
      PROVE  Given(f)'
  <2>1. next + 1 \in 1 .. Len(Frames)
    BY <1>1, <1>3
  <2> QED
    BY <1>3, <2>1 DEF Given
<1> QED
  BY <1>2, <1>3, Zenon

\* The boot starts in a state that satisfies the invariant.
LEMMA MemoryInitInv == MemoryInit => MemoryInv
<1> SUFFICES ASSUME MemoryInit PROVE MemoryInv
  OBVIOUS
<1> USE DEF MemoryInit
<1>1. HeapStart \in Nat /\ HeapPages \in Nat \ {0}
  BY MemoryConstants, Zenon DEF MemoryConstants
<1>2. Mapped = {} /\ page \in Heap
  BY <1>1 DEF Mapped, Heap
<1>3. MemoryTypeOK
  BY <1>1, FramesValid DEF MemoryTypeOK
<1> QED
  BY <1>2, <1>3, FramesValid, Zenon DEF MemoryInv

\* A step that leaves the page tables and the page alone.
LEMMA TablesKept ==
    ASSUME MemoryInv, boot_info' = boot_info, next' \in {next, next + 1},
           tables' = tables, page' = page
    PROVE  /\ Cr3 \in DOMAIN tables' /\ tables'[Cr3].level = 4
           /\ \A f \in DOMAIN tables' : f \in DOMAIN boot_info'.tables \/ Given(f)'
           /\ Mapped' = Mapped /\ \A p : At(p)' = At(p)
           /\ \A p \in Mapped' : Given(At(p))' /\ At(p)' \notin DOMAIN tables'
           /\ \A p, q \in Mapped' : p # q => At(p)' # At(q)'
<1>1. Mapped' = Mapped /\ \A p : At(p)' = At(p)
  BY SMTT(30) DEF Mapped, At
<1>2. \A p \in Mapped : Given(At(p))'
  BY GivenStays, <1>1, Zenon DEF MemoryInv, Given
<1> QED
  BY <1>1, <1>2, GivenStays, Zenon DEF MemoryInv

\* Taking a frame for the next page keeps the invariant.
LEMMA AllocatePageStep == MemoryInv /\ AllocatePage => MemoryInv'
<1> SUFFICES ASSUME MemoryInv, AllocatePage PROVE MemoryInv'
  OBVIOUS
<1>1. next' = next + 1 /\ boot_info' = boot_info /\ tables' = tables /\ page' = page
  BY AllocateFrame, Zenon DEF AllocatePage, HeapFails
<1>2. next \in Nat /\ boot_info \in BootInfos /\ mstep = "allocate" /\ page \in Heap
  BY Zenon DEF MemoryInv, MemoryTypeOK, AllocatePage
<1>3. CASE allocate_frame.frame = NotPresent
  <2>1. HeapFails
    BY <1>3, Zenon DEF AllocatePage
  <2>2. MemoryTypeOK'
    BY <1>1, <1>2, <2>1 DEF HeapFails, MemoryInv, MemoryTypeOK
  <2> QED
    BY <1>1, <2>1, <2>2, TablesKept, Zenon DEF MemoryInv, HeapFails
<1>4. CASE allocate_frame.frame # NotPresent
  <2>1. /\ frame' = Frames[next + 1] /\ mstep' = "map" /\ table' = Cr3 /\ level' = 4
    BY <1>4, AllocateFrame, FreshFrame, Zenon DEF AllocatePage
  <2>2. /\ Frames[next + 1] \in Frame /\ Frames[next + 1] \notin DOMAIN tables
        /\ ~Given(Frames[next + 1]) /\ next < Len(Frames)
    BY <1>4, AllocateFrame, FreshFrame, Zenon
  <2>3. MemoryTypeOK'
    BY <1>1, <1>2, <2>1, <2>2 DEF MemoryInv, MemoryTypeOK
  <2>4. Given(frame)'
    <3> DEFINE f == Frames[next + 1]
    <3>1. \A g : g = f => Given(g)'
      BY <1>1, <2>2, GivenStays, Zenon
    <3> QED
      BY <2>1, <3>1, Zenon DEF Given
  <2>5. \A p \in Mapped : At(p) # Frames[next + 1]
    BY <2>2, Zenon DEF MemoryInv
  <2>6. Way(tables', page', level') = table'
    BY <2>1 DEF Way
  <2>7. /\ Cr3 \in DOMAIN tables' /\ tables'[Cr3].level = 4
        /\ \A g \in DOMAIN tables' : g \in DOMAIN boot_info'.tables \/ Given(g)'
        /\ Mapped' = Mapped /\ \A p : At(p)' = At(p)
        /\ \A p \in Mapped' : Given(At(p))' /\ At(p)' \notin DOMAIN tables'
        /\ \A p, q \in Mapped' : p # q => At(p)' # At(q)'
    BY <1>1, TablesKept, Zenon
  <2> QED
    BY <1>1, <1>2, <2>1, <2>2, <2>3, <2>4, <2>5, <2>6, <2>7, Zenon DEF MemoryInv
<1> QED
  BY <1>3, <1>4, Zenon

\* Going down one table keeps map_to on the way to its page.
LEMMA DescendStep == MemoryInv /\ Descend => MemoryInv'
<1> SUFFICES ASSUME MemoryInv, Descend PROVE MemoryInv'
  BY Zenon
<1> USE DEF Descend
<1>1. /\ next' = next /\ boot_info' = boot_info /\ tables' = tables /\ page' = page
      /\ mstep = "map" /\ mstep' = mstep /\ frame' = frame
  BY SMTT(30)
<1>2. /\ next \in Nat /\ boot_info \in BootInfos /\ page \in Heap /\ level \in 2 .. 4
      /\ WellLinked(tables) /\ table \in DOMAIN tables /\ tables[table].level = level
      /\ Way(tables, page, level) = table
  BY DEF MemoryInv, MemoryTypeOK
<1>3. page \in Page
  BY <1>2, MemoryConstants, Zenon DEF MemoryConstants
<1>4. index(page, level) \in Index
  BY <1>2, <1>3, IndexInRange
<1>5. table' \in DOMAIN tables /\ tables[table'].level = level' /\ level' \in 1 .. 4
  BY <1>2, <1>4, SMTT(30) DEF Here, WellLinked
<1>6. MemoryTypeOK'
  BY <1>1, <1>5 DEF MemoryInv, MemoryTypeOK
<1>7. Entry(tables, table, index(page, level)) = Here
  BY <1>2, Values, Zenon DEF Entry, Here, WellLinked
<1>8. Way(tables, page, level - 1) = Here
  BY <1>2, <1>7 DEF Way, P3, P2, P1
<1>9. Given(frame)'
  BY <1>1, GivenStays, Zenon DEF MemoryInv, Given, Frames
<1>10. /\ Cr3 \in DOMAIN tables' /\ tables'[Cr3].level = 4
       /\ \A g \in DOMAIN tables' : g \in DOMAIN boot_info'.tables \/ Given(g)'
       /\ Mapped' = Mapped /\ \A p : At(p)' = At(p)
       /\ \A p \in Mapped' : Given(At(p))' /\ At(p)' \notin DOMAIN tables'
       /\ \A p, q \in Mapped' : p # q => At(p)' # At(q)'
  BY <1>1, TablesKept, Zenon
<1>11. Way(tables', page', level') = table'
  BY <1>1, <1>8, Zenon
<1>12. frame' \notin DOMAIN tables' /\ \A p \in Mapped' : At(p)' # frame'
  BY <1>1, <1>10, Zenon DEF MemoryInv
<1> QED
  BY <1>1, <1>2, <1>6, <1>9, <1>10, <1>11, <1>12, Zenon DEF MemoryInv

\* An error of init_heap keeps the invariant.
LEMMA MapFailsStep == MemoryInv /\ MapFails => MemoryInv'
<1> SUFFICES ASSUME MemoryInv, MapFails PROVE MemoryInv'
  BY Zenon
<1> USE DEF MapFails, HeapFails
<1>1. next' = next /\ boot_info' = boot_info /\ tables' = tables /\ page' = page
  BY SMTT(30)
<1>2. MemoryTypeOK'
  BY <1>1, Zenon DEF MemoryInv, MemoryTypeOK
<1> QED
  BY <1>1, <1>2, TablesKept, Zenon DEF MemoryInv

\* Making a table from a fresh frame f only adds entries, and links well.
LEMMA WithTableExtends ==
    ASSUME MemoryInv, mstep = "map", level > 1, Here = NotPresent,
           NEW f \in Frame, f \notin DOMAIN tables
    PROVE  /\ Extends(tables, WithTable(f)) /\ WellLinked(WithTable(f))
           /\ DOMAIN WithTable(f) = DOMAIN tables \cup {f}
           /\ WithTable(f)[f].level = level - 1
           /\ WithTable(f)[table].entry[index(page, level)] = f
           /\ \A g \in DOMAIN tables : WithTable(f)[g].level = tables[g].level
<1> DEFINE u == WithTable(f)
           i0 == index(page, level)
<1>1. /\ level \in 2 .. 4 /\ WellLinked(tables) /\ table \in DOMAIN tables
      /\ tables[table].level = level /\ page \in Page /\ DOMAIN tables \subseteq Frame
  BY MemoryConstants DEF MemoryConstants, MemoryInv, MemoryTypeOK, WellLinked
<1>2. i0 \in Index
  BY <1>1, IndexInRange
<1>3. DOMAIN u = DOMAIN tables \cup {f}
  BY Zenon DEF WithTable
<1>4. u[f] = [level |-> level - 1, entry |-> [i \in Index |-> NotPresent]]
  BY <1>3, Zenon DEF WithTable
<1>5. \A g \in DOMAIN tables \ {table} : u[g] = tables[g]
  BY Zenon DEF WithTable
<1>6. u[table] = [tables[table] EXCEPT !.entry[i0] = f]
  BY <1>1, Zenon DEF WithTable
<1>7. tables[table] \in [level : 1 .. 4, entry : [Index -> Frame \cup {NotPresent, HugePage}]]
  BY <1>1, Zenon DEF WellLinked
<1>8. /\ u[table].level = level
      /\ u[table].entry = [tables[table].entry EXCEPT ![i0] = f]
      /\ u[table] \in [level : 1 .. 4, entry : [Index -> Frame \cup {NotPresent, HugePage}]]
  BY <1>1, <1>2, <1>6, <1>7
<1> HIDE DEF u, i0
<1>9. Extends(tables, u)
  BY <1>1, <1>2, <1>3, <1>5, <1>7, <1>8, Zenon DEF Extends, Here, i0
<1>10. \A g \in DOMAIN tables : u[g].level = tables[g].level
  BY <1>1, <1>5, <1>8, Zenon
<1>11. u[table].entry[i0] = f
  BY <1>2, <1>7, <1>8, Zenon
<1>12. WellLinked(u)
  <2>1. DOMAIN u \subseteq Frame
    BY <1>1, <1>3, Zenon
  <2>2. \A g \in DOMAIN u :
          u[g] \in [level : 1 .. 4, entry : [Index -> Frame \cup {NotPresent, HugePage}]]
    <3>1. u[f] \in [level : 1 .. 4, entry : [Index -> Frame \cup {NotPresent, HugePage}]]
      BY <1>1, <1>4
    <3> QED
      BY <1>1, <1>3, <1>5, <1>8, <3>1, Zenon DEF WellLinked
  <2>3. ASSUME NEW g \in DOMAIN u, u[g].level > 1, NEW i \in Index, u[g].entry[i] \in Frame
        PROVE  u[g].entry[i] \in DOMAIN u /\ u[u[g].entry[i]].level = u[g].level - 1
    <3>1. CASE g = f
      BY <1>4, <2>3, <3>1, Values, SMTT(30)
    <3>2. CASE g = table /\ i = i0
      BY <1>1, <1>3, <1>4, <1>8, <1>11, <3>2
    <3>3. CASE g # f /\ ~(g = table /\ i = i0)
      <4>1. g \in DOMAIN tables /\ u[g].entry[i] = tables[g].entry[i]
        BY <1>1, <1>2, <1>3, <1>5, <1>7, <1>8, <3>3, Zenon
      <4>2. u[g].level = tables[g].level
        BY <1>10, <4>1, Zenon
      <4>3. /\ tables[g].entry[i] \in DOMAIN tables
            /\ tables[tables[g].entry[i]].level = tables[g].level - 1
        BY <1>1, <2>3, <4>1, <4>2, Zenon DEF WellLinked
      <4> QED
        BY <1>3, <1>10, <4>1, <4>2, <4>3, Zenon
    <3> QED
      BY <3>1, <3>2, <3>3, Zenon
  <2> QED
    BY <2>1, <2>2, <2>3, Zenon DEF WellLinked
<1>13. u[f].level = level - 1
  BY <1>4
<1> QED
  BY <1>3, <1>9, <1>10, <1>11, <1>12, <1>13, Zenon DEF u, i0

\* A frame the allocator gave, on which a heap page lies, is on the way to no
\* page and is found again when entries are only added.
LEMMA MappedStays ==
    ASSUME MemoryInv, Extends(tables, tables'), DOMAIN tables' \subseteq Frame
    PROVE  /\ \A p \in Page : At(p) # NotPresent => At(p)' = At(p)
           /\ \A p \in Mapped : At(p)' = At(p)
<1>1. WellLinked(tables) /\ Cr3 \in DOMAIN tables /\ tables[Cr3].level = 4
  BY DEF MemoryInv, MemoryTypeOK
<1>2. \A p \in Page : At(p) # NotPresent => At(p)' = At(p)
  BY <1>1, WalkStays, Zenon DEF At
<1>3. ASSUME NEW p \in Mapped PROVE p \in Page /\ At(p) # NotPresent
  <2>1. p \in Page
    BY <1>3, MemoryConstants, Zenon DEF MemoryConstants, Mapped
  <2>2. Given(At(p)) /\ boot_info \in BootInfos
    BY <1>3, Zenon DEF MemoryInv, MemoryTypeOK
  <2>3. At(p) \in Frame
    BY <2>2, FramesValid DEF Given
  <2> QED
    BY <2>1, <2>3, Values, Zenon
<1> QED
  BY <1>2, <1>3, SMTT(30)

\* Making a page table keeps the invariant.
LEMMA CreateTableStep == MemoryInv /\ CreateTable => MemoryInv'
<1> SUFFICES ASSUME MemoryInv, CreateTable PROVE MemoryInv'
  BY Zenon
<1>1. next' = next + 1 /\ boot_info' = boot_info /\ page' = page /\ frame' = frame
  BY AllocateFrame, Zenon DEF CreateTable, HeapFails
<1>2. /\ next \in Nat /\ boot_info \in BootInfos /\ mstep = "map" /\ page \in Heap
      /\ level \in 2 .. 4 /\ Here = NotPresent
      /\ WellLinked(tables) /\ table \in DOMAIN tables
      /\ Way(tables, page, level) = table
      /\ Cr3 \in DOMAIN tables /\ tables[Cr3].level = 4
  BY SMTT(30) DEF MemoryInv, MemoryTypeOK, CreateTable
<1>3. CASE allocate_frame.frame = NotPresent
  <2>1. HeapFails
    BY <1>3, Zenon DEF CreateTable
  <2>2. MemoryTypeOK'
    BY <1>1, <1>2, <2>1 DEF HeapFails, MemoryInv, MemoryTypeOK
  <2> QED
    BY <1>1, <2>1, <2>2, TablesKept, Zenon DEF MemoryInv, HeapFails
<1>4. ASSUME allocate_frame.frame # NotPresent PROVE MemoryInv'
  <2> DEFINE f == Frames[next + 1]
  <2>1. /\ tables' = WithTable(f) /\ table' = f /\ level' = level - 1 /\ mstep' = mstep
    BY <1>4, AllocateFrame, FreshFrame, Zenon DEF CreateTable
  <2>2. /\ f \in Frame /\ f \notin DOMAIN tables /\ ~Given(f) /\ next < Len(Frames)
    BY <1>4, AllocateFrame, FreshFrame, Zenon
  <2>3. /\ \A g : Given(g) => Given(g)'
        /\ \A g : g = f => Given(g)'
    BY <1>1, <2>2, GivenStays, Zenon
  <2> HIDE DEF f
  <2>4. /\ Extends(tables, tables') /\ WellLinked(tables')
        /\ DOMAIN tables' = DOMAIN tables \cup {f}
        /\ tables'[f].level = level - 1
        /\ tables'[table].entry[index(page, level)] = f
        /\ \A g \in DOMAIN tables : tables'[g].level = tables[g].level
    <3>1. level > 1
      BY <1>2
    <3>2. /\ Extends(tables, WithTable(f)) /\ WellLinked(WithTable(f))
          /\ DOMAIN WithTable(f) = DOMAIN tables \cup {f}
          /\ WithTable(f)[f].level = level - 1
          /\ WithTable(f)[table].entry[index(page, level)] = f
          /\ \A g \in DOMAIN tables : WithTable(f)[g].level = tables[g].level
      BY <1>2, <2>2, <3>1, WithTableExtends, Zenon
    <3> QED
      BY <2>1, <3>2, Zenon
  <2>5. MemoryTypeOK'
    BY <1>1, <1>2, <2>1, <2>2, <2>4 DEF MemoryInv, MemoryTypeOK
  <2>6. Mapped' = Mapped
    BY <1>1 DEF Mapped
  <2>7. \A p \in Mapped : At(p)' = At(p)
    BY <2>4, MappedStays, Zenon DEF WellLinked
  <2>8. \A p \in Mapped : Given(At(p)) /\ At(p) \notin DOMAIN tables'
    BY <2>2, <2>4, Zenon DEF MemoryInv
  <2>9. \A p \in Mapped' : Given(At(p))' /\ At(p)' \notin DOMAIN tables'
    <3>1. ASSUME NEW p \in Mapped PROVE Given(At(p))'
      <4>1. \A g : g = At(p) => Given(g)'
        BY <2>3, <2>8, <3>1, Zenon
      <4> QED
        BY <2>7, <3>1, <4>1, Zenon DEF Given
    <3> QED
      BY <2>6, <2>7, <2>8, <3>1, Zenon
  <2>10. \A p, q \in Mapped' : p # q => At(p)' # At(q)'
    BY <2>6, <2>7, SMTT(30) DEF MemoryInv
  <2>11. \A g \in DOMAIN tables' : g \in DOMAIN boot_info'.tables \/ Given(g)'
    BY <1>1, <2>3, <2>4 DEF MemoryInv
  <2>12. Given(frame)' /\ frame' \notin DOMAIN tables' /\ \A p \in Mapped' : At(p)' # frame'
    <3>1. Given(frame) /\ frame \notin DOMAIN tables /\ \A p \in Mapped : At(p) # frame
      BY <1>2, Zenon DEF MemoryInv
    <3>2. \A g : g = frame => Given(g)'
      BY <2>3, <3>1, Zenon
    <3>3. Given(frame)'
      BY <1>1, <3>2, Zenon DEF Given
    <3> QED
      BY <1>1, <2>2, <2>4, <2>6, <2>7, <3>1, <3>3, Zenon
  <2>13. page \in Page /\ table \in Frame
    BY <1>2, MemoryConstants, Zenon DEF MemoryConstants, WellLinked
  <2>14. Way(tables', page, level) = table
    BY <1>2, <2>4, <2>13, WalkStays, Values DEF Way, WellLinked
  <2>15. Way(tables', page, level - 1) = f
    <3>1. Entry(tables', table, index(page, level)) = f
      BY <1>2, <2>4, <2>13, Values, Zenon DEF Entry
    <3> QED
      BY <1>2, <2>14, <3>1 DEF Way, P3, P2, P1
  <2> QED
    BY <1>1, <1>2, <2>1, <2>4, <2>5, <2>9, <2>10, <2>11, <2>12, <2>15, Zenon DEF MemoryInv
<1> QED
  BY <1>3, <1>4, Zenon

\* Entering the page's frame keeps the invariant.
LEMMA MapPageStep == MemoryInv /\ MapPage => MemoryInv'
<1> SUFFICES ASSUME MemoryInv, MapPage PROVE MemoryInv'
  BY Zenon
<1> DEFINE i0 == index(page, 1)
<1>1. /\ next' = next /\ boot_info' = boot_info /\ page' = page + 1 /\ frame' = frame
      /\ table' = table /\ level' = level /\ level = 1 /\ Here = NotPresent
      /\ mstep' = IF page = HeapStart + HeapPages - 1 THEN "ready" ELSE "allocate"
      /\ tables' = [tables EXCEPT ![table].entry[i0] = frame]
  BY SMTT(30) DEF MapPage
<1>2. /\ next \in Nat /\ boot_info \in BootInfos /\ mstep = "map" /\ page \in Heap
      /\ WellLinked(tables) /\ table \in DOMAIN tables /\ tables[table].level = 1
      /\ P1(tables, page) = table
      /\ Cr3 \in DOMAIN tables /\ tables[Cr3].level = 4
      /\ Given(frame) /\ frame \notin DOMAIN tables /\ \A p \in Mapped : At(p) # frame
  BY <1>1 DEF MemoryInv, MemoryTypeOK, MapPage, Way
<1>3. /\ page \in Page /\ HeapStart \in Nat /\ HeapPages \in Nat \ {0}
  BY <1>2, MemoryConstants, Zenon DEF MemoryConstants
<1>4. i0 \in Index /\ DOMAIN tables \subseteq Frame /\ frame \in Frame
  BY <1>2, <1>3, IndexInRange, FramesValid DEF WellLinked, Given
<1>5. tables[table] \in [level : 1 .. 4, entry : [Index -> Frame \cup {NotPresent, HugePage}]]
  BY <1>2, Zenon DEF WellLinked
<1> HIDE DEF i0
<1>6. /\ DOMAIN tables' = DOMAIN tables
      /\ \A g \in DOMAIN tables \ {table} : tables'[g] = tables[g]
      /\ tables'[table].level = 1
      /\ tables'[table].entry = [tables[table].entry EXCEPT ![i0] = frame]
      /\ tables'[table] \in [level : 1 .. 4, entry : [Index -> Frame \cup {NotPresent, HugePage}]]
  BY <1>1, <1>2, <1>4, <1>5, Zenon
<1>7. Extends(tables, tables')
  BY <1>1, <1>2, <1>4, <1>5, <1>6, Zenon DEF Extends, Here, i0
<1>8. \A g \in DOMAIN tables : tables'[g].level = tables[g].level
  BY <1>2, <1>6, Zenon
<1>9. WellLinked(tables')
  <2>1. ASSUME NEW g \in DOMAIN tables', tables'[g].level > 1
        PROVE  \A i \in Index : tables'[g].entry[i] \in Frame =>
                  /\ tables'[g].entry[i] \in DOMAIN tables'
                  /\ tables'[tables'[g].entry[i]].level = tables'[g].level - 1
    <3>1. g # table /\ tables'[g] = tables[g] /\ g \in DOMAIN tables
      BY <1>6, <2>1
    <3> QED
      BY <1>2, <1>6, <1>8, <2>1, <3>1 DEF WellLinked
  <2>2. \A g \in DOMAIN tables' :
          tables'[g] \in [level : 1 .. 4, entry : [Index -> Frame \cup {NotPresent, HugePage}]]
    BY <1>2, <1>6, Zenon DEF WellLinked
  <2> QED
    BY <1>4, <1>6, <2>1, <2>2, Zenon DEF WellLinked
<1>10. MemoryTypeOK'
  <2>1. page' \in HeapStart .. HeapStart + HeapPages
    BY <1>1, <1>2, <1>3 DEF Heap
  <2> QED
    BY <1>1, <1>2, <1>4, <1>6, <1>9, <2>1, Zenon DEF MemoryInv, MemoryTypeOK
<1>11. Mapped' = Mapped \cup {page}
  BY <1>1, <1>2, <1>3 DEF Mapped, Heap
<1>12. \A p \in Mapped : At(p)' = At(p)
  BY <1>4, <1>6, <1>7, MappedStays, Zenon
<1>13. \A p : p = page => At(p)' = frame
  <2>1. P1(tables', page) = table
    BY <1>2, <1>3, <1>4, <1>6, <1>7, WalkStays, Values
  <2>2. tables'[table].entry[i0] = frame
    BY <1>4, <1>5, <1>6, Zenon
  <2>3. Entry(tables', table, i0) = frame
    BY <1>2, <1>4, <1>6, <2>2, Values DEF Entry
  <2>4. translate_addr_inner(tables', page) = frame
    BY <2>1, <2>3, Zenon DEF translate_addr_inner, i0
  <2>5. \A p : p = page => translate_addr_inner(tables', p) = frame
    BY <2>4, Zenon
  <2> QED
    BY <2>5, Zenon DEF At
<1>14. \A g : Given(g) => Given(g)'
  BY <1>1, GivenStays, Zenon
<1>15. ASSUME NEW p \in Mapped' PROVE Given(At(p))' /\ At(p)' \notin DOMAIN tables'
  <2>1. CASE p = page
    <3>1. \A g : g = frame => Given(g)'
      BY <1>2, <1>14, Zenon
    <3> QED
      BY <1>2, <1>6, <1>13, <2>1, <3>1 DEF Given
  <2>2. CASE p \in Mapped
    <3>1. Given(At(p)) /\ At(p) \notin DOMAIN tables
      BY <2>2, Zenon DEF MemoryInv
    <3>2. \A g : g = At(p) => Given(g)'
      BY <1>14, <3>1, Zenon
    <3> QED
      BY <1>6, <1>12, <2>2, <3>1, <3>2, Zenon DEF Given
  <2> QED
    BY <1>11, <1>15, <2>1, <2>2, Zenon
<1>16. \A p, q \in Mapped' : p # q => At(p)' # At(q)'
  BY <1>2, <1>11, <1>12, <1>13 DEF MemoryInv
<1>17. /\ mstep' = "allocate" => page' \in Heap
       /\ mstep' = "ready" => page' = HeapStart + HeapPages
       /\ mstep' # "map"
  BY <1>1, <1>2, <1>3 DEF Heap
<1>18. \A g \in DOMAIN tables' : g \in DOMAIN boot_info'.tables \/ Given(g)'
  BY <1>1, <1>6, <1>14, Zenon DEF MemoryInv
<1> QED
  BY <1>2, <1>6, <1>8, <1>10, <1>15, <1>16, <1>17, <1>18, Zenon DEF MemoryInv

\* The invariant is inductive.
LEMMA MemoryInvStep == MemoryInv /\ [MemoryNext]_mvars => MemoryInv'
<1> SUFFICES ASSUME MemoryInv, [MemoryNext]_mvars PROVE MemoryInv'
  BY SMTT(30)
<1>1. CASE UNCHANGED mvars
  <2>1. /\ boot_info' = boot_info /\ next' = next /\ tables' = tables /\ mstep' = mstep
        /\ page' = page /\ frame' = frame /\ table' = table /\ level' = level
    BY <1>1, Zenon DEF mvars
  <2>2. MemoryTypeOK' = MemoryTypeOK /\ Mapped' = Mapped /\ Frames' = Frames
    BY <2>1, Zenon DEF MemoryTypeOK, Mapped, Frames
  <2>3. (\A f : Given(f)' = Given(f)) /\ \A p : At(p)' = At(p)
    BY <2>1, <2>2, Zenon DEF Given, At
  <2>4. (\A p : Given(At(p))' = Given(At(p))) /\ Given(frame)' = Given(frame)
    BY <2>1, <2>2, <2>3, Zenon DEF Given
  <2> QED
    BY <2>1, <2>2, <2>3, <2>4, Zenon DEF MemoryInv
<1> QED
  BY <1>1, AllocatePageStep, DescendStep, CreateTableStep, MapFailsStep, MapPageStep, Zenon
     DEF MemoryNext

\* The invariant implies what the runs check.
LEMMA MemoryInvImplies == MemoryInv => HeapFramesArePrivate /\ HeapIsMapped
<1> SUFFICES ASSUME MemoryInv PROVE HeapFramesArePrivate /\ HeapIsMapped
  OBVIOUS
<1>1. boot_info \in BootInfos /\ HeapStart \in Nat /\ HeapPages \in Nat
  BY MemoryConstants, Zenon DEF MemoryConstants, MemoryInv, MemoryTypeOK
<1>2. \A f : Given(f) => f \in Range(Frames) /\ f \in Frame
  BY <1>1, FramesValid DEF Given, Range
<1>3. HeapFramesArePrivate
  BY <1>2, Zenon DEF HeapFramesArePrivate, MemoryInv, At, Frames
<1>4. HeapIsMapped
  <2> SUFFICES ASSUME mstep = "ready", NEW p \in Heap PROVE At(p) \in Frame
    BY DEF HeapIsMapped, At
  <2>1. p \in Mapped
    BY <1>1 DEF MemoryInv, Mapped, Heap
  <2> QED
    BY <1>2, <2>1, Zenon DEF MemoryInv
<1> QED
  BY <1>3, <1>4, Zenon

\* No step of init_heap moves a page that is mapped.
LEMMA MemoryKeepsMappings == MemoryInv /\ [MemoryNext]_mvars => KeepsMappings
<1> SUFFICES ASSUME MemoryInv, [MemoryNext]_mvars PROVE KeepsMappings
  OBVIOUS
<1>1. Extends(tables, tables') /\ DOMAIN tables' \subseteq Frame
  <2>1. MemoryInv'
    BY MemoryInvStep, Zenon
  <2>2. DOMAIN tables' \subseteq Frame
    BY <2>1, Zenon DEF MemoryInv, MemoryTypeOK, WellLinked
  <2>3. CASE UNCHANGED tables
    BY <2>2, <2>3, Zenon DEF Extends
  <2>4. CASE CreateTable /\ allocate_frame.frame # NotPresent
    <3>1. /\ tables' = WithTable(Frames[next + 1]) /\ mstep = "map" /\ level > 1
          /\ Here = NotPresent
          /\ Frames[next + 1] \in Frame /\ Frames[next + 1] \notin DOMAIN tables
      BY <2>4, AllocateFrame, FreshFrame, Zenon DEF CreateTable
    <3> QED
      BY <2>2, <3>1, WithTableExtends, Zenon
  <2>5. CASE MapPage
    <3>1. /\ page \in Page /\ table \in DOMAIN tables
          /\ tables[table] \in [level : 1 .. 4,
                                entry : [Index -> Frame \cup {NotPresent, HugePage}]]
      BY <2>5, MemoryConstants, Zenon DEF MemoryConstants, MemoryInv, MemoryTypeOK, WellLinked, MapPage
    <3>2. index(page, 1) \in Index
      BY <3>1, IndexInRange
    <3>3. /\ DOMAIN tables' = DOMAIN tables
          /\ \A g \in DOMAIN tables \ {table} : tables'[g] = tables[g]
          /\ tables'[table].entry = [tables[table].entry EXCEPT ![index(page, 1)] = frame]
      BY <2>5, <3>1, <3>2, Zenon DEF MapPage
    <3>4. tables[table].entry[index(page, 1)] = NotPresent
      BY <2>5, Zenon DEF MapPage, Here
    <3>5. Extends(tables, tables')
      BY <3>1, <3>2, <3>3, <3>4, Zenon DEF Extends
    <3> QED
      BY <2>2, <3>5, Zenon
  <2> QED
    BY <2>2, <2>3, <2>4, <2>5, Zenon DEF MemoryNext, mvars, AllocatePage, Descend, CreateTable,
                                MapFails, HeapFails
<1> QED
  BY <1>1, MappedStays DEF KeepsMappings, At
-----------------------------------------------------------------------------
\* How many frames init_heap takes.

\* The bits of a page's number above a level: two pages that agree on these from a
\* level up take the same way to it.
Above(p, l) == p \div Span[l]

\* What a page's bits above a level are made of: its index there and the bits
\* above the next one.
LEMMA AboveSteps ==
    ASSUME NEW p \in Page
    PROVE  /\ \A l \in 1 .. 4 : Above(p, l) \in Nat
           /\ Above(p, 1) = p
           /\ \A l \in 1 .. 4 : index(p, l) = Above(p, l) % Entries
           /\ \A l \in 1 .. 3 : Above(p, l + 1) = Above(p, l) \div Entries
           /\ Above(p, 4) < Entries
  <1>1. Entries \in Nat \ {0}
    BY MemoryConstants DEF MemoryConstants
  <1> DEFINE E2 == Entries * Entries
             E3 == E2 * Entries
  <1>2. E2 \in Nat \ {0}
    BY <1>1
  <1>3. E3 \in Nat \ {0}
    <2> HIDE DEF E2
    <2> QED
      BY <1>1, <1>2
  <1>4. p \in Nat /\ p < E3 * Entries
    BY <1>1, <1>3 DEF Page
  <1>5. Span = <<1, Entries, E2, E3>>
    BY DEF Span
  <1> HIDE DEF E2, E3
  <1>6. Above(p, 1) = p
    BY <1>4, <1>5 DEF Above
  <1>7. Above(p, 2) = p \div Entries /\ Above(p, 3) = p \div E2 /\ Above(p, 4) = p \div E3
    BY <1>5 DEF Above
  <1>8. p \div E2 = (p \div Entries) \div Entries
    BY <1>1, <1>4, DivDiv DEF E2
  <1>9. p \div E3 = (p \div E2) \div Entries
    BY <1>1, <1>2, <1>4, DivDiv DEF E3
  <1>10. p \div Entries \in Nat /\ p \div E2 \in Nat /\ p \div E3 \in Nat
    BY <1>1, <1>2, <1>3, <1>4
  <1>11. p \div E3 < Entries
    <2> DEFINE q == p \div E3
    <2>1. q \in Nat /\ p >= q * E3
      BY <1>3, <1>4, <1>10, DivMod
    <2> HIDE DEF q
    <2>2. q >= Entries => q * E3 >= Entries * E3
      <3>1. q * E3 = (q - Entries) * E3 + Entries * E3
        BY <1>1, <1>3, <2>1
      <3>2. q >= Entries => (q - Entries) * E3 >= 0
        BY <1>1, <1>3, <2>1
      <3>3. Entries * E3 \in Int /\ (q - Entries) * E3 \in Int
        BY <1>1, <1>3, <2>1
      <3> QED
        BY <3>1, <3>2, <3>3
    <2>3. Entries * E3 = E3 * Entries /\ Entries * E3 \in Int /\ q * E3 \in Int
      BY <1>1, <1>3, <2>1
    <2>4. ~(q >= Entries)
      BY <1>4, <2>1, <2>2, <2>3
    <2> QED
      BY <1>1, <2>1, <2>4 DEF q
  <1>12. \A l \in 1 .. 4 : Above(p, l) \in Nat
    BY <1>4, <1>6, <1>7, <1>10
  <1>13. \A l \in 1 .. 3 : Above(p, l + 1) = Above(p, l) \div Entries
    <2>1. Above(p, 1 + 1) = Above(p, 1) \div Entries
      BY <1>6, <1>7
    <2>2. Above(p, 2 + 1) = Above(p, 2) \div Entries
      BY <1>7, <1>8
    <2>3. Above(p, 3 + 1) = Above(p, 3) \div Entries
      BY <1>7, <1>9
    <2> QED
      BY <2>1, <2>2, <2>3
  <1>14. \A l \in 1 .. 4 : index(p, l) = Above(p, l) % Entries
    BY DEF index, Above
  <1> QED
    BY <1>6, <1>7, <1>11, <1>12, <1>13, <1>14

\* Pages that agree on the bits above a level agree on those above the next and on
\* the index there.
LEMMA SameAbove ==
    ASSUME NEW p \in Page, NEW q \in Page, NEW l \in 1 .. 4, Above(p, l) = Above(q, l)
    PROVE  /\ index(p, l) = index(q, l)
           /\ l < 4 => Above(p, l + 1) = Above(q, l + 1)
  <1>1. index(p, l) = index(q, l)
    BY AboveSteps
  <1>2. ASSUME l < 4 PROVE Above(p, l + 1) = Above(q, l + 1)
    <2>1. l \in 1 .. 3
      BY <1>2
    <2> QED
      BY <2>1, AboveSteps
  <1> QED
    BY <1>1, <1>2

\* The index and the bits above it are all that there is.
LEMMA AboveFromIndex ==
    ASSUME NEW p \in Page, NEW q \in Page
    PROVE  /\ index(p, 4) = index(q, 4) => Above(p, 4) = Above(q, 4)
           /\ \A l \in 1 .. 3 : index(p, l) = index(q, l) /\ Above(p, l + 1) = Above(q, l + 1)
                 => Above(p, l) = Above(q, l)
  <1>1. Entries \in Nat \ {0}
    BY MemoryConstants DEF MemoryConstants
  <1>2. ASSUME NEW r \in Page PROVE index(r, 4) = Above(r, 4)
    <2>1. Above(r, 4) \in Nat /\ Above(r, 4) < Entries /\ index(r, 4) = Above(r, 4) % Entries
      BY AboveSteps
    <2> QED
      BY <1>1, <2>1
  <1>3. ASSUME NEW r \in Page, NEW l \in 1 .. 3
        PROVE  Above(r, l) = Above(r, l + 1) * Entries + index(r, l)
    <2>1. l \in 1 .. 4
      BY SMTT(30)
    <2>2. /\ Above(r, l) \in Nat /\ index(r, l) = Above(r, l) % Entries
          /\ Above(r, l + 1) = Above(r, l) \div Entries
      BY <2>1, AboveSteps
    <2>3. \A n \in Nat : n = (n \div Entries) * Entries + (n % Entries)
      BY <1>1, DivMod
    <2> QED
      BY <2>2, <2>3, Zenon
  <1>4. index(p, 4) = index(q, 4) => Above(p, 4) = Above(q, 4)
    BY <1>2, Zenon
  <1>5. \A l \in 1 .. 3 : index(p, l) = index(q, l) /\ Above(p, l + 1) = Above(q, l + 1)
                 => Above(p, l) = Above(q, l)
    BY <1>3, Zenon
  <1> QED
    BY <1>4, <1>5, Zenon

\* The ways, one by one.
LEMMA Ways ==
    ASSUME NEW t, NEW p
    PROVE  /\ Way(t, p, 4) = Cr3 /\ Way(t, p, 3) = P3(t, p)
           /\ Way(t, p, 2) = P2(t, p) /\ Way(t, p, 1) = P1(t, p)
  BY DEF Way

\* Pages that agree on the bits above a level have the same table of the level below.
LEMMA SameWay ==
    ASSUME NEW t, NEW p \in Page, NEW q \in Page, NEW l \in 1 .. 3,
           Above(p, l + 1) = Above(q, l + 1)
    PROVE  Way(t, p, l) = Way(t, q, l)
  <1>3. ASSUME Above(p, 4) = Above(q, 4) PROVE P3(t, p) = P3(t, q)
    <2>1. index(p, 4) = index(q, 4)
      BY <1>3, SameAbove
    <2> QED
      BY <2>1, Zenon DEF P3
  <1>2. ASSUME Above(p, 3) = Above(q, 3)
        PROVE  Above(p, 4) = Above(q, 4) /\ P2(t, p) = P2(t, q)
    <2>1. index(p, 3) = index(q, 3) /\ Above(p, 3 + 1) = Above(q, 3 + 1)
      BY <1>2, SameAbove
    <2>2. Above(p, 4) = Above(q, 4)
      BY <2>1
    <2> QED
      BY <1>3, <2>1, <2>2, Zenon DEF P2
  <1>1. ASSUME Above(p, 2) = Above(q, 2) PROVE P1(t, p) = P1(t, q)
    <2>1. index(p, 2) = index(q, 2) /\ Above(p, 2 + 1) = Above(q, 2 + 1)
      BY <1>1, SameAbove
    <2>2. Above(p, 3) = Above(q, 3)
      BY <2>1, SMTT(30)
    <2> QED
      BY <1>2, <2>1, <2>2, Zenon DEF P1
  <1>4. CASE l = 3
    BY <1>3, <1>4, Ways, SMTT(30)
  <1>5. CASE l = 2
    BY <1>2, <1>5, Ways, SMTT(30)
  <1>6. CASE l = 1
    BY <1>1, <1>6, Ways
  <1> QED
    BY <1>4, <1>5, <1>6

\* What a walk of page tables t has found: a table, or what ends the walk.
Found(t, e) ==
    /\ e \in Frame => e \in DOMAIN t
    /\ e \in Frame \cup {NotPresent, HugePage, Garbage}

\* The same before the walk reaches level 1.
FoundUpper(t, e) == Found(t, e) /\ (e \in Frame => t[e].level > 1)

\* In page tables that share nothing, entries of a level above 1 that lead to the
\* same table are the same entry.
LEMMA EntryUnshared ==
    ASSUME NEW t, WellLinked(t), Unshared(t), NEW e, NEW d, NEW i \in Index, NEW j \in Index,
           FoundUpper(t, e), FoundUpper(t, d),
           Entry(t, e, i) \in Frame, Entry(t, d, j) = Entry(t, e, i)
    PROVE  e \in Frame /\ d = e /\ j = i
  <1>0. DOMAIN t \subseteq Frame
    BY Zenon DEF WellLinked
  <1>1. e \in Frame /\ d \in Frame
    BY <1>0, Values, Zenon DEF Entry, FoundUpper, Found
  <1>2. Entry(t, e, i) = t[e].entry[i] /\ Entry(t, d, j) = t[d].entry[j]
    BY <1>1, Values, Zenon DEF Entry
  <1> QED
    BY <1>1, <1>2, Zenon DEF Unshared, FoundUpper, Found

\* In page tables that share nothing, an entry of a level 1 table is on the way to
\* one page.
LEMMA OnePage ==
    ASSUME NEW t, WellLinked(t), Unshared(t), Cr3 \in DOMAIN t, t[Cr3].level = 4,
           NEW p \in Page, NEW q \in Page, P1(t, p) \in Frame, P1(t, q) = P1(t, p),
           index(p, 1) = index(q, 1)
    PROVE  p = q
  <1>0. /\ \A l \in 1 .. 4 : index(p, l) \in Index /\ index(q, l) \in Index
        /\ Cr3 \in Frame
    BY IndexInRange, Zenon DEF WellLinked
  <1> /\ 1 \in 1 .. 4 /\ 2 \in 1 .. 4 /\ 3 \in 1 .. 4 /\ 4 \in 1 .. 4
      /\ 2 > 1 /\ 3 > 1 /\ 4 > 1
    OBVIOUS
  <1>1. /\ P2(t, p) \in Frame /\ P2(t, q) = P2(t, p) /\ index(q, 2) = index(p, 2)
    <2>1. FoundUpper(t, P2(t, p)) /\ FoundUpper(t, P2(t, q))
      BY WalkLinked, Zenon DEF FoundUpper, Found
    <2>2. index(p, 2) \in Index /\ index(q, 2) \in Index
      BY <1>0
    <2>3. Entry(t, P2(t, p), index(p, 2)) \in Frame
          /\ Entry(t, P2(t, q), index(q, 2)) = Entry(t, P2(t, p), index(p, 2))
      BY Zenon DEF P1
    <2> QED
      BY <2>1, <2>2, <2>3, EntryUnshared, SMT
  <1>2. /\ P3(t, p) \in Frame /\ P3(t, q) = P3(t, p) /\ index(q, 3) = index(p, 3)
    <2>1. FoundUpper(t, P3(t, p)) /\ FoundUpper(t, P3(t, q))
      BY WalkLinked, Zenon DEF FoundUpper, Found
    <2>2. index(p, 3) \in Index /\ index(q, 3) \in Index
      BY <1>0
    <2>3. Entry(t, P3(t, p), index(p, 3)) \in Frame
          /\ Entry(t, P3(t, q), index(q, 3)) = Entry(t, P3(t, p), index(p, 3))
      BY <1>1, Zenon DEF P2
    <2> QED
      BY <2>1, <2>2, <2>3, EntryUnshared, SMT
  <1>3. index(q, 4) = index(p, 4)
    <2>1. FoundUpper(t, Cr3)
      BY <1>0, Zenon DEF FoundUpper, Found
    <2>2. index(p, 4) \in Index /\ index(q, 4) \in Index
      BY <1>0, Zenon
    <2>3. Entry(t, Cr3, index(p, 4)) \in Frame
          /\ Entry(t, Cr3, index(q, 4)) = Entry(t, Cr3, index(p, 4))
      BY <1>2, Zenon DEF P3
    <2> QED
      BY <2>1, <2>2, <2>3, EntryUnshared, SMT
  <1>4. Above(p, 4) = Above(q, 4)
    BY <1>3, AboveFromIndex
  <1>5. Above(p, 3) = Above(q, 3)
    <2>1. Above(p, 3 + 1) = Above(q, 3 + 1) /\ index(p, 3) = index(q, 3) /\ 3 \in 1 .. 3
      BY <1>2, <1>4
    <2> QED
      BY <2>1, AboveFromIndex, Zenon
  <1>6. Above(p, 2) = Above(q, 2)
    <2>1. Above(p, 2 + 1) = Above(q, 2 + 1) /\ index(p, 2) = index(q, 2) /\ 2 \in 1 .. 3
      BY <1>1, <1>5
    <2> QED
      BY <2>1, AboveFromIndex, Zenon
  <1>7. Above(p, 1) = Above(q, 1)
    <2>1. Above(p, 1 + 1) = Above(q, 1 + 1) /\ index(p, 1) = index(q, 1) /\ 1 \in 1 .. 3
      BY <1>6
    <2> QED
      BY <2>1, AboveFromIndex, Zenon
  <1> QED
    BY <1>7, AboveSteps, SMTT(30)

\* The heap's range is free when the bootloader maps none of its pages.
RangeFree == \A p \in Heap : translate_addr_inner(boot_info.tables, p) = NotPresent

\* A missing table of the bootloader is one of those counted.
LEMMA Missing ==
    ASSUME NEW l \in 1 .. 3, NEW p \in Heap, Way(boot_info.tables, p, l) = NotPresent
    PROVE  <<l, Above(p, l + 1)>> \in MissingTables
  <1> DEFINE b == <<P1(boot_info.tables, p), P2(boot_info.tables, p), P3(boot_info.tables, p)>>
  <1>1. b[l] = Way(boot_info.tables, p, l)
    <2>1. b[1] = P1(boot_info.tables, p) /\ b[2] = P2(boot_info.tables, p)
          /\ b[3] = P3(boot_info.tables, p)
      BY SMTT(30)
    <2> HIDE DEF b
    <2>2. l = 1 \/ l = 2 \/ l = 3
      OBVIOUS
    <2> QED
      BY <2>1, <2>2, Ways, Zenon
  <1> DEFINE S == {q \in Heap : <<P1(boot_info.tables, q), P2(boot_info.tables, q),
                                  P3(boot_info.tables, q)>>[l] = NotPresent}
  <1>2. p \in S
    BY <1>1, Zenon
  <1>3. MissingTables =
          UNION {{<<k, r \div Span[k + 1]>> : r \in {q \in Heap :
                    <<P1(boot_info.tables, q), P2(boot_info.tables, q),
                      P3(boot_info.tables, q)>>[k] = NotPresent}} : k \in 1 .. 3}
    BY Zenon DEF MissingTables
  <1>4. {<<l, r \div Span[l + 1]>> : r \in S} \subseteq MissingTables
    BY <1>3
  <1> HIDE DEF S
  <1>5. <<l, p \div Span[l + 1]>> \in {<<l, r \div Span[l + 1]>> : r \in S}
    BY <1>2, Zenon
  <1> QED
    BY <1>4, <1>5, Zenon DEF Above

\* The missing tables can be counted.
LEMMA MissingFinite ==
    IsFiniteSet(MissingTables) /\ Cardinality(MissingTables) \in Nat
  <1> DEFINE top == HeapStart + HeapPages
             D == (1 .. 3) \X (0 .. top)
  <1>1. HeapStart \in Nat /\ HeapPages \in Nat \ {0} /\ Heap \subseteq Page /\ Entries \in Nat \ {0}
    BY MemoryConstants DEF MemoryConstants
  <1>2. ASSUME NEW p \in Heap, NEW l \in 1 .. 3 PROVE Above(p, l + 1) \in 0 .. top
    <2>1. p \in Page /\ p \in 0 .. top
      BY <1>1, SMTT(30) DEF Heap
    <2>2. /\ Above(p, 1) = p
          /\ Above(p, 1) \in Nat /\ Above(p, 2) \in Nat /\ Above(p, 3) \in Nat /\ Above(p, 4) \in Nat
      BY <2>1, AboveSteps
    <2>3. /\ Above(p, 1 + 1) = Above(p, 1) \div Entries
          /\ Above(p, 2 + 1) = Above(p, 2) \div Entries
          /\ Above(p, 3 + 1) = Above(p, 3) \div Entries
      <3>1. \A k \in 1 .. 3 : Above(p, k + 1) = Above(p, k) \div Entries
        BY <2>1, AboveSteps
      <3>2. 1 \in 1 .. 3 /\ 2 \in 1 .. 3 /\ 3 \in 1 .. 3
        OBVIOUS
      <3> QED
        BY <3>1, <3>2, Zenon
    <2>4. \A n \in Nat : n \div Entries <= n
      <3> TAKE n \in Nat
      <3> DEFINE k == n \div Entries
      <3>1. k \in Nat /\ n >= k * Entries
        BY <1>1, DivMod
      <3> HIDE DEF k
      <3>2. k * Entries = k + k * (Entries - 1) /\ k * (Entries - 1) >= 0
        BY <1>1, <3>1
      <3>3. k * Entries \in Int /\ k * (Entries - 1) \in Int
        BY <1>1, <3>1
      <3>4. k <= n
        BY <3>1, <3>2, <3>3, SMTT(30)
      <3> QED
        BY <3>4 DEF k
    <2>5. Above(p, 2) <= p /\ Above(p, 3) <= Above(p, 2) /\ Above(p, 4) <= Above(p, 3)
      BY <2>2, <2>3, <2>4, SMTT(30)
    <2> QED
      BY <1>1, <2>1, <2>2, <2>5
  <1>3. MissingTables \subseteq D
    <2> SUFFICES ASSUME NEW x \in MissingTables PROVE x \in D
      OBVIOUS
    <2>1. \E l \in 1 .. 3, p \in Heap : x = <<l, Above(p, l + 1)>>
      BY Zenon DEF MissingTables, Above
    <2>2. PICK l \in 1 .. 3, p \in Heap : x = <<l, Above(p, l + 1)>>
      BY <2>1, Zenon
    <2>3. Above(p, l + 1) \in 0 .. top
      BY <1>2, Zenon
    <2> QED
      BY <2>2, <2>3
  <1>4. IsFiniteSet(1 .. 3) /\ IsFiniteSet(0 .. top)
    <2>1. 1 \in Int /\ 3 \in Int /\ 0 \in Int /\ top \in Int
      BY <1>1
    <2>2. IsFiniteSet(1 .. 3)
      BY <2>1, FS_Interval, Zenon
    <2>3. IsFiniteSet(0 .. top)
      BY <2>1, FS_Interval, Zenon
    <2> QED
      BY <2>2, <2>3, Zenon
  <1>5. IsFiniteSet(D)
    BY <1>4, FS_Product, Zenon
  <1> HIDE DEF D
  <1>6. IsFiniteSet(MissingTables)
    BY <1>3, <1>5, FS_Subset, Zenon
  <1> QED
    BY <1>6, FS_CardinalityType, Zenon

\* The tables made so far: missing ones, each of which took a frame, as each page
\* did; a table that is still not there is none of them.
Counted(made) ==
    /\ made \in SUBSET MissingTables /\ IsFiniteSet(made)
    /\ mstep = "allocate" => next = (page - HeapStart) + Cardinality(made)
    /\ mstep = "map" => next = (page - HeapStart) + 1 + Cardinality(made)
    /\ \A l \in 1 .. 3, q \in Heap :
          Way(tables, q, l) = NotPresent => <<l, Above(q, l + 1)>> \notin made

\* No page that is still to be mapped is there.
StillFree == mstep \in {"allocate", "map"} => \A q \in Heap : q >= page => At(q) = NotPresent

\* There are too few frames for the heap.
TooFew == Len(Frames) < HeapPages + Cardinality(MissingTables)

\* The inductive invariant for HeapFailsOnlyWhenShort: the page tables keep what the
\* bootloader made and share nothing, and in a free range every frame went into a
\* page or into a table that was missing.
HeapInv ==
    /\ Unshared(tables) /\ Extends(boot_info.tables, tables)
    /\ RangeFree => /\ \E made : Counted(made)
                    /\ StillFree
                    /\ mstep = "panic" => TooFew

\* The invariant in the next state of a step that keeps the page tables.
LEMMA HeapKept ==
    ASSUME HeapInv, boot_info' = boot_info, tables' = tables,
           ASSUME RangeFree, NEW made, Counted(made), StillFree
           PROVE  (\E m : Counted(m)') /\ StillFree' /\ (mstep' = "panic" => TooFew')
    PROVE  HeapInv'
  <1>1. Unshared(tables)' /\ Extends(boot_info.tables, tables)'
    BY Zenon DEF HeapInv
  <1>2. RangeFree' = RangeFree
    BY Zenon DEF RangeFree
  <1> QED
    BY <1>1, <1>2, Zenon DEF HeapInv

\* The boot starts with no frame taken.
LEMMA InitHeapInv == MemoryInit => HeapInv
  <1> SUFFICES ASSUME MemoryInit PROVE HeapInv
    OBVIOUS
  <1>1. /\ boot_info \in BootInfos /\ next = 0 /\ tables = boot_info.tables
        /\ mstep = "allocate" /\ page = HeapStart
    BY Zenon DEF MemoryInit
  <1>2. Unshared(tables)
    BY <1>1, UnsharedTables, Zenon DEF UnsharedTables
  <1>3. Extends(boot_info.tables, tables)
    BY <1>1, Zenon DEF Extends
  <1>4. HeapStart \in Nat
    BY MemoryConstants, SMTT(30) DEF MemoryConstants
  <1>5. Counted({})
    <2>1. IsFiniteSet({}) /\ Cardinality({}) = 0
      BY FS_EmptySet, Zenon
    <2> QED
      BY <1>1, <1>4, <2>1 DEF Counted
  <1>6. ASSUME RangeFree PROVE StillFree
    BY <1>1, <1>6, Zenon DEF StillFree, At, RangeFree
  <1>7. mstep # "panic"
    BY <1>1
  <1> QED
    BY <1>2, <1>3, <1>5, <1>6, <1>7, Zenon DEF HeapInv

\* What is counted is at most what is missing.
LEMMA MadeAtMost ==
    ASSUME NEW made, Counted(made)
    PROVE  /\ Cardinality(made) \in Nat /\ Cardinality(MissingTables) \in Nat
           /\ Cardinality(made) <= Cardinality(MissingTables)
           /\ \A x \in MissingTables \ made : Cardinality(made) < Cardinality(MissingTables)
  <1>1. IsFiniteSet(made) /\ made \in SUBSET MissingTables
    BY Zenon DEF Counted
  <1>2. Cardinality(made) \in Nat /\ Cardinality(MissingTables) \in Nat
    BY <1>1, MissingFinite, FS_CardinalityType, Zenon
  <1>3. Cardinality(made) <= Cardinality(MissingTables)
        /\ (Cardinality(MissingTables) = Cardinality(made) => MissingTables = made)
    BY <1>1, MissingFinite, FS_Subset, Zenon
  <1>4. ASSUME NEW x \in MissingTables \ made
        PROVE  Cardinality(made) # Cardinality(MissingTables)
    BY <1>3, <1>4, Zenon
  <1> QED
    BY <1>2, <1>3, <1>4

\* A step that does not touch the bootloader's information keeps what it counts.
LEMMA BootKept ==
    ASSUME boot_info' = boot_info
    PROVE  Frames' = Frames /\ MissingTables' = MissingTables
  <1>1. Frames' = Frames
    BY Zenon DEF Frames
  <1>2. MissingTables' = MissingTables
    BY DEF MissingTables
  <1> QED
    BY <1>1, <1>2, Zenon

\* The same tables stay counted when no table goes away and the counter keeps up.
LEMMA CountedStays ==
    ASSUME NEW made, Counted(made), boot_info' = boot_info,
           \A l \in 1 .. 3, q \in Heap :
               Way(tables', q, l) = NotPresent => Way(tables, q, l) = NotPresent,
           mstep' = "allocate" => next' = (page' - HeapStart) + Cardinality(made),
           mstep' = "map" => next' = (page' - HeapStart) + 1 + Cardinality(made)
    PROVE  \E m : Counted(m)'
  <1>1. MissingTables' = MissingTables
    BY BootKept, Zenon
  <1>2. made \in SUBSET MissingTables /\ IsFiniteSet(made)
    BY Zenon DEF Counted
  <1>3. \A l \in 1 .. 3, q \in Heap :
          Way(tables', q, l) = NotPresent => <<l, Above(q, l + 1)>> \notin made
    BY Zenon DEF Counted
  <1>4. made \in SUBSET MissingTables'
    BY <1>1, <1>2, Zenon
  <1>5. Counted(made)'
    BY <1>2, <1>3, <1>4, Zenon DEF Counted
  <1> QED
    BY <1>5, Zenon

\* The page that init_heap is at lies within the heap.
LEMMA HeapPage ==
    ASSUME MemoryInv, mstep \in {"allocate", "map"}
    PROVE  /\ page \in Heap /\ page \in Page /\ page \in Nat /\ HeapStart \in Nat
           /\ HeapPages \in Nat \ {0} /\ page >= HeapStart /\ page - HeapStart < HeapPages
           /\ next \in Nat /\ boot_info \in BootInfos /\ Len(Frames) \in Nat
           /\ Heap \subseteq Page
  <1>1. HeapStart \in Nat /\ HeapPages \in Nat \ {0} /\ Heap \subseteq Page
    BY MemoryConstants, SMTT(30) DEF MemoryConstants
  <1>2. page \in Heap
    BY DEF MemoryInv
  <1>3. next \in Nat /\ boot_info \in BootInfos
    BY Zenon DEF MemoryInv, MemoryTypeOK
  <1>4. Len(Frames) \in Nat
    BY <1>3, FramesValid
  <1> QED
    BY <1>1, <1>2, <1>3, <1>4 DEF Heap

\* Running out of frames means that there are too few.
LEMMA RunsOut ==
    ASSUME MemoryInv, mstep \in {"allocate", "map"}, NEW made, Counted(made),
           allocate_frame.frame = NotPresent,
           mstep = "map" => \E x : x \in MissingTables \ made
    PROVE  TooFew
  <1>1. ~(next < Len(Frames))
    BY FreshFrame, Values, SMTT(30)
  <1>2. Len(Frames) <= next
    BY <1>1, HeapPage, SMTT(30)
  <1>3. /\ Cardinality(made) \in Nat /\ Cardinality(MissingTables) \in Nat
        /\ Cardinality(made) <= Cardinality(MissingTables)
        /\ \A x \in MissingTables \ made : Cardinality(made) < Cardinality(MissingTables)
    BY MadeAtMost, SMTT(30)
  <1>4. CASE mstep = "allocate"
    <2>1. next = (page - HeapStart) + Cardinality(made)
      BY <1>4, Zenon DEF Counted
    <2> QED
      BY <1>2, <1>3, <2>1, HeapPage DEF TooFew
  <1>5. CASE mstep = "map"
    <2>1. next = (page - HeapStart) + 1 + Cardinality(made)
      BY <1>5, Zenon DEF Counted
    <2>2. Cardinality(made) < Cardinality(MissingTables)
      BY <1>3, <1>5, SMTT(30)
    <2> QED
      BY <1>2, <1>3, <2>1, <2>2, HeapPage DEF TooFew
  <1> QED
    BY <1>4, <1>5, Zenon

\* Taking a frame for a page: it is counted, or there are too few.
LEMMA AllocatePageHeap ==
    ASSUME MemoryInv, HeapInv, AllocatePage
    PROVE  HeapInv'
  <1>1. /\ next' = next + 1 /\ boot_info' = boot_info /\ tables' = tables /\ page' = page
        /\ mstep = "allocate"
    BY AllocateFrame, SMTT(30) DEF AllocatePage, HeapFails
  <1>2. /\ mstep' \in {"map", "panic"}
        /\ mstep' = "panic" => allocate_frame.frame = NotPresent
    BY DEF AllocatePage, HeapFails
  <1>3. ASSUME RangeFree, NEW made, Counted(made), StillFree
        PROVE  (\E m : Counted(m)') /\ StillFree' /\ (mstep' = "panic" => TooFew')
    <2>1. next = (page - HeapStart) + Cardinality(made)
      BY <1>1, <1>3, Zenon DEF Counted
    <2>2. Cardinality(made) \in Nat
      BY <1>3, MadeAtMost, Zenon
    <2>3. next' = (page' - HeapStart) + 1 + Cardinality(made) /\ mstep' # "allocate"
      BY <1>1, <1>2, <2>1, <2>2, HeapPage
    <2>4. \A l \in 1 .. 3, q \in Heap :
               Way(tables', q, l) = NotPresent => Way(tables, q, l) = NotPresent
      BY <1>1, Zenon
    <2>5. \E m : Counted(m)'
      BY <1>1, <1>3, <2>3, <2>4, CountedStays, Zenon
    <2>6. StillFree'
      BY <1>1, <1>3 DEF StillFree, At
    <2>7. ASSUME mstep' = "panic" PROVE TooFew'
      <3>1. TooFew
        BY <1>1, <1>2, <1>3, <2>7, RunsOut
      <3> QED
        BY <1>1, <3>1, BootKept, Zenon DEF TooFew
    <2> QED
      BY <2>5, <2>6, <2>7, Zenon
  <1> QED
    BY <1>1, <1>3, HeapKept, Zenon

\* Going down into a table takes no frame.
LEMMA DescendHeap ==
    ASSUME MemoryInv, HeapInv, Descend
    PROVE  HeapInv'
  <1>1. /\ next' = next /\ boot_info' = boot_info /\ tables' = tables /\ page' = page
        /\ mstep = "map" /\ mstep' = mstep
    BY Zenon DEF Descend
  <1>3. ASSUME RangeFree, NEW made, Counted(made), StillFree
        PROVE  (\E m : Counted(m)') /\ StillFree' /\ (mstep' = "panic" => TooFew')
    <2>1. next' = (page' - HeapStart) + 1 + Cardinality(made)
      BY <1>1, <1>3, Zenon DEF Counted
    <2>4. \A l \in 1 .. 3, q \in Heap :
               Way(tables', q, l) = NotPresent => Way(tables, q, l) = NotPresent
      BY <1>1, Zenon
    <2>3. mstep' # "allocate" /\ mstep' # "panic"
      BY <1>1
    <2>5. \E m : Counted(m)'
      BY <1>1, <1>3, <2>1, <2>3, <2>4, CountedStays, Zenon
    <2>6. StillFree'
      BY <1>1, <1>3, SMTT(30) DEF StillFree, At
    <2> QED
      BY <2>3, <2>5, <2>6, Zenon
  <1> QED
    BY <1>1, <1>3, HeapKept, Zenon

\* What map_to finds in the table it is at is the next table on its way, or the page.
LEMMA HereIs ==
    ASSUME MemoryInv, mstep = "map"
    PROVE  /\ level \in 1 .. 4
           /\ level > 1 => Way(tables, page, level - 1) = Here
           /\ level = 1 => At(page) = Here
  <1>1. /\ level \in 1 .. 4 /\ WellLinked(tables) /\ table \in DOMAIN tables
        /\ Way(tables, page, level) = table
    BY DEF MemoryInv, MemoryTypeOK
  <1>2. table \in Frame
    BY <1>1, Zenon DEF WellLinked
  <1>3. Entry(tables, table, index(page, level)) = Here
    BY <1>1, <1>2, Values DEF Entry, Here
  <1>4. level > 1 => Way(tables, page, level - 1) = Here
    <2>0. 2 - 1 = 1 /\ 3 - 1 = 2 /\ 4 - 1 = 3
      OBVIOUS
    <2>1. CASE level = 2
      BY <1>1, <1>3, <2>0, <2>1, Ways, Zenon DEF P1
    <2>2. CASE level = 3
      BY <1>1, <1>3, <2>0, <2>2, Ways, Zenon DEF P2
    <2>3. CASE level = 4
      BY <1>1, <1>3, <2>0, <2>3, Ways, Zenon DEF P3
    <2> QED
      BY <1>1, <2>1, <2>2, <2>3
  <1>5. level = 1 => At(page) = Here
    BY <1>1, <1>3, Ways DEF At, translate_addr_inner
  <1> QED
    BY <1>1, <1>4, <1>5, SMTT(30)

\* A huge page on the way to a page is what its translation finds.
LEMMA HugeIsFound ==
    ASSUME NEW t, NEW p, NEW l \in 1 .. 3, Way(t, p, l) = HugePage
    PROVE  translate_addr_inner(t, p) = HugePage
  <1>1. /\ P3(t, p) = HugePage => P2(t, p) = HugePage
        /\ P2(t, p) = HugePage => P1(t, p) = HugePage
        /\ P1(t, p) = HugePage => translate_addr_inner(t, p) = HugePage
    BY Zenon DEF P2, P1, translate_addr_inner, Entry
  <1>2. l = 1 \/ l = 2 \/ l = 3
    OBVIOUS
  <1> QED
    BY <1>1, <1>2, Ways, Zenon

\* In a free range map_to finds no huge page and no page that is mapped.
LEMMA MapFailsHeap ==
    ASSUME MemoryInv, HeapInv, MapFails
    PROVE  HeapInv'
  <1>1. /\ boot_info' = boot_info /\ tables' = tables /\ mstep = "map"
        /\ Here = HugePage \/ (level = 1 /\ Here # NotPresent)
    BY Zenon DEF MapFails, HeapFails
  <1>2. ASSUME RangeFree, StillFree PROVE FALSE
    <2>1. At(page) = NotPresent
      BY <1>1, <1>2, HeapPage DEF StillFree
    <2>2. level # 1
      <3>1. ASSUME level = 1 PROVE FALSE
        BY <1>1, <2>1, <3>1, HereIs, Values
      <3> QED
        BY <3>1
    <2>3. Here = HugePage /\ level - 1 \in 1 .. 3 /\ Way(tables, page, level - 1) = Here
      BY <1>1, <2>2, HereIs
    <2>4. At(page) = HugePage
      BY <2>3, HugeIsFound, Zenon DEF At
    <2> QED
      BY <2>1, <2>4, Values, SMTT(30)
  <1>3. ASSUME RangeFree, NEW made, Counted(made), StillFree
        PROVE  (\E m : Counted(m)') /\ StillFree' /\ (mstep' = "panic" => TooFew')
    BY <1>2, <1>3, Zenon
  <1> QED
    BY <1>1, <1>3, HeapKept, Zenon

\* What a new table changes: its own entries are empty, and one entry leads to it.
LEMMA WithTableEntries ==
    ASSUME MemoryInv, mstep = "map", level > 1, NEW f \in Frame, f \notin DOMAIN tables
    PROVE  /\ \A i \in Index : WithTable(f)[f].entry[i] = NotPresent
           /\ \A g \in DOMAIN tables, i \in Index : g # table \/ i # index(page, level) =>
                 WithTable(f)[g].entry[i] = tables[g].entry[i]
  <1> DEFINE u == WithTable(f)
             i0 == index(page, level)
  <1>1. /\ WellLinked(tables) /\ table \in DOMAIN tables
    BY SMTT(30) DEF MemoryInv, MemoryTypeOK
  <1>2. u[f] = [level |-> level - 1, entry |-> [i \in Index |-> NotPresent]]
    BY DEF WithTable
  <1>3. \A g \in DOMAIN tables \ {table} : u[g] = tables[g]
    BY DEF WithTable
  <1>4. u[table] = [tables[table] EXCEPT !.entry[i0] = f]
    BY <1>1, SMTT(30) DEF WithTable
  <1>5. tables[table] \in [level : 1 .. 4, entry : [Index -> Frame \cup {NotPresent, HugePage}]]
    BY <1>1 DEF WellLinked
  <1> HIDE DEF u, i0
  <1>6. u[table].entry = [tables[table].entry EXCEPT ![i0] = f]
    BY <1>4, <1>5, SMTT(30)
  <1>7. \A i \in Index : i # i0 => u[table].entry[i] = tables[table].entry[i]
    BY <1>5, <1>6, SMTT(30)
  <1>8. \A i \in Index : u[f].entry[i] = NotPresent
    BY <1>2
  <1>9. \A g \in DOMAIN tables, i \in Index : g # table \/ i # i0 =>
          u[g].entry[i] = tables[g].entry[i]
    BY <1>3, <1>7, Zenon
  <1> QED
    BY <1>8, <1>9, Zenon DEF u, i0

\* A new table is shared with nothing.
LEMMA WithTableUnshared ==
    ASSUME MemoryInv, mstep = "map", level > 1, Here = NotPresent,
           NEW f \in Frame, f \notin DOMAIN tables, Unshared(tables)
    PROVE  Unshared(WithTable(f))
  <1> DEFINE u == WithTable(f)
             i0 == index(page, level)
  <1>1. /\ DOMAIN u = DOMAIN tables \cup {f} /\ u[table].entry[i0] = f
        /\ \A g \in DOMAIN tables : u[g].level = tables[g].level
    BY WithTableExtends, Zenon
  <1>2. /\ \A i \in Index : u[f].entry[i] = NotPresent
        /\ \A g \in DOMAIN tables, i \in Index : g # table \/ i # i0 =>
                 u[g].entry[i] = tables[g].entry[i]
    BY WithTableEntries, Zenon
  <1>3. WellLinked(tables)
    BY Zenon DEF MemoryInv, MemoryTypeOK
  <1> HIDE DEF u, i0
  <1>4. ASSUME NEW g \in DOMAIN u, NEW i \in Index, u[g].level > 1, u[g].entry[i] \in Frame
        PROVE  /\ g \in DOMAIN tables /\ tables[g].level > 1
               /\ u[g].entry[i] = f => g = table /\ i = i0
               /\ u[g].entry[i] # f => tables[g].entry[i] = u[g].entry[i]
    <2>1. g # f
      BY <1>2, <1>4, Values, Zenon
    <2>2. g \in DOMAIN tables /\ tables[g].level > 1
      BY <1>1, <1>4, <2>1, SMTT(30)
    <2>3. ASSUME g # table \/ i # i0
          PROVE  u[g].entry[i] = tables[g].entry[i] /\ u[g].entry[i] \in DOMAIN tables
      <3>1. u[g].entry[i] = tables[g].entry[i]
        BY <1>2, <2>2, <2>3, Zenon
      <3> QED
        BY <1>3, <1>4, <2>2, <3>1 DEF WellLinked
    <2> QED
      BY <1>1, <2>2, <2>3, Zenon
  <1>5. ASSUME NEW g \in DOMAIN u, NEW h \in DOMAIN u, u[g].level > 1 /\ u[h].level > 1,
               NEW i \in Index, NEW j \in Index,
               u[g].entry[i] \in Frame /\ u[h].entry[j] = u[g].entry[i]
        PROVE  g = h /\ i = j
    <2>1. CASE u[g].entry[i] = f
      BY <1>4, <1>5, <2>1, SMTT(30)
    <2>2. CASE u[g].entry[i] # f
      <3>1. /\ g \in DOMAIN tables /\ tables[g].level > 1
            /\ tables[g].entry[i] = u[g].entry[i]
        BY <1>4, <1>5, <2>2, SMTT(30)
      <3>2. /\ h \in DOMAIN tables /\ tables[h].level > 1
            /\ tables[h].entry[j] = u[g].entry[i]
        BY <1>4, <1>5, <2>2
      <3>3. /\ tables[g].entry[i] \in Frame /\ tables[h].entry[j] = tables[g].entry[i]
        BY <1>5, <3>1, <3>2
      <3> QED
        BY <3>1, <3>2, <3>3, SMTT(30) DEF Unshared
    <2> QED
      BY <2>1, <2>2, SMTT(30)
  <1>6. Unshared(u)
    BY <1>5, Zenon DEF Unshared
  <1> QED
    BY <1>6 DEF u

\* What is found is the same, or the new table f instead of none.
SameOrNew(e, d, f) == d = e \/ (e = NotPresent /\ d = f)

\* One turn of the walk finds the same after a table was added, or finds the new
\* table, in which there is nothing, instead of none.
LEMMA EntryAdded ==
    ASSUME MemoryInv, mstep = "map", level > 1, Here = NotPresent,
           NEW f \in Frame, f \notin DOMAIN tables, NEW i \in Index,
           NEW e, NEW d, Found(tables, e), SameOrNew(e, d, f)
    PROVE  /\ SameOrNew(Entry(tables, e, i), Entry(WithTable(f), d, i), f)
           /\ e # table => Entry(WithTable(f), d, i) = Entry(tables, e, i)
  <1> DEFINE u == WithTable(f)
             i0 == index(page, level)
  <1>1. /\ DOMAIN u = DOMAIN tables \cup {f} /\ u[table].entry[i0] = f
    BY WithTableExtends, Zenon
  <1>2. /\ \A k \in Index : u[f].entry[k] = NotPresent
        /\ \A g \in DOMAIN tables, k \in Index : g # table \/ k # i0 =>
                 u[g].entry[k] = tables[g].entry[k]
    BY WithTableEntries, Zenon
  <1>3. /\ DOMAIN tables \subseteq Frame /\ tables[table].entry[i0] = NotPresent
        /\ table \in DOMAIN tables
    BY Zenon DEF MemoryInv, MemoryTypeOK, WellLinked, Here
  <1> HIDE DEF u, i0
  <1>4. CASE e = NotPresent /\ d = f
    <2>1. Entry(tables, e, i) = NotPresent
      BY <1>4, Values, Zenon DEF Entry
    <2>2. Entry(u, d, i) = NotPresent
      BY <1>1, <1>2, <1>4, Values, Zenon DEF Entry
    <2> QED
      BY <1>4, <2>1, <2>2, Zenon DEF u, SameOrNew
  <1>5. CASE d = e /\ e \in {NotPresent, HugePage, Garbage}
    <2>1. Entry(u, d, i) = Entry(tables, e, i)
      BY <1>1, <1>3, <1>5, Values, Zenon DEF Entry
    <2> QED
      BY <2>1, Zenon DEF u, SameOrNew
  <1>6. CASE d = e /\ e \in Frame
    <2>1. Entry(u, d, i) = u[e].entry[i] /\ Entry(tables, e, i) = tables[e].entry[i]
      BY <1>1, <1>6, Values, Zenon DEF Entry, Found
    <2>2. CASE e = table /\ i = i0
      BY <1>1, <1>3, <2>1, <2>2, Zenon DEF u, SameOrNew
    <2>3. CASE e # table \/ i # i0
      <3>1. u[e].entry[i] = tables[e].entry[i]
        BY <1>2, <1>6, <2>3, Zenon DEF Found
      <3> QED
        BY <2>1, <3>1, Zenon DEF u, SameOrNew
    <2> QED
      BY <2>2, <2>3, Zenon
  <1> QED
    BY <1>4, <1>5, <1>6, Zenon DEF Found, SameOrNew

\* A page that is not there is not there after a table was added: the new one is
\* empty.
LEMMA WithTableFree ==
    ASSUME MemoryInv, mstep = "map", level > 1, Here = NotPresent,
           NEW f \in Frame, f \notin DOMAIN tables, NEW q \in Page,
           translate_addr_inner(tables, q) = NotPresent
    PROVE  translate_addr_inner(WithTable(f), q) = NotPresent
  <1> DEFINE u == WithTable(f)
  <1>1. ASSUME NEW e, NEW d, NEW i \in Index, Found(tables, e), SameOrNew(e, d, f)
        PROVE  /\ SameOrNew(Entry(tables, e, i), Entry(u, d, i), f)
               /\ e # table => Entry(u, d, i) = Entry(tables, e, i)
    BY <1>1, EntryAdded, Zenon
  <1>2. /\ WellLinked(tables) /\ Cr3 \in DOMAIN tables /\ tables[Cr3].level = 4
        /\ tables[table].level = level /\ level # 1
    BY DEF MemoryInv, MemoryTypeOK
  <1>3. /\ Found(tables, P3(tables, q)) /\ Found(tables, P2(tables, q))
        /\ Found(tables, P1(tables, q))
        /\ P1(tables, q) \in Frame => tables[P1(tables, q)].level = 1
    BY <1>2, WalkLinked, Zenon DEF Found
  <1>4. Found(tables, Cr3)
    BY <1>2, Zenon DEF WellLinked, Found
  <1>5. /\ index(q, 1) \in Index /\ index(q, 2) \in Index /\ index(q, 3) \in Index
        /\ index(q, 4) \in Index
    BY IndexInRange, SMTT(30)
  <1>6. P1(tables, q) # table
    <2>1. table \in Frame
      BY Zenon DEF MemoryInv, MemoryTypeOK, WellLinked
    <2> QED
      BY <1>2, <1>3, <2>1, Zenon
  <1>7. SameOrNew(Cr3, Cr3, f)
    BY Zenon DEF SameOrNew
  <1> HIDE DEF u
  <1>8. SameOrNew(P3(tables, q), P3(u, q), f)
    BY <1>1, <1>4, <1>5, <1>7, Zenon DEF P3
  <1>9. SameOrNew(P2(tables, q), P2(u, q), f)
    BY <1>1, <1>3, <1>5, <1>8, Zenon DEF P2
  <1>10. SameOrNew(P1(tables, q), P1(u, q), f)
    BY <1>1, <1>3, <1>5, <1>9, Zenon DEF P1
  <1>11. translate_addr_inner(u, q) = translate_addr_inner(tables, q)
    BY <1>1, <1>3, <1>5, <1>6, <1>10, Zenon DEF translate_addr_inner
  <1> QED
    BY <1>11, Zenon DEF u

\* Page tables keep what those before the last keep.
LEMMA ExtendsFurther ==
    ASSUME NEW t, NEW u, NEW v, Extends(t, u), Extends(u, v)
    PROVE  Extends(t, v)
  BY Zenon DEF Extends

\* A table that is not there after entries were added was not there before.
LEMMA WayStays ==
    ASSUME NEW t, NEW u, WellLinked(t), DOMAIN u \subseteq Frame, Extends(t, u),
           Cr3 \in DOMAIN t, t[Cr3].level = 4, NEW p \in Page, NEW l \in 1 .. 3,
           Way(u, p, l) = NotPresent
    PROVE  Way(t, p, l) = NotPresent
  <1>1. /\ P3(t, p) # NotPresent => P3(u, p) = P3(t, p)
        /\ P2(t, p) # NotPresent => P2(u, p) = P2(t, p)
        /\ P1(t, p) # NotPresent => P1(u, p) = P1(t, p)
    BY WalkStays, Zenon
  <1>2. CASE l = 1
    BY <1>1, <1>2, Ways
  <1>3. CASE l = 2
    BY <1>1, <1>3, Ways
  <1>4. CASE l = 3
    BY <1>1, <1>4, Ways
  <1> QED
    BY <1>2, <1>3, <1>4

\* The table that map_to misses is a missing one that was not made.
LEMMA MissesHere ==
    ASSUME MemoryInv, HeapInv, mstep = "map", level > 1, Here = NotPresent,
           NEW made, Counted(made)
    PROVE  /\ level - 1 \in 1 .. 3
           /\ <<level - 1, Above(page, level - 1 + 1)>> \in MissingTables \ made
  <1>1. level - 1 \in 1 .. 3 /\ Way(tables, page, level - 1) = NotPresent
    BY HereIs
  <1>2. page \in Heap /\ page \in Page /\ boot_info \in BootInfos
    BY HeapPage, Zenon
  <1>3. /\ WellLinked(boot_info.tables) /\ Cr3 \in DOMAIN boot_info.tables
        /\ boot_info.tables[Cr3].level = 4
    BY <1>2, FramesValid, Zenon
  <1>4. DOMAIN tables \subseteq Frame /\ Extends(boot_info.tables, tables)
    BY Zenon DEF MemoryInv, MemoryTypeOK, WellLinked, HeapInv
  <1> DEFINE k == level - 1
  <1>5. k \in 1 .. 3 /\ Way(tables, page, k) = NotPresent
    BY <1>1, SMTT(30)
  <1> HIDE DEF k
  <1>6. Way(boot_info.tables, page, k) = NotPresent
    BY <1>2, <1>3, <1>4, <1>5, WayStays, Zenon
  <1>7. <<k, Above(page, k + 1)>> \in MissingTables
    BY <1>2, <1>5, <1>6, Missing, Zenon
  <1>8. <<k, Above(page, k + 1)>> \notin made
    BY <1>2, <1>5, Zenon DEF Counted
  <1> QED
    BY <1>5, <1>7, <1>8, Zenon DEF k

\* Making a missing table: its frame is counted, or there are too few.
LEMMA CreateTableHeap ==
    ASSUME MemoryInv, HeapInv, CreateTable
    PROVE  HeapInv'
  <1>1. /\ next' = next + 1 /\ boot_info' = boot_info /\ page' = page
        /\ mstep = "map" /\ level > 1 /\ Here = NotPresent
    BY AllocateFrame, SMTT(30) DEF CreateTable, HeapFails
  <1>2. CASE allocate_frame.frame = NotPresent
    <2>1. tables' = tables /\ mstep' = "panic"
      BY <1>2 DEF CreateTable, HeapFails
    <2>2. ASSUME RangeFree, NEW made, Counted(made), StillFree
          PROVE  (\E m : Counted(m)') /\ StillFree' /\ (mstep' = "panic" => TooFew')
      <3>1. \E x : x \in MissingTables \ made
        BY <1>1, <2>2, MissesHere, Zenon
      <3>2. TooFew
        BY <1>1, <1>2, <2>2, <3>1, RunsOut
      <3>3. TooFew'
        BY <1>1, <3>2, BootKept, Zenon DEF TooFew
      <3>4. \A l \in 1 .. 3, q \in Heap :
               Way(tables', q, l) = NotPresent => Way(tables, q, l) = NotPresent
        BY <2>1, Zenon
      <3>5. mstep' # "allocate" /\ mstep' # "map"
        BY <2>1, SMTT(30)
      <3>6. \E m : Counted(m)'
        BY <1>1, <2>2, <3>4, <3>5, CountedStays, Zenon
      <3>7. StillFree'
        BY <3>5 DEF StillFree
      <3> QED
        BY <3>3, <3>6, <3>7, Zenon
    <2> QED
      BY <1>1, <2>1, <2>2, HeapKept, Zenon
  <1>3. ASSUME allocate_frame.frame # NotPresent PROVE HeapInv'
    <2> DEFINE f == Frames[next + 1]
               k == level - 1
               x == <<k, Above(page, k + 1)>>
    <2>1. /\ tables' = WithTable(f) /\ mstep' = "map" /\ level' = level - 1 /\ table' = f
      BY <1>1, <1>3, AllocateFrame, FreshFrame DEF CreateTable
    <2>2. f \in Frame /\ f \notin DOMAIN tables
      BY <1>3, AllocateFrame, FreshFrame
    <2> HIDE DEF f
    <2>3. /\ Extends(tables, tables') /\ WellLinked(tables')
      BY <1>1, <2>1, <2>2, WithTableExtends, Zenon
    <2>4. Unshared(tables')
      <3>1. Unshared(tables)
        BY Zenon DEF HeapInv
      <3> QED
        BY <1>1, <2>1, <2>2, <3>1, WithTableUnshared, Zenon
    <2>5. Extends(boot_info'.tables, tables')
      <3>1. Extends(boot_info.tables, tables)
        BY Zenon DEF HeapInv
      <3> QED
        BY <1>1, <2>3, <3>1, ExtendsFurther, Zenon
    <2>6. ASSUME RangeFree', NEW made, Counted(made), StillFree
          PROVE  (\E m : Counted(m)') /\ StillFree' /\ mstep' # "panic"
      <3>1. k \in 1 .. 3 /\ x \in MissingTables \ made
        BY <1>1, <2>6, MissesHere, Zenon
      <3>2. /\ page \in Heap /\ page \in Page /\ Heap \subseteq Page
        BY <1>1, HeapPage, Zenon
      <3>3. Way(tables', page, k) = f
        <4>1. MemoryInv'
          BY CreateTableStep, Zenon
        <4>2. Way(tables', page', level') = table'
          BY <2>1, <4>1, Zenon DEF MemoryInv
        <4> QED
          BY <1>1, <2>1, <4>2, Zenon
      <3>4. /\ WellLinked(tables) /\ Cr3 \in DOMAIN tables /\ tables[Cr3].level = 4
        BY Zenon DEF MemoryInv, MemoryTypeOK
      <3>5. DOMAIN tables' \subseteq Frame
        BY <2>3, Zenon DEF WellLinked
      <3>0. PICK more : more = made \cup {x}
        BY Zenon
      <3>6. /\ made \in SUBSET MissingTables /\ IsFiniteSet(made)
            /\ next = (page - HeapStart) + 1 + Cardinality(made)
        BY <1>1, <2>6, Zenon DEF Counted
      <3>7. IsFiniteSet(more) /\ Cardinality(more) = Cardinality(made) + 1
        <4>1. x \notin made
          BY <3>1, Zenon
        <4> HIDE DEF x
        <4> QED
          BY <3>0, <3>6, <4>1, FS_AddElement
      <3>8. more \in SUBSET MissingTables'
        BY <1>1, <3>0, <3>1, <3>6, BootKept, Zenon
      <3>9. next' = (page' - HeapStart) + 1 + Cardinality(more)
        <4>1. Cardinality(made) \in Nat
          BY <2>6, MadeAtMost, Zenon
        <4> QED
          BY <1>1, <3>6, <3>7, <4>1, HeapPage
      <3>10. ASSUME NEW l \in 1 .. 3, NEW q \in Heap, Way(tables', q, l) = NotPresent
             PROVE  <<l, Above(q, l + 1)>> \notin more
        <4>1. Way(tables, q, l) = NotPresent
          BY <2>3, <3>2, <3>4, <3>5, <3>10, WayStays, Zenon
        <4>2. <<l, Above(q, l + 1)>> \notin made
          BY <2>6, <4>1, Zenon DEF Counted
        <4>3. ASSUME <<l, Above(q, l + 1)>> = x PROVE FALSE
          <5> HIDE DEF k
          <5>1. l = k /\ Above(q, l + 1) = Above(page, k + 1)
            BY <4>3
          <5>2. Above(q, k + 1) = Above(page, k + 1) /\ q \in Page
            BY <3>2, <5>1, Zenon
          <5>3. Way(tables', q, k) = Way(tables', page, k)
            BY <3>1, <3>2, <5>2, SameWay, Zenon
          <5> QED
            BY <2>2, <3>3, <3>10, <5>1, <5>3, Values, Zenon
        <4> QED
          BY <3>0, <4>2, <4>3, Zenon
      <3>11. mstep' # "allocate" /\ mstep' # "panic"
        BY <2>1, SMTT(30)
      <3>12. Counted(more)'
        BY <3>7, <3>8, <3>9, <3>10, <3>11, Zenon DEF Counted
      <3>13. StillFree'
        <4> SUFFICES ASSUME NEW q \in Heap, q >= page' PROVE At(q)' = NotPresent
          BY SMTT(30) DEF StillFree
        <4>1. q >= page
          BY <1>1, Zenon
        <4>2. At(q) = NotPresent
          BY <1>1, <2>6, <4>1 DEF StillFree
        <4>3. translate_addr_inner(WithTable(f), q) = NotPresent
          BY <1>1, <2>2, <3>2, <4>2, WithTableFree, Zenon DEF At
        <4> QED
          BY <2>1, <4>3, Zenon DEF At
      <3> QED
        BY <3>11, <3>12, <3>13, Zenon
    <2>7. RangeFree' => RangeFree
      BY <1>1, Zenon DEF RangeFree
    <2>8. RangeFree' => (\E made : Counted(made)) /\ StillFree
      BY <2>7, Zenon DEF HeapInv
    <2>9. RangeFree' => (\E m : Counted(m)') /\ StillFree' /\ mstep' # "panic"
      BY <2>6, <2>8, Zenon
    <2> QED
      BY <2>4, <2>5, <2>9, Zenon DEF HeapInv
  <1> QED
    BY <1>2, <1>3, Zenon

\* Entering a page's frame changes nothing above the last level.
LEMMA MapPageWays ==
    ASSUME MemoryInv, MapPage
    PROVE  /\ Extends(tables, tables') /\ DOMAIN tables' = DOMAIN tables
           /\ table \in DOMAIN tables /\ tables[table].level = 1
           /\ P1(tables, page) = table /\ index(page, 1) \in Index
           /\ \A g \in DOMAIN tables \ {table} : tables'[g] = tables[g]
           /\ tables'[table].level = 1
           /\ \A i \in Index : i # index(page, 1) =>
                 tables'[table].entry[i] = tables[table].entry[i]
  <1> DEFINE i0 == index(page, 1)
  <1>1. /\ mstep = "map" /\ level = 1 /\ Here = NotPresent
        /\ tables' = [tables EXCEPT ![table].entry[i0] = frame]
    BY Zenon DEF MapPage
  <1>2. /\ table \in DOMAIN tables /\ tables[table].level = 1 /\ WellLinked(tables)
        /\ P1(tables, page) = table
    BY <1>1, Ways DEF MemoryInv, MemoryTypeOK
  <1>3. i0 \in Index
    <2>1. page \in Page
      BY <1>1, HeapPage, SMTT(30)
    <2> QED
      BY <2>1, IndexInRange, SMTT(30)
  <1>4. tables[table] \in [level : 1 .. 4, entry : [Index -> Frame \cup {NotPresent, HugePage}]]
    BY <1>2, SMTT(30) DEF WellLinked
  <1>5. tables[table].entry[i0] = NotPresent
    BY <1>1, SMTT(30) DEF Here
  <1> HIDE DEF i0
  <1>6. /\ DOMAIN tables' = DOMAIN tables
        /\ \A g \in DOMAIN tables \ {table} : tables'[g] = tables[g]
        /\ tables'[table].level = 1
        /\ tables'[table].entry = [tables[table].entry EXCEPT ![i0] = frame]
    BY <1>1, <1>2, <1>4
  <1>7. \A i \in Index : i # i0 => tables'[table].entry[i] = tables[table].entry[i]
    BY <1>4, <1>6
  <1>8. Extends(tables, tables')
    BY <1>2, <1>5, <1>6, <1>7, Zenon DEF Extends
  <1> QED
    BY <1>2, <1>3, <1>6, <1>7, <1>8, Zenon DEF i0

\* Mapping a page leaves the translation of every other page alone.
LEMMA MapPageOthers ==
    ASSUME MemoryInv, MapPage, Unshared(tables), NEW q \in Page
    PROVE  /\ \A l \in 1 .. 3 : Way(tables', q, l) = Way(tables, q, l)
           /\ q # page => At(q)' = At(q)
  <1>1. /\ DOMAIN tables' = DOMAIN tables /\ table \in DOMAIN tables /\ tables[table].level = 1
        /\ P1(tables, page) = table /\ index(page, 1) \in Index
        /\ \A g \in DOMAIN tables \ {table} : tables'[g] = tables[g]
        /\ \A i \in Index : i # index(page, 1) =>
                 tables'[table].entry[i] = tables[table].entry[i]
    BY MapPageWays, Zenon
  <1>2. WellLinked(tables) /\ Cr3 \in DOMAIN tables /\ tables[Cr3].level = 4
    BY Zenon DEF MemoryInv, MemoryTypeOK
  <1>3. table \in Frame
    BY <1>1, <1>2, Zenon DEF WellLinked
  <1>4. Cr3 # table /\ P3(tables, q) # table /\ P2(tables, q) # table
    <2>1. /\ P3(tables, q) \in Frame => tables[P3(tables, q)].level = 3
          /\ P2(tables, q) \in Frame => tables[P2(tables, q)].level = 2
      BY <1>2, WalkLinked, Zenon
    <2>2. 1 # 2 /\ 1 # 3 /\ 1 # 4
      OBVIOUS
    <2> QED
      BY <1>1, <1>2, <1>3, <2>1, <2>2, Zenon
  <1>5. ASSUME NEW e, NEW i, e # table PROVE Entry(tables', e, i) = Entry(tables, e, i)
    BY <1>1, <1>5, Zenon DEF Entry
  <1>6. P3(tables', q) = P3(tables, q)
    BY <1>4, <1>5, Zenon DEF P3
  <1>7. P2(tables', q) = P2(tables, q)
    BY <1>4, <1>5, <1>6, Zenon DEF P2
  <1>8. P1(tables', q) = P1(tables, q)
    BY <1>4, <1>5, <1>7, Zenon DEF P1
  <1>9. \A l \in 1 .. 3 : Way(tables', q, l) = Way(tables, q, l)
    <2>1. \A l \in 1 .. 3 : l = 1 \/ l = 2 \/ l = 3
      BY SMTT(30)
    <2>2. Way(tables', q, 1) = Way(tables, q, 1) /\ Way(tables', q, 2) = Way(tables, q, 2)
          /\ Way(tables', q, 3) = Way(tables, q, 3)
      BY <1>6, <1>7, <1>8, Ways, Zenon
    <2> QED
      BY <2>1, <2>2, Zenon
  <1>10. ASSUME q # page PROVE At(q)' = At(q)
    <2>1. CASE P1(tables, q) # table
      <3>1. translate_addr_inner(tables', q) = translate_addr_inner(tables, q)
        BY <1>5, <1>8, <2>1, Zenon DEF translate_addr_inner
      <3> QED
        BY <3>1, Zenon DEF At
    <2>2. CASE P1(tables, q) = table
      <3>0. page \in Page
        <4>1. mstep \in {"allocate", "map"}
          BY SMTT(30) DEF MapPage
        <4> QED
          BY <4>1, HeapPage, Zenon
      <3>1. index(q, 1) # index(page, 1)
        BY <1>1, <1>2, <1>3, <1>10, <2>2, <3>0, OnePage, Zenon
      <3>2. index(q, 1) \in Index
        BY IndexInRange
      <3>3. tables'[table].entry[index(q, 1)] = tables[table].entry[index(q, 1)]
        BY <1>1, <3>1, <3>2, Zenon
      <3>4. Entry(tables', table, index(q, 1)) = Entry(tables, table, index(q, 1))
        BY <1>1, <3>3, Zenon DEF Entry
      <3>5. translate_addr_inner(tables', q) = translate_addr_inner(tables, q)
        BY <1>8, <2>2, <3>4, Zenon DEF translate_addr_inner
      <3> QED
        BY <3>5, Zenon DEF At
    <2> QED
      BY <2>1, <2>2, Zenon
  <1> QED
    BY <1>9, <1>10, Zenon

\* Mapping a page takes no more frames, and leaves the pages after it free.
LEMMA MapPageHeap ==
    ASSUME MemoryInv, HeapInv, MapPage
    PROVE  HeapInv'
  <1>1. /\ next' = next /\ boot_info' = boot_info /\ page' = page + 1 /\ mstep = "map"
        /\ mstep' \in {"ready", "allocate"}
    BY SMTT(30) DEF MapPage
  <1>2. Unshared(tables) /\ Extends(boot_info.tables, tables)
    BY Zenon DEF HeapInv
  <1>3. /\ Extends(tables, tables') /\ DOMAIN tables' = DOMAIN tables
        /\ \A g \in DOMAIN tables \ {table} : tables'[g] = tables[g]
        /\ tables'[table].level = 1
    BY MapPageWays, Zenon
  <1>4. Extends(boot_info'.tables, tables')
    BY <1>1, <1>2, <1>3, ExtendsFurther, Zenon
  <1>5. Unshared(tables')
    <2>1. \A g \in DOMAIN tables' : tables'[g].level > 1 =>
            g \in DOMAIN tables /\ tables'[g] = tables[g]
      BY <1>3
    <2> QED
      BY <1>2, <2>1, SMTT(30) DEF Unshared
  <1>6. \A q \in Page : /\ \A l \in 1 .. 3 : Way(tables', q, l) = Way(tables, q, l)
                        /\ q # page => At(q)' = At(q)
    BY <1>2, MapPageOthers, Zenon
  <1>7. /\ page \in Nat /\ HeapStart \in Nat /\ Heap \subseteq Page /\ next \in Nat
    BY <1>1, HeapPage, SMTT(30)
  <1>8. ASSUME RangeFree', NEW made, Counted(made), StillFree
        PROVE  (\E m : Counted(m)') /\ StillFree'
    <2>1. next = (page - HeapStart) + 1 + Cardinality(made)
      BY <1>1, <1>8, Zenon DEF Counted
    <2>2. Cardinality(made) \in Nat
      BY <1>8, MadeAtMost, Zenon
    <2>3. next' = (page' - HeapStart) + Cardinality(made)
      BY <1>1, <1>7, <2>1, <2>2
    <2>4. \A l \in 1 .. 3, q \in Heap :
               Way(tables', q, l) = NotPresent => Way(tables, q, l) = NotPresent
      BY <1>6, <1>7, Zenon
    <2>5. mstep' # "map"
      BY <1>1, SMTT(30)
    <2>6. \E m : Counted(m)'
      BY <1>1, <1>8, <2>3, <2>4, <2>5, CountedStays, Zenon
    <2>7. StillFree'
      <3> SUFFICES ASSUME NEW q \in Heap, q >= page' PROVE At(q)' = NotPresent
        BY DEF StillFree
      <3>1. q \in Page /\ q \in Int
        BY <1>7, SMTT(30) DEF Heap
      <3>2. q >= page /\ q # page
        BY <1>1, <1>7, <3>1
      <3>3. At(q) = NotPresent
        BY <1>1, <1>8, <3>2 DEF StillFree
      <3> QED
        BY <1>6, <3>1, <3>2, <3>3, Zenon
    <2> QED
      BY <2>6, <2>7, Zenon
  <1>9. RangeFree' => RangeFree
    BY <1>1, Zenon DEF RangeFree
  <1>10. RangeFree' => (\E made : Counted(made)) /\ StillFree
    BY <1>9, Zenon DEF HeapInv
  <1>11. RangeFree' => (\E m : Counted(m)') /\ StillFree'
    BY <1>8, <1>10, Zenon
  <1>12. mstep' # "panic"
    BY <1>1, SMTT(30)
  <1> QED
    BY <1>4, <1>5, <1>11, <1>12, Zenon DEF HeapInv

\* Every step of init_heap keeps the count.
LEMMA HeapInvStep ==
    ASSUME MemoryInv, HeapInv, [MemoryNext]_mvars
    PROVE  HeapInv'
  <1>1. CASE UNCHANGED mvars
    <2>1. /\ boot_info' = boot_info /\ tables' = tables /\ next' = next /\ mstep' = mstep
          /\ page' = page
      BY <1>1, SMTT(30) DEF mvars
    <2>2. Frames' = Frames /\ MissingTables' = MissingTables
      BY <2>1, BootKept, Zenon
    <2>3. ASSUME RangeFree, NEW made, Counted(made), StillFree
          PROVE  (\E m : Counted(m)') /\ StillFree' /\ (mstep' = "panic" => TooFew')
      <3>1. \A l \in 1 .. 3, q \in Heap :
               Way(tables', q, l) = NotPresent => Way(tables, q, l) = NotPresent
        BY <2>1, Zenon
      <3>2. /\ mstep' = "allocate" => next' = (page' - HeapStart) + Cardinality(made)
            /\ mstep' = "map" => next' = (page' - HeapStart) + 1 + Cardinality(made)
        BY <2>1, <2>3, Zenon DEF Counted
      <3>3. \E m : Counted(m)'
        BY <2>1, <2>3, <3>1, <3>2, CountedStays, Zenon
      <3>4. StillFree'
        BY <2>1, <2>3 DEF StillFree, At
      <3>5. mstep' = "panic" => TooFew'
        <4>1. mstep = "panic" => TooFew
          BY <2>3, Zenon DEF HeapInv
        <4> QED
          BY <2>1, <2>2, <4>1, Zenon DEF TooFew
      <3> QED
        BY <3>3, <3>4, <3>5, Zenon
    <2> QED
      BY <2>1, <2>3, HeapKept, Zenon
  <1> QED
    BY <1>1, AllocatePageHeap, DescendHeap, CreateTableHeap, MapFailsHeap, MapPageHeap, Zenon
       DEF MemoryNext

\* An error of init_heap means what the message says.
LEMMA HeapInvImplies == HeapInv => HeapFailsOnlyWhenShort
  <1> SUFFICES ASSUME HeapInv, mstep = "panic",
                      \A p \in Heap : translate_addr_inner(boot_info.tables, p) = NotPresent
               PROVE  Len(usable_frames(boot_info.memory_map)) <
                          HeapPages + Cardinality(MissingTables)
    BY Zenon DEF HeapFailsOnlyWhenShort
  <1>1. TooFew
    BY Zenon DEF HeapInv, RangeFree
  <1> QED
    BY <1>1, Zenon DEF TooFew, Frames
-----------------------------------------------------------------------------
\* The machine.

\* To the driver and the drive, every step of the machine is one of theirs or
\* none.
LEMMA AtaSteps == [MachineNext]_machine => [AtaNext]_avars
<1> SUFFICES ASSUME [MachineNext]_machine PROVE [AtaNext]_avars
  BY SMTT(30)
<1>1. CASE fat16_init
  <2>1. read_sector(0) /\ 0 \in Sector
    BY <1>1, AtaConstants DEF fat16_init, AtaConstants, Sector
  <2>2. Operation
    BY <2>1, Zenon DEF Operation
  <2>3. astep # "off"
    BY <2>1, Zenon DEF read_sector, Idle
  <2> QED
    BY <2>2, <2>3, Zenon DEF AtaNext
<1>2. CASE Run
  BY <1>2, Zenon DEF Run, AtaNext
<1>3. CASE DriverStep
  <2>1. Driver
    BY <1>3, Zenon DEF DriverStep
  <2>2. astep # "off"
    BY <2>1, Zenon DEF Driver, WaitBsy, TakeWords, SendWords, SendFlush, WaitLast, FormatSector,
                FormatFlush
  <2> QED
    BY <2>1, <2>2, Zenon DEF AtaNext
<1>4. CASE astep # "off" /\ (DriveStep \/ DriveChoice \/ Restart)
  BY <1>4, Zenon DEF DriveStep, DriveChoice, Restart, AtaNext
<1>5. CASE SetupHeap \/ Mount \/ UNCHANGED machine
  BY <1>5, Zenon DEF SetupHeap, Mount, machine
<1> QED
  BY <1>1, <1>2, <1>3, <1>4, <1>5, Zenon DEF MachineNext

\* To the memory, every step is one of init_heap, none, or a restart, which cuts
\* the power.
LEMMA MemorySteps ==
    [MachineNext]_machine => [MemoryNext]_mvars \/ (MemoryInit' /\ cuts' # cuts)
<1> SUFFICES ASSUME [MachineNext]_machine
             PROVE  [MemoryNext]_mvars \/ (MemoryInit' /\ cuts' # cuts)
  BY SMTT(30)
<1>1. CASE Restart
  <2>1. MemoryInit'
    BY <1>1, Zenon DEF Restart, MemoryInit
  <2>2. cuts' # cuts
    BY <1>1, AtaConstants DEF Restart, PowerCut, AtaConstants
  <2> QED
    BY <2>1, <2>2, Zenon
<1>2. CASE SetupHeap
  BY <1>2, Zenon DEF SetupHeap
<1>3. CASE fat16_init \/ Mount \/ Run \/ DriverStep \/ DriveStep \/ DriveChoice
           \/ UNCHANGED machine
  BY <1>3, Zenon DEF fat16_init, Mount, Run, DriverStep, DriveStep, DriveChoice, machine
<1> QED
  BY <1>1, <1>2, <1>3, Zenon DEF MachineNext

\* A machine always satisfies both inductive invariants.
LEMMA MachineInv == MachineSpec => [](AtaInv /\ MemoryInv)
<1>1. MachineInit => AtaInv /\ MemoryInv
  BY AtaInitInv, MemoryInitInv, Zenon DEF MachineInit
<1>2. AtaInv /\ MemoryInv /\ [MachineNext]_machine => (AtaInv /\ MemoryInv)'
  <2> SUFFICES ASSUME AtaInv, MemoryInv, [MachineNext]_machine PROVE AtaInv' /\ MemoryInv'
    BY SMTT(30)
  <2>1. AtaInv'
    BY AtaSteps, AtaInvStep, Zenon
  <2>2. MemoryInit' => MemoryInv'
    BY MemoryInitInv, PTL
  <2>3. MemoryInv'
    BY <2>2, MemorySteps, MemoryInvStep, Zenon
  <2> QED
    BY <2>1, <2>3, Zenon
<1> QED
  BY <1>1, <1>2, PTL DEF MachineSpec

\* init_heap puts every heap page on a usable frame of its own that holds no page
\* table, for page tables and heaps of any size, although map_to takes table
\* frames from the same allocator between two pages.
THEOREM HeapIsPrivate == MachineSpec => []HeapFramesArePrivate
  BY MachineInv, MemoryInvImplies, PTL

\* When init_heap returns Ok every page of the heap is mapped.
THEOREM HeapIsComplete == MachineSpec => []HeapIsMapped
  BY MachineInv, MemoryInvImplies, PTL

\* kernel_main's expect("heap initialization failed") is reached only on a machine
\* whose usable frames are fewer than the heap's pages and the tables missing on the
\* way to them, or whose bootloader mapped part of the heap's range, for heaps and
\* page tables of any size: no frame that allocate_frame gives is wasted.
THEOREM HeapNeedsNoMore == MachineSpec => []HeapFailsOnlyWhenShort
  <1>1. MachineInit => HeapInv
    BY InitHeapInv, SMTT(30) DEF MachineInit
  <1>2. MemoryInv /\ HeapInv /\ [MachineNext]_machine => HeapInv'
    <2>1. MemoryInit' => HeapInv'
      BY InitHeapInv, PTL
    <2> QED
      BY <2>1, MemorySteps, HeapInvStep
  <1>3. HeapInv => HeapFailsOnlyWhenShort
    BY HeapInvImplies
  <1> QED
    BY <1>1, <1>2, <1>3, MachineInv, PTL DEF MachineSpec

\* Nothing that init_heap does moves a page that is mapped.
THEOREM MappingsAreKept == MachineSpec => MappingsStay
<1>1. MemoryInv /\ [MachineNext]_machine => [cuts' = cuts => KeepsMappings]_machine
  BY MemorySteps, MemoryKeepsMappings, Zenon
<1> QED
  BY <1>1, MachineInv, PTL DEF MachineSpec, MappingsStay

\* quit puts every written sector on the platter of a drive that fails nothing,
\* whichever of the driver's flushes the drive ignored.
THEOREM QuitIsSafe == MachineSpec => []QuitLosesNothing
  BY MachineInv, AtaInvImplies, PTL

\* read_sector returns what write_sector_bytes or format_drive last sent.
THEOREM ReadsAreCurrent == MachineSpec => []ReadsWhatWasWritten
  BY MachineInv, AtaInvImplies, PTL

\* Without a drive failure only the first operation after format_drive can spin
\* forever for a data request.
THEOREM HangNeedsFormat == MachineSpec => []HangsOnlyAfterFormat
  BY MachineInv, AtaInvImplies, PTL
=============================================================================
