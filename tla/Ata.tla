-------------------------------- MODULE Ata --------------------------------
(***************************************************************************)
(* The disk driver (ide.rs), the end of format_drive (fat16.rs) and the    *)
(* shutdown (power.rs), against the drive they talk to through its ports.  *)
(*                                                                         *)
(* The driver spins on the status register and looks at two of its bits:   *)
(* "bsy" and "drq" are these two, in "idle" and "err" both are clear.  The *)
(* drive is external: it works while bsy is set, ignores a command it gets *)
(* meanwhile, keeps written sectors in a cache until it is flushed or      *)
(* chooses to store them, and may fail a command.  Moving the 256 words of *)
(* a sector is one step: the drive waits for them.                         *)
(***************************************************************************)
EXTENDS Integers

CONSTANTS
    LastSector,    \* sectors 0 .. LastSector
    Data,          \* contents of a sector
    BootSector,    \* what format_drive writes to sector 0
    Zeroes,        \* and to every other sector it writes
    Clean,         \* a sector that is not in the cache
    MaxOps,        \* bound: operations between two power cuts
    MaxCuts        \* bound: power cuts in a behaviour

Sector == 0 .. LastSector

ASSUME AtaConstants ==
    /\ LastSector \in Nat /\ {BootSector, Zeroes} \subseteq Data /\ Clean \notin Data
    /\ MaxOps \in Nat /\ MaxCuts \in Nat

VARIABLES
    astep,      \* where the driver is
    op,         \* "none", "read", "write", "format" or "quit"
    lba, data,  \* the sector and the buffer of the last operation
    formatting, \* the sector format_drive writes next, or -1
    status,     \* the drive's "idle", "bsy", "drq" or "err"
    job,        \* its command: "none", "read", "write", "store" or "flush"
    cache, platter,
    ops, cuts,
    meant,      \* ghost: what the driver last sent to each sector
    failed,     \* ghost: the drive failed a command since it was powered on
    formatted   \* ghost: no operation came to its end since format_drive did

driver == <<astep, op, lba, data, formatting>>
drive == <<status, job, cache, platter>>
avars == <<driver, drive, ops, cuts, meant, failed, formatted>>

AtaInit ==
    /\ astep = "idle" /\ op = "none" /\ lba = 0 /\ data = Zeroes /\ formatting = -1
    /\ status = "idle" /\ job = "none" /\ cache = [s \in Sector |-> Clean]
    /\ platter \in [Sector -> Data] /\ meant = platter
    /\ ops = 0 /\ cuts = 0 /\ failed = FALSE /\ formatted = FALSE

\* A write of the command register (external): ignored by a busy drive.
Command(j) ==
    IF status \in {"bsy", "drq"} THEN UNCHANGED <<status, job>>
    ELSE status' = "bsy" /\ job' = j

Idle == astep = "idle" /\ ops < MaxOps /\ ops' = ops + 1 /\ UNCHANGED cuts
Surface == UNCHANGED <<cache, platter>>

\* read_sector and write_sector_bytes up to the command.
read_sector(s) ==
    /\ Idle
    /\ astep' = "wait_bsy" /\ op' = "read" /\ lba' = s
    /\ Command("read")
    /\ UNCHANGED <<data, formatting, meant, failed, formatted>> /\ Surface

SendWrite(s, d) ==
    /\ astep' = "wait_bsy" /\ lba' = s /\ data' = d
    /\ Command("write")
    /\ UNCHANGED <<meant, failed, formatted>> /\ Surface

write_sector_bytes(s, d) ==
    /\ Idle
    /\ op' = "write" /\ SendWrite(s, d)
    /\ UNCHANGED formatting

WaitBsy ==
    /\ astep = "wait_bsy" /\ status # "bsy"
    /\ astep' = "wait_drq"
    /\ UNCHANGED <<op, lba, data, formatting, drive, ops, cuts, meant, failed, formatted>>

\* What the drive answers for a sector.
View(s) == IF cache[s] # Clean THEN cache[s] ELSE platter[s]

\* A bug: the words are read whether the drive has them or not.
TakeWords_NoRequest ==
    /\ astep = "wait_drq" /\ op = "read"
    /\ data' = IF status = "drq" THEN View(lba) ELSE Zeroes
    /\ status' = "idle" /\ job' = "none"
    /\ astep' = "idle" /\ formatted' = FALSE
    /\ UNCHANGED <<op, lba, formatting, ops, cuts, meant, failed>> /\ Surface

\* read_sector takes the words and returns.
TakeWords ==
    /\ astep = "wait_drq" /\ status = "drq" /\ op = "read"
    /\ data' = View(lba)
    /\ status' = "idle" /\ job' = "none"
    /\ astep' = "idle" /\ formatted' = FALSE
    /\ UNCHANGED <<op, lba, formatting, ops, cuts, meant, failed>> /\ Surface

\* write_sector_bytes sends the words, and the drive is busy with them.
SendWords ==
    /\ astep = "wait_drq" /\ status = "drq" /\ op \in {"write", "format"}
    /\ astep' = "send_flush"
    /\ status' = "bsy" /\ job' = "store"
    /\ meant' = [meant EXCEPT ![lba] = data]
    /\ UNCHANGED <<op, lba, data, formatting, ops, cuts, failed, formatted>> /\ Surface

\* The 0xE7 right after the last word, which finds the drive still busy or not.
SendFlush ==
    /\ astep = "send_flush"
    /\ astep' = "wait_last"
    /\ Command("flush")
    /\ UNCHANGED <<op, lba, data, formatting, ops, cuts, meant, failed, formatted>> /\ Surface

\* flush_cache up to its wait, from teardown.
flush_cache ==
    /\ astep' = "wait_last"
    /\ Command("flush")
    /\ UNCHANGED <<lba, data, formatting, meant, failed, formatted>> /\ Surface

\* A bug: teardown relies on the flush after every write.
shutdown_NoFlush ==
    /\ Idle
    /\ op' = "quit" /\ astep' = "off"
    /\ UNCHANGED <<lba, data, formatting, drive, meant, failed, formatted>>

\* shutdown: teardown waits for FS, which nothing holds between two operations,
\* and flushes.
shutdown ==
    /\ Idle
    /\ op' = "quit" /\ flush_cache

\* A bug: the driver does not wait for the end of the last command.
WaitLast_NoWait ==
    /\ astep = "wait_last"
    /\ astep' = CASE op = "quit" -> "off" [] op = "format" -> "format" [] OTHER -> "idle"
    /\ formatted' = FALSE
    /\ UNCHANGED <<op, lba, data, formatting, drive, ops, cuts, meant, failed>>

\* The end of an operation: the machine goes off after quit's, format_drive
\* goes on after one of its writes.
WaitLast ==
    /\ astep = "wait_last" /\ status # "bsy"
    /\ astep' = CASE op = "quit" -> "off" [] op = "format" -> "format" [] OTHER -> "idle"
    /\ formatted' = FALSE
    /\ UNCHANGED <<op, lba, data, formatting, drive, ops, cuts, meant, failed>>

format_drive ==
    /\ Idle
    /\ op' = "format" /\ formatting' = 0 /\ astep' = "format"
    /\ UNCHANGED <<lba, data, drive, meant, failed, formatted>>

FormatSector ==
    /\ astep = "format" /\ formatting <= LastSector
    /\ SendWrite(formatting, IF formatting = 0 THEN BootSector ELSE Zeroes)
    /\ formatting' = formatting + 1
    /\ UNCHANGED <<op, ops, cuts>>

\* format_drive ends with a flush of its own and does not wait for it.
FormatFlush ==
    /\ astep = "format" /\ formatting > LastSector
    /\ Command("flush")
    /\ astep' = "idle" /\ formatting' = -1 /\ formatted' = TRUE
    /\ UNCHANGED <<op, lba, data, ops, cuts, meant, failed>> /\ Surface

Driver ==
    \/ WaitBsy \/ TakeWords \/ SendWords \/ SendFlush \/ WaitLast
    \/ FormatSector \/ FormatFlush

Operation ==
    \/ \E s \in Sector : read_sector(s) \/ \E d \in Data : write_sector_bytes(s, d)
    \/ format_drive \/ shutdown

\* The drive (external) asks for the words or has them ready.
DriveReady ==
    /\ status = "bsy" /\ job \in {"read", "write"}
    /\ status' = "drq"
    /\ UNCHANGED <<driver, job, cache, platter, ops, cuts, meant, failed, formatted>>

DriveStores ==
    /\ status = "bsy" /\ job = "store"
    /\ status' = "idle" /\ job' = "none"
    /\ cache' = [cache EXCEPT ![lba] = data]
    /\ UNCHANGED <<driver, platter, ops, cuts, meant, failed, formatted>>

DriveFlushes ==
    /\ status = "bsy" /\ job = "flush"
    /\ status' = "idle" /\ job' = "none"
    /\ platter' = [s \in Sector |-> View(s)]
    /\ cache' = [s \in Sector |-> Clean]
    /\ UNCHANGED <<driver, ops, cuts, meant, failed, formatted>>

DriveFails ==
    /\ status = "bsy"
    /\ status' = "err" /\ job' = "none"
    /\ failed' = TRUE
    /\ UNCHANGED <<driver, cache, platter, ops, cuts, meant, formatted>>

DriveDestages(s) ==
    /\ cache[s] # Clean
    /\ platter' = [platter EXCEPT ![s] = cache[s]]
    /\ cache' = [cache EXCEPT ![s] = Clean]
    /\ UNCHANGED <<driver, status, job, ops, cuts, meant, failed, formatted>>

Drive == DriveReady \/ DriveStores \/ DriveFlushes
DriveChooses == DriveFails \/ \E s \in Sector : DriveDestages(s)

\* The power fails and comes back: the cache is lost.
PowerCut ==
    /\ cuts < MaxCuts /\ cuts' = cuts + 1
    /\ astep' = "idle" /\ op' = "none" /\ lba' = 0 /\ data' = Zeroes /\ formatting' = -1
    /\ status' = "idle" /\ job' = "none" /\ cache' = [s \in Sector |-> Clean]
    /\ meant' = platter /\ UNCHANGED platter
    /\ ops' = 0 /\ failed' = FALSE /\ formatted' = FALSE

AtaNext == astep # "off" /\ (Driver \/ Operation \/ Drive \/ DriveChooses \/ PowerCut)

AtaSpec == AtaInit /\ [][AtaNext]_avars
-----------------------------------------------------------------------------
\* The driver and the drive are in a state of theirs.
AtaTypeOK ==
    /\ astep \in {"idle", "wait_bsy", "wait_drq", "send_flush", "wait_last",
                  "format", "off"}
    /\ op \in {"none", "read", "write", "format", "quit"}
    /\ lba \in Sector /\ data \in Data /\ formatting \in -1 .. LastSector + 1
    /\ status \in {"idle", "bsy", "drq", "err"}
    /\ job \in {"none", "read", "write", "store", "flush"}
    /\ cache \in [Sector -> Data \cup {Clean}]
    /\ platter \in [Sector -> Data] /\ meant \in [Sector -> Data]
    /\ ops \in Nat /\ cuts \in Nat /\ failed \in BOOLEAN /\ formatted \in BOOLEAN

\* quit loses nothing: when the machine goes off, every sector written since
\* power-on is on the platter with its last content.  The flush inside
\* write_sector_bytes does not achieve that, a busy drive ignores it; teardown's
\* does, even when it is ignored itself because format_drive's is running.
QuitLosesNothing == astep = "off" /\ ~failed => platter = meant

\* A read that returns gives what was last written to its sector.
ReadsWhatWasWritten ==
    op = "read" /\ astep = "idle" /\ ~failed => data = meant[lba]

\* The driver spins for a data request the drive will never make.
Hung == astep = "wait_drq" /\ status \in {"idle", "err"}

\* A drive that fails nothing hangs the driver in one case only: the first
\* operation after format_drive, whose command may reach the drive during the
\* flush that format_drive does not wait for.
HangsOnlyAfterFormat == Hung => failed \/ formatted
=============================================================================
