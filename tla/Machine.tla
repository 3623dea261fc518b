------------------------------ MODULE Machine ------------------------------
(***************************************************************************)
(* The machine from power-on to power-off: kernel_main's order of the heap *)
(* (Memory) and the file system's first read (Ata), the disk operations of *)
(* the commands while it runs, and shutdown.  A power cut starts it again. *)
(***************************************************************************)
EXTENDS Memory, Ata

VARIABLES
    boot,  \* "memory", "bpb", "running" or "panic"
    FS     \* "None" or "Some": whether fat16::init accepted sector 0

machine == <<mvars, avars, boot, FS>>

MachineInit == MemoryInit /\ AtaInit /\ boot = "memory" /\ FS = "None"

\* init_heap, whose error is a panic.
SetupHeap ==
    /\ boot = "memory" /\ MemoryNext
    /\ boot' = CASE mstep' = "ready" -> "bpb" [] mstep' = "panic" -> "panic"
                 [] OTHER -> "memory"
    /\ UNCHANGED <<avars, FS>>

\* fat16::init reads sector 0.
fat16_init ==
    /\ boot = "bpb" /\ op = "none" /\ read_sector(0)
    /\ UNCHANGED <<mvars, boot, FS>>

\* It accepts a boot sector with 512 bytes per sector; without one FS stays
\* None and kernel_main's unwrap panics.
Mount ==
    /\ boot = "bpb" /\ op = "read" /\ astep = "idle"
    /\ IF data = BootSector THEN FS' = "Some" /\ boot' = "running"
       ELSE FS' = FS /\ boot' = "panic"
    /\ UNCHANGED <<mvars, avars>>

Run ==
    /\ boot = "running" /\ astep # "off" /\ Operation
    /\ UNCHANGED <<mvars, boot, FS>>

DriverStep ==
    /\ boot \in {"bpb", "running"} /\ Driver
    /\ UNCHANGED <<mvars, boot, FS>>

DriveStep == Drive /\ UNCHANGED <<mvars, boot, FS>>
DriveChoice == DriveChooses /\ UNCHANGED <<mvars, boot, FS>>

Restart ==
    /\ PowerCut
    /\ boot' = "memory" /\ FS' = "None"
    /\ boot_info' \in BootInfos /\ next' = 0 /\ tables' = boot_info'.tables
    /\ mstep' = "allocate" /\ page' = HeapStart
    /\ frame' = NotPresent /\ table' = Cr3 /\ level' = 4

MachineNext ==
    \/ SetupHeap \/ fat16_init \/ Mount \/ Run \/ DriverStep
    \/ (astep # "off" /\ (DriveStep \/ DriveChoice \/ Restart))

\* The kernel's code runs on, and a drive finishes the command it accepted.
MachineSpec ==
    /\ MachineInit /\ [][MachineNext]_machine
    /\ WF_machine(SetupHeap \/ fat16_init \/ Mount \/ DriverStep)
    /\ WF_machine(DriveStep)
-----------------------------------------------------------------------------
\* Every disk operation returns, unless the drive failed a command, the
\* operation came right after a format, or the power was cut.  (The spin loops
\* have no timeout: nothing else ends them.)
OperationReturns ==
    astep \notin {"idle", "off"} ~> astep \in {"idle", "off"} \/ failed \/ formatted

\* A page that is mapped stays on its frame until the power is cut, whatever
\* tables init_heap adds after it: the kernel's own pages, and the heap's earlier
\* ones.
MappingsStay == [][cuts' = cuts => KeepsMappings]_machine
=============================================================================
