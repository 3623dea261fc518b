----------------------------- MODULE MCMachine -----------------------------
\* Machine with page tables of two entries and a heap of five pages, 5 to 9, that
\* needs tables on every level, and a disk of two sectors.
EXTENDS Machine, TLC

CONSTANT Text

Region(t, s, e) == [type |-> t, start |-> s, end |-> e]
MapTo(e) == <<Region("Usable", 0, 3), Region("InUse", 3, 10), Region("Usable", 10, e)>>

Empty == [i \in Index |-> NotPresent]
Table(l, i, e) == [level |-> l, entry |-> [Empty EXCEPT ![i] = e]]

\* The heap takes eleven frames, which MapTo(18) has.  The bootloader maps page 0,
\* and in two boots page 6 or pages 4 and 5 besides.
Kernel == 4 :> Table(4, 0, 5) @@ 5 :> Table(3, 0, 6) @@ 6 :> Table(2, 0, 7)
          @@ 7 :> Table(1, 0, 8)
Boots == {[memory_map |-> MapTo(e), tables |-> Kernel] : e \in {11, 17, 18}}
         \cup {[memory_map |-> MapTo(18), tables |-> t] : t \in {
             [Kernel EXCEPT ![5].entry[1] = 3] @@ 3 :> Table(2, 1, 9) @@ 9 :> Table(1, 0, 8),
             [Kernel EXCEPT ![5].entry[1] = 3] @@ 3 :> Table(2, 0, HugePage)}}
=============================================================================
