----------------------------- MODULE FileStore -----------------------------
(***************************************************************************)
(* What the file system promises its callers: a directory of named files   *)
(* whose contents change only as a whole.  A file is Unknown while it is   *)
(* being replaced, and stays so if that is interrupted, until a later      *)
(* replacement ends; but replacing a file that is Unknown may cost every   *)
(* other file too.  Erasing the volume makes all of it Unknown on the way. *)
(***************************************************************************)
EXTENDS Integers, Sequences

CONSTANTS Slots, Names, Contents,
          None,     \* an empty slot
          Unknown   \* the content of a file in flux

VARIABLES dir,
          erasing   \* the volume is being erased

Empty == [s \in Slots |-> None]
Blurred == [s \in Slots |-> IF dir[s] = None THEN None
                            ELSE [name |-> dir[s].name, bytes |-> Unknown]]
Uncertain(s) == dir[s] # None /\ dir[s].bytes = Unknown

Init == dir = Empty /\ erasing = FALSE

\* A file appears complete or not at all.
Create ==
    /\ ~erasing
    /\ \E s \in Slots :
          /\ dir[s] = None
          /\ dir'[s] \in [name : Names, bytes : Contents]
          /\ dir' = [dir EXCEPT ![s] = dir'[s]]
    /\ UNCHANGED erasing

BeginReplace ==
    /\ ~erasing
    /\ \E s \in Slots :
          /\ dir[s] # None
          /\ dir' = [dir EXCEPT ![s] = [name |-> dir[s].name, bytes |-> Unknown]]
    /\ UNCHANGED erasing

\* The file to be replaced was uncertain already.
ReplaceUncertain ==
    /\ ~erasing
    /\ \E s \in Slots : Uncertain(s)
    /\ dir' = Blurred
    /\ UNCHANGED erasing

EndReplace ==
    /\ ~erasing
    /\ \E s \in Slots, c \in Contents :
          /\ Uncertain(s)
          /\ dir' = [dir EXCEPT ![s] = [name |-> dir[s].name, bytes |-> c]]
    /\ UNCHANGED erasing

BeginErase == ~erasing /\ erasing' = TRUE /\ UNCHANGED dir

Erase == erasing /\ dir' = Blurred /\ UNCHANGED erasing

EndErase == erasing /\ dir' = Empty /\ erasing' = FALSE

InterruptErase == erasing /\ erasing' = FALSE /\ UNCHANGED dir

Next ==
    \/ Create \/ BeginReplace \/ ReplaceUncertain \/ EndReplace
    \/ BeginErase \/ Erase \/ EndErase \/ InterruptErase

Spec == Init /\ [][Next]_<<dir, erasing>>
=============================================================================
