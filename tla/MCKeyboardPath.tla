--------------------------- MODULE MCKeyboardPath ---------------------------
\* KeyboardPath with the keyboard task and one other, and queues of a few places.
EXTENDS KeyboardPath, TLC
=============================================================================
