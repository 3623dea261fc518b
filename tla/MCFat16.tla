------------------------------- MODULE MCFat16 -------------------------------
\* Fat16 on a disk of a few clusters and root directory slots.
EXTENDS Fat16, TLC
=============================================================================
