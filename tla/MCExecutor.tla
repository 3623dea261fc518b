----------------------------- MODULE MCExecutor -----------------------------
\* Executor with a few tasks and a ready queue that can overflow.
EXTENDS Executor, TLC
=============================================================================
