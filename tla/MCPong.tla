------------------------------- MODULE MCPong -------------------------------
\* Pong on a court of a few columns and rows.
EXTENDS Pong, TLC
=============================================================================
