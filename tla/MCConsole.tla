----------------------------- MODULE MCConsole ------------------------------
\* Console with one letter, Space, Enter, Backspace and Shift, a grid of a few
\* cells, and commands whose output wraps and scrolls it; the one of `read` ends
\* without a line break.
EXTENDS Console, TLC

Capitals == "a" :> "A"
Samples == {<<>>, <<"a">>, <<"0x07", Blank, "a", "a", "A", NL>>}
Corners == {<<0, 0>>, <<Width - 1, Height - 1>>, <<Width, 0>>}
=============================================================================
