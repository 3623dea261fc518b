------------------------------ MODULE MCEditor ------------------------------
\* Editor on one file of two lines, one that ends in a line break, one with a
\* character of two bytes, an empty one, and none.
EXTENDS Editor, TLC

CONSTANTS a, b

Texts == {<<>>, <<a, b, NL, a>>, <<a, NL, NL>>, <<a, Lead, Cont>>}
=============================================================================
