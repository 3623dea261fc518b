---------------------------- MODULE MCLispReader ----------------------------
\* LispGrammar over every text of one letter and the special characters.
EXTENDS LispGrammar
=============================================================================
