CONSTANTS
    Letters = {"x"}
    Numbers <- Numerals
    Statements <- SomeStatements
    Programs <- Arguments
    CommandLines <- AllLines
    Texts <- BoundTexts
    Files <- Scripts
    KeyOrder <- Keys
    MaxLines = 2
    MaxStatements = 3
    MaxDepth = 14
SPECIFICATION Spec
INVARIANTS ErrorEndsProgram
CHECK_DEADLOCK FALSE
