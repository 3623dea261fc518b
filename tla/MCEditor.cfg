CONSTANTS
    a = a
    b = b
    Chars = {a, b}
    NL = NL
    Lead = Lead
    Cont = Cont
    InitTexts <- Texts
    Absent = Absent
    Damaged = Damaged
    MaxKeys = 6
SPECIFICATION Spec
INVARIANT PanicNeedsWideCharacter
PROPERTIES ImplementsTextBuffer 
CHECK_DEADLOCK FALSE
