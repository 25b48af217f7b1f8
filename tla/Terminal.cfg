SPECIFICATION Spec
CONSTANTS
    KeyEnter = KeyEnter
    KeyBack = KeyBack
    KeyCtrl = KeyCtrl
    KeyDel = KeyDel
    CharA = CharA
    Newline = Newline
    Backspace = Backspace
    Keys = {KeyEnter, KeyBack, KeyCtrl, KeyDel}
    Combo = {KeyCtrl, KeyDel}
    Bytes = {CharA, Newline}
    kblayout <- MCLayout
    InSize = 3
    OutSize = 2
    Lengths = {2}
    Messages <- MCMessages
INVARIANTS InputIsExact WrittenIsShown
PROPERTY LineIsRead
CHECK_DEADLOCK FALSE
