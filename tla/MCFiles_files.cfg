SPECIFICATION Spec
CONSTANTS
    LabelA = a
    LabelB = b
    CommandC = c
    CommandD = d
    KeyK = k
    KeyL = l
    Label = {a, b}
    Command = {c, d}
    Key = {k, l}
    Value = {v}
    Unset = Unset
    Session = {s1, s2}
    Client = {x1, x2}
    Drafts <- MCDrafts
    HandMade <- MCHandMade
    Imported <- MCImported
    None = None
    Partial = Partial
    MaxEdits = 1
    MaxPuts = 2
    Opener = {o1, o2}
    Id = {i1, i2}
    Nobody = Nobody
    Version = {1, 2, 3}
    Current = 2
    Process = {"daemon", "client"}
    NoFile = NoFile
    MaxWrites = 2
INVARIANTS FilesAgree SessionsHaveTheFile OpenHasTables BackupIsTheOriginal AnswerIsTrue
PROPERTIES NoEditIsLost IdentityIsFinal
CHECK_DEADLOCK FALSE
