CONSTANTS
    Letters <- MCLetters
    Lower <- MCLower
    MaxInt = 99
    MaxParams = 3
    MaxHistory = 2
    Scripts <- MCScripts
    Keystrokes <- MCKeystrokes
    Histories <- MCHistories
    MaxStrokes = 4
    MaxRows = 3
    SampleRows = 2
SPECIFICATION Spec
INVARIANTS
    SplitterAgrees
    MeansWhatIsWritten
    KeysArrive
    ExitTellsTruth
CHECK_DEADLOCK FALSE
