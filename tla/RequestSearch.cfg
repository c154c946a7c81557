SPECIFICATION Spec
CONSTANTS
    None = None
    Uris <- MCUris
    Matched <- MCMatched
    Settings <- MCSettings
    MaxProbes = 2
    MaxCaptureEvents = 2
    MaxKeys = 4
    MaxListKeys = 1
INVARIANTS SearchIsSound
PROPERTIES NextMatchIsNext DeleteKeepsPlace
CHECK_DEADLOCK FALSE
