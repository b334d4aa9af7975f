CONSTANTS
    v1 = v1
    v2 = v2
    t1 = t1
    t2 = t2
    t3 = t3
    shift = shift
    letter = letter
    r1 = r1
    r2 = r2
    Views = {v1, v2}
    MaxViewers = 1
    MaxInbox = 1
    MaxTurnsTaken = 1
    Control = TRUE
    FrameWindow = 2
    MaxPaints = 2
    MaxCasts = 2
    Tabs = {t1, t2, t3}
    Sockets = {v1, v2}
    Mine = v1
    NoTab = NoTab
    MaxEpoch = 2
    MaxLeases = 1
    Keys = {shift, letter}
    Keysyms <- KeysymsOf
    Modifier = "Shift"
    NoKeysym = "none"
    MaxQueue = 2
    MaxPresses = 3
    MaxHangs = 1
    MaxTurns = 1
    Records = {r1, r2}
    NoRecord = NoRecord
    MaxFrames = 2
SPECIFICATION ViewerSpec
INVARIANTS
    WatchedIsCounted
    
PROPERTIES
    NewestIsSent
    KeysLetGo
    RecordingEnds
CHECK_DEADLOCK FALSE
