SPECIFICATION Spec
CONSTANTS
    logi = logi
    tackler = tackler
    watcher = watcher
    Pilot <- MCPilot
    NoName = noName
    Log <- MCLog
    Owner <- MCOwner
    Session <- MCSession
    Span <- MCSpan
    Window <- MCWindow
    BUCKET_SECONDS = 5
    Histories <- MCHistories
INVARIANTS
    
    AssistsCountOnce
