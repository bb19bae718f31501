\* Two boots with the Wi-Fi loop: every crash point and every failing command of both
\* scripts.
SPECIFICATION Spec
CONSTANTS
    Host = Host
    Cand = Cand
    NoRoot = NoRoot
    CoreServices = {}
    RemoteHelper = TRUE
    Waydroid = FALSE
    CommandsFail = TRUE
    MaxBoots = 2
INVARIANTS
    TypeOK
    CandidateFallsBack
    CleanRootReturnable
    RecordedReadyReturns
PROPERTIES
    EarlierRecordKept
    RefusalCanBeRetried
    KeepsPromise
