\* The local node and the page; the bridge; the frame; the transactions; the snapshot.
SPECIFICATION SimulatorSpec
CONSTANTS
    Missing = Missing
    Files = {1}
    Contents = {"two", "broken"}
    Broken = {"broken"}
    GamesIn <- MC_GamesIn
    NeedArgs = {"C"}
    Budgets <- MC_Budgets
    Unset = Unset
    MaxMounts = 2
    MaxContent = 2
    MaxRebuilds = 1
    MaxLost = 1
    Unknown = Unknown
    Pages <- MC_Pages
    Batches = {"small", "large", "action"}
    ActionsOf <- MC_ActionsOf
    MaxSendFaults = 2
    None = None
    Histories <- MC_NoHistory
    MaxBets = 1
    MaxId = 1
    Payouts = {1}
    Settings <- MC_Lags
INVARIANTS
    PublishedIsUsable
    OneRuntime
    EachBetSpendsItsOwnApproval
PROPERTIES
    DroppedGamesShowUp
    GuestFollows
    FrameFollowsTheGame
    EveryBatchSettles
    ResultIsShown
CHECK_DEADLOCK FALSE
