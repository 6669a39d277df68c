\* Fixed lags with failing polls, and lags that change with any failing call.
SPECIFICATION FairSpec
CONSTANTS
    MaxBlocks = 3
    LogsPerBlock = 2
    MaxFaults = 2
    Settings <- MC_Settings
INVARIANTS
    ChainOrder
    FlashblockFirst
PROPERTIES
    QuietAfterStop
    NothingLostToPolls
CHECK_DEADLOCK FALSE
