\* One failing getBlock.
SPECIFICATION FairSpec
CONSTANTS
    MaxBlocks = 2
    LogsPerBlock = 1
    MaxFaults = 1
    Settings <- MC_BlockFault
PROPERTIES
    NothingLost
CHECK_DEADLOCK FALSE
