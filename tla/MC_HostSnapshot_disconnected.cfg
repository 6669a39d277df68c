\* The wallet goes after rounds were shown.
SPECIFICATION Spec
CONSTANTS
    None = None
    Histories <- MC_Histories
    MaxBets = 1
    MaxId = 2
    Payouts = {1}
    Settings <- MC_Disconnected
PROPERTIES
    EmptyWithoutWallet
CHECK_DEADLOCK FALSE
