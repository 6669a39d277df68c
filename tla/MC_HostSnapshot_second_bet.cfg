\* A second bet while the first one's round is being indexed.
SPECIFICATION Spec
CONSTANTS
    None = None
    Histories <- MC_NoHistory
    MaxBets = 2
    MaxId = 2
    Payouts = {1}
    Settings <- MC_Steady
PROPERTIES
    NeverBackToIdle
CHECK_DEADLOCK FALSE
