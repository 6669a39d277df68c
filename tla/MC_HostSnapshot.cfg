\* Steady inputs; a round found at load and a wallet that goes and comes back; events in any order; and two bets whose sends may fail.
SPECIFICATION Spec
CONSTANTS
    None = None
    Histories <- MC_Histories
    MaxBets = 2
    MaxId = 3
    Payouts = {1}
    Settings <- MC_Snapshots
INVARIANTS
    ShownAsOnChain
PROPERTIES
    NoStepBack
    ResultNeverRegresses
    RoundStaysListed
    BetStaysVisible
CHECK_DEADLOCK FALSE
