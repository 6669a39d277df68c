\* Bets and actions that fail before or after they land, late reads, reveals in any order.
SPECIFICATION HostSpec
CONSTANTS
    None = None
    Bets = {1, 2}
    Stake = 1
    ExtraStakes = {1}
    Payouts = {0, 1}
    Purse = 2
    Settings <- MC_Settings
INVARIANTS
    LedgerExact
    ActiveRoundsHaveAnOwner
    ActionsEchoTheChain
CHECK_DEADLOCK FALSE
