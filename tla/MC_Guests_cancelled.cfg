\* A coinflip that is cancelled.
SPECIFICATION GuestsSpec
CONSTANTS
    None = None
    Bets = {1, 2}
    Lanes = 1
    Settings <- MC_Settings
    Words = {1, 2}
    Wager = 100
    Nil = Nil
    Rounds = {1, 2}
    Offers <- MC_Offers
INVARIANTS
    CancelledIsNoWin
CHECK_DEADLOCK FALSE
