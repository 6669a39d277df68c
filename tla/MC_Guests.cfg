\* The LEDGE page and the coinflip page against a slow, late or refusing host.
SPECIFICATION GuestsSpec
CONSTANTS
    None = None
    Bets = {1, 2}
    Lanes = 1
    Settings <- MC_Settings
    Words = {1, 2}
    Wager = 100
    Nil = Nil
    Rounds = {1, 2}
    Offers <- MC_Offers
INVARIANTS
    ResultsStayWithTheirBets
    ShownAsSettled
PROPERTIES
    EveryRoundIsRevealed
    EveryRoundResolves
CHECK_DEADLOCK FALSE
