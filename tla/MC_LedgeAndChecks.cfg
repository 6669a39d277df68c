\* Rounds: two against a vault that cannot cover both at once.
SPECIFICATION AllSpec
CONSTANTS
    Players = {p1}
    Host = Host
    Vault = Vault
    Games = {g1}
    LEDGE = g1
    None = None
    UINT_MAX = 120
    UINT128_MAX = 200
    UINT64_MAX = 2
    UINT32_MAX = 4
    ACTION_TIMEOUT_BLOCKS = 2
    RANDOMNESS_TIMEOUT_BLOCKS = 1
    Wagers = {2}
    Approvals = {}
    Grants = {50}
    Boards <- MC_Boards
    Caps <- MC_Caps
    StepResults <- MC_StepResults
    ForfeitQuotes = {0}
    Purse = 4
    Bankroll = 60
    MaxBlock = 3
    SEED_BYTES = 8
    MaxSeed = 2
    Values <- MC_Values
    HISTORY_LIMIT = 2
    Multipliers <- MC_Multipliers
    Sittings <- MC_Sittings
    Networks = {1, 2}
    Confirms = {0, 1}
    Funds = {0, 1, 2}
    Costs = {2}
    MaxRuns = 2
    Q = 13
    C_LIMIT = 11
    S_LIMIT = 32
    HASH_TO_CURVE_MAX_ITERATIONS = 2
    CurveDigest <- MC_CurveDigest
    ChallengeDigest <- MC_ChallengeDigest
    NonceOf <- MC_NonceOf
    Scenarios <- MC_Scenarios
    BYTE = 8
    WIDTH <- MC_WIDTH
    Sessions <- MC_Sessions
    Flags = {4, 7}
INVARIANTS
    EveryOutcomeSettles
    FreshBytes
    OutcomeFollowsDraws
    LimitIsRight
    StatsTellTheRounds
    VerdictIsRight
    CodecIsExact
    DeploymentsAreInOrder
PROPERTIES
    RoundsEnd
CHECK_DEADLOCK FALSE
