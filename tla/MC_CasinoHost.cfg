\* Three scenarios of the host: a game that moves escrow and reserve at every
\* step, two sessions that race for the vault, tokens that move around them.
SPECIFICATION ScenarioSpec
CONSTANTS
    p1 = p1
    p2 = p2
    Players <- MC_Players
    Host = Host
    Vault = Vault
    Games = {g1}
    None = None
    UINT_MAX = 7
    UINT128_MAX = 2
    UINT64_MAX = 2
    UINT32_MAX = 3
    ACTION_TIMEOUT_BLOCKS = 1
    RANDOMNESS_TIMEOUT_BLOCKS = 1
    Wagers = {0, 1, 2}
    Approvals = {0, 1}
    Grants = {1}
    Caps <- MC_Caps
    StepResults <- MC_StepResults
    ForfeitQuotes = {0, 3, 4}
    Purse = 2
    Bankroll = 1
    MaxBlock = 2
INVARIANTS
    TypeOK
    SessionsConsistent
    EscrowBacked
    HouseBooksBalance
    RefundNeverBlocked
PROPERTIES
    StaleSnapshotsStayStale
    ImplementsCustody
CHECK_DEADLOCK FALSE
