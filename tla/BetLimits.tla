------------------------------ MODULE BetLimits ------------------------------
(***************************************************************************)
(* computeMaxWager of the SDK (bet-limits.ts) and the limits the simulator *)
(* publishes for it (use-casino-risk-limits.ts), as pure operators.  An    *)
(* absent or unreadable field is Unset; a multiplier is the fraction       *)
(* num / den, with den = 0 for one that is not finite.                     *)
(***************************************************************************)
EXTENDS Integers

ONE_IN_BPS == 10000                   \* BASIS_POINTS
DEFAULT_MAX_BET_RISK_BPS == 100

Unset == -1

\* The `casino` block of a snapshot.
Casino(bet, profit) == [published |-> TRUE, maxBetAmount |-> bet,
                        maxAllowedReservedProfit |-> profit]
NoCasino == [published |-> FALSE, maxBetAmount |-> Unset,
             maxAllowedReservedProfit |-> Unset]

CasinoOf(liquidity) ==
    IF liquidity = Unset
    THEN NoCasino
    ELSE Casino(Unset, (liquidity * DEFAULT_MAX_BET_RISK_BPS) \div ONE_IN_BPS)

Limit(wager) == [kind |-> "limit", maxWager |-> wager]
NoLimit == [kind |-> "no-limit", maxWager |-> 0]
Unknown == [kind |-> "unknown", maxWager |-> 0]

\* Mutation: the multiplier is rounded down to a basis point.
ReservedProfitBpsFloored(x) == (x.num * ONE_IN_BPS) \div x.den - ONE_IN_BPS

\* Rounded up to a basis point.
ReservedProfitBps(x) ==
    (x.num * ONE_IN_BPS + x.den - 1) \div x.den - ONE_IN_BPS

RiskBoundWager(casinoBlock, x) ==
    (casinoBlock.maxAllowedReservedProfit * ONE_IN_BPS) \div ReservedProfitBps(x)

\* The risk leg binds: a multiplier above 1x, and a limit to hold it against.
RiskBinds(casinoBlock, x) ==
    x.den # 0 /\ ReservedProfitBps(x) > 0
    /\ casinoBlock.maxAllowedReservedProfit # Unset

\* A maxBetAmount of zero is none.
ComputeMaxWager(casinoBlock, x) ==
    LET ceiling == casinoBlock.maxBetAmount
        risk == RiskBoundWager(casinoBlock, x)
    IN  CASE ~casinoBlock.published -> Unknown
          [] casinoBlock.published /\ RiskBinds(casinoBlock, x) ->
               Limit(IF ceiling <= 0 \/ risk < ceiling THEN risk ELSE ceiling)
          [] casinoBlock.published /\ ~RiskBinds(casinoBlock, x) ->
               IF ceiling > 0 THEN Limit(ceiling)
               ELSE IF x.den # 0 /\ ReservedProfitBps(x) <= 0 THEN NoLimit
               ELSE Unknown

-----------------------------------------------------------------------------
\* What the casino facet accepts, in exact fractions: a round of this wager
\* reserves wager * (multiplier - 1).
FacetAccepts(casinoBlock, x, wager) ==
    /\ casinoBlock.maxAllowedReservedProfit # Unset
         => wager * (x.num - x.den) <= casinoBlock.maxAllowedReservedProfit * x.den
    /\ casinoBlock.maxBetAmount > 0 => wager <= casinoBlock.maxBetAmount
=============================================================================
