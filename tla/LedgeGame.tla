------------------------------ MODULE LedgeGame ------------------------------
(***************************************************************************)
(* The LEDGE contract (LedgeGame.sol) as pure operators: paytable,         *)
(* allocation, the payout functions, and what its callbacks return to the  *)
(* host.  The five lanes are fixed by the source, so sums over lanes are   *)
(* written out; wagers are any natural number.  How a random seed decides  *)
(* which lanes topple is in LedgeSampler.                                  *)
(***************************************************************************)
EXTENDS Integers

LANE_COUNT == 5
N_COINS == 5
PROB_DENOM == 375000
DRAW_LIMIT == 16500000
DRAW_DOMAIN == 16777216         \* 2^24: what three bytes can say
RTP_NUMERATOR == 24
RTP_DENOMINATOR == 25

Lanes == 0..(LANE_COUNT - 1)

Prize == [lane \in Lanes |-> CASE lane = 0 -> 1
                               [] lane = 1 -> 2
                               [] lane = 2 -> 5
                               [] lane = 3 -> 15
                               [] OTHER -> 50]

Base == [lane \in Lanes |-> CASE lane = 0 -> 72000
                              [] lane = 1 -> 36000
                              [] lane = 2 -> 14400
                              [] lane = 3 -> 4800
                              [] OTHER -> 1440]

Threshold(lane, coins) == Base[lane] * coins

LaneTotal(f) == f[0] + f[1] + f[2] + f[3] + f[4]

\* _decodeAllocation accepts uint8[5] with sum five, so no lane holds more.
Allocations == {a \in [Lanes -> 0..N_COINS] : LaneTotal(a) = N_COINS}

UsedLanes(a) == {lane \in Lanes : a[lane] > 0}

\* _usedMultiplierSum is PrizeSum(UsedLanes(a)).
PrizeSum(T) == LaneTotal([lane \in Lanes |-> IF lane \in T THEN Prize[lane] ELSE 0])

MaxPayout(wager, a) == wager * PrizeSum(UsedLanes(a))

\* Mutation: the reserve of the best single lane, not of all of them.
MaxReservedProfitOfBestLane(wager, a) ==
    LET best == CHOOSE lane \in UsedLanes(a) :
                  \A other \in UsedLanes(a) : Prize[other] <= Prize[lane]
    IN  wager * Prize[best] - wager

MaxReservedProfit(wager, a) ==
    IF MaxPayout(wager, a) > wager THEN MaxPayout(wager, a) - wager ELSE 0

QuoteCaps(wager, a) == [maxEscrowStake |-> wager,
                        maxReservedProfit |-> MaxReservedProfit(wager, a)]

ExpectedPayoutQuote(wager) == (wager * RTP_NUMERATOR) \div RTP_DENOMINATOR

OnSessionStart(wager, a) ==
    [escrowDelta |-> 0,
     reservedProfitDelta |-> MaxReservedProfit(wager, a),
     nextPhase |-> "WAITING_RANDOMNESS", requestRandomnessNow |-> TRUE,
     payout |-> 0]

\* The lanes of T toppled.  The reserve is left for the host to release.
OnRandomness(wager, T) ==
    [escrowDelta |-> 0, reservedProfitDelta |-> 0, nextPhase |-> "SETTLED",
     requestRandomnessNow |-> FALSE, payout |-> wager * PrizeSum(T)]
=============================================================================
