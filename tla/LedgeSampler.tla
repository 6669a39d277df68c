---------------------------- MODULE LedgeSampler ----------------------------
(***************************************************************************)
(* LedgeGame._resolve and _nextDraw (mirrored by createDrawStream and      *)
(* resolve in ledge.ts): one draw per used lane, three bytes each, values  *)
(* at or above DRAW_LIMIT rejected, the seed rehashed when fewer than      *)
(* three bytes are left.  keccak256 is taken as a source of fresh bytes:   *)
(* each three-byte value read may be anything in Values.                   *)
(***************************************************************************)
EXTENDS LedgeGame, FiniteSets

CONSTANTS SEED_BYTES,       \* bytes of a seed: 32 in the source
          Values,           \* values three bytes may have
          MaxSeed           \* bound: how often the seed is rehashed

DRAW_BYTES == 3

ASSUME SamplerAssumption ==
    /\ SEED_BYTES \in Nat /\ MaxSeed \in Nat
    /\ Values \subseteq 0..(DRAW_DOMAIN - 1)

VARIABLES allocation,
          lane,             \* the loop of _resolve: lanes below are decided
          seed, index,      \* which seed of the chain, next byte in it
          toppled, multiplier,
          draws             \* history: [lane, seed, at, draw] of accepted draws

samplerVars == <<allocation, lane, seed, index, toppled, multiplier, draws>>

DrawType == [lane: Lanes, seed: Nat, at: Nat, draw: 0..(PROB_DENOM - 1)]

\* The current lane has coins, so the code is inside _nextDraw.
Drawing == lane < LANE_COUNT /\ allocation[lane] > 0

BytesLeft == index + DRAW_BYTES <= SEED_BYTES

\* Mutation: the index is not advanced past an accepted draw.
AcceptRereads(value) ==
    LET draw == value % PROB_DENOM
        hit == draw < Threshold(lane, allocation[lane])
    IN  /\ Drawing /\ BytesLeft
        /\ value < DRAW_LIMIT
        /\ draws' = draws \cup {[lane |-> lane, seed |-> seed, at |-> index,
                                 draw |-> draw]}
        /\ index' = index
        /\ toppled' = IF hit THEN toppled \cup {lane} ELSE toppled
        /\ multiplier' = IF hit THEN multiplier + Prize[lane] ELSE multiplier
        /\ lane' = lane + 1
        /\ UNCHANGED <<allocation, seed>>

Accept(value) ==
    LET draw == value % PROB_DENOM
        hit == draw < Threshold(lane, allocation[lane])
    IN  /\ Drawing /\ BytesLeft
        /\ value < DRAW_LIMIT
        /\ draws' = draws \cup {[lane |-> lane, seed |-> seed, at |-> index,
                                 draw |-> draw]}
        /\ index' = index + DRAW_BYTES
        /\ toppled' = IF hit THEN toppled \cup {lane} ELSE toppled
        /\ multiplier' = IF hit THEN multiplier + Prize[lane] ELSE multiplier
        /\ lane' = lane + 1
        /\ UNCHANGED <<allocation, seed>>

Reject(value) ==
    /\ Drawing /\ BytesLeft
    /\ value >= DRAW_LIMIT
    /\ index' = index + DRAW_BYTES
    /\ UNCHANGED <<allocation, lane, seed, toppled, multiplier, draws>>

Rehash ==
    /\ Drawing /\ ~BytesLeft
    /\ seed < MaxSeed
    /\ seed' = seed + 1
    /\ index' = 0
    /\ UNCHANGED <<allocation, lane, toppled, multiplier, draws>>

\* Mutation: skipping a lane without coins skips the next one too.
SkipLaneTwice ==
    /\ lane < LANE_COUNT /\ allocation[lane] = 0
    /\ lane' = IF lane + 2 <= LANE_COUNT THEN lane + 2 ELSE lane + 1
    /\ UNCHANGED <<allocation, seed, index, toppled, multiplier, draws>>

SkipLane ==
    /\ lane < LANE_COUNT /\ allocation[lane] = 0
    /\ lane' = lane + 1
    /\ UNCHANGED <<allocation, seed, index, toppled, multiplier, draws>>

SamplerInit ==
    /\ allocation \in Allocations
    /\ lane = 0 /\ seed = 0 /\ index = 0
    /\ toppled = {} /\ multiplier = 0
    /\ draws = {}

SamplerNext ==
    \/ \E value \in Values : Accept(value) \/ Reject(value)
    \/ Rehash
    \/ SkipLane

SamplerSpec == SamplerInit /\ [][SamplerNext]_samplerVars

-----------------------------------------------------------------------------
\* Properties

\* Every variable holds values of its type.
SamplerTypeOK ==
    /\ allocation \in Allocations
    /\ lane \in 0..LANE_COUNT
    /\ seed \in 0..MaxSeed
    /\ index \in 0..SEED_BYTES
    /\ toppled \subseteq Lanes
    /\ multiplier \in Nat
    /\ draws \subseteq DrawType

\* No byte of a seed decides two lanes, and no draw reads past its seed: the
\* lanes topple independently although they share one randomness answer.
FreshBytes ==
    /\ \A d \in draws : d.at + DRAW_BYTES <= SEED_BYTES
    /\ \A d, e \in draws :
         d # e /\ d.seed = e.seed
           => d.at + DRAW_BYTES <= e.at \/ e.at + DRAW_BYTES <= d.at

\* Each lane with coins gets exactly one draw, a lane without coins none (it
\* would shift every later lane), and a lane topples exactly if its own draw is
\* below its own threshold; the multiplier is the prize of the toppled lanes.
OutcomeFollowsDraws ==
    /\ \A l \in Lanes : l < lane /\ allocation[l] > 0
                          <=> \E d \in draws : d.lane = l
    /\ \A d, e \in draws : d.lane = e.lane => d = e
    /\ \A l \in Lanes : l \in toppled
         <=> \E d \in draws : d.lane = l /\ d.draw < Threshold(l, allocation[l])
    /\ multiplier = PrizeSum(toppled)

\* The return of an allocation, PROB_DENOM times the expected multiplier, is
\* the declared 96% whatever the spread of the coins: a lane topples in
\* Threshold of PROB_DENOM cases and then pays its prize.
ReturnTimesDenom(a) ==
    LaneTotal([l \in Lanes |-> Prize[l] * Threshold(l, a[l])])

DeclaredReturn ==
    RTP_DENOMINATOR * ReturnTimesDenom(allocation) = RTP_NUMERATOR * PROB_DENOM
=============================================================================
