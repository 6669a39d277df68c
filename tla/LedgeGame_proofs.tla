-------------------------- MODULE LedgeGame_proofs --------------------------
(***************************************************************************)
(* Proofs about LEDGE: its draws, its rounds on the host, the page a round *)
(* is bet from and the script that deploys it, for every allocation, seed, *)
(* wager and limit, every set of networks, any number of players and       *)
(* however many rounds are played or scripts are run.                      *)
(***************************************************************************)
EXTENDS LedgeSampler, LedgeRounds, LedgePage, DeployScript, CasinoHost_proofs,
        SequenceTheorems

-----------------------------------------------------------------------------
(***************************************************************************)
(* The paytable and the draws.                                             *)
(***************************************************************************)

\* Three accepted bytes hit every draw the same number of times, 44: each draw
\* has exactly the preimages draw + 375000 * q, q in 0..43, all below the limit,
\* and the limit is the largest multiple of the denominator three bytes reach.
THEOREM FairDraw ==
    /\ DRAW_LIMIT = (DRAW_DOMAIN \div PROB_DENOM) * PROB_DENOM
    /\ \A draw \in 0..(PROB_DENOM - 1), value \in 0..(DRAW_LIMIT - 1) :
         value % PROB_DENOM = draw <=> \E q \in 0..43 : value = draw + PROB_DENOM * q
    /\ \A draw \in 0..(PROB_DENOM - 1), q \in 0..43 :
         draw + PROB_DENOM * q \in 0..(DRAW_LIMIT - 1)
<1>1. DRAW_LIMIT = (DRAW_DOMAIN \div PROB_DENOM) * PROB_DENOM
    BY SMT DEF DRAW_LIMIT, DRAW_DOMAIN, PROB_DENOM
<1>2. PROB_DENOM \in Nat /\ DRAW_LIMIT \in Nat
    BY SMT DEF DRAW_LIMIT, PROB_DENOM
<1>3. ASSUME NEW draw \in Nat, draw < PROB_DENOM, NEW value \in Nat, value < DRAW_LIMIT
      PROVE  value % PROB_DENOM = draw <=> \E q \in 0..43 : value = draw + PROB_DENOM * q
    <2>1. ASSUME value % PROB_DENOM = draw
          PROVE  \E q \in 0..43 : value = draw + PROB_DENOM * q
        <3>1. /\ value \div PROB_DENOM \in Nat /\ value \div PROB_DENOM <= 43
              /\ value = (value % PROB_DENOM) + PROB_DENOM * (value \div PROB_DENOM)
            BY <1>3, SMT DEF DRAW_LIMIT, PROB_DENOM
        <3>2. value \div PROB_DENOM \in 0..43
            BY <3>1
        <3>. QED BY <2>1, <3>1, <3>2
    <2>2. ASSUME NEW q \in 0..43, value = draw + PROB_DENOM * q
          PROVE  value % PROB_DENOM = draw
        BY <1>3, <2>2, SMT DEF PROB_DENOM
    <2>. QED BY <2>1, <2>2
<1>4. ASSUME NEW draw \in Nat, draw < PROB_DENOM, NEW q \in 0..43
      PROVE  draw + PROB_DENOM * q \in Nat /\ draw + PROB_DENOM * q < DRAW_LIMIT
    BY <1>4, SMT DEF DRAW_LIMIT, PROB_DENOM
<1>5. ASSUME NEW n \in Nat, NEW v \in Int
      PROVE  v \in 0..(n - 1) <=> v \in Nat /\ v < n
    OBVIOUS
<1>6. ASSUME NEW draw \in 0..(PROB_DENOM - 1), NEW value \in 0..(DRAW_LIMIT - 1)
      PROVE  value % PROB_DENOM = draw <=> \E q \in 0..43 : value = draw + PROB_DENOM * q
    <2>1. draw \in Nat /\ draw < PROB_DENOM
        BY <1>2, <1>5, <1>6
    <2>2. value \in Nat /\ value < DRAW_LIMIT
        BY <1>2, <1>5, <1>6
    <2>. QED BY <1>3, <2>1, <2>2
<1>7. ASSUME NEW draw \in 0..(PROB_DENOM - 1), NEW q \in 0..43
      PROVE  draw + PROB_DENOM * q \in 0..(DRAW_LIMIT - 1)
    <2>1. draw \in Nat /\ draw < PROB_DENOM
        BY <1>2, <1>5, <1>7
    <2>. QED BY <1>2, <1>4, <1>5, <2>1
<1>. QED BY <1>1, <1>6, <1>7

\* Prize times base is the same on every lane.
LEMMA ConstantProduct == \A l \in Lanes : Prize[l] * Base[l] = 72000
BY SMT DEF Lanes, LANE_COUNT, Prize, Base

\* Every allocation of the five coins returns exactly 24/25 of the wager: the
\* comment at the top of LedgeGame.sol, for all of them.
THEOREM ReturnIsDeclared ==
    ASSUME NEW a \in Allocations
    PROVE  RTP_DENOMINATOR * ReturnTimesDenom(a) = RTP_NUMERATOR * PROB_DENOM
<1>1. /\ a[0] \in Nat /\ a[1] \in Nat /\ a[2] \in Nat /\ a[3] \in Nat /\ a[4] \in Nat
      /\ a[0] + a[1] + a[2] + a[3] + a[4] = 5
    BY SMT DEF Allocations, Lanes, LANE_COUNT, N_COINS, LaneTotal
<1>2. \A l \in Lanes : Prize[l] * Threshold(l, a[l]) = 72000 * a[l]
    BY <1>1, SMT DEF Lanes, LANE_COUNT, Threshold, Prize, Base
<1>3. ReturnTimesDenom(a) = 72000 * a[0] + 72000 * a[1] + 72000 * a[2]
                              + 72000 * a[3] + 72000 * a[4]
    <2>1. 0 \in Lanes /\ 1 \in Lanes /\ 2 \in Lanes /\ 3 \in Lanes /\ 4 \in Lanes
        BY DEF Lanes, LANE_COUNT
    <2>. QED BY <1>2, <2>1, SMT DEF ReturnTimesDenom, LaneTotal
<1>4. ReturnTimesDenom(a) = 360000
    <2> DEFINE total == a[0] + a[1] + a[2] + a[3] + a[4]
    <2>1. ReturnTimesDenom(a) = 72000 * total
        BY <1>1, <1>3, SMT
    <2>2. total = 5
        BY <1>1
    <2>. QED BY <2>1, <2>2, SMT
<1>. QED BY <1>4, SMT DEF RTP_DENOMINATOR, RTP_NUMERATOR, PROB_DENOM

\* So every round the contract accepts has the declared return.
THEOREM EveryRoundReturnsIt == SamplerSpec => []DeclaredReturn
<1>1. SamplerInit => allocation \in Allocations
    BY DEF SamplerInit
<1>2. allocation \in Allocations /\ [SamplerNext]_samplerVars => (allocation \in Allocations)'
    BY DEF SamplerNext, Accept, Reject, Rehash, SkipLane, samplerVars
<1>3. allocation \in Allocations => DeclaredReturn
    BY ReturnIsDeclared DEF DeclaredReturn
<1>. QED BY <1>1, <1>2, <1>3, PTL DEF SamplerSpec

\* What has been read lies behind the cursor.
BehindCursor ==
    /\ seed \in Nat /\ index \in Nat
    /\ draws \subseteq [lane: Lanes, seed: Nat, at: Nat, draw: Int]
    /\ \A d \in draws :
         /\ d.seed <= seed
         /\ d.seed = seed => d.at + DRAW_BYTES <= index

FreshInv == BehindCursor /\ FreshBytes

\* No byte of the randomness decides two lanes, for any seed length.
THEOREM FreshBytesAlways == SamplerSpec => []FreshBytes
<1>1. SamplerInit => FreshInv
    BY DEF SamplerInit, FreshInv, BehindCursor, FreshBytes
<1>2. FreshInv /\ lane \in Lanes \cup {LANE_COUNT} /\ [SamplerNext]_samplerVars => FreshInv'
    <2> SUFFICES ASSUME FreshInv, lane \in Lanes \cup {LANE_COUNT}, [SamplerNext]_samplerVars
                 PROVE  FreshInv'
        OBVIOUS
    <2> USE DEF FreshInv, BehindCursor, FreshBytes, DRAW_BYTES
    <2>0. \A value \in Values : value % PROB_DENOM \in Int
        <3>1. DRAW_DOMAIN \in Nat BY SMT DEF DRAW_DOMAIN
        <3>2. \A value \in Values : value \in Int
            BY <3>1, SamplerAssumption
        <3>. QED BY <3>2, SMT DEF PROB_DENOM
    <2>1. ASSUME NEW value \in Values, Accept(value) PROVE FreshInv'
        <3> DEFINE d == [lane |-> lane, seed |-> seed, at |-> index,
                         draw |-> value % PROB_DENOM]
        <3>1. /\ draws' = draws \cup {d} /\ index' = index + 3 /\ seed' = seed
              /\ index + 3 <= SEED_BYTES
            BY <2>1 DEF Accept, BytesLeft
        <3>2. d \in [lane: Lanes, seed: Nat, at: Nat, draw: Int]
            BY <2>1, <2>0 DEF Accept, Drawing, Lanes, LANE_COUNT
        <3>3. d.seed = seed /\ d.at = index
            OBVIOUS
        <3> HIDE DEF d
        <3>4. BehindCursor'
            BY <3>1, <3>2, <3>3
        <3>5. FreshBytes'
            BY <3>1, <3>2, <3>3
        <3>. QED BY <3>4, <3>5
    <2>2. ASSUME NEW value \in Values, Reject(value) PROVE FreshInv'
        BY <2>2 DEF Reject
    <2>3. CASE Rehash
        BY <2>3 DEF Rehash
    <2>4. CASE SkipLane
        BY <2>4 DEF SkipLane
    <2>5. CASE UNCHANGED samplerVars
        BY <2>5 DEF samplerVars
    <2>. QED BY <2>1, <2>2, <2>3, <2>4, <2>5 DEF SamplerNext
<1>3. SamplerInit => lane \in Lanes \cup {LANE_COUNT}
    BY DEF SamplerInit, Lanes, LANE_COUNT
<1>4. lane \in Lanes \cup {LANE_COUNT} /\ [SamplerNext]_samplerVars
      => (lane \in Lanes \cup {LANE_COUNT})'
    BY DEF SamplerNext, Accept, Reject, Rehash, SkipLane, Drawing, samplerVars, Lanes, LANE_COUNT
<1>5. FreshInv => FreshBytes
    BY DEF FreshInv
<1>. QED BY <1>1, <1>2, <1>3, <1>4, <1>5, PTL DEF SamplerSpec

-----------------------------------------------------------------------------
\* The outcome

LEMMA PrizeSumAdds ==
    ASSUME NEW T \in SUBSET Lanes, NEW l \in Lanes, l \notin T
    PROVE  PrizeSum(T) \in Nat /\ PrizeSum(T \cup {l}) = PrizeSum(T) + Prize[l]
<1> DEFINE part(S) == [k \in Lanes |-> IF k \in S THEN Prize[k] ELSE 0]
           U == T \cup {l}
<1>1. \A k \in Lanes : Prize[k] \in Nat
    BY DEF Prize, Lanes, LANE_COUNT
<1>2. /\ \A k \in Lanes : part(T)[k] \in Nat /\ part(U)[k] \in Nat
      /\ \A k \in Lanes : k # l => part(U)[k] = part(T)[k]
      /\ part(T)[l] = 0 /\ part(U)[l] = Prize[l]
    BY <1>1
<1>3. /\ 0 \in Lanes /\ 1 \in Lanes /\ 2 \in Lanes /\ 3 \in Lanes /\ 4 \in Lanes
      /\ l \in {0, 1, 2, 3, 4}
    BY DEF Lanes, LANE_COUNT
<1>4. PrizeSum(T) = LaneTotal(part(T)) /\ PrizeSum(U) = LaneTotal(part(U))
    BY DEF PrizeSum
<1> HIDE DEF part, U
<1>5. PrizeSum(T) \in Nat
    BY <1>2, <1>3, <1>4 DEF LaneTotal
<1>6. PrizeSum(U) = PrizeSum(T) + Prize[l]
    <2>1. CASE l = 0
        BY <1>1, <1>2, <1>3, <1>4, <2>1 DEF LaneTotal
    <2>2. CASE l = 1
        BY <1>1, <1>2, <1>3, <1>4, <2>2 DEF LaneTotal
    <2>3. CASE l = 2
        BY <1>1, <1>2, <1>3, <1>4, <2>3 DEF LaneTotal
    <2>4. CASE l = 3
        BY <1>1, <1>2, <1>3, <1>4, <2>4 DEF LaneTotal
    <2>5. CASE l = 4
        BY <1>1, <1>2, <1>3, <1>4, <2>5 DEF LaneTotal
    <2>. QED BY <1>3, <2>1, <2>2, <2>3, <2>4, <2>5
<1>. QED BY <1>5, <1>6 DEF U

LEMMA RemainderInRange ==
    ASSUME NEW v \in Nat, NEW d \in Nat \ {0}
    PROVE  v % d \in Nat /\ v % d \in 0..(d - 1)
BY SMT

\* What is decided lies below the lane the loop has reached.
OutcomeInv ==
    /\ SamplerTypeOK
    /\ \A l \in toppled : l < lane
    /\ OutcomeFollowsDraws

LEMMA OutcomeInitially == SamplerInit => OutcomeInv
<1>1. PrizeSum({}) = 0
    BY DEF PrizeSum, LaneTotal, Lanes, LANE_COUNT
<1>. QED BY <1>1, SamplerAssumption
         DEF SamplerInit, OutcomeInv, SamplerTypeOK, OutcomeFollowsDraws, Lanes, LANE_COUNT

LEMMA AcceptKeepsOutcome ==
    ASSUME OutcomeInv, NEW value \in Values, Accept(value)
    PROVE  OutcomeInv'
<1> DEFINE draw == value % PROB_DENOM
           d == [lane |-> lane, seed |-> seed, at |-> index, draw |-> draw]
           hit == draw < Threshold(lane, allocation[lane])
<1>1. /\ allocation \in Allocations /\ lane \in 0..LANE_COUNT /\ seed \in 0..MaxSeed
      /\ index \in 0..SEED_BYTES /\ toppled \subseteq Lanes /\ multiplier \in Nat
      /\ draws \subseteq DrawType
    BY DEF OutcomeInv, SamplerTypeOK
<1>2. /\ lane < LANE_COUNT /\ allocation[lane] > 0
      /\ index + DRAW_BYTES <= SEED_BYTES
      /\ draws' = draws \cup {d}
      /\ index' = index + DRAW_BYTES
      /\ toppled' = IF hit THEN toppled \cup {lane} ELSE toppled
      /\ multiplier' = IF hit THEN multiplier + Prize[lane] ELSE multiplier
      /\ lane' = lane + 1
      /\ allocation' = allocation /\ seed' = seed
    BY DEF Accept, Drawing, BytesLeft
<1>3. lane \in Lanes /\ lane' \in 0..LANE_COUNT
    BY <1>1, <1>2 DEF Lanes, LANE_COUNT
<1>4. draw \in 0..(PROB_DENOM - 1)
    <2>1. PROB_DENOM \in Nat \ {0} /\ DRAW_DOMAIN \in Nat
        BY SMT DEF PROB_DENOM, DRAW_DOMAIN
    <2>2. value \in Nat
        BY <2>1, SamplerAssumption
    <2>. QED BY <2>1, <2>2, RemainderInRange
<1>5. d \in DrawType /\ d.lane = lane /\ d.draw = draw
    BY <1>1, <1>3, <1>4, SamplerAssumption DEF DrawType
<1>6. \A e \in draws : e.lane \in Lanes /\ e.lane < lane
    BY <1>1 DEF OutcomeInv, OutcomeFollowsDraws, DrawType
<1>7. lane \notin toppled /\ \A l \in toppled : l < lane
    BY <1>1 DEF OutcomeInv, Lanes
<1>8. /\ PrizeSum(toppled) = multiplier
      /\ PrizeSum(toppled \cup {lane}) = multiplier + Prize[lane]
    BY <1>1, <1>3, <1>7, PrizeSumAdds DEF OutcomeInv, OutcomeFollowsDraws
<1>9. Prize[lane] \in Nat
    BY <1>3 DEF Prize, Lanes, LANE_COUNT
<1> HIDE DEF d, draw
<1>10. SamplerTypeOK'
    <2>1. index' \in 0..SEED_BYTES
        BY <1>1, <1>2, SamplerAssumption DEF DRAW_BYTES
    <2>2. toppled' \subseteq Lanes /\ multiplier' \in Nat
        BY <1>1, <1>2, <1>3, <1>9
    <2>. QED BY <1>1, <1>2, <1>3, <1>5, <2>1, <2>2 DEF SamplerTypeOK
<1>11. \A l \in toppled' : l < lane'
    BY <1>1, <1>2, <1>3, <1>7 DEF Lanes
<1>12. multiplier' = PrizeSum(toppled')
    BY <1>2, <1>8
<1>13. \A l \in Lanes : l < lane' /\ allocation'[l] > 0 <=> \E e \in draws' : e.lane = l
    <2> SUFFICES ASSUME NEW l \in Lanes
                 PROVE  l < lane + 1 /\ allocation[l] > 0
                          <=> \E e \in draws \cup {d} : e.lane = l
        BY <1>2
    <2>1. l < lane /\ allocation[l] > 0 <=> \E e \in draws : e.lane = l
        BY DEF OutcomeInv, OutcomeFollowsDraws
    <2>2. l < lane + 1 <=> l < lane \/ l = lane
        BY <1>3 DEF Lanes
    <2>. QED BY <1>2, <1>5, <2>1, <2>2
<1>14. \A e, f \in draws' : e.lane = f.lane => e = f
    <2>1. \A e, f \in draws : e.lane = f.lane => e = f
        BY DEF OutcomeInv, OutcomeFollowsDraws
    <2>2. \A e \in draws : e.lane # lane
        BY <1>3, <1>6 DEF Lanes
    <2>. QED BY <1>2, <1>5, <2>1, <2>2
<1>15. \A l \in Lanes : l \in toppled'
         <=> \E e \in draws' : e.lane = l /\ e.draw < Threshold(l, allocation'[l])
    <2> SUFFICES ASSUME NEW l \in Lanes
                 PROVE  l \in toppled'
                          <=> \E e \in draws \cup {d} :
                                e.lane = l /\ e.draw < Threshold(l, allocation[l])
        BY <1>2
    <2>1. l \in toppled
            <=> \E e \in draws : e.lane = l /\ e.draw < Threshold(l, allocation[l])
        BY DEF OutcomeInv, OutcomeFollowsDraws
    <2>2. hit <=> d.draw < Threshold(lane, allocation[lane])
        BY <1>5
    <2> HIDE DEF hit
    <2>3. CASE l = lane
        <3>1. l \notin toppled
            BY <1>7, <2>3
        <3>. QED BY <1>2, <1>5, <2>1, <2>2, <2>3, <3>1
    <2>4. CASE l # lane
        BY <1>2, <1>5, <2>1, <2>4
    <2>. QED BY <2>3, <2>4
<1>. QED BY <1>10, <1>11, <1>12, <1>13, <1>14, <1>15 DEF OutcomeInv, OutcomeFollowsDraws

LEMMA OutcomeStep == OutcomeInv /\ [SamplerNext]_samplerVars => OutcomeInv'
<1> SUFFICES ASSUME OutcomeInv, [SamplerNext]_samplerVars PROVE OutcomeInv'
    OBVIOUS
<1>1. ASSUME NEW value \in Values, Accept(value) PROVE OutcomeInv'
    BY <1>1, AcceptKeepsOutcome
<1>2. ASSUME NEW value \in Values, Reject(value) PROVE OutcomeInv'
    BY <1>2, SamplerAssumption
       DEF Reject, OutcomeInv, SamplerTypeOK, OutcomeFollowsDraws, BytesLeft, DRAW_BYTES
<1>3. CASE Rehash
    BY <1>3, SamplerAssumption DEF Rehash, OutcomeInv, SamplerTypeOK, OutcomeFollowsDraws
<1>4. CASE SkipLane
    <2>1. lane \in Nat /\ lane < LANE_COUNT /\ lane' = lane + 1 /\ allocation[lane] = 0
        BY <1>4 DEF SkipLane, OutcomeInv, SamplerTypeOK, LANE_COUNT
    <2>2. UNCHANGED <<allocation, seed, index, toppled, multiplier, draws>>
        BY <1>4 DEF SkipLane
    <2>3. \A l \in Lanes : l < lane' /\ allocation[l] > 0 <=> l < lane /\ allocation[l] > 0
        BY <2>1 DEF Lanes
    <2>4. SamplerTypeOK' /\ \A l \in toppled : l < lane'
        BY <2>1, <2>2 DEF OutcomeInv, SamplerTypeOK, Lanes, LANE_COUNT
    <2>. QED BY <2>2, <2>3, <2>4 DEF OutcomeInv, OutcomeFollowsDraws
<1>5. CASE UNCHANGED samplerVars
    BY <1>5 DEF samplerVars, OutcomeInv, SamplerTypeOK, OutcomeFollowsDraws
<1>. QED BY <1>1, <1>2, <1>3, <1>4, <1>5 DEF SamplerNext

\* A lane topples exactly if its own draw is below its own threshold, no lane is
\* skipped or drawn for twice, and the multiplier is the prize of what toppled:
\* for every allocation, every seed length and every sequence of bytes.
THEOREM OutcomeIsDrawn == SamplerSpec => []OutcomeFollowsDraws
<1>1. OutcomeInv => OutcomeFollowsDraws
    BY DEF OutcomeInv
<1>. QED BY <1>1, OutcomeInitially, OutcomeStep, PTL DEF SamplerSpec

-----------------------------------------------------------------------------
(***************************************************************************)
(* Rounds on the host.                                                     *)
(***************************************************************************)

RoundsInv ==
    /\ SessionInv
    /\ round \in [Ids -> Rounds \cup {None}]
    /\ RoundsConsistent
    /\ PaysToppledLanes

-----------------------------------------------------------------------------
\* The paytable

LEMMA PrizeSumMonotone ==
    ASSUME NEW U \in SUBSET Lanes, NEW T \in SUBSET U
    PROVE  PrizeSum(T) \in Nat /\ PrizeSum(U) \in Nat /\ PrizeSum(T) <= PrizeSum(U)
<1> DEFINE part(S) == [place \in Lanes |-> IF place \in S THEN Prize[place] ELSE 0]
<1>1. \A place \in Lanes : Prize[place] \in Nat
    BY DEF Prize, Lanes, LANE_COUNT
<1>2. \A place \in Lanes : /\ part(T)[place] \in Nat /\ part(U)[place] \in Nat
                          /\ part(T)[place] <= part(U)[place]
    BY <1>1
<1>3. 0 \in Lanes /\ 1 \in Lanes /\ 2 \in Lanes /\ 3 \in Lanes /\ 4 \in Lanes
    BY DEF Lanes, LANE_COUNT
<1>4. PrizeSum(T) = LaneTotal(part(T)) /\ PrizeSum(U) = LaneTotal(part(U))
    BY DEF PrizeSum
<1> HIDE DEF part
<1>. QED BY <1>2, <1>3, <1>4 DEF LaneTotal

LEMMA ProductMonotone ==
    ASSUME NEW w \in Nat, NEW x \in Nat, NEW y \in Nat, x <= y
    PROVE  w * x <= w * y /\ w * x \in Nat
<1>1. w * (y - x) \in Nat /\ w * x \in Nat
    OBVIOUS
<1>2. w * y = w * x + w * (y - x)
    OBVIOUS
<1>. QED BY <1>1, <1>2

\* Whatever topples, the stake and the reserve of the allocation pay for it.
THEOREM ReserveCoversEveryOutcome ==
    ASSUME NEW w \in Nat, NEW a \in Allocations, NEW T \in SUBSET UsedLanes(a)
    PROVE  /\ OnRandomness(w, T).payout \in Nat
           /\ OnRandomness(w, T).payout <= w + MaxReservedProfit(w, a)
<1> DEFINE most == PrizeSum(UsedLanes(a))
<1>1. UsedLanes(a) \in SUBSET Lanes
    BY DEF UsedLanes
<1>2. PrizeSum(T) \in Nat /\ most \in Nat /\ PrizeSum(T) <= most
    BY <1>1, PrizeSumMonotone
<1> HIDE DEF most
<1>3. w * PrizeSum(T) \in Nat /\ w * PrizeSum(T) <= w * most /\ w * most \in Nat
    BY <1>2, ProductMonotone
<1>4. MaxPayout(w, a) = w * most
    BY DEF MaxPayout, most
<1>5. OnRandomness(w, T).payout = w * PrizeSum(T)
    BY DEF OnRandomness
<1>. QED BY <1>3, <1>4, <1>5 DEF MaxReservedProfit

-----------------------------------------------------------------------------
\* What a step of the rounds does

LEMMA PlaceEffect ==
    ASSUME RoundsInv, NEW p \in Players, NEW w \in Wagers, NEW a \in Boards,
           Place(p, w, a)
    PROVE  /\ Next
           /\ currentSessionId' = currentSessionId + 1
           /\ currentSessionId' \in Ids
           /\ round' = [round EXCEPT ![currentSessionId'] = [wager |-> w, board |-> a]]
           /\ settled' = settled
           /\ \E n : /\ sessionCommitments' =
                          [sessionCommitments EXCEPT ![currentSessionId'] = n]
                     /\ n.phase = "WAITING_RANDOMNESS" /\ n.escrowedStake = w
                     /\ n.reservedProfit = MaxReservedProfit(w, a)
<1> DEFINE cap == QuoteCaps(w, a)
           r == OnSessionStart(w, a)
           id == currentSessionId + 1
           t == [player |-> p, maxEscrowStake |-> cap.maxEscrowStake,
                 maxReservedProfit |-> cap.maxReservedProfit]
           s == [sessionId |-> id, escrowedStake |-> w, reservedProfit |-> 0,
                 deadlineBlock |-> 0, step |-> 0, phase |-> "WAITING_RANDOMNESS"]
<1>1. cap \in Caps /\ r \in StepResults /\ LEDGE \in Games /\ w \in Nat
    BY LedgeAssumption, ConstantsAssumption
<1>2. /\ OpenSession(p, LEDGE, w, cap, r)
      /\ round' = [round EXCEPT ![currentSessionId'] = [wager |-> w, board |-> a]]
    BY DEF Place
<1>3. Next
    BY <1>1, <1>2 DEF Next
<1>4. /\ id \in Ids /\ currentSessionId' = id
      /\ ProcessStepResult(t, s, r, TRUE, Moved(balanceOf, p, Host, w),
                           Spent(allowance, p, w), -w)
    BY <1>2 DEF OpenSession
<1>5. /\ r.escrowDelta = 0 /\ r.nextPhase = "WAITING_RANDOMNESS"
      /\ r.reservedProfitDelta = MaxReservedProfit(w, a)
    BY DEF OnSessionStart
<1>6. MaxReservedProfit(w, a) \in Int
    BY <1>1, <1>5, ConstantsAssumption
<1> DEFINE next == Stepped(s, r)
           n == [next EXCEPT !.phase = r.nextPhase,
                             !.deadlineBlock = blockNumber + Timeout(r.nextPhase)]
           held == Moved(Moved(balanceOf, p, Host, w), p, Host, r.escrowDelta)
<1>7. KeepWaiting(n, held, -w - r.escrowDelta)
    <2>1. r.nextPhase \notin Terminal
        BY <1>5 DEF Terminal
    <2>2. t.player = p
        OBVIOUS
    <2> HIDE DEF t, s, r
    <2>. QED BY <1>4, <2>1, <2>2 DEF ProcessStepResult
<1>8. next = [sessionId |-> id, escrowedStake |-> w + r.escrowDelta,
              reservedProfit |-> 0 + r.reservedProfitDelta,
              deadlineBlock |-> 0, step |-> 0 + 1, phase |-> "WAITING_RANDOMNESS"]
    <2> DEFINE x == w + r.escrowDelta
               y == 0 + r.reservedProfitDelta
               z == 0 + 1
    <2>1. next = [s EXCEPT !.escrowedStake = x, !.reservedProfit = y, !.step = z]
        BY DEF Stepped
    <2> HIDE DEF x, y, z, next, r, id
    <2>2. next = [sessionId |-> id, escrowedStake |-> x, reservedProfit |-> y,
                  deadlineBlock |-> 0, step |-> z, phase |-> "WAITING_RANDOMNESS"]
        BY <2>1
    <2>. QED BY <2>2 DEF x, y, z
<1> HIDE DEF next, r, id
<1>9. /\ n.sessionId = id /\ n.phase = "WAITING_RANDOMNESS"
      /\ n.escrowedStake = w /\ n.reservedProfit = MaxReservedProfit(w, a)
    BY <1>1, <1>5, <1>6, <1>8
<1> HIDE DEF n, held
<1>10. /\ sessionCommitments' = [sessionCommitments EXCEPT ![id] = n]
       /\ settled' = settled
    BY <1>7, <1>9 DEF KeepWaiting
<1>. QED BY <1>2, <1>3, <1>4, <1>9, <1>10 DEF id

\* How a round ends.
RoundEnds(k, phase, payout) ==
    /\ k \in Ids /\ sessionCommitments[k] # None
    /\ UNCHANGED <<currentSessionId, round>>
    /\ sessionCommitments' = [sessionCommitments EXCEPT ![k] = None]
    /\ settled' = [settled EXCEPT ![k] = [phase |-> phase, payout |-> payout]]

LEMMA ToppleEffect ==
    ASSUME RoundsInv, NEW s \in advanced, NEW T \in SUBSET Lanes, Topple(s, T)
    PROVE  /\ Next
           /\ T \in SUBSET UsedLanes(round[s.sessionId].board)
           /\ RoundEnds(s.sessionId, "SETTLED",
                        round[s.sessionId].wager * PrizeSum(T))
<1> DEFINE k == s.sessionId
           w == round[k].wager
           a == round[k].board
           r == OnRandomness(w, T)
<1>1. /\ T \in SUBSET UsedLanes(a) /\ round' = round
      /\ OnRandomnessFulfilled(s, r)
    BY DEF Topple
<1>2. /\ s \in Snapshots /\ k \in Ids /\ sessionCommitments[k] = s /\ s # None
    BY <1>1, LoadedFacts DEF RoundsInv, SessionInv, OnRandomnessFulfilled
<1>3. k <= currentSessionId
    BY <1>2 DEF RoundsInv, SessionInv, SessionsConsistent
<1>4. round[k] \in Rounds
    BY <1>2, <1>3 DEF RoundsConsistent, RoundsInv
<1>5. r \in StepResults
    BY <1>1, <1>4, LedgeAssumption DEF Rounds
<1>6. Next
    BY <1>1, <1>5 DEF Next
<1>7. r.nextPhase = "SETTLED" /\ r.payout = w * PrizeSum(T)
    BY DEF OnRandomness
<1>8. /\ ProcessStepResult(terms[k], s, r, FALSE, balanceOf, allowance, gain[k])
      /\ currentSessionId' = currentSessionId
    BY <1>1 DEF OnRandomnessFulfilled
<1> HIDE DEF r
<1>9. \E bal, g : FinalizeSession(terms[k].player, Stepped(s, r), r.nextPhase,
                                  r.payout, bal, g)
    <2>1. r.nextPhase \notin Waiting
        BY <1>7 DEF Waiting
    <2>. QED BY <1>8, <2>1 DEF ProcessStepResult
<1>10. Stepped(s, r).sessionId = k
    BY <1>2 DEF Stepped, Snapshots
<1>11. RoundEnds(k, "SETTLED", w * PrizeSum(T))
    BY <1>1, <1>2, <1>7, <1>8, <1>9, <1>10 DEF FinalizeSession, RoundEnds
<1>. QED BY <1>1, <1>6, <1>11

LEMMA CancelRoundEffect ==
    ASSUME RoundsInv, NEW s \in advanced, Cancel(s)
    PROVE  /\ Next
           /\ RoundEnds(s.sessionId, "CANCELLED", round[s.sessionId].wager)
<1> DEFINE k == s.sessionId
<1>1. CancelStuckRandomness(s) /\ round' = round
    BY DEF Cancel
<1>2. /\ s \in Snapshots /\ k \in Ids /\ sessionCommitments[k] = s /\ s # None
    BY <1>1, LoadedFacts DEF RoundsInv, SessionInv, CancelStuckRandomness
<1>3. s.escrowedStake = round[k].wager
    BY <1>2 DEF RoundsInv, RoundsConsistent
<1>. QED BY <1>1, <1>2, <1>3
         DEF Next, CancelStuckRandomness, FinalizeSession, RoundEnds

LEMMA BackgroundEffect ==
    ASSUME RoundsInv, NextBlock \/ Surroundings \/ UNCHANGED roundVars
    PROVE  /\ [Next]_vars
           /\ UNCHANGED <<currentSessionId, sessionCommitments, settled, round>>
<1>1. CASE NextBlock
    BY <1>1 DEF NextBlock, Next, Mine, sessionVars
<1>2. CASE Surroundings
    <2>1. ASSUME NEW named \in BOOLEAN, RegisterGame(LEDGE, named)
          PROVE  /\ Next
                 /\ UNCHANGED <<currentSessionId, sessionCommitments, settled>>
        BY <2>1, LedgeAssumption DEF Next, RegisterGame, sessionVars
    <2>2. ASSUME NEW x \in Accounts, NEW amount \in Grants, Mint(x, amount)
          PROVE  /\ Next
                 /\ UNCHANGED <<currentSessionId, sessionCommitments, settled>>
        BY <2>2 DEF Next, Mint, sessionVars
    <2>3. ASSUME NEW p \in Players, NEW amount \in Approvals \cup {UINT_MAX},
                 Approve(p, amount)
          PROVE  /\ Next
                 /\ UNCHANGED <<currentSessionId, sessionCommitments, settled>>
        BY <2>3 DEF Next, Approve, sessionVars
    <2>4. ASSUME NEW p \in Players, NEW x \in Accounts, NEW amount \in Grants,
                 Transfer(p, x, amount)
          PROVE  /\ Next
                 /\ UNCHANGED <<currentSessionId, sessionCommitments, settled>>
        BY <2>4 DEF Next, Transfer, sessionVars
    <2>. QED BY <1>2, <2>1, <2>2, <2>3, <2>4 DEF Surroundings
<1>3. CASE UNCHANGED roundVars
    BY <1>3 DEF roundVars, vars, sessionVars
<1>. QED BY <1>1, <1>2, <1>3

-----------------------------------------------------------------------------
\* The invariant

LEMMA RoundsInitially == RoundsInit => RoundsInv
<1> SUFFICES ASSUME RoundsInit PROVE RoundsInv
    OBVIOUS
<1>1. SessionInv
    BY InitSessionInv DEF RoundsInit
<1>2. round \in [Ids -> Rounds \cup {None}]
    BY DEF RoundsInit
<1>3. RoundsConsistent /\ PaysToppledLanes
    BY DEF RoundsInit, Init, RoundsConsistent, PaysToppledLanes, Ids
<1>. QED BY <1>1, <1>2, <1>3 DEF RoundsInv

\* The end of one round leaves the others alone.
LEMMA EndKeepsRounds ==
    ASSUME RoundsInv, NEW k, NEW phase, NEW payout, RoundEnds(k, phase, payout),
           \/ /\ phase = "SETTLED"
              /\ \E T \in SUBSET UsedLanes(round[k].board) :
                    payout = round[k].wager * PrizeSum(T)
           \/ phase = "CANCELLED" /\ payout = round[k].wager
    PROVE  /\ round' \in [Ids -> Rounds \cup {None}]
           /\ RoundsConsistent' /\ PaysToppledLanes'
<1> USE DEF RoundsInv, SessionInv, TypeOK, RoundEnds
<1>1. RoundsConsistent'
    BY DEF RoundsConsistent
<1>2. PaysToppledLanes'
    <2> SUFFICES ASSUME NEW j \in Ids, settled'[j] # None
                 PROVE  LET r == round[j]
                        IN  \/ /\ settled'[j].phase = "SETTLED"
                               /\ \E T \in SUBSET UsedLanes(r.board) :
                                     settled'[j].payout = r.wager * PrizeSum(T)
                            \/ settled'[j] = [phase |-> "CANCELLED", payout |-> r.wager]
        BY DEF PaysToppledLanes
    <2>1. CASE j = k
        <3>1. settled'[j] = [phase |-> phase, payout |-> payout]
            BY <2>1
        <3>. QED BY <2>1, <3>1
    <2>2. CASE j # k
        <3>1. settled'[j] = settled[j]
            BY <2>2
        <3>. QED BY <3>1 DEF PaysToppledLanes
    <2>. QED BY <2>1, <2>2
<1>. QED BY <1>1, <1>2

LEMMA RoundsStep ==
    ASSUME RoundsInv, [RoundsNext]_roundVars
    PROVE  [Next]_vars /\ RoundsInv'
<1>0. [Next]_vars => SessionInv'
    BY StepEffect, TypeStep, ConsistentStep, LatestStep DEF SessionInv, RoundsInv
<1>1. ASSUME NEW p \in Players, NEW w \in Wagers, NEW a \in Boards, Place(p, w, a)
      PROVE  [Next]_vars /\ RoundsInv'
    <2> DEFINE id == currentSessionId'
               nr == [wager |-> w, board |-> a]
    <2>1. /\ Next /\ id = currentSessionId + 1 /\ id \in Ids
          /\ round' = [round EXCEPT ![id] = nr] /\ settled' = settled
        BY <1>1, PlaceEffect
    <2>2. PICK n : /\ sessionCommitments' = [sessionCommitments EXCEPT ![id] = n]
                   /\ n.phase = "WAITING_RANDOMNESS" /\ n.escrowedStake = w
                   /\ n.reservedProfit = MaxReservedProfit(w, a)
        BY <1>1, PlaceEffect
    <2>3. SessionInv'
        BY <2>1, <1>0
    <2>4. nr \in Rounds /\ nr.wager = w /\ nr.board = a
        BY DEF Rounds
    <2>5. settled[id] = None
        BY <2>1 DEF RoundsInv, SessionInv, TypeOK, SessionsConsistent, Ids
    <2> HIDE DEF nr, id
    <2>6. round' \in [Ids -> Rounds \cup {None}]
        BY <2>1, <2>4 DEF RoundsInv
    <2>7. round'[id] = nr /\ sessionCommitments'[id] = n
        BY <2>1, <2>2 DEF RoundsInv, SessionInv, TypeOK
    <2>8. \A j \in Ids \ {id} : /\ round'[j] = round[j]
                                /\ sessionCommitments'[j] = sessionCommitments[j]
                                /\ (j <= currentSessionId') => (j <= currentSessionId)
        <3>1. \A j \in Ids \ {id} : /\ round'[j] = round[j]
                                    /\ sessionCommitments'[j] = sessionCommitments[j]
            BY <2>1, <2>2 DEF RoundsInv, SessionInv, TypeOK
        <3>2. \A j \in Ids \ {id} : (j <= currentSessionId') => (j <= currentSessionId)
            BY <2>1 DEF RoundsInv, SessionInv, TypeOK, Ids, id
        <3>. QED BY <3>1, <3>2
    <2>9. RoundsConsistent'
        BY <2>2, <2>4, <2>7, <2>8 DEF RoundsInv, RoundsConsistent
    <2>10. PaysToppledLanes'
        BY <2>1, <2>5, <2>8 DEF RoundsInv, PaysToppledLanes
    <2>. QED BY <2>1, <2>3, <2>6, <2>9, <2>10 DEF RoundsInv
<1>2. ASSUME NEW s \in advanced, NEW T \in SUBSET Lanes, Topple(s, T)
      PROVE  [Next]_vars /\ RoundsInv'
    BY <1>0, <1>2, ToppleEffect, EndKeepsRounds DEF RoundsInv
<1>3. ASSUME NEW s \in advanced, Cancel(s)
      PROVE  [Next]_vars /\ RoundsInv'
    BY <1>0, <1>3, CancelRoundEffect, EndKeepsRounds DEF RoundsInv
<1>4. CASE NextBlock \/ Surroundings \/ UNCHANGED roundVars
    <2>1. /\ [Next]_vars
          /\ UNCHANGED <<currentSessionId, sessionCommitments, settled, round>>
        BY <1>4, BackgroundEffect
    <2>. QED BY <1>0, <2>1 DEF RoundsInv, RoundsConsistent, PaysToppledLanes
<1>. QED BY <1>1, <1>2, <1>3, <1>4 DEF RoundsNext

-----------------------------------------------------------------------------
\* The theorems

THEOREM RoundsInvariant == RoundsSpec => []RoundsInv
<1>. QED BY RoundsInitially, RoundsStep, PTL DEF RoundsSpec

\* LEDGE is one of the games CasinoHost allows: every behaviour of the rounds is
\* one of the host, so every theorem about the host holds of them.
THEOREM RoundsRefineHost == RoundsSpec => Spec
<1>1. RoundsInit => Init
    BY DEF RoundsInit
<1>. QED BY <1>1, RoundsInvariant, RoundsStep, PTL DEF RoundsSpec, Spec

\* A round waits with exactly its wager in escrow and the reserve of its best
\* outcome.
THEOREM RoundsAgree == RoundsSpec => []RoundsConsistent
<1>1. RoundsInv => RoundsConsistent
    BY DEF RoundsInv
<1>. QED BY <1>1, RoundsInvariant, PTL

\* A round pays prizes of lanes the player used, or its wager back.
THEOREM PayoutSafety == RoundsSpec => []PaysToppledLanes
<1>1. RoundsInv => PaysToppledLanes
    BY DEF RoundsInv
<1>. QED BY <1>1, RoundsInvariant, PTL

\* While the vault holds a round's reserve, no outcome of its randomness makes
\* the settlement revert.
THEOREM SettlementSafety == RoundsSpec => []EveryOutcomeSettles
<1>1. RoundsInv /\ RefundNeverBlocked => EveryOutcomeSettles
    <2> SUFFICES ASSUME RoundsInv, RefundNeverBlocked, NEW s \in advanced, Loaded(s),
                        s.reservedProfit <= balanceOf[Vault],
                        NEW T \in SUBSET UsedLanes(round[s.sessionId].board)
                 PROVE  CanSettle(balanceOf, s,
                                  OnRandomness(round[s.sessionId].wager, T).payout)
        BY DEF EveryOutcomeSettles
    <2> DEFINE r == round[s.sessionId]
               payout == OnRandomness(r.wager, T).payout
    <2>1. /\ s \in Snapshots /\ s.sessionId \in Ids
          /\ sessionCommitments[s.sessionId] = s /\ s # None
        BY LoadedFacts DEF RoundsInv, SessionInv
    <2>2. s.sessionId <= currentSessionId
        BY <2>1 DEF RoundsInv, SessionInv, SessionsConsistent
    <2>3. r \in Rounds /\ s.escrowedStake = r.wager
          /\ s.reservedProfit = MaxReservedProfit(r.wager, r.board)
        BY <2>1, <2>2 DEF RoundsInv, RoundsConsistent
    <2>4. r.wager \in Nat /\ r.board \in Allocations
        BY <2>3, LedgeAssumption, ConstantsAssumption DEF Rounds
    <2>5. payout \in Nat /\ payout <= r.wager + MaxReservedProfit(r.wager, r.board)
        BY <2>4, ReserveCoversEveryOutcome
    <2>6. s.escrowedStake <= balanceOf[Host] /\ balanceOf[Vault] \in Nat
        BY DEF RefundNeverBlocked, CanSettle, RoundsInv, SessionInv, TypeOK, Accounts
    <2>7. s.reservedProfit \in Nat
        BY <2>1 DEF Snapshots
    <2> HIDE DEF r, payout
    <2>8. CanSettle(balanceOf, s, payout)
        BY <2>3, <2>4, <2>5, <2>6, <2>7 DEF CanSettle
    <2>. QED BY <2>8 DEF payout, r
<1>. QED BY <1>1, RoundsInvariant, RoundsRefineHost, RefundSafety, PTL

-----------------------------------------------------------------------------
(***************************************************************************)
(* Bet limits and the page.                                                *)
(***************************************************************************)

Fraction == [num: Nat, den: Nat \ {0}]

-----------------------------------------------------------------------------
(* Arithmetic *)

LEMMA DivisionBounds ==
    ASSUME NEW n \in Nat, NEW d \in Nat \ {0}
    PROVE  /\ n \div d \in Nat
           /\ d * (n \div d) <= n
           /\ n < d * (n \div d) + d
BY SMT

LEMMA QuotientIsLargest ==
    ASSUME NEW n \in Nat, NEW d \in Nat \ {0}, NEW w \in Nat
    PROVE  w <= n \div d <=> w * d <= n
<1>. DEFINE q == n \div d
<1>1. q \in Nat /\ d * q <= n /\ n < d * q + d
    BY DivisionBounds
<1>. HIDE DEF q
<1>2. ASSUME w <= q PROVE w * d <= n
    <2>1. w * d <= q * d
        BY <1>1, <1>2, SMT
    <2>. QED BY <1>1, <2>1, SMT
<1>3. ASSUME w > q PROVE w * d > n
    <2>1. w >= q + 1
        BY <1>1, <1>3
    <2>2. w * d >= (q + 1) * d
        BY <1>1, <2>1, SMT
    <2>3. (q + 1) * d = d * q + d
        BY <1>1, SMT
    <2>. QED BY <1>1, <2>2, <2>3, SMT
<1>. QED BY <1>1, <1>2, <1>3, SMT DEF q

\* The multiplier rounded up to basis points: an integer, at least the profit.
LEMMA RoundedUp ==
    ASSUME NEW x \in Fraction
    PROVE  /\ ReservedProfitBps(x) \in Int
           /\ ReservedProfitBps(x) * x.den >= ONE_IN_BPS * (x.num - x.den)
<1>. DEFINE n == x.num * ONE_IN_BPS + x.den - 1
            q == n \div x.den
<1>1. x.num \in Nat /\ x.den \in Nat \ {0} /\ ONE_IN_BPS = 10000
    BY DEF Fraction, ONE_IN_BPS
<1>2. n \in Nat
    BY <1>1, SMT
<1>3. q \in Nat /\ n < x.den * q + x.den
    <2>. HIDE DEF n
    <2>. DEFINE d == x.den
    <2>1. d \in Nat \ {0}
        BY <1>1
    <2>. HIDE DEF d
    <2>2. n \div d \in Nat /\ n < d * (n \div d) + d
        BY <1>2, <2>1, DivisionBounds
    <2>. QED BY <2>2 DEF d
<1>4. ReservedProfitBps(x) = q - 10000
    BY <1>1 DEF ReservedProfitBps
<1>5. n = x.num * 10000 + x.den - 1
    BY <1>1
<1>. HIDE DEF q, n
<1>. DEFINE m == x.num
            d == x.den
<1>6. m \in Nat /\ d \in Nat /\ q \in Nat /\ n < d * q + d /\ n = m * 10000 + d - 1
    BY <1>1, <1>3, <1>5
<1>. HIDE DEF m, d
<1>7. (q - 10000) * d >= 10000 * (m - d)
    BY <1>6, SMT
<1>. QED BY <1>1, <1>3, <1>4, <1>7 DEF m, d

-----------------------------------------------------------------------------
(* The limit *)

\* What the facet compares, over whole basis points.
LEMMA BoundIsSafe ==
    ASSUME NEW b \in Nat \ {0}, NEW P \in Nat, NEW den \in Nat \ {0}, NEW profit \in Int,
           b * den >= ONE_IN_BPS * profit, NEW w \in Nat, w * b <= P * ONE_IN_BPS
    PROVE  w * profit <= P * den
<1>. USE DEF ONE_IN_BPS
<1>1. w * (b * den) >= w * (10000 * profit)
    <2>. DEFINE l == b * den
                r == 10000 * profit
    <2>1. l \in Int /\ r \in Int /\ l >= r
        BY SMT
    <2>. HIDE DEF l, r
    <2>2. w * l >= w * r
        BY <2>1, SMT
    <2>. QED BY <2>2 DEF l, r
<1>2. (w * b) * den <= (P * 10000) * den
    <2>. DEFINE l == w * b
                r == P * 10000
    <2>1. l \in Int /\ r \in Int /\ l <= r
        BY SMT
    <2>. HIDE DEF l, r
    <2>2. l * den <= r * den
        BY <2>1, SMT
    <2>. QED BY <2>2 DEF l, r
<1>3. w * (b * den) = (w * b) * den
    BY SMT
<1>4. w * (10000 * profit) = 10000 * (w * profit) /\ (P * 10000) * den = 10000 * (P * den)
    BY SMT
<1>5. w * profit \in Int /\ P * den \in Int /\ w * (b * den) \in Int
    BY SMT
<1>. DEFINE l == w * profit
            r == P * den
<1>. HIDE DEF l, r
<1>6. 10000 * l <= 10000 * r
    BY <1>1, <1>2, <1>3, <1>4, <1>5, SMT DEF l, r
<1>7. l <= r
    BY <1>5, <1>6, SMT DEF l, r
<1>. QED BY <1>7 DEF l, r

\* A casino block, field by field.
LEMMA CasinoFields ==
    ASSUME NEW c, IsCasino(c)
    PROVE  /\ c.published \in BOOLEAN
           /\ c.maxBetAmount \in Nat \cup {Unset}
           /\ c.maxAllowedReservedProfit \in Nat \cup {Unset}
           /\ ~c.published => c.maxBetAmount = Unset /\ c.maxAllowedReservedProfit = Unset
<1>1. CASE c = NoCasino
    BY <1>1 DEF NoCasino
<1>2. CASE c \in [published: {TRUE}, maxBetAmount: Nat \cup {Unset},
                  maxAllowedReservedProfit: Nat \cup {Unset}]
    BY <1>2
<1>. QED BY <1>1, <1>2 DEF IsCasino

\* The four cases of computeMaxWager.
LEMMA MaxWagerCases ==
    ASSUME NEW c, IsCasino(c), NEW x \in Fraction
    PROVE  LET max == ComputeMaxWager(c, x)
               risk == RiskBoundWager(c, x)
               ceiling == c.maxBetAmount
           IN  /\ c.published /\ RiskBinds(c, x) =>
                     max = Limit(IF ceiling <= 0 \/ risk < ceiling THEN risk ELSE ceiling)
               /\ c.published /\ ~RiskBinds(c, x) /\ ceiling > 0 => max = Limit(ceiling)
               /\ c.published /\ ~RiskBinds(c, x) /\ ceiling <= 0 =>
                     max = IF ReservedProfitBps(x) <= 0 THEN NoLimit ELSE Unknown
               /\ ~c.published => max = Unknown
<1>1. c.published \in BOOLEAN /\ c.maxBetAmount \in Int
    BY CasinoFields DEF Unset
<1>2. x.den # 0
    BY DEF Fraction
<1>. DEFINE ceiling == c.maxBetAmount
            risk == RiskBoundWager(c, x)
            binds == RiskBinds(c, x)
            flat == ReservedProfitBps(x) <= 0
<1>3. ComputeMaxWager(c, x) =
        CASE ~c.published -> Unknown
          [] c.published /\ binds -> Limit(IF ceiling <= 0 \/ risk < ceiling THEN risk ELSE ceiling)
          [] c.published /\ ~binds -> IF ceiling > 0 THEN Limit(ceiling)
                                     ELSE IF flat THEN NoLimit ELSE Unknown
    BY <1>2 DEF ComputeMaxWager
<1>4. ceiling <= 0 <=> ~(ceiling > 0)
    BY <1>1
<1>. HIDE DEF risk, binds, flat
<1>5. CASE ~c.published
    BY <1>3, <1>5
<1>6. CASE c.published /\ binds
    BY <1>3, <1>6 DEF risk, binds
<1>7. CASE c.published /\ ~binds
    BY <1>3, <1>4, <1>7 DEF binds, flat
<1>. QED BY <1>1, <1>5, <1>6, <1>7

\* A wager the risk leg lets through is one the facet takes.
LEMMA RiskBoundIsSafe ==
    ASSUME NEW c, IsCasino(c), NEW x \in Fraction, RiskBinds(c, x), NEW w \in Nat,
           w <= RiskBoundWager(c, x)
    PROVE  w * (x.num - x.den) <= c.maxAllowedReservedProfit * x.den
<1>. DEFINE b == ReservedProfitBps(x)
            P == c.maxAllowedReservedProfit
            den == x.den
            profit == x.num - x.den
<1>1. P \in Nat
    BY CasinoFields DEF RiskBinds
<1>2. den \in Nat \ {0} /\ profit \in Int
    BY DEF Fraction
<1>3. b \in Nat \ {0} /\ b * den >= ONE_IN_BPS * profit
    BY RoundedUp DEF RiskBinds
<1>4. w <= (P * ONE_IN_BPS) \div b
    BY DEF RiskBoundWager
<1>. HIDE DEF b, P, den, profit
<1>5. P * ONE_IN_BPS \in Nat
    BY <1>1, SMT DEF ONE_IN_BPS
<1>6. w * b <= P * ONE_IN_BPS
    BY <1>3, <1>4, <1>5, QuotientIsLargest
<1>7. w * profit <= P * den
    BY <1>1, <1>2, <1>3, <1>6, BoundIsSafe
<1>. QED BY <1>7 DEF P, den, profit

\* A multiplier that rounds up to at most 1x reserves nothing.
LEMMA FlatIsSafe ==
    ASSUME NEW x \in Fraction, ReservedProfitBps(x) <= 0, NEW P \in Nat, NEW w \in Nat
    PROVE  w * (x.num - x.den) <= P * x.den
<1>. DEFINE b == ReservedProfitBps(x)
            den == x.den
            profit == x.num - x.den
<1>1. den \in Nat \ {0} /\ profit \in Int
    BY DEF Fraction
<1>2. b \in Int /\ b <= 0 /\ b * den >= 10000 * profit
    BY RoundedUp DEF ONE_IN_BPS
<1>. HIDE DEF b, den, profit
<1>3. b * den <= 0
    BY <1>1, <1>2, SMT
<1>4. profit <= 0
    <2>. DEFINE l == b * den
    <2>1. l \in Int /\ l <= 0 /\ l >= 10000 * profit
        BY <1>1, <1>2, <1>3, SMT
    <2>. HIDE DEF l
    <2>. QED BY <1>1, <2>1, SMT
<1>5. w * profit <= 0
    BY <1>1, <1>4, SMT
<1>6. P * den >= 0
    BY <1>1, SMT
<1>7. w * profit <= P * den
    <2>. DEFINE l == w * profit
                r == P * den
    <2>1. l \in Int /\ r \in Int /\ l <= 0 /\ r >= 0
        BY <1>1, <1>5, <1>6, SMT
    <2>. HIDE DEF l, r
    <2>2. l <= r
        BY <2>1
    <2>. QED BY <2>2 DEF l, r
<1>. QED BY <1>7 DEF den, profit

-----------------------------------------------------------------------------
(* The limit is right *)

\* For every game: what computeMaxWager lets through, the facet accepts.
THEOREM LimitIsSafeForEveryGame ==
    ASSUME NEW c, IsCasino(c), NEW x \in Fraction, NEW w \in Nat
    PROVE  LET max == ComputeMaxWager(c, x)
           IN  /\ max.kind = "limit" /\ w <= max.maxWager => FacetAccepts(c, x, w)
               /\ max.kind = "no-limit" => FacetAccepts(c, x, w)
               /\ max.kind = "limit" => max.maxWager \in Nat
<1>. DEFINE max == ComputeMaxWager(c, x)
            risk == RiskBoundWager(c, x)
            ceiling == c.maxBetAmount
            P == c.maxAllowedReservedProfit
            fits == w * (x.num - x.den) <= P * x.den
<1>1. /\ c.published \in BOOLEAN
      /\ ceiling \in Nat \cup {-1}
      /\ P \in Nat \cup {-1}
      /\ ~c.published => ceiling = -1 /\ P = -1
    BY CasinoFields DEF Unset
<1>2. x.den # 0 /\ ReservedProfitBps(x) \in Int
    BY RoundedUp DEF Fraction
<1>3. FacetAccepts(c, x, w) <=> (P # -1 => fits) /\ (ceiling > 0 => w <= ceiling)
    BY DEF FacetAccepts, Unset
<1>4. RiskBinds(c, x) => risk \in Nat /\ (w <= risk => fits)
    <2>. SUFFICES ASSUME RiskBinds(c, x)
                  PROVE  risk \in Nat /\ (w <= risk => fits)
        OBVIOUS
    <2>1. w <= risk => fits
        BY RiskBoundIsSafe
    <2>2. P \in Nat /\ ReservedProfitBps(x) \in Nat \ {0}
        BY <1>1, <1>2 DEF RiskBinds, Unset
    <2>3. risk \in Nat
        <3>. DEFINE b == ReservedProfitBps(x)
                    n == P * ONE_IN_BPS
        <3>1. n \in Nat /\ b \in Nat \ {0}
            BY <2>2, SMT DEF ONE_IN_BPS
        <3>2. risk = n \div b
            BY DEF RiskBoundWager
        <3>. HIDE DEF n, b, risk
        <3>. QED BY <3>1, <3>2, DivisionBounds
    <2>. QED BY <2>1, <2>3
<1>5. ~RiskBinds(c, x) => P = -1 \/ (ReservedProfitBps(x) <= 0 /\ fits)
    <2>. SUFFICES ASSUME ~RiskBinds(c, x), P # -1
                  PROVE  ReservedProfitBps(x) <= 0 /\ fits
        OBVIOUS
    <2>1. ReservedProfitBps(x) <= 0
        BY <1>2 DEF RiskBinds, Unset
    <2>2. P \in Nat
        BY <1>1
    <2>. QED BY <2>1, <2>2, FlatIsSafe
<1>6. /\ c.published /\ RiskBinds(c, x) =>
            max = Limit(IF ceiling <= 0 \/ risk < ceiling THEN risk ELSE ceiling)
      /\ c.published /\ ~RiskBinds(c, x) /\ ceiling > 0 => max = Limit(ceiling)
      /\ c.published /\ ~RiskBinds(c, x) /\ ceiling <= 0 =>
            max = IF ReservedProfitBps(x) <= 0 THEN NoLimit ELSE Unknown
      /\ ~c.published => max = Unknown
    BY MaxWagerCases
<1>7. /\ \A v : Limit(v).kind = "limit" /\ Limit(v).maxWager = v
      /\ NoLimit.kind = "no-limit" /\ Unknown.kind = "unknown"
    BY DEF Limit, NoLimit, Unknown
<1>. HIDE DEF max, risk, ceiling, P, fits
<1>8. CASE c.published /\ RiskBinds(c, x)
    <2>. DEFINE least == IF ceiling <= 0 \/ risk < ceiling THEN risk ELSE ceiling
    <2>1. max.kind = "limit" /\ max.maxWager = least
        BY <1>6, <1>7, <1>8
    <2>2. least \in Nat
        BY <1>1, <1>4, <1>8
    <2>3. w <= least => w <= risk /\ (ceiling > 0 => w <= ceiling)
        BY <1>1, <1>4, <1>8
    <2>. HIDE DEF least
    <2>. QED BY <1>3, <1>4, <1>8, <2>1, <2>2, <2>3 DEF max
<1>9. CASE c.published /\ ~RiskBinds(c, x) /\ ceiling > 0
    <2>1. max.kind = "limit" /\ max.maxWager = ceiling
        BY <1>6, <1>7, <1>9
    <2>. QED BY <1>1, <1>3, <1>5, <1>9, <2>1 DEF max
<1>10. CASE c.published /\ ~RiskBinds(c, x) /\ ceiling <= 0
    <2>1. max.kind # "limit"
        BY <1>6, <1>7, <1>10
    <2>. QED BY <1>1, <1>3, <1>5, <1>10, <2>1 DEF max
<1>11. CASE ~c.published
    <2>1. max.kind = "unknown"
        BY <1>6, <1>7, <1>11
    <2>. QED BY <2>1 DEF max
<1>12. ceiling > 0 <=> ~(ceiling <= 0)
    BY <1>1
<1>. QED BY <1>1, <1>8, <1>9, <1>10, <1>11, <1>12

\* For LEDGE, whose multipliers are whole: the limit is the largest wager the
\* facet accepts, and without one it accepts them all.
THEOREM LimitIsExactForLedge ==
    ASSUME NEW c, IsCasino(c), NEW S \in Nat, NEW w \in Nat
    PROVE  LET x == [num |-> S, den |-> 1]
               max == ComputeMaxWager(c, x)
           IN  /\ max.kind = "limit" => (w <= max.maxWager <=> FacetAccepts(c, x, w))
               /\ max.kind # "limit" => FacetAccepts(c, x, w)
<1>. DEFINE x == [num |-> S, den |-> 1]
            max == ComputeMaxWager(c, x)
            risk == RiskBoundWager(c, x)
            ceiling == c.maxBetAmount
            P == c.maxAllowedReservedProfit
            fits == w * (S - 1) <= P
<1>1. /\ c.published \in BOOLEAN
      /\ ceiling \in Nat \cup {-1}
      /\ P \in Nat \cup {-1}
      /\ ~c.published => ceiling = -1 /\ P = -1
    BY CasinoFields DEF Unset
<1>2. x \in Fraction /\ x.num = S /\ x.den = 1
    BY DEF Fraction
<1>3. ReservedProfitBps(x) = 10000 * (S - 1)
    BY <1>2, SMT DEF ReservedProfitBps, ONE_IN_BPS
<1>4. FacetAccepts(c, x, w) <=> (P # -1 => fits) /\ (ceiling > 0 => w <= ceiling)
    <2>1. \A p \in Nat : p * 1 = p
        OBVIOUS
    <2>. QED BY <1>1, <1>2, <2>1 DEF FacetAccepts, Unset
<1>5. RiskBinds(c, x) <=> S > 1 /\ P # -1
    BY <1>2, <1>3 DEF RiskBinds, Unset
<1>6. RiskBinds(c, x) => risk \in Nat /\ (w <= risk <=> fits)
    <2>. SUFFICES ASSUME RiskBinds(c, x)
                  PROVE  risk \in Nat /\ (w <= risk <=> fits)
        OBVIOUS
    <2>. DEFINE b == 10000 * (S - 1)
                n == P * 10000
    <2>1. P \in Nat /\ b \in Nat \ {0} /\ n \in Nat
        BY <1>1, <1>5, SMT
    <2>2. risk = n \div b
        BY <1>3 DEF RiskBoundWager, ONE_IN_BPS
    <2>. HIDE DEF risk, P
    <2>3. w * b = 10000 * (w * (S - 1)) /\ w * (S - 1) \in Int
        BY SMT
    <2>4. n = 10000 * P
        BY <2>1, SMT
    <2>. HIDE DEF n, b
    <2>5. risk \in Nat /\ (w <= risk <=> w * b <= n)
        BY <2>1, <2>2, DivisionBounds, QuotientIsLargest
    <2>. DEFINE l == w * (S - 1)
    <2>. HIDE DEF l
    <2>6. 10000 * l <= 10000 * P <=> l <= P
        BY <2>1, <2>3 DEF l
    <2>. QED BY <2>3, <2>4, <2>5, <2>6 DEF l
<1>7. ~RiskBinds(c, x) => P = -1 \/ (ReservedProfitBps(x) <= 0 /\ fits)
    <2>. SUFFICES ASSUME ~RiskBinds(c, x), P # -1
                  PROVE  ReservedProfitBps(x) <= 0 /\ fits
        OBVIOUS
    <2>1. S <= 1 /\ P \in Nat
        BY <1>1, <1>5
    <2>2. w * (S - 1) <= 0
        <3>1. CASE S = 0
            BY <3>1, SMT
        <3>2. CASE S = 1
            BY <3>2, SMT
        <3>. QED BY <2>1, <3>1, <3>2
    <2>3. w * (S - 1) \in Int
        BY SMT
    <2>. QED BY <1>3, <2>1, <2>2, <2>3
<1>8. /\ c.published /\ RiskBinds(c, x) =>
            max = Limit(IF ceiling <= 0 \/ risk < ceiling THEN risk ELSE ceiling)
      /\ c.published /\ ~RiskBinds(c, x) /\ ceiling > 0 => max = Limit(ceiling)
      /\ c.published /\ ~RiskBinds(c, x) /\ ceiling <= 0 =>
            max = IF ReservedProfitBps(x) <= 0 THEN NoLimit ELSE Unknown
      /\ ~c.published => max = Unknown
    BY <1>2, MaxWagerCases
<1>9. /\ \A v : Limit(v).kind = "limit" /\ Limit(v).maxWager = v
      /\ NoLimit.kind # "limit" /\ Unknown.kind # "limit"
    BY DEF Limit, NoLimit, Unknown
<1>. HIDE DEF x, max, risk, ceiling, P, fits
<1>10. CASE c.published /\ RiskBinds(c, x)
    <2>. DEFINE least == IF ceiling <= 0 \/ risk < ceiling THEN risk ELSE ceiling
    <2>1. max.kind = "limit" /\ max.maxWager = least
        BY <1>8, <1>9, <1>10
    <2>2. w <= least <=> w <= risk /\ (ceiling > 0 => w <= ceiling)
        BY <1>1, <1>6, <1>10
    <2>3. P # -1
        BY <1>5, <1>10
    <2>. HIDE DEF least
    <2>4. w <= max.maxWager <=> FacetAccepts(c, x, w)
        BY <1>4, <1>6, <1>10, <2>1, <2>2, <2>3
    <2>. QED BY <2>1, <2>4 DEF max, x
<1>11. CASE c.published /\ ~RiskBinds(c, x) /\ ceiling > 0
    <2>1. max.kind = "limit" /\ max.maxWager = ceiling
        BY <1>8, <1>9, <1>11
    <2>2. w <= max.maxWager <=> FacetAccepts(c, x, w)
        BY <1>4, <1>7, <1>11, <2>1
    <2>. QED BY <2>1, <2>2 DEF max, x
<1>12. CASE c.published /\ ~RiskBinds(c, x) /\ ceiling <= 0
    <2>1. max.kind # "limit"
        BY <1>8, <1>9, <1>12
    <2>2. FacetAccepts(c, x, w)
        BY <1>1, <1>4, <1>7, <1>12
    <2>. QED BY <2>1, <2>2 DEF max, x
<1>13. CASE ~c.published
    <2>1. max.kind # "limit"
        BY <1>8, <1>9, <1>13
    <2>2. FacetAccepts(c, x, w)
        BY <1>1, <1>4, <1>13
    <2>. QED BY <2>1, <2>2 DEF max, x
<1>14. ceiling > 0 <=> ~(ceiling <= 0)
    BY <1>1
<1>. QED BY <1>1, <1>10, <1>11, <1>12, <1>13, <1>14

-----------------------------------------------------------------------------
(* The page *)

PageInv ==
    /\ sitting \in Sittings
    /\ IsCasino(casino) /\ balance \in Nat
    /\ board \in [Lanes -> Nat] /\ stake \in Nat
    /\ DropsWithinLimits

LEMMA PrizeSumNat ==
    ASSUME NEW T \in SUBSET Lanes
    PROVE  PrizeSum(T) \in Nat
<1>. DEFINE part == [place \in Lanes |-> IF place \in T THEN Prize[place] ELSE 0]
<1>1. \A place \in Lanes : Prize[place] \in Nat
    BY DEF Prize, Lanes, LANE_COUNT
<1>2. \A place \in Lanes : part[place] \in Nat
    BY <1>1
<1>3. 0 \in Lanes /\ 1 \in Lanes /\ 2 \in Lanes /\ 3 \in Lanes /\ 4 \in Lanes
    BY DEF Lanes, LANE_COUNT
<1>4. PrizeSum(T) = LaneTotal(part)
    BY DEF PrizeSum
<1>. HIDE DEF part
<1>. QED BY <1>2, <1>3, <1>4 DEF LaneTotal

LEMMA MultiplierIsWhole ==
    ASSUME NEW b
    PROVE  \E S \in Nat : BoardMultiplier(b) = [num |-> S, den |-> 1]
<1>. DEFINE T == IF UsedLanes(b) = {} THEN Lanes ELSE UsedLanes(b)
<1>1. T \in SUBSET Lanes
    BY DEF UsedLanes
<1>2. BoardMultiplier(b) = [num |-> PrizeSum(T), den |-> 1]
    BY DEF BoardMultiplier
<1>. HIDE DEF T
<1>. QED BY <1>1, <1>2, PrizeSumNat

LEMMA CeilingIsNat ==
    ASSUME IsCasino(casino), balance \in Nat
    PROVE  Ceiling \in Nat
<1>1. PICK S \in Nat : BoardMultiplier(board) = [num |-> S, den |-> 1]
    BY MultiplierIsWhole
<1>2. BoardMultiplier(board) \in Fraction
    BY <1>1 DEF Fraction
<1>3. MaxWager.kind = "limit" => MaxWager.maxWager \in Nat
    BY <1>2, 0 \in Nat, LimitIsSafeForEveryGame DEF MaxWager
<1>. QED BY <1>3 DEF Ceiling

\* The facet accepts what the page offers to drop.
LEMMA DroppedIsAccepted ==
    ASSUME IsCasino(casino), balance \in Nat, stake \in Nat, CanDrop
    PROVE  FacetAccepts(casino, BoardMultiplier(board), stake)
<1>1. PICK S \in Nat : BoardMultiplier(board) = [num |-> S, den |-> 1]
    BY MultiplierIsWhole
<1>2. MaxWager.kind = "limit" => stake <= MaxWager.maxWager
    BY DEF CanDrop
<1>. QED BY <1>1, <1>2, LimitIsExactForLedge DEF MaxWager

LEMMA FiveAtMost ==
    ASSUME NEW v0 \in Nat, NEW v1 \in Nat, NEW v2 \in Nat, NEW v3 \in Nat, NEW v4 \in Nat,
           v0 + v1 + v2 + v3 + v4 = 5
    PROVE  /\ v0 \in 0..5 /\ v1 \in 0..5 /\ v2 \in 0..5 /\ v3 \in 0..5 /\ v4 \in 0..5
           /\ v0 > 0 \/ v1 > 0 \/ v2 > 0 \/ v3 > 0 \/ v4 > 0
BY SMT

\* Five coins are an allocation, and the page reckons with the lanes they are on.
LEMMA PlacedIsAllocation ==
    ASSUME NEW b \in [Lanes -> Nat], LaneTotal(b) = N_COINS
    PROVE  /\ b \in Allocations
           /\ BoardMultiplier(b) = [num |-> PrizeSum(UsedLanes(b)), den |-> 1]
<1>1. 0 \in Lanes /\ 1 \in Lanes /\ 2 \in Lanes /\ 3 \in Lanes /\ 4 \in Lanes
      /\ \A l \in Lanes : l \in {0, 1, 2, 3, 4}
    BY DEF Lanes, LANE_COUNT
<1>2. b[0] + b[1] + b[2] + b[3] + b[4] = 5
    BY DEF LaneTotal, N_COINS
<1>3. b[0] \in Nat /\ b[1] \in Nat /\ b[2] \in Nat /\ b[3] \in Nat /\ b[4] \in Nat
    BY <1>1
<1>4. b[0] \in 0..5 /\ b[1] \in 0..5 /\ b[2] \in 0..5 /\ b[3] \in 0..5 /\ b[4] \in 0..5
    BY <1>2, <1>3, FiveAtMost
<1>5. \A l \in Lanes : b[l] \in 0..5
    BY <1>1, <1>4
<1>6. b \in Allocations
    BY <1>5 DEF Allocations, N_COINS
<1>7. b[0] > 0 \/ b[1] > 0 \/ b[2] > 0 \/ b[3] > 0 \/ b[4] > 0
    BY <1>2, <1>3, FiveAtMost
<1>8. \E l \in Lanes : b[l] > 0
    BY <1>1, <1>7
<1>. QED BY <1>6, <1>8 DEF BoardMultiplier, UsedLanes

LEMMA EditsKeepTypes ==
    ASSUME PageInv, Edit
    PROVE  board' \in [Lanes -> Nat] /\ stake' \in Nat
<1>1. /\ sitting.lanes \subseteq Lanes /\ sitting.presets \subseteq PRESETS
      /\ sitting.typed \subseteq Nat
    BY PageAssumption DEF PageInv
<1>2. board \in [Lanes -> Nat] /\ stake \in Nat /\ Ceiling \in Nat
    BY CeilingIsNat DEF PageInv
<1>3. PRESETS \subseteq [Lanes -> Nat] /\ EmptyBoard \in [Lanes -> Nat]
    BY DEF PRESETS, BoardOf, EmptyBoard
<1>4. ASSUME EditBoard PROVE board' \in [Lanes -> Nat]
    <2>1. CASE \E l \in sitting.lanes : board' = [board EXCEPT ![l] = @ + 1]
        BY <1>1, <1>2, <2>1
    <2>2. CASE \E l \in sitting.lanes : board[l] > 0 /\ board' = [board EXCEPT ![l] = @ - 1]
        BY <1>1, <1>2, <2>2
    <2>3. CASE board' \in sitting.presets \/ board' = EmptyBoard
        BY <1>1, <1>3, <2>3
    <2>. QED BY <1>4, <2>1, <2>2, <2>3 DEF EditBoard
<1>5. ASSUME EditStake PROVE stake' \in Nat
    <2>1. stake \div 2 \in Nat /\ 2 * stake \in Nat
        BY <1>2, SMT
    <2>. QED BY <1>1, <1>2, <1>5, <2>1 DEF EditStake
<1>. QED BY <1>2, <1>4, <1>5 DEF Edit

LEMMA PageInitially == PageInit => PageInv
<1>. SUFFICES ASSUME PageInit PROVE PageInv
    OBVIOUS
<1>. QED BY DEF PageInit, PageInv, IsCasino, EmptyBoard, DropsWithinLimits

LEMMA PageStep == PageInv /\ [PageNext]_pageVars => PageInv'
<1>. SUFFICES ASSUME PageInv, [PageNext]_pageVars PROVE PageInv'
    OBVIOUS
<1>1. CASE RecordEffect
    BY <1>1 DEF RecordEffect, PageInv, DropsWithinLimits
<1>2. CASE Edit
    <2>1. board' \in [Lanes -> Nat] /\ stake' \in Nat
        BY <1>2, EditsKeepTypes
    <2>. QED BY <1>2, <2>1 DEF Edit, PageInv, DropsWithinLimits
<1>3. ASSUME NEW c \in sitting.casinos, NEW shown \in sitting.balances, Publish(c, shown)
      PROVE  PageInv'
    <2>1. IsCasino(c) /\ shown \in Nat
        BY PageAssumption DEF PageInv
    <2>. QED BY <1>3, <2>1 DEF Publish, PageInv, DropsWithinLimits
<1>4. CASE Drop
    <2>1. IsCasino(casino) /\ balance \in Nat /\ stake \in Nat /\ board \in [Lanes -> Nat]
        BY DEF PageInv
    <2>2. /\ CanDrop /\ stake > 0 /\ stake <= balance
          /\ LaneTotal(board) = N_COINS
        BY <1>4 DEF Drop, CanDrop, CoinsPlaced
    <2>. DEFINE S == PrizeSum(UsedLanes(board))
    <2>3. board \in Allocations /\ BoardMultiplier(board) = [num |-> S, den |-> 1]
        BY <2>1, <2>2, PlacedIsAllocation
    <2>4. S \in Nat
        <3>1. UsedLanes(board) \in SUBSET Lanes
            BY DEF UsedLanes
        <3>. QED BY <3>1, PrizeSumNat
    <2>5. FacetAccepts(casino, [num |-> S, den |-> 1], stake)
        BY <2>1, <2>2, <2>3, DroppedIsAccepted
    <2>6. casino.maxAllowedReservedProfit # Unset =>
            stake * (S - 1) <= casino.maxAllowedReservedProfit * 1
        BY <2>5 DEF FacetAccepts
    <2>7. casino.maxBetAmount > 0 => stake <= casino.maxBetAmount
        BY <2>5 DEF FacetAccepts
    <2>8. QuoteCaps(stake, board).maxReservedProfit =
            IF stake * S > stake THEN stake * S - stake ELSE 0
        BY DEF QuoteCaps, MaxReservedProfit, MaxPayout
    <2>. HIDE DEF S
    <2>9. casino.maxAllowedReservedProfit # Unset =>
            QuoteCaps(stake, board).maxReservedProfit <= casino.maxAllowedReservedProfit
        <3>. SUFFICES ASSUME casino.maxAllowedReservedProfit # Unset
                      PROVE  QuoteCaps(stake, board).maxReservedProfit
                               <= casino.maxAllowedReservedProfit
            OBVIOUS
        <3>. DEFINE P == casino.maxAllowedReservedProfit
                    l == stake * S
        <3>1. P \in Nat
            BY <2>1, CasinoFields
        <3>2. l \in Int /\ stake * (S - 1) = l - stake
            BY <2>1, <2>4, SMT
        <3>. HIDE DEF P, l
        <3>3. l - stake <= P
            BY <2>6, <3>1, <3>2 DEF P
        <3>4. (IF l > stake THEN l - stake ELSE 0) <= P
            BY <2>1, <3>1, <3>2, <3>3
        <3>. QED BY <2>8, <3>4 DEF P, l
    <2>. DEFINE d == [id |-> Cardinality(drops), wager |-> stake, board |-> board,
                      casino |-> casino, balance |-> balance]
    <2>10. /\ drops' = drops \cup {d}
           /\ UNCHANGED <<sitting, casino, balance, board, stake>>
        BY <1>4 DEF Drop
    <2>11. /\ d.board = board /\ d.wager = stake /\ d.balance = balance
           /\ d.casino = casino
        OBVIOUS
    <2>. HIDE DEF d
    <2>12. \A e \in drops' :
             /\ e.board \in Allocations
             /\ e.wager > 0 /\ e.wager <= e.balance
             /\ e.casino.maxAllowedReservedProfit # Unset =>
                  QuoteCaps(e.wager, e.board).maxReservedProfit
                    <= e.casino.maxAllowedReservedProfit
             /\ e.casino.maxBetAmount > 0 => e.wager <= e.casino.maxBetAmount
        BY <2>2, <2>3, <2>7, <2>9, <2>10, <2>11 DEF PageInv, DropsWithinLimits
    <2>. QED BY <2>10, <2>12 DEF PageInv, DropsWithinLimits
<1>5. ASSUME NEW T \in SUBSET UsedLanes(play.board), Settle(T) PROVE PageInv'
    BY <1>5 DEF Settle, PageInv, DropsWithinLimits
<1>6. CASE RoundFails
    BY <1>6 DEF RoundFails, PageInv, DropsWithinLimits
<1>7. CASE StartNextRound
    BY <1>7 DEF StartNextRound, PageInv, DropsWithinLimits, EmptyBoard
<1>8. CASE UNCHANGED pageVars
    BY <1>8 DEF pageVars, PageInv, DropsWithinLimits
<1>. QED BY <1>1, <1>2, <1>3, <1>4, <1>5, <1>6, <1>7, <1>8 DEF PageNext

LEMMA PageInvariant == PageSpec => []PageInv
BY PageInitially, PageStep, PTL DEF PageSpec

\* Whatever was edited or published between choosing a stake and pressing Drop,
\* the host that published the limits takes the bet.
THEOREM BetsLeaveWithinLimits == PageSpec => []DropsWithinLimits
<1>1. PageInv => DropsWithinLimits
    BY DEF PageInv
<1>. QED BY <1>1, PageInvariant, PTL

\* The limit on the page is safe for every multiplier and exact for the coins
\* placed, whatever limits and balances are published.
THEOREM LimitShownIsRight == PageSpec => []LimitIsRight
<1>1. PageInv => LimitIsSafe
    <2>. SUFFICES ASSUME PageInv, NEW x \in Multipliers
                  PROVE  LET max == ComputeMaxWager(casino, x)
                         IN  /\ max.kind = "limit" => FacetAccepts(casino, x, max.maxWager)
                             /\ max.kind = "no-limit" =>
                                  \A w \in 1..(balance + 1) : FacetAccepts(casino, x, w)
        BY DEF LimitIsSafe
    <2>. DEFINE max == ComputeMaxWager(casino, x)
    <2>1. IsCasino(casino) /\ balance \in Nat /\ x \in Fraction
        BY PageAssumption DEF PageInv, Fraction
    <2>2. \A w \in Nat :
             /\ max.kind = "limit" /\ w <= max.maxWager => FacetAccepts(casino, x, w)
             /\ max.kind = "no-limit" => FacetAccepts(casino, x, w)
             /\ max.kind = "limit" => max.maxWager \in Nat
        BY <2>1, LimitIsSafeForEveryGame
    <2>. HIDE DEF max
    <2>3. max.kind = "limit" => max.maxWager \in Nat /\ max.maxWager <= max.maxWager
        BY <2>2
    <2>4. \A w \in 1..(balance + 1) : w \in Nat
        BY <2>1
    <2>5. /\ max.kind = "limit" => FacetAccepts(casino, x, max.maxWager)
          /\ max.kind = "no-limit" =>
               \A w \in 1..(balance + 1) : FacetAccepts(casino, x, w)
        BY <2>2, <2>3, <2>4
    <2>. QED BY <2>5 DEF max
<1>2. PageInv => MaxIsLargest
    <2>. SUFFICES ASSUME PageInv, NEW w \in 1..(balance + 1)
                  PROVE  w <= Ceiling <=>
                           /\ w <= balance
                           /\ FacetAccepts(casino, BoardMultiplier(board), w)
        BY DEF MaxIsLargest
    <2>1. IsCasino(casino) /\ balance \in Nat /\ w \in Nat
        BY DEF PageInv
    <2>2. PICK S \in Nat : BoardMultiplier(board) = [num |-> S, den |-> 1]
        BY MultiplierIsWhole
    <2>. DEFINE takes == FacetAccepts(casino, BoardMultiplier(board), w)
    <2>3. /\ MaxWager.kind = "limit" => (w <= MaxWager.maxWager <=> takes)
          /\ MaxWager.kind # "limit" => takes
        BY <2>1, <2>2, LimitIsExactForLedge DEF MaxWager
    <2>4. MaxWager.kind = "limit" => MaxWager.maxWager \in Nat
        <3>1. BoardMultiplier(board) \in Fraction
            BY <2>2 DEF Fraction
        <3>. QED BY <2>1, <3>1, LimitIsSafeForEveryGame DEF MaxWager
    <2>. HIDE DEF takes
    <2>5. CASE MaxWager.kind # "limit"
        BY <2>1, <2>3, <2>5 DEF Ceiling, takes
    <2>6. CASE MaxWager.kind = "limit"
        <3>1. Ceiling = IF MaxWager.maxWager < balance THEN MaxWager.maxWager ELSE balance
            BY <2>6 DEF Ceiling
        <3>2. w <= Ceiling <=> w <= balance /\ w <= MaxWager.maxWager
            BY <2>1, <2>4, <2>6, <3>1
        <3>. QED BY <2>3, <2>6, <3>2 DEF takes
    <2>. QED BY <2>5, <2>6
<1>3. PageInv => LimitIsRight
    BY <1>1, <1>2 DEF LimitIsRight
<1>. QED BY <1>3, PageInvariant, PTL

-----------------------------------------------------------------------------
(***************************************************************************)
(* The statistics of a sitting.                                            *)
(***************************************************************************)

SettledRounds == [wager: Nat \ {0}, payout: Nat]
Entries == [id: Nat, wager: Nat, payout: Nat, multiplier: Nat]

Winning(out, i, j) == \A k \in i..j : out[k].payout > 0

\* The entries are the rounds `out` without the first `skipped`.
After(skipped, history, out) ==
    \A i \in 1..Len(history) : /\ history[i].id = skipped + i
                              /\ history[i].wager = out[skipped + i].wager
                              /\ history[i].payout = out[skipped + i].payout

\* What the statistics say of the rounds `out` that have settled.
HistoryTells(history, out) ==
    LET n == Len(out)
        kept == Len(history)
    IN  /\ history \in Seq(Entries)
        /\ kept = IF n <= HISTORY_LIMIT THEN n ELSE HISTORY_LIMIT
        /\ After(n - kept, history, out)

BestTells(best, out) ==
    /\ best \in Nat /\ (Len(out) = 0 => best = 0)
    /\ Len(out) > 0 => \E i \in 1..Len(out) : best = out[i].payout
    /\ \A i \in 1..Len(out) : out[i].payout <= best

StreakTells(streak, out) ==
    /\ streak \in 0..Len(out) /\ Winning(out, Len(out) - streak + 1, Len(out))
    /\ streak < Len(out) => out[Len(out) - streak].payout = 0

LongestTells(longest, out) ==
    /\ longest \in Nat
    /\ \A i, j \in 1..Len(out) : i <= j /\ Winning(out, i, j) => j - i + 1 <= longest
    /\ longest > 0 => \E i \in 1..Len(out) : /\ i + longest - 1 \in 1..Len(out)
                                             /\ Winning(out, i, i + longest - 1)

Tells(s, out) ==
    /\ s.rounds = Len(out)
    /\ HistoryTells(s.history, out) /\ BestTells(s.best, out)
    /\ StreakTells(s.streak, out) /\ LongestTells(s.longestStreak, out)

\* The rounds `more` are the rounds `out` and one more.
OneMore(out, o, more) ==
    /\ out \in Seq(SettledRounds) /\ o \in SettledRounds
    /\ Len(more) = Len(out) + 1 /\ more[Len(out) + 1] = o
    /\ \A i \in 1..Len(out) : more[i] = out[i]

LEMMA AppendIsOneMore ==
    ASSUME NEW out \in Seq(SettledRounds), NEW o \in SettledRounds
    PROVE  OneMore(out, o, Append(out, o))
<1>1. DOMAIN out = 1..Len(out)
    BY LenProperties
<1>. QED BY <1>1, AppendProperties DEF OneMore

LEMMA OneMoreFacts ==
    ASSUME NEW out, NEW o, NEW more, OneMore(out, o, more)
    PROVE  /\ Len(out) \in Nat /\ Len(more) = Len(out) + 1
           /\ o.payout \in Nat /\ o.wager \in Nat \ {0} /\ more[Len(out) + 1] = o
           /\ \A i \in 1..Len(out) : more[i] = out[i] /\ out[i].payout \in Nat
<1>1. Len(out) \in Nat /\ \A i \in 1..Len(out) : out[i] \in SettledRounds
    BY LenProperties, ElementOfSeq DEF OneMore
<1>. QED BY <1>1 DEF OneMore, SettledRounds

\* The history strip keeps the latest rounds.
LEMMA HistoryGoesOn ==
    ASSUME NEW out, NEW o, NEW more, OneMore(out, o, more),
           NEW history, HistoryTells(history, out),
           NEW entry \in Entries, entry.id = Len(out) + 1, entry.wager = o.wager,
           entry.payout = o.payout
    PROVE  HistoryTells(LastOf(Append(history, entry)), more)
<1>. DEFINE n == Len(out)
            kept == Len(history)
            a == Append(history, entry)
<1>1. /\ n \in Nat /\ Len(more) = n + 1 /\ more[n + 1] = o
      /\ \A i \in 1..n : more[i] = out[i]
    BY OneMoreFacts
<1>2. HISTORY_LIMIT \in Nat /\ HISTORY_LIMIT > 0
    BY PageAssumption
<1>3. /\ history \in Seq(Entries) /\ kept \in Nat
      /\ kept = IF n <= HISTORY_LIMIT THEN n ELSE HISTORY_LIMIT
      /\ \A i \in 1..kept : /\ history[i].id = n - kept + i
                            /\ history[i].wager = out[n - kept + i].wager
                            /\ history[i].payout = out[n - kept + i].payout
    BY LenProperties DEF HistoryTells, After
<1>4. /\ a \in Seq(Entries) /\ Len(a) = kept + 1 /\ a[kept + 1] = entry
      /\ \A i \in 1..kept : a[i] = history[i]
    <2>1. DOMAIN history = 1..kept
        BY <1>3, LenProperties
    <2>. QED BY <1>3, <2>1, AppendProperties
<1>5. \A i \in 1..(kept + 1) : /\ a[i] \in Entries /\ a[i].id = n - kept + i
                               /\ a[i].wager = more[n - kept + i].wager
                               /\ a[i].payout = more[n - kept + i].payout
    <2>. SUFFICES ASSUME NEW i \in 1..(kept + 1)
                  PROVE  /\ a[i] \in Entries /\ a[i].id = n - kept + i
                         /\ a[i].wager = more[n - kept + i].wager
                         /\ a[i].payout = more[n - kept + i].payout
        OBVIOUS
    <2>0. kept <= n
        BY <1>1, <1>2, <1>3
    <2>1. CASE i <= kept
        <3>1. i \in 1..kept /\ n - kept + i \in 1..n
            BY <1>1, <1>3, <2>0, <2>1
        <3>2. history[i] \in Entries
            BY <1>3, <3>1, ElementOfSeq
        <3>. HIDE DEF a, n, kept
        <3>. QED BY <1>1, <1>3, <1>4, <3>1, <3>2
    <2>2. CASE i = kept + 1
        <3>1. n - kept + i = n + 1
            BY <1>1, <1>3, <2>2
        <3>. HIDE DEF a, kept
        <3>. QED BY <1>1, <1>4, <2>2, <3>1
    <2>. QED BY <1>3, <2>1, <2>2
<1>. HIDE DEF a
<1>6. CASE n + 1 <= HISTORY_LIMIT
    <2>1. kept = n /\ Len(a) <= HISTORY_LIMIT
        BY <1>1, <1>2, <1>3, <1>4, <1>6
    <2>2. LastOf(a) = a
        BY <2>1 DEF LastOf
    <2>. HIDE DEF n, kept
    <2>3. After(n - kept, a, more)
        BY <1>4, <1>5 DEF After
    <2>4. /\ Len(more) - Len(a) = n - kept
          /\ Len(a) = IF Len(more) <= HISTORY_LIMIT THEN Len(more) ELSE HISTORY_LIMIT
        BY <1>1, <1>3, <1>4, <1>6, <2>1
    <2>5. HistoryTells(a, more)
        BY <1>4, <2>3, <2>4 DEF HistoryTells
    <2>. QED BY <2>2, <2>5 DEF a
<1>7. CASE n + 1 > HISTORY_LIMIT
    <2>1. kept = HISTORY_LIMIT /\ kept <= n
        BY <1>1, <1>2, <1>3, <1>7
    <2>2. LastOf(a) = SubSeq(a, 2, kept + 1)
        <3>1. Len(a) - HISTORY_LIMIT + 1 = 2 /\ ~(Len(a) <= HISTORY_LIMIT)
            BY <1>2, <1>4, <2>1
        <3>. QED BY <1>4, <3>1 DEF LastOf
    <2>. DEFINE b == SubSeq(a, 2, kept + 1)
    <2>3. /\ b \in Seq(Entries) /\ Len(b) = kept
          /\ \A i \in 1..kept : b[i] = a[i + 1]
        <3>1. \A i \in 2..(kept + 1) : a[i] \in Entries
            BY <1>3, <1>5
        <3>2. 2 \in Int /\ kept + 1 \in Int /\ (kept + 1) - 2 + 1 = kept /\ 2 <= kept + 1
            BY <1>2, <2>1
        <3>3. /\ b \in Seq(Entries) /\ Len(b) = IF 2 <= kept + 1 THEN (kept + 1) - 2 + 1 ELSE 0
              /\ \A i \in 1..((kept + 1) - 2 + 1) : b[i] = a[2 + i - 1]
            BY <3>1, <3>2, SubSeqProperties
        <3>4. \A i \in 1..kept : 2 + i - 1 = i + 1
            BY <1>3
        <3>. HIDE DEF b
        <3>. QED BY <3>2, <3>3, <3>4
    <2>. HIDE DEF b
    <2>4. \A i \in 1..kept : /\ b[i].id = (n + 1) - kept + i
                             /\ b[i].wager = more[(n + 1) - kept + i].wager
                             /\ b[i].payout = more[(n + 1) - kept + i].payout
        <3>. SUFFICES ASSUME NEW i \in 1..kept
                      PROVE  /\ b[i].id = (n + 1) - kept + i
                             /\ b[i].wager = more[(n + 1) - kept + i].wager
                             /\ b[i].payout = more[(n + 1) - kept + i].payout
            OBVIOUS
        <3>. HIDE DEF n, kept
        <3>0. n \in Nat /\ kept \in Nat /\ i \in 1..kept
            BY <1>1, <1>3
        <3>1. i + 1 \in 1..(kept + 1) /\ n - kept + (i + 1) = (n + 1) - kept + i
            BY <3>0
        <3>. QED BY <1>5, <2>3, <3>1
    <2>. HIDE DEF n, kept
    <2>5. After((n + 1) - kept, b, more)
        BY <2>3, <2>4 DEF After
    <2>6. /\ Len(more) - Len(b) = (n + 1) - kept
          /\ Len(b) = IF Len(more) <= HISTORY_LIMIT THEN Len(more) ELSE HISTORY_LIMIT
        BY <1>1, <1>2, <1>7, <2>1, <2>3
    <2>7. HistoryTells(b, more)
        BY <2>3, <2>5, <2>6 DEF HistoryTells
    <2>. QED BY <2>2, <2>7 DEF a, b, kept
<1>. QED BY <1>1, <1>2, <1>6, <1>7

LEMMA BestGoesOn ==
    ASSUME NEW out, NEW o, NEW more, OneMore(out, o, more), NEW best, BestTells(best, out)
    PROVE  BestTells(Larger(best, o.payout), more)
<1>. DEFINE n == Len(out)
            new == Larger(best, o.payout)
<1>1. /\ n \in Nat /\ Len(more) = n + 1 /\ more[n + 1] = o /\ o.payout \in Nat
      /\ \A i \in 1..n : more[i] = out[i] /\ out[i].payout \in Nat
    BY OneMoreFacts
<1>2. /\ best \in Nat /\ (n = 0 => best = 0)
      /\ n > 0 => \E i \in 1..n : best = out[i].payout
      /\ \A i \in 1..n : out[i].payout <= best
    BY DEF BestTells
<1>3. new \in Nat /\ new >= best /\ new >= o.payout /\ (new = best \/ new = o.payout)
      /\ (best = 0 => new = o.payout)
    BY <1>1, <1>2 DEF Larger
<1>. HIDE DEF n, new
<1>4. \E i \in 1..(n + 1) : new = more[i].payout
    <2>1. CASE new = o.payout
        <3>1. n + 1 \in 1..(n + 1)
            BY <1>1
        <3>. QED BY <1>1, <2>1, <3>1
    <2>2. CASE new # o.payout
        <3>1. new = best /\ n > 0
            BY <1>1, <1>2, <1>3, <2>2
        <3>2. PICK i \in 1..n : best = out[i].payout
            BY <1>2, <3>1
        <3>3. i \in 1..(n + 1)
            BY <1>1
        <3>. QED BY <1>1, <3>1, <3>2, <3>3
    <2>. QED BY <2>1, <2>2
<1>5. \A i \in 1..(n + 1) : more[i].payout <= new
    <2>. SUFFICES ASSUME NEW i \in 1..(n + 1) PROVE more[i].payout <= new
        OBVIOUS
    <2>1. CASE i = n + 1
        BY <1>1, <1>3, <2>1
    <2>2. CASE i \in 1..n
        <3>1. out[i].payout <= best /\ out[i].payout \in Nat /\ more[i] = out[i]
            BY <1>1, <1>2, <2>2
        <3>. QED BY <1>2, <1>3, <3>1
    <2>. QED BY <1>1, <2>1, <2>2
<1>. QED BY <1>1, <1>3, <1>4, <1>5 DEF BestTells, new, n

LEMMA StreakGoesOn ==
    ASSUME NEW out, NEW o, NEW more, OneMore(out, o, more),
           NEW streak, StreakTells(streak, out)
    PROVE  StreakTells(IF o.payout > 0 THEN streak + 1 ELSE 0, more)
<1>. DEFINE n == Len(out)
<1>1. /\ n \in Nat /\ Len(more) = n + 1 /\ more[n + 1] = o /\ o.payout \in Nat
      /\ \A i \in 1..n : more[i] = out[i] /\ out[i].payout \in Nat
    BY OneMoreFacts
<1>2. /\ streak \in 0..n /\ (\A k \in (n - streak + 1)..n : out[k].payout > 0)
      /\ streak < n => out[n - streak].payout = 0
    BY DEF StreakTells, Winning
<1>. HIDE DEF n
<1>3. CASE o.payout > 0
    <2>1. streak + 1 \in 0..(n + 1) /\ (n + 1) - (streak + 1) + 1 = n - streak + 1
          /\ (n + 1) - (streak + 1) = n - streak
        BY <1>1, <1>2
    <2>2. ASSUME NEW k \in (n - streak + 1)..(n + 1) PROVE more[k].payout > 0
        <3>1. CASE k = n + 1
            BY <1>1, <1>3, <3>1
        <3>2. CASE k # n + 1
            <4>1. k \in (n - streak + 1)..n /\ k \in 1..n
                BY <1>1, <1>2, <3>2
            <4>. QED BY <1>1, <1>2, <4>1
        <3>. QED BY <3>1, <3>2
    <2>3. ASSUME streak + 1 < n + 1 PROVE more[n - streak].payout = 0
        <3>1. streak < n /\ n - streak \in 1..n
            BY <1>1, <1>2, <2>3
        <3>. QED BY <1>1, <1>2, <3>1
    <2>4. StreakTells(streak + 1, more)
        BY <1>1, <2>1, <2>2, <2>3 DEF StreakTells, Winning
    <2>. QED BY <1>3, <2>4
<1>4. CASE ~(o.payout > 0)
    <2>1. o.payout = 0
        BY <1>1, <1>4
    <2>2. 0 \in 0..(n + 1) /\ (n + 1) - 0 = n + 1 /\ (n + 1) - 0 + 1 = n + 2
        BY <1>1
    <2>3. \A k \in (n + 2)..(n + 1) : FALSE
        BY <1>1
    <2>4. StreakTells(0, more)
        BY <1>1, <2>1, <2>2, <2>3 DEF StreakTells, Winning
    <2>. QED BY <1>4, <2>4
<1>. QED BY <1>3, <1>4

LEMMA LongestGoesOn ==
    ASSUME NEW out, NEW o, NEW more, OneMore(out, o, more),
           NEW streak, StreakTells(streak, out), NEW longest, LongestTells(longest, out)
    PROVE  LongestTells(Larger(longest, IF o.payout > 0 THEN streak + 1 ELSE 0), more)
<1>. DEFINE n == Len(out)
            now == IF o.payout > 0 THEN streak + 1 ELSE 0
            new == Larger(longest, now)
<1>1. /\ n \in Nat /\ Len(more) = n + 1 /\ more[n + 1] = o /\ o.payout \in Nat
      /\ \A i \in 1..n : more[i] = out[i] /\ out[i].payout \in Nat
    BY OneMoreFacts
<1>2. /\ streak \in 0..n /\ (streak < n => out[n - streak].payout = 0)
    BY DEF StreakTells
<1>3. /\ longest \in Nat
      /\ \A i, j \in 1..n : i <= j /\ Winning(out, i, j) => j - i + 1 <= longest
      /\ longest > 0 => \E i \in 1..n : /\ i + longest - 1 \in 1..n
                                        /\ Winning(out, i, i + longest - 1)
    BY DEF LongestTells
<1>4. StreakTells(now, more)
    BY StreakGoesOn
<1>5. now \in 0..(n + 1) /\ Winning(more, (n + 1) - now + 1, n + 1)
    <2>. HIDE DEF now, n
    <2>. QED BY <1>1, <1>4 DEF StreakTells
<1>a. o.payout > 0 => now = streak + 1
    OBVIOUS
<1>. HIDE DEF now
<1>6. new \in Nat /\ new >= longest /\ new >= now /\ (new = longest \/ new = now)
    BY <1>1, <1>3, <1>5 DEF Larger
<1>. HIDE DEF new, n
<1>7. ASSUME NEW i \in 1..(n + 1), NEW j \in 1..(n + 1), i <= j, Winning(more, i, j)
      PROVE  j - i + 1 <= new
    <2>1. CASE j # n + 1
        <3>1. i \in 1..n /\ j \in 1..n /\ \A k \in i..j : k \in 1..n
            BY <1>1, <1>7, <2>1
        <3>2. Winning(out, i, j)
            BY <1>1, <1>7, <3>1 DEF Winning
        <3>3. j - i + 1 <= longest
            BY <1>3, <1>7, <3>1, <3>2
        <3>. QED BY <1>3, <1>6, <3>1, <3>3
    <2>2. CASE j = n + 1
        <3>1. o.payout > 0
            <4>1. j \in i..j
                BY <1>1, <1>7
            <4>. QED BY <1>1, <1>7, <2>2, <4>1 DEF Winning
        <3>2. ~(i <= n - streak)
            <4>. SUFFICES ASSUME i <= n - streak PROVE FALSE
                OBVIOUS
            <4>1. streak < n /\ n - streak \in 1..n /\ n - streak \in i..j
                BY <1>1, <1>2, <2>2
            <4>2. more[n - streak].payout > 0
                BY <1>7, <4>1 DEF Winning
            <4>. QED BY <1>1, <1>2, <4>1, <4>2
        <3>3. j - i + 1 <= streak + 1
            BY <1>1, <1>2, <2>2, <3>2
        <3>. QED BY <1>1, <1>2, <1>6, <1>a, <2>2, <3>1, <3>3
    <2>. QED BY <2>1, <2>2
<1>8. ASSUME new > 0
      PROVE  \E i \in 1..(n + 1) : /\ i + new - 1 \in 1..(n + 1)
                                   /\ Winning(more, i, i + new - 1)
    <2>1. CASE new = longest
        <3>1. PICK i \in 1..n : i + longest - 1 \in 1..n /\ Winning(out, i, i + longest - 1)
            BY <1>3, <1>8, <2>1
        <3>2. i \in 1..(n + 1) /\ i + longest - 1 \in 1..(n + 1)
              /\ \A k \in i..(i + longest - 1) : k \in 1..n
            BY <1>1, <1>3, <3>1
        <3>3. Winning(more, i, i + longest - 1)
            BY <1>1, <3>1, <3>2 DEF Winning
        <3>. QED BY <2>1, <3>2, <3>3
    <2>2. CASE new = now
        <3>. DEFINE i == (n + 1) - now + 1
        <3>1. i \in 1..(n + 1) /\ i + now - 1 = n + 1 /\ n + 1 \in 1..(n + 1)
            BY <1>1, <1>5, <1>8, <2>2
        <3>2. Winning(more, i, i + now - 1)
            BY <1>5, <3>1
        <3>. HIDE DEF i
        <3>. QED BY <2>2, <3>1, <3>2
    <2>. QED BY <1>6, <2>1, <2>2
<1>9. LongestTells(new, more)
    BY <1>1, <1>6, <1>7, <1>8 DEF LongestTells
<1>. QED BY <1>9 DEF new, now

\* What there is to know of the rounds of a sitting: the phase and amounts of the
\* round on the page, and the rounds that have settled.
RoundTypes ==
    /\ play \in [phase: {"idle", "opening", "settled", "error"}, board: [Lanes -> Nat],
                 wager: Nat, payout: Nat]
    /\ play.phase \in {"opening", "settled"} => play.wager > 0
    /\ outcomes \in Seq(SettledRounds)
    /\ previousPhase = seen[1].phase

\* A settled round the recording effect has still to record.
ToRecord == previousPhase # "settled" /\ play.phase = "settled"

SettledNow == [wager |-> play.wager, payout |-> play.payout]

\* The statistics tell every settled round, but for one the effect has still to see.
Recording ==
    /\ ToRecord => \E out : OneMore(out, SettledNow, outcomes) /\ Tells(stats, out)
    /\ ~ToRecord => Tells(stats, outcomes)

StatsInv == PageInv /\ RoundTypes /\ Recording

RoundStays == UNCHANGED <<play, seen, previousPhase, stats, outcomes>>

\* The round on the page moves otherwise than by settling, after the effect has run.
RoundMoves ==
    /\ EffectRan /\ UNCHANGED <<seen, previousPhase, stats, outcomes>>
    /\ play' \in [phase: {"idle", "opening", "error"}, board: [Lanes -> Nat],
                  wager: Nat, payout: Nat]
    /\ play'.phase = "opening" => play'.wager > 0

LEMMA NothingToRecord ==
    ASSUME RoundTypes, EffectRan
    PROVE  ~ToRecord /\ previousPhase = play.phase
BY DEF RoundTypes, EffectRan, Dependencies, ToRecord

\* Recording takes the statistics from the rounds before to the round just settled.
LEMMA RecordedTells ==
    ASSUME NEW out, NEW o, NEW more, OneMore(out, o, more), Tells(stats, out)
    PROVE  Tells(Recorded(o.wager, o.payout), more)
<1>. DEFINE entry == [id |-> stats.rounds + 1, wager |-> o.wager, payout |-> o.payout,
                      multiplier |-> o.payout \div o.wager]
            now == Recorded(o.wager, o.payout)
<1>1. /\ stats.rounds = Len(out)
      /\ HistoryTells(stats.history, out) /\ BestTells(stats.best, out)
      /\ StreakTells(stats.streak, out) /\ LongestTells(stats.longestStreak, out)
    BY DEF Tells
<1>2. /\ Len(out) \in Nat /\ Len(more) = Len(out) + 1
      /\ o.payout \in Nat /\ o.wager \in Nat \ {0}
    BY OneMoreFacts
<1>3. entry \in Entries /\ entry.id = Len(out) + 1 /\ entry.wager = o.wager
      /\ entry.payout = o.payout
    <2>1. o.payout \div o.wager \in Nat
        <3>. DEFINE p == o.payout
                    w == o.wager
        <3>1. p \in Nat /\ w \in Nat \ {0}
            BY <1>2
        <3>. HIDE DEF p, w
        <3>2. p \div w \in Nat
            BY <3>1, SMT
        <3>. QED BY <3>2 DEF p, w
    <2>. QED BY <1>1, <1>2, <2>1 DEF Entries
<1>4. /\ now.rounds = stats.rounds + 1
      /\ now.history = LastOf(Append(stats.history, entry))
      /\ now.best = Larger(stats.best, o.payout)
      /\ now.streak = IF o.payout > 0 THEN stats.streak + 1 ELSE 0
      /\ now.longestStreak
           = Larger(stats.longestStreak, IF o.payout > 0 THEN stats.streak + 1 ELSE 0)
    BY DEF Recorded
<1>. HIDE DEF entry, now
<1>5. HistoryTells(now.history, more)
    BY <1>1, <1>3, <1>4, HistoryGoesOn
<1>6. BestTells(now.best, more)
    BY <1>1, <1>4, BestGoesOn
<1>7. StreakTells(now.streak, more)
    BY <1>1, <1>4, StreakGoesOn
<1>8. LongestTells(now.longestStreak, more)
    BY <1>1, <1>4, LongestGoesOn
<1>9. Tells(now, more)
    BY <1>1, <1>2, <1>4, <1>5, <1>6, <1>7, <1>8 DEF Tells
<1>. QED BY <1>9 DEF now

LEMMA StatsInitially == PageInit => StatsInv
<1>. SUFFICES ASSUME PageInit PROVE StatsInv
    OBVIOUS
<1>1. PageInv
    BY PageInitially
<1>2. /\ play = NoPlay /\ seen = Dependencies(NoPlay, NoStats) /\ previousPhase = "idle"
      /\ stats = NoStats /\ outcomes = <<>>
    BY DEF PageInit
<1>3. RoundTypes
    <2>1. outcomes \in Seq(SettledRounds)
        BY <1>2, EmptySeq
    <2>2. EmptyBoard \in [Lanes -> Nat]
        BY DEF EmptyBoard
    <2>. QED BY <1>2, <2>1, <2>2 DEF RoundTypes, NoPlay, Dependencies
<1>4. Len(outcomes) = 0 /\ stats.history \in Seq(Entries) /\ Len(stats.history) = 0
    BY <1>2, EmptySeq DEF NoStats
<1>5. HISTORY_LIMIT \in Nat
    BY PageAssumption
<1>6. HistoryTells(stats.history, outcomes)
    BY <1>4, <1>5 DEF HistoryTells, After
<1>7. BestTells(stats.best, outcomes)
    BY <1>2, <1>4 DEF BestTells, NoStats
<1>8. StreakTells(stats.streak, outcomes)
    BY <1>2, <1>4 DEF StreakTells, Winning, NoStats
<1>9. LongestTells(stats.longestStreak, outcomes)
    BY <1>2, <1>4 DEF LongestTells, NoStats
<1>10. stats.rounds = Len(outcomes)
    BY <1>2, <1>4 DEF NoStats
<1>11. Tells(stats, outcomes)
    BY <1>6, <1>7, <1>8, <1>9, <1>10 DEF Tells
<1>12. ~ToRecord
    BY <1>2 DEF ToRecord, NoPlay
<1>. QED BY <1>1, <1>3, <1>11, <1>12 DEF StatsInv, Recording

LEMMA StatsStep == StatsInv /\ [PageNext]_pageVars => StatsInv'
<1>. SUFFICES ASSUME StatsInv, [PageNext]_pageVars PROVE StatsInv'
    OBVIOUS
<1>1. PageInv /\ RoundTypes /\ Recording
    BY DEF StatsInv
<1>2. PageInv'
    BY <1>1, PageStep
\* A step that leaves the rounds and the effect alone.
<1>3. ASSUME RoundStays PROVE RoundTypes' /\ Recording'
    BY <1>1, <1>3 DEF RoundStays, RoundTypes, Recording, ToRecord, SettledNow
\* A step of the round, when the effect has run: nothing is waiting to be recorded.
<1>4. ASSUME RoundMoves PROVE RoundTypes' /\ Recording'
    <2>0. /\ EffectRan /\ UNCHANGED <<seen, previousPhase, stats, outcomes>>
          /\ play' \in [phase: {"idle", "opening", "error"}, board: [Lanes -> Nat],
                        wager: Nat, payout: Nat]
          /\ play'.phase = "opening" => play'.wager > 0
        BY <1>4 DEF RoundMoves
    <2>1. ~ToRecord /\ Tells(stats, outcomes)
        BY <1>1, <2>0, NothingToRecord DEF Recording
    <2>2. ~ToRecord'
        BY <2>0 DEF ToRecord
    <2>3. Recording'
        BY <2>0, <2>1, <2>2 DEF Recording
    <2>4. /\ play' \in [phase: {"idle", "opening", "settled", "error"},
                        board: [Lanes -> Nat], wager: Nat, payout: Nat]
          /\ play'.phase # "settled"
        BY <2>0
    <2>5. RoundTypes'
        BY <1>1, <2>0, <2>4 DEF RoundTypes
    <2>. QED BY <2>3, <2>5
<1>5. ASSUME RecordEffect PROVE RoundTypes' /\ Recording'
    <2>1. /\ UNCHANGED <<play, outcomes>> /\ previousPhase' = play.phase
          /\ seen' = <<play, stats.streak>>
        BY <1>5 DEF RecordEffect, Dependencies
    <2>2. RoundTypes'
        BY <1>1, <2>1 DEF RoundTypes
    <2>3. ~ToRecord'
        BY <2>1 DEF ToRecord
    <2>4. CASE ToRecord
        <3>1. stats' = Recorded(play.wager, play.payout)
            BY <1>5, <2>4 DEF RecordEffect, ToRecord
        <3>2. PICK out : OneMore(out, SettledNow, outcomes) /\ Tells(stats, out)
            BY <1>1, <2>4 DEF Recording
        <3>3. SettledNow.wager = play.wager /\ SettledNow.payout = play.payout
            BY DEF SettledNow
        <3>4. Tells(Recorded(play.wager, play.payout), outcomes)
            BY <3>2, <3>3, RecordedTells
        <3>. QED BY <2>1, <2>2, <2>3, <3>1, <3>4 DEF Recording
    <2>5. CASE ~ToRecord
        <3>1. stats' = stats
            BY <1>5, <2>5 DEF RecordEffect, ToRecord
        <3>. QED BY <1>1, <2>1, <2>2, <2>3, <2>5, <3>1 DEF Recording
    <2>. QED BY <2>4, <2>5
<1>6. ASSUME Edit PROVE RoundTypes' /\ Recording'
    <2>1. RoundStays
        BY <1>6 DEF Edit, RoundStays
    <2>. QED BY <1>3, <2>1
<1>7. ASSUME NEW c \in sitting.casinos, NEW shown \in sitting.balances, Publish(c, shown)
      PROVE  RoundTypes' /\ Recording'
    <2>1. RoundStays
        BY <1>7 DEF Publish, RoundStays
    <2>. QED BY <1>3, <2>1
<1>8. ASSUME Drop PROVE RoundTypes' /\ Recording'
    <2>1. /\ EffectRan /\ UNCHANGED <<seen, previousPhase, stats, outcomes>> /\ stake > 0
          /\ play' = [phase |-> "opening", board |-> board, wager |-> stake, payout |-> 0]
        BY <1>8 DEF Drop, CanDrop
    <2>2. board \in [Lanes -> Nat] /\ stake \in Nat
        BY <1>1 DEF PageInv
    <2>3. RoundMoves
        BY <2>1, <2>2 DEF RoundMoves
    <2>. QED BY <1>4, <2>3
<1>9. ASSUME NEW T \in SUBSET UsedLanes(play.board), Settle(T) PROVE RoundTypes' /\ Recording'
    <2>. DEFINE payout == play.wager * PrizeSum(T)
                o == [wager |-> play.wager, payout |-> payout]
    <2>1. /\ EffectRan /\ play.phase = "opening"
          /\ play' = [play EXCEPT !.phase = "settled", !.payout = payout]
          /\ outcomes' = Append(outcomes, o)
          /\ UNCHANGED <<seen, previousPhase, stats>>
        BY <1>9 DEF Settle
    <2>2. play \in [phase: {"idle", "opening", "settled", "error"}, board: [Lanes -> Nat],
                    wager: Nat, payout: Nat]
          /\ play.wager \in Nat /\ play.wager > 0 /\ outcomes \in Seq(SettledRounds)
        BY <1>1, <2>1 DEF RoundTypes
    <2>3. payout \in Nat
        <3>1. T \in SUBSET Lanes
            BY DEF UsedLanes
        <3>2. PrizeSum(T) \in Nat
            BY <3>1, PrizeSumNat
        <3>. QED BY <2>2, <3>2, SMT
    <2>. HIDE DEF payout
    <2>4. o \in SettledRounds
        BY <2>2, <2>3 DEF SettledRounds
    <2>5. OneMore(outcomes, o, outcomes')
        BY <2>1, <2>2, <2>4, AppendIsOneMore
    <2>6. outcomes' \in Seq(SettledRounds)
        BY <2>1, <2>2, <2>4, AppendProperties
    <2>7. /\ play' \in [phase: {"idle", "opening", "settled", "error"},
                        board: [Lanes -> Nat], wager: Nat, payout: Nat]
          /\ play'.phase = "settled" /\ play'.wager = play.wager /\ play'.payout = payout
        BY <2>1, <2>2, <2>3
    <2>8. SettledNow' = o
        BY <2>7 DEF SettledNow
    <2>9. previousPhase' # "settled" /\ Tells(stats, outcomes)
        BY <1>1, <2>1, NothingToRecord DEF Recording
    <2>10. ToRecord'
        BY <2>7, <2>9 DEF ToRecord
    <2>11. Tells(stats', outcomes)
        BY <2>1, <2>9
    <2>12. Recording'
        BY <2>5, <2>8, <2>10, <2>11 DEF Recording
    <2>13. RoundTypes'
        BY <1>1, <2>1, <2>2, <2>6, <2>7 DEF RoundTypes
    <2>. QED BY <2>12, <2>13
<1>10. ASSUME RoundFails PROVE RoundTypes' /\ Recording'
    <2>1. /\ EffectRan /\ UNCHANGED <<seen, previousPhase, stats, outcomes>>
          /\ play' = [play EXCEPT !.phase = "error"]
        BY <1>10 DEF RoundFails
    <2>2. play' \in [phase: {"idle", "opening", "error"}, board: [Lanes -> Nat],
                     wager: Nat, payout: Nat]
          /\ play'.phase # "opening"
        BY <1>1, <2>1 DEF RoundTypes
    <2>3. RoundMoves
        BY <2>1, <2>2 DEF RoundMoves
    <2>. QED BY <1>4, <2>3
<1>11. ASSUME StartNextRound PROVE RoundTypes' /\ Recording'
    <2>1. EffectRan /\ UNCHANGED <<seen, previousPhase, stats, outcomes>> /\ play' = NoPlay
        BY <1>11 DEF StartNextRound
    <2>2. NoPlay \in [phase: {"idle", "opening", "error"}, board: [Lanes -> Nat],
                      wager: Nat, payout: Nat]
          /\ NoPlay.phase # "opening"
        BY DEF NoPlay, EmptyBoard
    <2>3. RoundMoves
        BY <2>1, <2>2 DEF RoundMoves
    <2>. QED BY <1>4, <2>3
<1>12. ASSUME UNCHANGED pageVars PROVE RoundTypes' /\ Recording'
    <2>1. RoundStays
        BY <1>12 DEF pageVars, RoundStays
    <2>. QED BY <1>3, <2>1
<1>13. RoundTypes' /\ Recording'
    <2>. HIDE DEF RoundTypes
    <2>. QED BY <1>5, <1>6, <1>7, <1>8, <1>9, <1>10, <1>11, <1>12 DEF PageNext
<1>. QED BY <1>2, <1>13 DEF StatsInv

\* What the page shows of the sitting is what happened in it: every settled round
\* is counted once, the history strip, the best payout and the streaks are those of
\* the rounds that settled, however often the recording effect runs.
THEOREM StatsSafety == PageSpec => []StatsTellTheRounds
<1>1. StatsInv => StatsTellTheRounds
    <2>. SUFFICES ASSUME StatsInv PROVE StatsTellTheRounds
        OBVIOUS
    <2>. DEFINE n == Len(outcomes)
    <2>1. n \in Nat /\ RoundTypes /\ Recording
        BY LenProperties DEF StatsInv, RoundTypes
    <2>2. stats.rounds <= n
        <3>1. CASE ToRecord
            <4>1. PICK out : OneMore(out, SettledNow, outcomes) /\ Tells(stats, out)
                BY <2>1, <3>1 DEF Recording
            <4>2. Len(out) \in Nat /\ n = Len(out) + 1
                BY <4>1, OneMoreFacts
            <4>. QED BY <4>1, <4>2 DEF Tells
        <3>2. CASE ~ToRecord
            BY <2>1, <3>2 DEF Recording, Tells
        <3>. QED BY <3>1, <3>2
    <2>. DEFINE kept == Len(stats.history)
    <2>3. ASSUME EffectRan PROVE Tells(stats, outcomes)
        BY <2>1, <2>3, NothingToRecord DEF Recording
    <2>4. ASSUME EffectRan
          PROVE  /\ stats.rounds = n
                 /\ n > 0 => /\ stats.history[kept].id = n
                             /\ \A i \in 1..kept :
                                  /\ stats.history[i].wager = outcomes[n - kept + i].wager
                                  /\ stats.history[i].payout = outcomes[n - kept + i].payout
        <3>1. /\ stats.rounds = n /\ stats.history \in Seq(Entries)
              /\ kept = IF n <= HISTORY_LIMIT THEN n ELSE HISTORY_LIMIT
              /\ After(n - kept, stats.history, outcomes)
            BY <2>3, <2>4 DEF Tells, HistoryTells
        <3>2. HISTORY_LIMIT \in Nat /\ HISTORY_LIMIT > 0
            BY PageAssumption
        <3>3. \A i \in 1..kept :
                /\ stats.history[i].id = n - kept + i
                /\ stats.history[i].wager = outcomes[n - kept + i].wager
                /\ stats.history[i].payout = outcomes[n - kept + i].payout
            BY <3>1 DEF After
        <3>. HIDE DEF n, kept
        <3>4. ASSUME n > 0 PROVE stats.history[kept].id = n
            <4>1. kept \in 1..kept /\ n - kept + kept = n
                BY <2>1, <3>1, <3>2, <3>4
            <4>. QED BY <3>3, <4>1
        <3>. QED BY <3>1, <3>3, <3>4
    <2>5. ASSUME EffectRan
          PROVE  /\ n > 0 => \E i \in 1..n : stats.best = outcomes[i].payout
                 /\ \A i \in 1..n : outcomes[i].payout <= stats.best
        BY <2>3, <2>5 DEF Tells, BestTells
    <2>6. ASSUME EffectRan
          PROVE  /\ stats.streak \in 0..n
                 /\ \A k \in (n - stats.streak + 1)..n : outcomes[k].payout > 0
                 /\ stats.streak < n => outcomes[n - stats.streak].payout = 0
        BY <2>3, <2>6 DEF Tells, StreakTells, Winning
    <2>7. ASSUME EffectRan
          PROVE  /\ \A i, j \in 1..n : i <= j /\ (\A k \in i..j : outcomes[k].payout > 0)
                       => j - i + 1 <= stats.longestStreak
                 /\ stats.longestStreak > 0 =>
                      \E i \in 1..n :
                         /\ i + stats.longestStreak - 1 \in 1..n
                         /\ \A k \in i..(i + stats.longestStreak - 1) : outcomes[k].payout > 0
        BY <2>3, <2>7 DEF Tells, LongestTells, Winning
    <2>. QED BY <2>2, <2>4, <2>5, <2>6, <2>7 DEF StatsTellTheRounds
<1>. QED BY <1>1, StatsInitially, StatsStep, PTL DEF PageSpec

-----------------------------------------------------------------------------
(***************************************************************************)
(* The deployment script.                                                  *)
(***************************************************************************)

\* What is sent on a network was asked for by the run it is named after.
AskedFor(tx, network) ==
    /\ tx \in 1..runs /\ network \in Networks
    /\ asked[tx].network = network /\ asked[tx].confirm = network
    /\ asked[tx].balance >= asked[tx].cost

Runs == [at: {"idle", "balance", "estimate", "send", "receipt"}, network: Nat, confirm: Nat,
         balance: Nat, cost: Nat, tx: Nat]

\* The types, and what the run knows at each of its calls.
ScriptInv ==
    /\ runs \in 0..MaxRuns
    /\ script \in Runs
    /\ holdings \in [Networks -> Nat]
    /\ asked \in [1..MaxRuns -> Runs]
    /\ script.at # "idle" => script.network \in Networks /\ runs \in 1..MaxRuns
    /\ script.at = "send" => script.confirm = script.network /\ script.balance >= script.cost
    /\ script.at = "receipt" => script.tx \in 1..runs
                                /\ asked[script.tx].network = script.network

\* A run sends once: until then nothing has its name.
SendsInv ==
    /\ pending \subseteq [tx: Nat, network: Nat]
    /\ mined \subseteq [tx: Nat, network: Nat, success: BOOLEAN]
    /\ \A t \in pending \cup mined : AskedFor(t.tx, t.network)
    /\ script.at \in {"balance", "estimate", "send"} =>
         \A t \in pending \cup mined : t.tx # runs

RecordsInv ==
    /\ deployments \in [Networks -> Nat]
    /\ RecordsAreDeployed

DeployInv == ScriptInv /\ SendsInv /\ RecordsInv

LEMMA DeployInitially == DeployInit => DeployInv
<1>. SUFFICES ASSUME DeployInit PROVE DeployInv
    OBVIOUS
<1>1. Idle \in Runs /\ Idle.at = "idle"
    BY DEF Idle, Runs
<1>. QED BY <1>1, DeployAssumption
         DEF DeployInit, DeployInv, ScriptInv, SendsInv, RecordsInv, RecordsAreDeployed,
             Unrecorded

\* Nothing but sending and mining touches the transactions.
LEMMA ScriptMoves ==
    ASSUME DeployInv, UNCHANGED <<runs, pending, mined, asked, deployments>>,
           script'.at \in {"balance", "estimate", "send"} =>
             script.at \in {"balance", "estimate", "send"}
    PROVE  SendsInv' /\ RecordsInv'
<1>1. \A t \in pending \cup mined : AskedFor(t.tx, t.network)'
    BY DEF DeployInv, SendsInv, AskedFor
<1>2. SendsInv'
    BY <1>1 DEF DeployInv, SendsInv
<1>. QED BY <1>2 DEF DeployInv, RecordsInv, RecordsAreDeployed

LEMMA StartRunKeeps ==
    ASSUME DeployInv, NEW network \in Networks, NEW confirm \in Confirms,
           StartRun(network, confirm)
    PROVE  DeployInv'
<1>. DEFINE s == [Idle EXCEPT !.at = "balance", !.network = network, !.confirm = confirm]
<1>1. /\ runs < MaxRuns /\ runs' = runs + 1 /\ script' = s
      /\ UNCHANGED <<holdings, pending, mined, deployments, asked>>
    BY DEF StartRun
<1>2. runs \in 0..MaxRuns /\ MaxRuns \in Nat
    BY DeployAssumption DEF DeployInv, ScriptInv
<1>3. s \in Runs /\ s.at = "balance" /\ s.network = network
    BY DeployAssumption DEF Idle, Runs
<1>. HIDE DEF s
<1>4. ScriptInv'
    BY <1>1, <1>2, <1>3 DEF DeployInv, ScriptInv
<1>5. \A t \in pending \cup mined : AskedFor(t.tx, t.network)' /\ t.tx # runs'
    BY <1>1, <1>2 DEF DeployInv, SendsInv, AskedFor
<1>6. SendsInv'
    BY <1>1, <1>5 DEF DeployInv, SendsInv
<1>7. RecordsInv'
    BY <1>1 DEF DeployInv, RecordsInv, RecordsAreDeployed
<1>. QED BY <1>4, <1>6, <1>7 DEF DeployInv

LEMMA ReadBalanceKeeps ==
    ASSUME DeployInv, ReadBalance
    PROVE  DeployInv'
<1>1. /\ script.at = "balance"
      /\ script' = IF holdings[script.network] = 0 THEN Idle
                   ELSE [script EXCEPT !.at = "estimate", !.balance = holdings[script.network]]
      /\ UNCHANGED <<runs, holdings, pending, mined, deployments, asked>>
    BY DEF ReadBalance
<1>2. Idle \in Runs /\ Idle.at = "idle"
    BY DEF Idle, Runs
<1>3. script \in Runs /\ script.network \in Networks /\ holdings[script.network] \in Nat
    BY <1>1 DEF DeployInv, ScriptInv
<1>. DEFINE s == [script EXCEPT !.at = "estimate", !.balance = holdings[script.network]]
<1>4. s \in Runs /\ s.at = "estimate" /\ s.network = script.network
    BY <1>3 DEF Runs
<1>5. script' = Idle \/ script' = s
    BY <1>1
<1>. HIDE DEF s
<1>6. ScriptInv'
    BY <1>1, <1>2, <1>3, <1>4, <1>5 DEF DeployInv, ScriptInv
<1>. QED BY <1>1, <1>6, ScriptMoves DEF DeployInv

LEMMA EstimateKeeps ==
    ASSUME DeployInv, NEW cost \in Costs, Estimate(cost)
    PROVE  DeployInv'
<1>1. /\ script.at = "estimate"
      /\ script' = IF script.balance < cost \/ script.confirm # script.network THEN Idle
                   ELSE [script EXCEPT !.at = "send", !.cost = cost]
      /\ UNCHANGED <<runs, holdings, pending, mined, deployments, asked>>
    BY DEF Estimate
<1>2. Idle \in Runs /\ Idle.at = "idle" /\ cost \in Nat
    BY DeployAssumption DEF Idle, Runs
<1>3. script \in Runs /\ script.network \in Networks
    BY <1>1 DEF DeployInv, ScriptInv
<1>. DEFINE s == [script EXCEPT !.at = "send", !.cost = cost]
<1>4. /\ s \in Runs /\ s.at = "send" /\ s.network = script.network
      /\ s.confirm = script.confirm /\ s.balance = script.balance /\ s.cost = cost
    BY <1>2, <1>3 DEF Runs
<1>5. script' = Idle \/ (script' = s /\ script.confirm = script.network
                                    /\ ~(script.balance < cost))
    BY <1>1
<1>6. script.balance \in Nat
    BY <1>3 DEF Runs
<1>. HIDE DEF s
<1>7. ScriptInv'
    BY <1>1, <1>2, <1>3, <1>4, <1>5, <1>6 DEF DeployInv, ScriptInv
<1>. QED BY <1>1, <1>7, ScriptMoves DEF DeployInv

LEMMA SendKeeps ==
    ASSUME DeployInv, Send
    PROVE  DeployInv'
<1>. DEFINE s == [script EXCEPT !.at = "receipt", !.tx = runs]
<1>1. PICK t : t = [tx |-> runs, network |-> script.network]
    OBVIOUS
<1>2. /\ script.at = "send" /\ script' = s
      /\ pending' = pending \cup {t}
      /\ asked' = [asked EXCEPT ![runs] = script]
      /\ UNCHANGED <<runs, holdings, mined, deployments>>
    BY <1>1 DEF Send
<1>3. /\ script \in Runs /\ script.network \in Networks /\ runs \in 1..MaxRuns
      /\ script.confirm = script.network /\ script.balance >= script.cost
      /\ asked \in [1..MaxRuns -> Runs]
    BY <1>2 DEF DeployInv, ScriptInv
<1>4. runs \in Nat
    BY <1>3, DeployAssumption, SMT
<1>5. script.network \in Nat
    BY <1>3 DEF Runs
<1>6. s \in Runs /\ s.at = "receipt" /\ s.tx = runs /\ s.network = script.network
    BY <1>3, <1>4, <1>5 DEF Runs
<1>7. t \in [tx: Nat, network: Nat] /\ t.tx = runs /\ t.network = script.network
    BY <1>1, <1>4, <1>5
<1>. HIDE DEF s
<1>8. asked' \in [1..MaxRuns -> Runs] /\ asked'[runs] = script
    BY <1>2, <1>3
<1>9. ScriptInv'
    BY <1>2, <1>3, <1>6, <1>8, DeployAssumption DEF DeployInv, ScriptInv
<1>10. \A u \in pending \cup mined : AskedFor(u.tx, u.network)'
    <2>. SUFFICES ASSUME NEW u \in pending \cup mined PROVE AskedFor(u.tx, u.network)'
        OBVIOUS
    <2>1. AskedFor(u.tx, u.network) /\ u.tx # runs
        BY <1>2 DEF DeployInv, SendsInv
    <2>2. u.tx \in 1..MaxRuns
        BY <1>3, <2>1, DeployAssumption DEF AskedFor
    <2>3. asked'[u.tx] = asked[u.tx]
        BY <1>2, <1>3, <2>1, <2>2
    <2>. QED BY <1>2, <2>1, <2>3 DEF AskedFor
<1>11. AskedFor(t.tx, t.network)'
    <2>1. runs \in 1..runs
        BY <1>3, DeployAssumption
    <2>. QED BY <1>2, <1>3, <1>7, <1>8, <2>1 DEF AskedFor
<1>12. SendsInv'
    BY <1>2, <1>6, <1>7, <1>10, <1>11 DEF DeployInv, SendsInv
<1>13. RecordsInv'
    BY <1>2 DEF DeployInv, RecordsInv, RecordsAreDeployed
<1>. QED BY <1>9, <1>12, <1>13 DEF DeployInv

LEMMA RecordKeeps ==
    ASSUME DeployInv, Record
    PROVE  DeployInv'
<1>1. PICK m \in mined :
        /\ m.tx = script.tx
        /\ deployments' = IF m.success
                          THEN [deployments EXCEPT ![script.network] = script.tx]
                          ELSE deployments
    BY DEF Record
<1>2. /\ script.at = "receipt" /\ script' = Idle
      /\ UNCHANGED <<runs, holdings, pending, mined, asked>>
    BY DEF Record
<1>3. Idle \in Runs /\ Idle.at = "idle"
    BY DEF Idle, Runs
<1>4. ScriptInv'
    BY <1>2, <1>3 DEF DeployInv, ScriptInv
<1>5. \A t \in pending \cup mined : AskedFor(t.tx, t.network)'
    BY <1>2 DEF DeployInv, SendsInv, AskedFor
<1>6. SendsInv'
    BY <1>2, <1>3, <1>5 DEF DeployInv, SendsInv
<1>7. m \in [tx: Nat, network: Nat, success: BOOLEAN] /\ m.network = script.network
    BY <1>1, <1>2 DEF DeployInv, ScriptInv, SendsInv, AskedFor
<1>8. script.network \in Networks /\ script.tx \in Nat
    BY <1>2 DEF DeployInv, ScriptInv, Runs
<1>9. deployments \in [Networks -> Nat]
    BY DEF DeployInv, RecordsInv
<1>10. deployments' \in [Networks -> Nat]
    BY <1>1, <1>8, <1>9
<1>11. RecordsAreDeployed'
    <2>. SUFFICES ASSUME NEW n \in Networks, deployments'[n] # Unrecorded
                  PROVE  [tx |-> deployments'[n], network |-> n, success |-> TRUE] \in mined
        BY <1>2 DEF RecordsAreDeployed
    <2>1. CASE m.success /\ n = script.network
        <3>1. deployments'[n] = script.tx
            BY <1>1, <1>9, <2>1
        <3>2. m = [tx |-> script.tx, network |-> n, success |-> TRUE]
            BY <1>1, <1>7, <2>1
        <3>. QED BY <3>1, <3>2
    <2>2. CASE ~(m.success /\ n = script.network)
        <3>1. deployments'[n] = deployments[n]
            BY <1>1, <1>8, <1>9, <2>2
        <3>. QED BY <3>1 DEF DeployInv, RecordsInv, RecordsAreDeployed
    <2>. QED BY <2>1, <2>2
<1>. QED BY <1>4, <1>6, <1>10, <1>11 DEF DeployInv, RecordsInv

LEMMA MineKeeps ==
    ASSUME DeployInv, NEW t \in pending, NEW success \in BOOLEAN, MineDeployment(t, success)
    PROVE  DeployInv'
<1>. DEFINE m == [tx |-> t.tx, network |-> t.network, success |-> success]
<1>1. /\ pending' = pending \ {t} /\ mined' = mined \cup {m}
      /\ UNCHANGED <<script, runs, holdings, deployments, asked>>
    BY DEF MineDeployment
<1>2. t \in [tx: Nat, network: Nat]
    BY DEF DeployInv, SendsInv
<1>3. /\ m \in [tx: Nat, network: Nat, success: BOOLEAN]
      /\ m.tx = t.tx /\ m.network = t.network
    BY <1>2
<1>. HIDE DEF m
<1>4. ScriptInv'
    BY <1>1 DEF DeployInv, ScriptInv
<1>5. \A u \in pending' \cup mined' : AskedFor(u.tx, u.network)'
    BY <1>1, <1>3 DEF DeployInv, SendsInv, AskedFor
<1>6. SendsInv'
    BY <1>1, <1>3, <1>5 DEF DeployInv, SendsInv
<1>7. RecordsInv'
    BY <1>1 DEF DeployInv, RecordsInv, RecordsAreDeployed
<1>. QED BY <1>4, <1>6, <1>7 DEF DeployInv

LEMMA DeployStep == DeployInv /\ [DeployNext]_deployVars => DeployInv'
<1>. SUFFICES ASSUME DeployInv, [DeployNext]_deployVars PROVE DeployInv'
    OBVIOUS
<1>1. Idle \in Runs /\ Idle.at = "idle"
    BY DEF Idle, Runs
<1>2. ASSUME NEW network \in Networks, NEW confirm \in Confirms, StartRun(network, confirm)
      PROVE  DeployInv'
    BY <1>2, StartRunKeeps
<1>3. ASSUME NEW cost \in Costs, Estimate(cost) PROVE DeployInv'
    BY <1>3, EstimateKeeps
<1>4. CASE Ends
    <2>1. script' = Idle /\ UNCHANGED <<runs, holdings, pending, mined, deployments, asked>>
        BY <1>4 DEF Ends
    <2>2. ScriptInv'
        BY <1>1, <2>1 DEF DeployInv, ScriptInv
    <2>. QED BY <1>1, <2>1, <2>2, ScriptMoves DEF DeployInv
<1>5. ASSUME NEW t \in pending, NEW success \in BOOLEAN, MineDeployment(t, success)
      PROVE  DeployInv'
    BY <1>5, MineKeeps
<1>6. ASSUME NEW network \in Networks, NEW amount \in Funds, Fund(network, amount)
      PROVE  DeployInv'
    <2>1. /\ holdings' = [holdings EXCEPT ![network] = amount]
          /\ UNCHANGED <<script, runs, pending, mined, deployments, asked>>
        BY <1>6 DEF Fund
    <2>2. holdings' \in [Networks -> Nat]
        BY <2>1, DeployAssumption DEF DeployInv, ScriptInv
    <2>3. ScriptInv'
        BY <2>1, <2>2 DEF DeployInv, ScriptInv
    <2>. QED BY <2>1, <2>3, ScriptMoves DEF DeployInv
<1>7. CASE UNCHANGED deployVars
    <2>1. UNCHANGED <<script, runs, holdings, pending, mined, deployments, asked>>
        BY <1>7 DEF deployVars
    <2>2. ScriptInv'
        BY <2>1 DEF DeployInv, ScriptInv
    <2>. QED BY <2>1, <2>2, ScriptMoves DEF DeployInv
<1>. QED BY <1>2, <1>3, <1>4, <1>5, <1>6, <1>7, ReadBalanceKeeps, SendKeeps, RecordKeeps
         DEF DeployNext

\* Whatever the environment says on each run, and wherever a run is killed: what
\* is sent was confirmed for that very chain, and what is recorded is deployed.
THEOREM DeploymentSafety == DeploySpec => []DeploymentsAreInOrder
<1>1. DeployInv => DeploymentsAreInOrder
    <2>. SUFFICES ASSUME DeployInv PROVE DeploymentsAreInOrder
        OBVIOUS
    <2>1. NothingSentUnasked
        <3>. SUFFICES ASSUME NEW t \in pending \cup {[tx |-> m.tx, network |-> m.network]
                                                     : m \in mined}
                      PROVE  /\ asked[t.tx].confirm = t.network
                             /\ asked[t.tx].balance >= asked[t.tx].cost
            BY DEF NothingSentUnasked
        <3>1. CASE t \in pending
            BY <3>1 DEF DeployInv, SendsInv, AskedFor
        <3>2. CASE t \in {[tx |-> m.tx, network |-> m.network] : m \in mined}
            <4>1. PICK m \in mined : t = [tx |-> m.tx, network |-> m.network]
                BY <3>2
            <4>2. t.tx = m.tx /\ t.network = m.network
                BY <4>1
            <4>. QED BY <4>2 DEF DeployInv, SendsInv, AskedFor
        <3>. QED BY <3>1, <3>2
    <2>2. RecordsAreDeployed
        BY DEF DeployInv, RecordsInv
    <2>. QED BY <2>1, <2>2 DEF DeploymentsAreInOrder
<1>. QED BY <1>1, DeployInitially, DeployStep, PTL DEF DeploySpec
=============================================================================
