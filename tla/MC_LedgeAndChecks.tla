------------------------- MODULE MC_LedgeAndChecks -------------------------
(***************************************************************************)
(* Small instances of what a LEDGE bet rests on.  A behaviour is one of a  *)
(* single part: rounds on the host, the sampler, the page, the deploy      *)
(* script, the verification of randomness, or the codec of session bytes.  *)
(* The other parts rest in a state in which none of their fair steps is    *)
(* possible.                                                               *)
(***************************************************************************)
EXTENDS LedgeRounds, LedgeSampler, LedgePage, DeployScript,
        RandomnessVerification, SessionCodec, TLC

VARIABLE part

-----------------------------------------------------------------------------
\* Rounds: all coins on the 1x (no reserve), all on the 50x (the highest single
\* prize) and two on one lane with the rest apart (partial wins).

MC_Boards == {BoardOf(5, 0, 0, 0, 0), BoardOf(0, 0, 0, 0, 5), BoardOf(2, 1, 1, 0, 1)}

MC_Caps == {QuoteCaps(wager, a) : wager \in Wagers, a \in Boards}

MC_StepResults ==
    {OnSessionStart(wager, a) : wager \in Wagers, a \in Boards}
    \cup {OnRandomness(wager, T) : wager \in Wagers, T \in SUBSET Lanes}

\* The sampler on all 126 allocations, with seeds of eight bytes (two draws and
\* two spare bytes, where a real seed has ten and two) and the three-byte values
\* around the boundaries: 0 topples every lane, 375000 + 71999 only the first,
\* DRAW_LIMIT - 1 none and DRAW_LIMIT is rejected.
MC_Values == {0, 375000 + 71999, DRAW_LIMIT - 1, DRAW_LIMIT}

-----------------------------------------------------------------------------
\* The page: one round with every kind of limit, or three rounds.

MC_Casinos == {NoCasino, CasinoOf(300), CasinoOf(5100), Casino(2, 300),
               Casino(0, Unset), Casino(Unset, 0), Casino(Unset, 13333)}

\* On and beside whole basis points.
MC_Multipliers == {[num |-> n, den |-> d] : n \in {1, 3, 7}, d \in {2, 3}}
                  \cup {[num |-> 20001, den |-> 20000]}

MC_Sittings ==
    {Sitting(MC_Casinos, {0, 3}, {0, 2}, {0, 4}, PRESETS, 4, 1),
     Sitting({CasinoOf(10000)}, {3}, {1, 2}, {},
             {BoardOf(5, 0, 0, 0, 0), BoardOf(0, 0, 0, 0, 5)}, 2, 3)}

-----------------------------------------------------------------------------
\* Verification: nodes with the secrets 2 and 5, and a third request whose id
\* hashes to no point.

MC_CurveDigest(key, alpha, n) ==
    IF alpha.request.sequence = 3 \/ (n = 0 /\ key = 5) THEN 0
    ELSE 1 + ((7 * key + 3 * alpha.request.sequence + n) % 12)
MC_ChallengeDigest(h, gamma, u, v) == (h + 3 * gamma + 4 * u + 6 * v) % 11
MC_NonceOf(x, h) == 1 + ((x + h) % 12)

\* The node with this key answers the request, or submits the sentinel.
AnswerOf(key, r) ==
    LET id == computeRequestId(r)
        proof == IF isFulfillable(key, id) THEN Prove(key, id) ELSE SENTINEL_PROOF
    IN  [request |-> r, proof |-> proof, signature |-> SignedBy(key, id, proof)]

First == AnswerOf(2, [sequence |-> 1, fulfiller |-> 2])
Second == AnswerOf(5, [sequence |-> 2, fulfiller |-> 5])
SecondByFirst == AnswerOf(2, [sequence |-> 2, fulfiller |-> 5])
Third == AnswerOf(5, [sequence |-> 3, fulfiller |-> 5])

LogOf(f) == [address |-> Router, requestId |-> computeRequestId(f.request),
             randomness |-> DeriveRandomness(f.proof), proof |-> f.proof,
             signature |-> f.signature]

\* A log of another contract in the same transaction.
ForeignLog(f) == [LogOf(f) EXCEPT !.address = "other", !.randomness = 0]

\* A log that differs from the honest one in one part.
Flawed(f, how) ==
    CASE how = "nothing" -> LogOf(f)
      [] how = "form" -> [LogOf(f) EXCEPT !.signature.form = "high s"]
      [] how = "word" -> [LogOf(f) EXCEPT !.randomness = (@ % 12) + 1]
      [] how = "proof" -> [LogOf(f) EXCEPT !.proof.s = (@ + 1) % Q]
      [] how = "scalar" -> [LogOf(f) EXCEPT !.proof.s = @ + Q, !.signature.proof.s = @ + Q]

Transaction(call, fs, logs) ==
    [call |-> call, fulfillments |-> [n \in DOMAIN fs |-> fs[n].request], logs |-> logs]

AskedFor(f, row, h, word, honest) ==
    [requestId |-> computeRequestId(f.request), fulfilled |-> row, hash |-> h,
     randomness |-> word, honest |-> honest]

Batches ==
    {[chain |-> <<Transaction("fulfillRandomnessBatch", <<First, Second>>,
                              <<ForeignLog(Second), LogOf(First), LogOf(Second)>>)>>,
      requests |-> <<AskedFor(First, TRUE, 1, First.proof.gamma, TRUE),
                     AskedFor(Second, row, h, word, TRUE)>>] :
        row \in BOOLEAN, h \in {Absent, 1}, word \in {Absent, Second.proof.gamma}}

\* Honest: the node's own untouched answer, called directly, used by the game.
Singles ==
    {[chain |-> <<Transaction(call, <<f>>, <<Flawed(f, how)>>),
                  Transaction("other", <<>>, <<>>)>>,
      requests |-> <<AskedFor(f, TRUE, h, word,
                       /\ f \in {First, Second} /\ how = "nothing" /\ call # "other"
                       /\ word \in {Absent, f.proof.gamma})>>] :
        call \in {"fulfillRandomness", "other"},
        f \in {First, Second, SecondByFirst, Third},
        how \in {"nothing", "form", "word", "proof", "scalar"},
        h \in {Absent, 1, 2}, word \in {Absent, Second.proof.gamma}}

MC_Scenarios == Batches \cup Singles

-----------------------------------------------------------------------------
\* The codec: every field at and beyond its bounds, every length of the data.

MC_WIDTH == [type \in {"uint8", "uint16", "uint32", "uint40", "uint64", "uint128",
                       "uint256", "address"} |->
               CASE type \in {"uint64", "uint128", "address"} -> 2
                 [] type = "uint256" -> 3
                 [] OTHER -> 1]

Plain == [sessionId |-> 0, player |-> <<1, 2>>, vault |-> <<3, 4>>, game |-> <<5, 6>>,
          token |-> <<7, 0>>, wagerBase |-> 1, escrowedStake |-> 2, reservedProfit |-> 3,
          maxEscrowStake |-> 4, maxReservedProfit |-> 5, deadlineBlock |-> 6, step |-> 1,
          phase |-> 2, riskMaxPayout |-> 7, riskProbabilityWad |-> 8,
          riskSubVarianceScaled |-> 9, riskHeavyTail |-> FALSE,
          riskHighMultiplierFloor |-> FALSE, gameData |-> <<>>, gameState |-> <<>>]

Integers13 == {FIELDS[n][1] : n \in {k \in 1..(Len(FIELDS) - 1) : FIELDS[k][2] # "address"}}

Edges(width) == {-1, 0, BYTE^width - 1, BYTE^width}

SomeBytes(length) == [n \in 1..length |-> (3 * n) % BYTE]

MC_Sessions ==
    UNION {{[Plain EXCEPT ![name] = value] : value \in Edges(FieldWidth(FieldIndex(name)))} :
             name \in Integers13}
    \cup {[Plain EXCEPT !.player = SomeBytes(length)] : length \in 1..3}
    \cup {[Plain EXCEPT !.riskHeavyTail = tail, !.riskHighMultiplierFloor = floor,
                        !.gameData = SomeBytes(data), !.gameState = SomeBytes(state)] :
            tail, floor \in BOOLEAN,
            data \in {0, 1, BYTE - 1, BYTE}, state \in {0, 1, BYTE - 1, BYTE}}

-----------------------------------------------------------------------------
AllVars == <<part, roundVars, samplerVars, pageVars, deployVars, verifyVars, codecVars>>

\* The chain is over.
RoundsRest ==
    /\ blockNumber = MaxBlock
    /\ balanceOf = [a \in Accounts |-> 0] /\ allowance = [p \in Players |-> 0]
    /\ totalSupply = 0 /\ registered = {}
    /\ currentSessionId = 0 /\ sessionCommitments = [s \in Ids |-> None]
    /\ terms = [s \in Ids |-> None] /\ advanced = {}
    /\ settled = [s \in Ids |-> None] /\ gain = [s \in Ids |-> 0]
    /\ donated = [a \in {Host, Vault} |-> 0]
    /\ round = [s \in Ids |-> None]

SamplerRest ==
    /\ allocation = BoardOf(5, 0, 0, 0, 0) /\ lane = LANE_COUNT /\ seed = 0 /\ index = 0
    /\ toppled = {} /\ multiplier = 0
    /\ draws = {[lane |-> 0, seed |-> 0, at |-> 0, draw |-> PROB_DENOM - 1]}

PageRest == PageInit /\ sitting = CHOOSE s \in Sittings : s.rounds = 1

VerifyRest ==
    /\ requests = <<>> /\ transactions = <<>> /\ routerRead = "failed"
    /\ stage = <<>> /\ hash = <<>> /\ receipt = <<>> /\ input = <<>>
    /\ verdict = <<>> /\ fault = <<>>

CodecRest == session = Plain /\ wire = <<>> /\ carried = "no"

\* Each part starts in its own initial states, the others rest.
AllInit ==
    \/ /\ part = "rounds" /\ RoundsInit /\ SamplerRest /\ PageRest /\ DeployInit
       /\ VerifyRest /\ CodecRest
    \/ /\ part = "sampler" /\ RoundsRest /\ SamplerInit /\ PageRest /\ DeployInit
       /\ VerifyRest /\ CodecRest
    \/ /\ part = "page" /\ RoundsRest /\ SamplerRest /\ PageInit /\ DeployInit
       /\ VerifyRest /\ CodecRest
    \/ /\ part = "deploy" /\ RoundsRest /\ SamplerRest /\ PageRest /\ DeployInit
       /\ VerifyRest /\ CodecRest
    \/ /\ part = "verify" /\ RoundsRest /\ SamplerRest /\ PageRest /\ DeployInit
       /\ VerifyInit /\ CodecRest
    \/ /\ part = "codec" /\ RoundsRest /\ SamplerRest /\ PageRest /\ DeployInit
       /\ VerifyRest /\ CodecInit

AllNext ==
    /\ UNCHANGED part
    /\ \/ /\ part = "rounds" /\ RoundsNext
          /\ UNCHANGED <<samplerVars, pageVars, deployVars, verifyVars, codecVars>>
       \/ /\ part = "sampler" /\ SamplerNext
          /\ UNCHANGED <<roundVars, pageVars, deployVars, verifyVars, codecVars>>
       \/ /\ part = "page" /\ PageNext
          /\ UNCHANGED <<roundVars, samplerVars, deployVars, verifyVars, codecVars>>
       \/ /\ part = "deploy" /\ DeployNext
          /\ UNCHANGED <<roundVars, samplerVars, pageVars, verifyVars, codecVars>>
       \/ /\ part = "verify" /\ VerifyNext
          /\ UNCHANGED <<roundVars, samplerVars, pageVars, deployVars, codecVars>>
       \/ /\ part = "codec" /\ CodecNext
          /\ UNCHANGED <<roundVars, samplerVars, pageVars, deployVars, verifyVars>>

AllSpec == AllInit /\ [][AllNext]_AllVars /\ Fairness
=============================================================================
