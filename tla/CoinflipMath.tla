---------------------------- MODULE CoinflipMath ----------------------------
(***************************************************************************)
(* The arithmetic of the coinflip example (lib/coinflip.ts): ways to win,  *)
(* payouts, and the faces of a result.  A bet has a side, a number of      *)
(* coins and the hits it needs.                                            *)
(***************************************************************************)
EXTENDS Integers, FiniteSets, FiniteSetsExt

BASIS_POINTS == 10000
RTP_BPS == 9800

nCk(n, k) ==
    LET least == IF k < n - k THEN k ELSE n - k
        result[i \in 0..least] ==
            IF i = 0 THEN 1 ELSE (result[i - 1] * (n - least + i)) \div i
    IN  IF k > n THEN 0 ELSE result[least]

winningWays(coinCount, minWins) ==
    MapThenSumSet(LAMBDA wins : nCk(coinCount, wins), minWins..coinCount)

maxPayout(wager, coinCount, minWins) ==
    (wager * RTP_BPS * 2^coinCount) \div (BASIS_POINTS * winningWays(coinCount, minWins))

maxReservedProfit(wager, coinCount, minWins) ==
    LET payout == maxPayout(wager, coinCount, minWins)
    IN  IF payout > wager THEN payout - wager ELSE 0

\* Coin i is heads iff bit i of the word is set.
Heads(coinCount, word) == {i \in 0..(coinCount - 1) : (word \div 2^i) % 2 = 1}

outcomeFromRandomness(bet, word) ==
    LET headsCount == Cardinality(Heads(bet.coinCount, word))
        hits == IF bet.pickHeads THEN headsCount ELSE bet.coinCount - headsCount
    IN  [pickedSideWins |-> hits, won |-> hits >= bet.minWins]

\* Faces for a row of which only the result is known.
outcomeFromResult(bet, won) ==
    [pickedSideWins |-> IF won THEN bet.minWins ELSE bet.minWins - 1, won |-> won]
=============================================================================
