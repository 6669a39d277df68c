------------------------------ MODULE LedgePage ------------------------------
(***************************************************************************)
(* The LEDGE page (examples/ledge/src/App.tsx): the coins on the board,    *)
(* the stake, the limits and the balance the host shows meanwhile, when a  *)
(* drop is offered, and the statistics of the sitting (useSessionStats).   *)
(* The round itself is LedgeGuest; here it opens, settles or fails.  React *)
(* runs the pending effects before it handles the next event, so every     *)
(* other action waits for the recording effect.                            *)
(***************************************************************************)
EXTENDS BetLimits, LedgeGame, Sequences, FiniteSets

CONSTANTS HISTORY_LIMIT,    \* rounds kept for the history strip: 24
          Multipliers,      \* fractions other games ask a limit for
          Sittings          \* what may happen in a sitting, see Sitting

\* The `casino` blocks and balances the host may show, the stakes the player may
\* type, the lanes clicked and the presets picked; and the bounds: the largest
\* doubled stake, and the number of rounds, with which everything ends.
Sitting(casinos, balances, typed, lanes, presets, maxStake, rounds) ==
    [casinos |-> casinos, balances |-> balances, typed |-> typed, lanes |-> lanes,
     presets |-> presets, maxStake |-> maxStake, rounds |-> rounds]

BoardOf(c0, c1, c2, c3, c4) ==
    [l \in Lanes |-> CASE l = 0 -> c0 [] l = 1 -> c1 [] l = 2 -> c2
                       [] l = 3 -> c3 [] OTHER -> c4]

PRESETS == {BoardOf(1, 1, 1, 1, 1), BoardOf(5, 0, 0, 0, 0),
            BoardOf(2, 1, 1, 0, 1), BoardOf(0, 0, 0, 0, 5)}

IsCasino(c) ==
    \/ c = NoCasino
    \/ c \in [published: {TRUE}, maxBetAmount: Nat \cup {Unset},
              maxAllowedReservedProfit: Nat \cup {Unset}]

ASSUME PageAssumption ==
    /\ HISTORY_LIMIT \in Nat \ {0}
    /\ Multipliers \subseteq [num: Nat, den: Nat \ {0}]
    /\ \A s \in Sittings :
         /\ \A c \in s.casinos : IsCasino(c)
         /\ s.balances \subseteq Nat /\ s.typed \subseteq Nat
         /\ s.lanes \subseteq Lanes /\ s.presets \subseteq PRESETS
         /\ s.maxStake \in Nat /\ s.rounds \in Nat

VARIABLES
    sitting,                \* element of Sittings
    casino, balance,        \* the host's snapshot
    board, stake,           \* allocation and wager being prepared
    play,                   \* the round of useLedgeRound
    seen,                   \* dependencies the recording effect last ran for
    previousPhase,          \* ref of that effect
    stats,
    drops,                  \* history: bets dropped, with what the page showed
    outcomes                \* history: rounds that settled

pageVars == <<sitting, casino, balance, board, stake, play, seen, previousPhase, stats,
              drops, outcomes>>

-----------------------------------------------------------------------------
\* The bet

EmptyBoard == [l \in Lanes |-> 0]
CoinsPlaced == LaneTotal(board)

\* Every lane of the worst case pays before any coin is placed.
BoardMultiplier(b) ==
    [num |-> PrizeSum(IF UsedLanes(b) = {} THEN Lanes ELSE UsedLanes(b)), den |-> 1]

MaxWager == ComputeMaxWager(casino, BoardMultiplier(board))

CanBet == play.phase \in {"idle", "settled", "error"}

CanDrop ==
    /\ CanBet
    /\ CoinsPlaced = N_COINS
    /\ stake > 0 /\ stake <= balance
    /\ MaxWager.kind = "limit" => stake <= MaxWager.maxWager

\* What Max puts in.
Ceiling ==
    IF MaxWager.kind # "limit" THEN balance
    ELSE IF MaxWager.maxWager < balance THEN MaxWager.maxWager ELSE balance

-----------------------------------------------------------------------------
\* The statistics

NoStats == [rounds |-> 0, wagered |-> 0, returned |-> 0, best |-> 0,
            bestMultiplier |-> 0, streak |-> 0, longestStreak |-> 0, history |-> <<>>]

Larger(a, b) == IF a > b THEN a ELSE b

LastOf(s) == IF Len(s) <= HISTORY_LIMIT THEN s
             ELSE SubSeq(s, Len(s) - HISTORY_LIMIT + 1, Len(s))

Recorded(wager, payout) ==
    LET multiplier == payout \div wager
        streak == IF payout > 0 THEN stats.streak + 1 ELSE 0
    IN  [rounds |-> stats.rounds + 1,
         wagered |-> stats.wagered + wager,
         returned |-> stats.returned + payout,
         best |-> Larger(stats.best, payout),
         bestMultiplier |-> Larger(stats.bestMultiplier, multiplier),
         streak |-> streak,
         longestStreak |-> Larger(stats.longestStreak, streak),
         history |-> LastOf(Append(stats.history, [id |-> stats.rounds + 1,
                       wager |-> wager, payout |-> payout, multiplier |-> multiplier]))]

Dependencies(p, s) == <<p, s.streak>>

EffectRan == seen = Dependencies(play, stats)

\* Mutation: without the ref, every run for a settled round records it.
RecordEffectAlways ==
    /\ ~EffectRan
    /\ previousPhase' = play.phase
    /\ stats' = IF play.phase = "settled" THEN Recorded(play.wager, play.payout) ELSE stats
    /\ seen' = Dependencies(play, stats)
    /\ UNCHANGED <<sitting, casino, balance, board, stake, play, drops, outcomes>>

\* Record the round on the transition into `settled`; recording changes the
\* streak, so the effect may run once more for the same round.
RecordEffect ==
    /\ ~EffectRan
    /\ previousPhase' = play.phase
    /\ stats' = IF previousPhase # "settled" /\ play.phase = "settled"
                THEN Recorded(play.wager, play.payout) ELSE stats
    /\ seen' = Dependencies(play, stats)
    /\ UNCHANGED <<sitting, casino, balance, board, stake, play, drops, outcomes>>

-----------------------------------------------------------------------------
\* The player and the host

\* Bound: nothing is prepared after the last round of the sitting.
RoundsLeft == Cardinality(drops) < sitting.rounds

EditBoard ==
    \/ \E l \in sitting.lanes :                                       \* assign
         CanBet /\ CoinsPlaced < N_COINS /\ board' = [board EXCEPT ![l] = @ + 1]
    \/ \E l \in sitting.lanes :                                       \* unassign
         CanBet /\ board[l] > 0 /\ board' = [board EXCEPT ![l] = @ - 1]
    \/ CanBet /\ board' \in sitting.presets                               \* applyPreset
    \/ board' = EmptyBoard                                          \* clear

EditStake ==
    \/ stake' \in sitting.typed
    \/ 2 * stake <= sitting.maxStake /\ stake > 0 /\ stake' = 2 * stake
    \/ stake \div 2 > 0 /\ stake' = stake \div 2
    \/ MaxWager.kind = "limit" /\ Ceiling > 0 /\ stake' = Ceiling   \* applyMax

Edit ==
    /\ EffectRan /\ RoundsLeft
    /\ \/ EditBoard /\ UNCHANGED stake
       \/ EditStake /\ UNCHANGED board
    /\ UNCHANGED <<sitting, casino, balance, play, seen, previousPhase, stats, drops,
                   outcomes>>

Publish(c, shown) ==
    /\ EffectRan /\ RoundsLeft
    /\ casino' = c /\ balance' = shown
    /\ UNCHANGED <<sitting, board, stake, play, seen, previousPhase, stats, drops, outcomes>>

Drop ==
    /\ EffectRan
    /\ RoundsLeft
    /\ CanDrop
    /\ play' = [phase |-> "opening", board |-> board, wager |-> stake, payout |-> 0]
    /\ drops' = drops \cup {[id |-> Cardinality(drops), wager |-> stake, board |-> board,
                             casino |-> casino, balance |-> balance]}
    /\ UNCHANGED <<sitting, casino, balance, board, stake, seen, previousPhase, stats,
                   outcomes>>

Settle(T) ==
    LET payout == play.wager * PrizeSum(T)
    IN  /\ EffectRan
        /\ play.phase = "opening"
        /\ play' = [play EXCEPT !.phase = "settled", !.payout = payout]
        /\ outcomes' = Append(outcomes, [wager |-> play.wager, payout |-> payout])
        /\ UNCHANGED <<sitting, casino, balance, board, stake, seen, previousPhase,
                       stats, drops>>

RoundFails ==
    /\ EffectRan
    /\ play.phase = "opening"
    /\ play' = [play EXCEPT !.phase = "error"]
    /\ UNCHANGED <<sitting, casino, balance, board, stake, seen, previousPhase, stats,
                   drops, outcomes>>

NoPlay == [phase |-> "idle", board |-> EmptyBoard, wager |-> 0, payout |-> 0]

StartNextRound ==
    /\ EffectRan
    /\ play.phase \in {"settled", "error"}
    /\ play' = NoPlay /\ board' = EmptyBoard
    /\ UNCHANGED <<sitting, casino, balance, stake, seen, previousPhase, stats, drops,
                   outcomes>>

PageInit ==
    /\ sitting \in Sittings
    /\ casino = NoCasino /\ balance = 0
    /\ board = EmptyBoard /\ stake = 1
    /\ play = NoPlay
    /\ seen = Dependencies(NoPlay, NoStats) /\ previousPhase = "idle"
    /\ stats = NoStats
    /\ drops = {} /\ outcomes = <<>>

PageNext ==
    \/ RecordEffect
    \/ Edit
    \/ \E c \in sitting.casinos, shown \in sitting.balances : Publish(c, shown)
    \/ Drop
    \/ \E T \in SUBSET UsedLanes(play.board) : Settle(T)
    \/ RoundFails
    \/ StartNextRound

PageSpec == PageInit /\ [][PageNext]_pageVars

-----------------------------------------------------------------------------
\* Properties

\* A bet leaves the page only if the host that published these limits takes it:
\* five coins, a stake the player has, and a reserve (computed as the contract
\* computes it in quoteCaps) within the limits, whatever was edited or published
\* since the stake was chosen.
DropsWithinLimits ==
    \A d \in drops :
        /\ d.board \in Allocations
        /\ d.wager > 0 /\ d.wager <= d.balance
        /\ d.casino.maxAllowedReservedProfit # Unset =>
             QuoteCaps(d.wager, d.board).maxReservedProfit
               <= d.casino.maxAllowedReservedProfit
        /\ d.casino.maxBetAmount > 0 => d.wager <= d.casino.maxBetAmount

\* The limit of the SDK is safe for every game, also for multipliers between two
\* basis points: a wager up to it is never one the facet would still reject (the
\* comment in computeMaxWager), and without a limit none is rejected.
LimitIsSafe ==
    \A x \in Multipliers :
        LET max == ComputeMaxWager(casino, x)
        IN  /\ max.kind = "limit" => FacetAccepts(casino, x, max.maxWager)
            /\ max.kind = "no-limit" =>
                 \A w \in 1..(balance + 1) : FacetAccepts(casino, x, w)

\* Max is the largest stake: with the coins placed and a round possible, a
\* stake can be dropped (and would be taken) exactly up to it.
MaxIsLargest ==
    CanBet /\ CoinsPlaced = N_COINS =>
      \A w \in 1..(balance + 1) :
         w <= Ceiling <=> /\ w <= balance
                          /\ FacetAccepts(casino, BoardMultiplier(board), w)

\* The limit shown to the player is right: safe for every game, exact for LEDGE.
LimitIsRight == LimitIsSafe /\ MaxIsLargest

\* The statistics tell what happened: every settled round is counted once, with
\* its stake and payout, and the streaks are runs of winning rounds.
StatsTellTheRounds ==
    LET n == Len(outcomes)
        Won(i, j) == \A k \in i..j : outcomes[k].payout > 0
        kept == Len(stats.history)
    IN  /\ stats.rounds <= n
        /\ EffectRan =>
          /\ stats.rounds = n
          /\ n > 0 => /\ stats.history[kept].id = n
                      /\ \A i \in 1..kept :
                           /\ stats.history[i].wager = outcomes[n - kept + i].wager
                           /\ stats.history[i].payout = outcomes[n - kept + i].payout
          /\ n > 0 => \E i \in 1..n : stats.best = outcomes[i].payout
          /\ \A i \in 1..n : outcomes[i].payout <= stats.best
          /\ stats.streak \in 0..n /\ Won(n - stats.streak + 1, n)
          /\ stats.streak < n => outcomes[n - stats.streak].payout = 0
          /\ \A i, j \in 1..n : i <= j /\ Won(i, j) => j - i + 1 <= stats.longestStreak
          /\ stats.longestStreak > 0 =>
               \E i \in 1..n : i + stats.longestStreak - 1 \in 1..n
                               /\ Won(i, i + stats.longestStreak - 1)
=============================================================================
