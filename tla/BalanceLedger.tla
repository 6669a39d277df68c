--------------------------- MODULE BalanceLedger ---------------------------
(***************************************************************************)
(* The balance a player is shown (balance-hold.ts): the last value read    *)
(* from the chain and what the rounds since then took and gave.  The       *)
(* module's variables are the fields of one record, and its functions map  *)
(* a record to the next, since one turn of the event loop may call several *)
(* of them.                                                                *)
(***************************************************************************)
EXTENDS Integers

CONSTANT None

EmptyLedger == [baseline |-> None, adjustment |-> 0, activeRounds |-> {},
                epoch |-> 0, timer |-> FALSE]

\* Mutation: a bet does not void the reads in flight.
BetPlacedKeepsEpoch(l, roundKey, stake) ==
    [l EXCEPT !.timer = FALSE, !.activeRounds = @ \cup {roundKey},
              !.adjustment = @ - stake]

BetPlaced(l, roundKey, stake) ==
    [l EXCEPT !.epoch = @ + 1, !.timer = FALSE,
              !.activeRounds = @ \cup {roundKey}, !.adjustment = @ - stake]

RefundStake(l, stake) == [l EXCEPT !.adjustment = @ + stake]

\* roundRevealed for each of these keys, all in play, which pay so much together.
RoundsRevealed(l, roundKeys, payout) ==
    [l EXCEPT !.activeRounds = @ \ roundKeys, !.adjustment = @ + payout,
              !.timer = @ \/ (roundKeys # {} /\ l.activeRounds = roundKeys)]

RoundClosed(l, roundKey) == RoundsRevealed(l, {roundKey} \cap l.activeRounds, 0)

\* The read of an epoch may still become the baseline.
MayAdopt(l, epochAtStart) == l.epoch = epochAtStart /\ l.activeRounds = {}

Adopt(l, fresh) == [l EXCEPT !.baseline = fresh, !.adjustment = 0]

\* The first raw read seeds the baseline while nothing is being played.
MaySeed(l, raw) ==
    l.baseline = None /\ raw # None /\ l.activeRounds = {} /\ l.adjustment = 0

\* useLedgeredBalance
Shown(l, raw) ==
    LET anchor == IF l.baseline = None THEN raw ELSE l.baseline
    IN  IF anchor = None THEN None
        ELSE IF anchor + l.adjustment < 0 THEN 0 ELSE anchor + l.adjustment

\* Another account: everything is dropped, reads in flight are void.
ResetLedgerScope(l) == [EmptyLedger EXCEPT !.epoch = l.epoch + 1]
=============================================================================
