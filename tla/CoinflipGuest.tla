--------------------------- MODULE CoinflipGuest ---------------------------
(***************************************************************************)
(* The coinflip example's page (App.tsx): a bet, its result read from      *)
(* whatever the host's row carries by then, the landing animation, the     *)
(* reveal, and the strip of past rounds beside it.                         *)
(*                                                                         *)
(* A row may lag behind the chain part by part: its phase may turn         *)
(* terminal before the payout, the randomness or the last game state are   *)
(* there.  A bet is named by its number, and so is its session.            *)
(***************************************************************************)
EXTENDS CoinflipMath

CONSTANTS
    Nil,
    Rounds,         \* bets a player may place: bound
    Words,          \* the random words of a round
    Wager,
    Offers        \* what may be bet on, how often, whether rows lag part by part

\* A win pays something.
ASSUME CoinflipGuestAssumption ==
    \A o \in Offers : \A form \in o.forms :
       maxPayout(Wager, form.coinCount, form.minWins) \in Nat \ {0}

VARIABLES
    offer,
    connected,      \* hostApi and a first snapshot are there
    walletReady, fastMode,
    flip,          \* the newest state of the round
    error,
    rows,       \* the host's rows
    drawn,       \* what the effects last saw
    opens,          \* none, asked, answered, rejected
    contract,          \* phase, form, word and payout of each session
    reveals         \* revealOutcome calls for each session

inputVars == <<offer, connected, walletReady, fastMode>>
shownVars == <<flip, error, drawn>>
coinVars == <<offer, connected, walletReady, fastMode, flip, error, rows, drawn, opens,
              contract, reveals>>

NoRound == [key |-> <<"none", 0>>, form |-> Nil, status |-> "none", outcome |-> Nil, payout |-> Nil]
PendingKey(b) == <<"pending", b>>
SessionKey(b) == <<"session", b>>
NoRow == [phase |-> "none", payout |-> Nil, randomness |-> 0, gameState |-> "none"]
Unopened == [phase |-> "none", form |-> Nil, word |-> 0, payout |-> Nil]
TerminalPhases == {"settled", "forfeited", "cancelled"}
BetOf(r) == r.key[2]

InFlight(r) == r.status \in {"opening", "waiting", "landing"}

CoinInit ==
    /\ offer \in Offers
    /\ connected = FALSE /\ walletReady = TRUE /\ fastMode \in BOOLEAN
    /\ flip = NoRound /\ error = FALSE
    /\ rows = [b \in Rounds |-> NoRow]
    /\ drawn = [flip |-> NoRound, rows |-> rows, fastMode |-> fastMode]
    /\ opens = [b \in Rounds |-> "none"] /\ contract = [b \in Rounds |-> Unopened]
    /\ reveals = [b \in Rounds |-> 0]

-----------------------------------------------------------------------------
\* The player

\* The bet button, enabled by the last render (canBet); a click is rendered
\* before anything else is handled.
openRound(b) ==
    /\ connected /\ walletReady /\ ~InFlight(drawn.flip)
    /\ b \in offer.rounds /\ opens[b] = "none" /\ \A a \in offer.rounds : a < b => opens[a] # "none"
    /\ flip = drawn.flip
    /\ \E form \in offer.forms :
          /\ flip' = [NoRound EXCEPT !.key = PendingKey(b), !.form = form, !.status = "opening"]
          /\ contract' = [contract EXCEPT ![b].form = form]
    /\ drawn' = [drawn EXCEPT !.flip = flip']
    /\ error' = FALSE
    /\ opens' = [opens EXCEPT ![b] = "asked"]
    /\ UNCHANGED <<inputVars, rows, reveals>>

setFastMode ==
    /\ fastMode' = ~fastMode
    /\ UNCHANGED <<offer, connected, walletReady, shownVars, rows, opens, contract, reveals>>

-----------------------------------------------------------------------------
\* The host

Connect ==
    /\ ~connected /\ connected' = TRUE
    /\ UNCHANGED <<offer, walletReady, fastMode, shownVars, rows, opens, contract, reveals>>

SetWallet ==
    /\ offer.parts /\ walletReady' = ~walletReady
    /\ UNCHANGED <<offer, connected, fastMode, shownVars, rows, opens, contract, reveals>>

\* The answer of openSession, if the round is still the one that asked.
OpenAnswered(b) ==
    /\ opens[b] = "asked" /\ contract[b].phase # "none"
    /\ opens' = [opens EXCEPT ![b] = "answered"]
    /\ flip' = IF flip.key = PendingKey(b)
                THEN [flip EXCEPT !.key = SessionKey(b), !.status = "waiting"] ELSE flip
    /\ UNCHANGED <<inputVars, error, drawn, rows, contract, reveals>>

OpenRejected(b) ==
    /\ opens[b] = "asked"
    /\ opens' = [opens EXCEPT ![b] = "rejected"]
    /\ flip' = NoRound /\ error' = TRUE
    /\ UNCHANGED <<inputVars, drawn, rows, contract, reveals>>

FlipLands(b) ==
    /\ opens[b] \in {"asked", "rejected"} /\ contract[b].phase = "none"
    /\ contract' = [contract EXCEPT ![b].phase = "open"]
    /\ UNCHANGED <<inputVars, shownVars, rows, opens, reveals>>

\* Settled by a word, or cancelled with the stake returned.
Ends(b) ==
    /\ contract[b].phase = "open"
    /\ LET form == contract[b].form
       IN  \/ \E word \in Words :
                 contract' = [contract EXCEPT ![b].phase = "settled", ![b].word = word,
                             ![b].payout = IF outcomeFromRandomness(form, word).won
                                           THEN maxPayout(Wager, form.coinCount, form.minWins)
                                           ELSE 0]
           \/ contract' = [contract EXCEPT ![b].phase = "cancelled", ![b].payout = Wager]
    /\ UNCHANGED <<inputVars, shownVars, rows, opens, reveals>>

\* The rows that may be pushed for a session: parts of the truth.
RowsOf(c) ==
    {[phase |-> c.phase, payout |-> payout, randomness |-> word, gameState |-> state] :
        payout \in {Nil, c.payout}, word \in {0, c.word},
        state \in {"none", "initial"} \cup IF c.word # 0 THEN {"final"} ELSE {}}

\* All of it, as the indexed row has it in the end.
FullRow(c) ==
    [phase |-> c.phase, payout |-> c.payout, randomness |-> c.word,
     gameState |-> IF c.word # 0 THEN "final" ELSE "initial"]

PushPart(b) ==
    /\ offer.parts /\ connected /\ contract[b].phase # "none" /\ rows[b] # FullRow(contract[b])
    /\ \E row \in RowsOf(contract[b]) :
          rows[b] # row /\ rows' = [rows EXCEPT ![b] = row]
    /\ UNCHANGED <<inputVars, shownVars, opens, contract, reveals>>

PushAll(b) ==
    /\ connected /\ contract[b].phase # "none" /\ rows[b] # FullRow(contract[b])
    /\ rows' = [rows EXCEPT ![b] = FullRow(contract[b])]
    /\ UNCHANGED <<inputVars, shownVars, opens, contract, reveals>>

-----------------------------------------------------------------------------
\* Rendering

\* Mutation: only the last game state tells the result.
ResolvedFromStateOnly(r, row, word) ==
    IF row.gameState = "final" THEN outcomeFromRandomness(r.form, word) ELSE Nil

\* The result, from the richest source the row has.
Resolved(r, row, word) ==
    IF row.gameState = "final" THEN outcomeFromRandomness(r.form, word)
    ELSE IF row.randomness # 0 THEN outcomeFromRandomness(r.form, row.randomness)
    ELSE IF row.payout # Nil THEN outcomeFromResult(r.form, row.payout > 0)
    ELSE Nil

\* Mutation: a payout that is not there yet is shown as nothing.
ShownPayoutOfRow(r, row, outcome) == IF row.payout = Nil THEN 0 ELSE row.payout

\* A winning row's payout is computed while the row lacks it.
ShownPayout(r, row, outcome) ==
    IF row.payout # Nil /\ row.payout > 0 THEN row.payout
    ELSE IF outcome.won THEN maxPayout(Wager, r.form.coinCount, r.form.minWins) ELSE 0

Waits == flip.status = "waiting" /\ rows[BetOf(flip)].phase \in TerminalPhases

\* Did not settle normally: given up.
Abnormal(row) == row.phase # "settled" /\ row.gameState = "none"

\* A round that is done is revealed, once more if its landing revealed it.
Reveals(r) == r.status = "done"

\* React renders; the effects on the round and the snapshot run.
ShowFlip ==
    /\ drawn # [flip |-> flip, rows |-> rows, fastMode |-> fastMode]
    /\ drawn' = [flip |-> flip, rows |-> rows, fastMode |-> fastMode]
    /\ IF ~Waits THEN UNCHANGED <<flip, error>>
       ELSE LET row == rows[BetOf(flip)]
                outcome == Resolved(flip, row, contract[BetOf(flip)].word)
            IN  IF Abnormal(row) THEN flip' = NoRound /\ error' = TRUE
                ELSE /\ UNCHANGED error
                     /\ flip' = IF outcome = Nil THEN flip
                                 ELSE [flip EXCEPT !.status = IF fastMode THEN "done" ELSE "landing",
                                          !.outcome = outcome,
                                          !.payout = ShownPayout(flip, row, outcome)]
    /\ reveals' = IF flip # drawn.flip /\ Reveals(flip)
                  THEN [reveals EXCEPT ![BetOf(flip)] = IF @ < 2 THEN @ + 1 ELSE @] ELSE reveals
    /\ UNCHANGED <<inputVars, rows, opens, contract>>

\* The landing timer, set by the render that began the landing.
Landed ==
    /\ drawn.flip.status = "landing" /\ flip = drawn.flip
    /\ flip' = [flip EXCEPT !.status = "done"]
    /\ reveals' = [reveals EXCEPT ![BetOf(flip)] = IF @ < 2 THEN @ + 1 ELSE @]
    /\ UNCHANGED <<inputVars, error, drawn, rows, opens, contract>>

CoinNext ==
    \/ Connect \/ SetWallet \/ setFastMode \/ ShowFlip \/ Landed
    \/ \E b \in Rounds : \/ openRound(b) \/ OpenAnswered(b) \/ OpenRejected(b) \/ FlipLands(b)
                         \/ Ends(b) \/ PushPart(b) \/ PushAll(b)

\* React renders, the timer fires and the host pushes what it comes to know.
CoinFairness ==
    /\ WF_coinVars(ShowFlip) /\ WF_coinVars(Landed)
    /\ \A b \in Rounds : WF_coinVars(PushAll(b))

CoinSpec == CoinInit /\ [][CoinNext]_coinVars /\ CoinFairness

-----------------------------------------------------------------------------
\* hideSessionKey: the rendered round's key while it is in flight.
Withheld(b) == InFlight(drawn.flip) /\ drawn.flip.key = SessionKey(b)

\* CanvasHistoryStrip: the rounds that are over, but for the one withheld.
InHistory(b) == connected /\ drawn.rows[b].phase \in TerminalPhases /\ ~Withheld(b)

\* However little the row had when the result was read, the round shows the
\* winner and the payout that the chain has (the settle effect's fallbacks); and
\* once the bet is answered they are in neither the history nor the balance
\* (which waits for the reveal) before the coins have landed.
ShownAsSettled ==
    /\ flip.outcome # Nil /\ contract[BetOf(flip)].phase = "settled" =>
          /\ flip.outcome.won = outcomeFromRandomness(flip.form, contract[BetOf(flip)].word).won
          /\ flip.payout = contract[BetOf(flip)].payout
    /\ flip.status \in {"waiting", "landing"} /\ drawn.flip = flip =>
          ~InHistory(BetOf(flip)) /\ reveals[BetOf(flip)] = 0

\* An answered bet whose session is over is not left flipping: it is revealed
\* to the host, or given up with a message.
EveryRoundResolves ==
    \A b \in Rounds : opens[b] = "answered" /\ contract[b].phase \in TerminalPhases
                         ~> flip.key # SessionKey(b) \/ reveals[b] > 0

\* "The round did not settle normally" (App.tsx): a cancelled round is never
\* shown as won.
CancelledIsNoWin ==
    flip.outcome # Nil /\ contract[BetOf(flip)].phase = "cancelled" => ~flip.outcome.won
=============================================================================
