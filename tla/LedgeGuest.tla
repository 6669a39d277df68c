----------------------------- MODULE LedgeGuest -----------------------------
(***************************************************************************)
(* The LEDGE page (useLedgeRound.ts, App.tsx): one round at a time, from   *)
(* the click to the payout that is revealed.  What the page does is driven *)
(* by clicks, timers, answers of the host and snapshots pushed by it, each *)
(* a turn of the event loop that sets React state; the effects of the page *)
(* run when that state is rendered, which may be several turns later.  A   *)
(* host that never answers, answers late or refuses is part of the model,  *)
(* and so is the demo that is played without a host.                       *)
(*                                                                         *)
(* A bet is named by its number, and so are the session it opens and the   *)
(* result of that session.                                                 *)
(***************************************************************************)
EXTENDS Integers, Sequences, FiniteSets

CONSTANTS
    None,
    Bets,       \* bets a player may place: bound
    Lanes,      \* the lanes that hold coins
    Settings    \* is the page embedded; does it reduce motion

ASSUME LedgeGuestAssumption ==
    /\ Bets \subseteq Nat \ {0} /\ None \notin Nat /\ Lanes \in Nat \ {0}
    /\ Settings \subseteq [bets : SUBSET Bets, embedded : BOOLEAN, reduced : BOOLEAN]

VARIABLES
    setting,
    host, demo,     \* hostApi is known; isDemo
    round,          \* the newest state of the round
    snapshot,       \* what the host pushed: the sessions' phases
    rendered,       \* the round and the snapshot the page last rendered
    sessionKey, betInFlight, stuck,
    cascades,       \* timers of playCascade: whose result, lanes to come
    demoTimer,      \* the bet whose demo outcome is due
    clicks,         \* a click was handled and is not rendered yet
    calls,          \* none, asked, answered, rejected, demo
    chain,          \* none, open, settled, cancelled
    cancelCall,     \* none, asked, done
    recorded,       \* rounds in the player's history: the bet, the result
    revealed,       \* revealOutcome calls for each session
    gaveUp, refused \* bets the page gave up on; refused recoveries

pageVars == <<host, demo, snapshot, rendered>>
roundVars == <<round, sessionKey, betInFlight, stuck, cascades, demoTimer, clicks>>
callVars == <<calls, cancelCall>>
pastVars == <<recorded, revealed, gaveUp, refused>>
guestVars == <<setting, host, demo, round, snapshot, rendered, sessionKey, betInFlight,
               stuck, cascades, demoTimer, clicks, calls, chain, cancelCall, recorded,
               revealed, gaveUp, refused>>

RESTARTABLE_PHASES == {"idle", "settled", "error"}

\* phase; the bet whose stake and spread it shows; its session, once known;
\* the session whose result it shows.
IdleRound == [phase |-> "idle", bet |-> None, session |-> None, result |-> None]

GuestInit ==
    /\ setting \in Settings
    /\ host = FALSE /\ demo = ~setting.embedded
    /\ round = IdleRound /\ snapshot = [b \in Bets |-> "none"]
    /\ rendered = [round |-> IdleRound, snapshot |-> snapshot]
    /\ sessionKey = None /\ betInFlight = FALSE /\ stuck = FALSE
    /\ cascades = {} /\ demoTimer = None /\ clicks = 0
    /\ calls = [b \in Bets |-> "none"] /\ chain = [b \in Bets |-> "none"]
    /\ cancelCall = [b \in Bets |-> "none"]
    /\ recorded = <<>> /\ revealed = [b \in Bets |-> 0] /\ gaveUp = {} /\ refused = {}

\* A click is rendered before anything but another click is handled.
Turn == clicks = 0

-----------------------------------------------------------------------------
\* The handshake with the host, or the demo when none answers

Handshake ==
    /\ Turn /\ setting.embedded /\ ~host
    /\ host' = TRUE /\ demo' = FALSE
    /\ UNCHANGED <<setting, snapshot, rendered, roundVars, callVars, chain, pastVars>>

GraceTimeout ==
    /\ Turn /\ setting.embedded /\ ~host /\ ~demo
    /\ demo' = TRUE
    /\ UNCHANGED <<setting, host, snapshot, rendered, roundVars, callVars, chain, pastVars>>

-----------------------------------------------------------------------------
\* The player

CanBet == (demo \/ host) /\ rendered.round.phase \in RESTARTABLE_PHASES

NextBet == {b \in setting.bets : calls[b] = "none"
                                 /\ \A a \in setting.bets : a < b => calls[a] # "none"}

\* drop, from the handlers of the last render (handleDrop, canDrop).
Drop(b) ==
    /\ clicks < 2 /\ b \in NextBet /\ CanBet /\ ~betInFlight
    /\ clicks' = clicks + 1 /\ betInFlight' = TRUE
    /\ cascades' = {} /\ stuck' = FALSE
    /\ round' = [IdleRound EXCEPT !.phase = "opening", !.bet = b]
    /\ calls' = [calls EXCEPT ![b] = IF demo THEN "demo" ELSE "asked"]
    /\ demoTimer' = IF demo THEN b ELSE None
    /\ UNCHANGED <<setting, pageVars, sessionKey, cancelCall, chain, pastVars>>

\* "Play again", offered beside the last round of the history (startNextRound);
\* another button, which is never pressed in the turn of a drop.
Dismiss ==
    /\ Turn /\ recorded # <<>> /\ rendered.round.phase \in {"settled", "error"}
    /\ clicks' = clicks + 1
    /\ cascades' = {} /\ demoTimer' = None
    /\ betInFlight' = FALSE /\ sessionKey' = None /\ round' = IdleRound
    /\ UNCHANGED <<setting, pageVars, stuck, callVars, chain, pastVars>>

\* recoverStuckBet, for the session of the rendered round; without one, or
\* with a call on its way, it only says so.
RecoverStuckBet(b) ==
    /\ Turn /\ stuck /\ rendered.round.session = b /\ cancelCall[b] = "none"
    /\ cancelCall' = [cancelCall EXCEPT ![b] = "asked"]
    /\ UNCHANGED <<setting, pageVars, roundVars, calls, chain, pastVars>>

-----------------------------------------------------------------------------
\* Answers of the host

\* openSession answered, however late: the round there is now waits.
Answered(b) ==
    /\ Turn /\ calls[b] = "asked" /\ chain[b] # "none"
    /\ calls' = [calls EXCEPT ![b] = "answered"]
    /\ sessionKey' = b
    /\ round' = [round EXCEPT !.phase = "waiting"]
    /\ UNCHANGED <<setting, pageVars, betInFlight, stuck, cascades, demoTimer, clicks,
                   cancelCall, chain, pastVars>>

Rejected(b) ==
    /\ Turn /\ calls[b] = "asked"
    /\ calls' = [calls EXCEPT ![b] = "rejected"]
    /\ sessionKey' = None
    /\ round' = [round EXCEPT !.phase = "error"]
    /\ UNCHANGED <<setting, pageVars, betInFlight, stuck, cascades, demoTimer, clicks,
                   cancelCall, chain, pastVars>>

CancelRejected(b) ==
    /\ Turn /\ cancelCall[b] = "asked"
    /\ cancelCall' = [cancelCall EXCEPT ![b] = "done"]
    /\ round' = [round EXCEPT !.phase = "error"]
    /\ refused' = refused \cup {b}
    /\ UNCHANGED <<setting, pageVars, sessionKey, betInFlight, stuck, cascades, demoTimer,
                   clicks, calls, chain, recorded, revealed, gaveUp>>

-----------------------------------------------------------------------------
\* The chain and the host, as far as a page sees them

Lands(b) ==
    /\ Turn /\ chain[b] = "none" /\ calls[b] \in {"asked", "rejected"}
    /\ chain' = [chain EXCEPT ![b] = "open"]
    /\ UNCHANGED <<setting, pageVars, roundVars, callVars, pastVars>>

Settles(b) ==
    /\ Turn /\ chain[b] = "open"
    /\ chain' = [chain EXCEPT ![b] = "settled"]
    /\ UNCHANGED <<setting, pageVars, roundVars, callVars, pastVars>>

Cancels(b) ==
    /\ Turn /\ chain[b] = "open" /\ cancelCall[b] = "asked"
    /\ chain' = [chain EXCEPT ![b] = "cancelled"]
    /\ cancelCall' = [cancelCall EXCEPT ![b] = "done"]
    /\ UNCHANGED <<setting, pageVars, roundVars, calls, pastVars>>

\* setState: a snapshot that shows what the chain has by now.
Push(b) ==
    /\ Turn /\ host /\ snapshot[b] # chain[b]
    /\ snapshot' = [snapshot EXCEPT ![b] = chain[b]]
    /\ UNCHANGED <<setting, host, demo, rendered, roundVars, callVars, chain, pastVars>>

-----------------------------------------------------------------------------
\* Timers

\* A lane falls, or holds.
LaneTimer(c) ==
    /\ Turn /\ c \in cascades /\ c.left > 0
    /\ cascades' = (cascades \ {c}) \cup {[c EXCEPT !.left = @ - 1]}
    /\ UNCHANGED <<setting, pageVars, round, sessionKey, betInFlight, stuck, demoTimer,
                   clicks, callVars, chain, pastVars>>

\* The result is announced, and a hosted round revealed to the host.
SettleTimer(c) ==
    /\ Turn /\ c \in cascades /\ c.left = 0
    /\ cascades' = cascades \ {c}
    /\ round' = [round EXCEPT !.phase = "settled"]
    /\ revealed' = IF calls[c.result] = "demo" THEN revealed
                   ELSE [revealed EXCEPT ![c.result] = @ + 1]
    /\ UNCHANGED <<setting, pageVars, sessionKey, betInFlight, stuck, demoTimer, clicks,
                   callVars, chain, recorded, gaveUp, refused>>

OpeningTimeout ==
    /\ Turn /\ rendered.round.phase = "opening" /\ demoTimer = None
    /\ round.phase = "opening"
    /\ round' = [round EXCEPT !.phase = "error"]
    /\ gaveUp' = gaveUp \cup {round.bet}
    /\ UNCHANGED <<setting, pageVars, sessionKey, betInFlight, stuck, cascades, demoTimer,
                   clicks, callVars, chain, recorded, revealed, refused>>

StuckTimeout ==
    /\ Turn /\ rendered.round.phase = "waiting" /\ ~stuck
    /\ stuck' = TRUE
    /\ UNCHANGED <<setting, pageVars, round, sessionKey, betInFlight, cascades, demoTimer,
                   clicks, callVars, chain, pastVars>>

\* playCascade: the round shows the result of b, at once if motion is reduced.
PlayCascade(r, b) ==
    IF setting.reduced
    THEN /\ round' = [r EXCEPT !.phase = "settled", !.result = b]
         /\ revealed' = IF calls[b] = "demo" THEN revealed ELSE [revealed EXCEPT ![b] = @ + 1]
         /\ UNCHANGED cascades
    ELSE /\ round' = [r EXCEPT !.phase = "revealing", !.result = b]
         /\ cascades' = cascades \cup {[result |-> b, left |-> Lanes]}
         /\ UNCHANGED revealed

DemoTimer ==
    /\ Turn /\ demoTimer # None
    /\ demoTimer' = None
    /\ PlayCascade(round, demoTimer)
    /\ UNCHANGED <<setting, pageVars, sessionKey, betInFlight, stuck, clicks, callVars, chain,
                   recorded, gaveUp, refused>>

-----------------------------------------------------------------------------
\* Rendering

\* The effect that looks for the session's row in the snapshot.
WatchSession ==
    /\ round.phase = "waiting" /\ sessionKey # None
    /\ snapshot[sessionKey] # "none"

\* Mutation: the effect does not look at the snapshot again.
WatchDependenciesPhaseOnly == rendered.round.phase # round.phase

\* Has one of the effect's dependencies changed in this render?
WatchDependencies ==
    \/ rendered.snapshot # snapshot
    \/ rendered.round.phase # round.phase
    \/ rendered.round.bet # round.bet
    \/ rendered.round.session # round.session

\* Mutation: the row of another bet is taken for the round's.
WatchedAny == CHOOSE b \in Bets : snapshot[b] # "none"

Watched == sessionKey

\* The page's history takes the round on the transition into settled.
Records == /\ rendered.round.phase # "settled" /\ round.phase = "settled"
           /\ round.result # None

\* React renders the newest state, and the effects whose dependencies changed
\* run: the latch opens, the history is written, the snapshot is looked at.
Render ==
    /\ rendered # [round |-> round, snapshot |-> snapshot] \/ clicks > 0
    /\ rendered' = [round |-> round, snapshot |-> snapshot] /\ clicks' = 0
    /\ betInFlight' = (betInFlight /\ (round.phase \notin RESTARTABLE_PHASES
                                       \/ round.phase = rendered.round.phase))
    /\ stuck' = (stuck /\ round.phase = "waiting")
    /\ recorded' = IF Records THEN Append(recorded, <<round.bet, round.result>>) ELSE recorded
    /\ IF WatchDependencies /\ WatchSession
       THEN LET b == Watched
                seen == [round EXCEPT !.session = b]
            IN  CASE snapshot[b] = "open" ->
                        round' = seen /\ UNCHANGED <<sessionKey, cascades, revealed>>
                  [] snapshot[b] = "cancelled" ->
                        /\ round' = [seen EXCEPT !.phase = "error"] /\ sessionKey' = None
                        /\ UNCHANGED <<cascades, revealed>>
                  [] snapshot[b] = "settled" ->
                        sessionKey' = None /\ PlayCascade(seen, b)
       ELSE UNCHANGED <<round, sessionKey, cascades, revealed>>
    /\ UNCHANGED <<setting, host, demo, snapshot, demoTimer, callVars, chain, gaveUp, refused>>

GuestNext ==
    \/ Handshake \/ GraceTimeout \/ Dismiss \/ OpeningTimeout \/ StuckTimeout \/ DemoTimer
    \/ Render
    \/ \E b \in Bets :
          \/ Drop(b) \/ RecoverStuckBet(b) \/ Answered(b) \/ Rejected(b) \/ CancelRejected(b)
          \/ Lands(b) \/ Settles(b) \/ Cancels(b) \/ Push(b)
    \/ \E c \in cascades : LaneTimer(c) \/ SettleTimer(c)

\* Timers fire, React renders and the host pushes what it knows.  Nothing is
\* assumed of the player, of the chain and of calls that may never answer.
GuestFairness ==
    /\ WF_guestVars(Render) /\ WF_guestVars(DemoTimer)
    /\ WF_guestVars(\E c \in cascades : LaneTimer(c) \/ SettleTimer(c))
    /\ \A b \in Bets : WF_guestVars(Push(b))

GuestSpec == GuestInit /\ [][GuestNext]_guestVars /\ GuestFairness

-----------------------------------------------------------------------------
\* No call of the player's went wrong in a way the page cannot mend.
Smooth == gaveUp = {} /\ refused = {}

\* Each result is revealed to the host at most once.  Until a bet is given up
\* or a recovery refused, it also goes into the history at most once, and with
\* its own bet; no timer of one round ends another; and a second click, even in
\* the same turn of the event loop, places no bet while one is on its way
\* (drop's latch).
ResultsStayWithTheirBets ==
    /\ \A b \in Bets : revealed[b] <= 1
    /\ Smooth =>
          /\ \A i, j \in DOMAIN recorded : recorded[i][2] = recorded[j][2] => i = j
          /\ \A i \in DOMAIN recorded : recorded[i][1] = recorded[i][2]
          /\ round.phase = "settled" => round.result = round.bet
          /\ \A b \in Bets : calls[b] = "asked" => round.bet = b /\ round.phase = "opening"

\* A settled session whose opening was answered is revealed to the host, which
\* withholds its payout until then (playCascade); and a demo bet gets its result.
EveryRoundIsRevealed ==
    \A b \in Bets :
       (calls[b] = "answered" /\ chain[b] = "settled") \/ calls[b] = "demo"
          ~> \/ revealed[b] = 1 \/ ~Smooth
             \/ \E i \in DOMAIN recorded : recorded[i][2] = b
=============================================================================
