----------------------------- MODULE LedgeRounds -----------------------------
(***************************************************************************)
(* LEDGE played on the casino host: CasinoHost with the game fixed to      *)
(* LedgeGame.  A round is one session; its game data (the allocation) and  *)
(* its wager are part of the snapshot the host hands to every callback and *)
(* never change.  The randomness is a set of lanes that topple: any subset *)
(* of the used lanes, since no threshold reaches the denominator.          *)
(***************************************************************************)
EXTENDS CasinoHost, LedgeGame

CONSTANTS LEDGE,            \* the deployed game
          Boards            \* allocations played

ASSUME LedgeAssumption ==
    /\ LEDGE \in Games
    /\ Boards \subseteq Allocations
    /\ 0 \in ForfeitQuotes
    /\ \A wager \in Wagers, a \in Boards :
         /\ QuoteCaps(wager, a) \in Caps
         /\ OnSessionStart(wager, a) \in StepResults
         /\ \A T \in SUBSET UsedLanes(a) : OnRandomness(wager, T) \in StepResults

VARIABLE round              \* [wager, board] of each session

roundVars == <<vars, round>>

Rounds == [wager: Wagers, board: Boards]

\* Bound: rounds start while the chain still has the blocks to expire them.
RoomToExpire == blockNumber + RANDOMNESS_TIMEOUT_BLOCKS < MaxBlock

Place(p, wager, a) ==
    /\ RoomToExpire
    /\ OpenSession(p, LEDGE, wager, QuoteCaps(wager, a), OnSessionStart(wager, a))
    /\ round' = [round EXCEPT
                   ![currentSessionId'] = [wager |-> wager, board |-> a]]

\* The randomness answer settles the round.
Topple(s, T) ==
    LET r == round[s.sessionId]
    IN  /\ T \subseteq UsedLanes(r.board)
        /\ OnRandomnessFulfilled(s, OnRandomness(r.wager, T))
        /\ UNCHANGED round

Cancel(s) == CancelStuckRandomness(s) /\ UNCHANGED round

NextBlock == Mine /\ UNCHANGED round

\* Tokens and the registry change under the rounds as they like.
Surroundings ==
    /\ \/ \E named \in BOOLEAN : RegisterGame(LEDGE, named)
       \/ \E a \in Accounts, amount \in Grants : Mint(a, amount)
       \/ \E p \in Players, amount \in Approvals \cup {UINT_MAX} : Approve(p, amount)
       \/ \E p \in Players, a \in Accounts, amount \in Grants :
             Transfer(p, a, amount)
    /\ UNCHANGED round

RoundsInit == Init /\ round = [s \in Ids |-> None]

RoundsNext ==
    \/ \E p \in Players, wager \in Wagers, a \in Boards : Place(p, wager, a)
    \/ \E s \in advanced, T \in SUBSET Lanes : Topple(s, T)
    \/ \E s \in advanced : Cancel(s)
    \/ NextBlock
    \/ Surroundings

RoundsSpec == RoundsInit /\ [][RoundsNext]_roundVars

\* Blocks keep coming, and somebody (cancelStuckRandomness is open to anyone)
\* cancels a round that stays stuck.  No fairness for the randomness answer.
Fairness == /\ WF_roundVars(NextBlock)
            /\ \A k \in Ids :
                 WF_roundVars(\E s \in advanced : s.sessionId = k /\ Cancel(s))

FairRoundsSpec == RoundsSpec /\ Fairness

-----------------------------------------------------------------------------
\* Properties

\* A round waits for randomness with its wager in escrow and the reserve of its
\* best outcome, and nothing else.
RoundsConsistent ==
    \A k \in Ids :
        LET c == sessionCommitments[k]
            r == round[k]
        IN  /\ (k <= currentSessionId) => r \in Rounds
            /\ c # None =>
                 /\ c.phase = "WAITING_RANDOMNESS"
                 /\ c.escrowedStake = r.wager
                 /\ c.reservedProfit = MaxReservedProfit(r.wager, r.board)

\* The reserve taken when the coins are placed covers every way the lanes can
\* topple: as long as the vault holds that reserve, no outcome makes the
\* settlement revert, so a win cannot get stuck until it can be cancelled.
EveryOutcomeSettles ==
    \A s \in advanced :
        Loaded(s) /\ s.reservedProfit <= balanceOf[Vault] =>
          \A T \in SUBSET UsedLanes(round[s.sessionId].board) :
             CanSettle(balanceOf, s,
                       OnRandomness(round[s.sessionId].wager, T).payout)

\* A round pays the prizes of a set of lanes the player put coins on, or, if it
\* was cancelled, exactly the wager back.
PaysToppledLanes ==
    \A k \in Ids : settled[k] # None =>
        LET r == round[k]
        IN  \/ /\ settled[k].phase = "SETTLED"
               /\ \E T \in SUBSET UsedLanes(r.board) :
                     settled[k].payout = r.wager * PrizeSum(T)
            \/ settled[k] = [phase |-> "CANCELLED", payout |-> r.wager]

\* Every round ends, although the randomness may never come.
RoundsEnd ==
    \A k \in Ids : sessionCommitments[k] # None ~> sessionCommitments[k] = None
=============================================================================
