----------------------------- MODULE CasinoHost -----------------------------
(***************************************************************************)
(* The casino host contract (LocalCasinoHost.sol), its test token          *)
(* (LocalTestToken.sol) and the game interface it calls.  A transaction is *)
(* atomic: a call that reverts changes nothing, so an action is enabled    *)
(* exactly where the call succeeds.  Games are view contracts and are left *)
(* arbitrary: any StepResult may come back.  The randomness router is      *)
(* external: it may deliver any request it was ever given, late, twice or  *)
(* never, and anybody may echo any snapshot that was ever emitted.         *)
(*                                                                         *)
(* The contract stores keccak256(encode(session)) per session.  Hash and   *)
(* codec are injective on values in range, so the commitment is modelled   *)
(* by the snapshot itself.  The fields that never change during a session  *)
(* (player, caps) are kept apart, in `terms', since they are determined by *)
(* the session id; game data, game state and the risk quote are dropped:   *)
(* the host only copies them.                                              *)
(***************************************************************************)
EXTENDS Integers, FiniteSets, Functions

CONSTANTS
    Players,                    \* accounts that open sessions
    Host, Vault,                \* the two contract accounts
    Games,                      \* deployed game contracts
    None,                       \* no commitment, no settlement (bytes32(0))
    UINT_MAX,                   \* type(uint256).max
    UINT128_MAX,                \* widest amount a snapshot can encode
    UINT64_MAX,                 \* widest session id a snapshot can encode
    UINT32_MAX,                 \* widest step counter
    ACTION_TIMEOUT_BLOCKS,
    RANDOMNESS_TIMEOUT_BLOCKS,
    \* what callers and games may pass, and the state of the deployed chain
    Wagers, Approvals,          \* approvals besides the unlimited one
    Grants,                     \* amounts minted or transferred by hand
    Caps,                       \* [maxEscrowStake, maxReservedProfit] quotes
    StepResults,                \* what a game callback may return
    ForfeitQuotes,              \* what quoteForfeitPayout may return
    Purse, Bankroll,            \* tokens minted to each player / the vault
    MaxBlock                    \* bound: the chain stops growing there

BASIS_POINTS == 10000
FORFEIT_WINNINGS_CUT_BPS == 1000

Accounts == Players \cup {Host, Vault}
Ids == 1..UINT64_MAX
Waiting == {"WAITING_RANDOMNESS", "WAITING_PLAYER_ACTION"}
Terminal == {"SETTLED", "FORFEITED", "CANCELLED"}
Phases == {"NONE"} \cup Waiting \cup Terminal

Snapshots == [sessionId: Ids, escrowedStake: Nat, reservedProfit: Nat,
              deadlineBlock: Nat, step: Nat, phase: Waiting]
Terms == [player: Players, maxEscrowStake: Nat, maxReservedProfit: Nat]
Settlements == [phase: Terminal, payout: Nat]

ASSUME ConstantsAssumption ==
    /\ IsFiniteSet(Players)
    /\ Host \notin Players /\ Vault \notin Players /\ Host # Vault
    /\ UINT_MAX \in Nat /\ UINT128_MAX \in Nat
    /\ UINT64_MAX \in Nat /\ UINT32_MAX \in Nat
    /\ ACTION_TIMEOUT_BLOCKS \in Nat /\ RANDOMNESS_TIMEOUT_BLOCKS \in Nat
    /\ Wagers \subseteq Nat /\ Approvals \subseteq Nat /\ Grants \subseteq Nat
    /\ ForfeitQuotes \subseteq Nat
    /\ Caps \subseteq [maxEscrowStake: Nat, maxReservedProfit: Nat]
    /\ StepResults \subseteq
         [escrowDelta: Int, reservedProfitDelta: Int, nextPhase: Phases,
          requestRandomnessNow: BOOLEAN, payout: Nat]
    /\ Purse \in Nat /\ Bankroll \in Nat /\ MaxBlock \in Nat
    /\ None \notin Snapshots /\ None \notin Terms /\ None \notin Settlements

VARIABLES
    blockNumber,
    balanceOf,                  \* token balances
    allowance,                  \* what each player lets the host pull
    totalSupply,
    registered,                 \* games with a non-empty name
    currentSessionId,
    sessionCommitments,         \* latest snapshot of an open session, or None
    terms,                      \* player and caps of each session ever opened
    advanced,                   \* snapshots emitted by CasinoSessionAdvanced
    settled,                    \* CasinoSessionSettled event, or None
    gain,                       \* history: Transfer events, player's net
    donated                     \* history: tokens given to the two contracts

tokenVars == <<balanceOf, allowance, totalSupply>>
sessionVars == <<currentSessionId, sessionCommitments, terms, advanced,
                 settled, gain>>
vars == <<blockNumber, tokenVars, registered, sessionVars, donated>>

-----------------------------------------------------------------------------
\* LocalTestToken

\* transferFrom(player, host, amount) called by the host succeeds.
CanPull(bal, alw, p, amount) == amount <= alw[p] /\ amount <= bal[p]

\* An allowance of type(uint256).max is never consumed.
Spent(alw, p, amount) ==
    IF alw[p] = UINT_MAX THEN alw ELSE [alw EXCEPT ![p] = @ - amount]

Moved(bal, from, to, amount) ==
    LET paid == [bal EXCEPT ![from] = @ - amount]
    IN  [paid EXCEPT ![to] = @ + amount]

-----------------------------------------------------------------------------
\* Settlement: _finalizeSession and _quoteForfeitPayout

Lesser(a, b) == IF a <= b THEN a ELSE b

\* Mutation: the escrow a losing player leaves stays in the contract.
AfterSettlementLosesEscrow(bal, p, s, payout) ==
    LET fromEscrow == Lesser(payout, s.escrowedStake)
    IN  Moved(Moved(bal, Host, p, fromEscrow), Vault, p, payout - fromEscrow)

\* Mutation: the contract pays the whole payout, and its vault makes up for it
\* only by what it owes.
AfterSettlementFromHost(bal, p, s, payout) ==
    Moved(Moved(bal, Host, p, payout), Host, Vault,
          s.escrowedStake - Lesser(payout, s.escrowedStake))

\* Mutation: the vault tops a win up and forgets to take the escrow of a loss.
AfterSettlementRefundsLoss(bal, p, s, payout) ==
    LET fromEscrow == Lesser(payout, s.escrowedStake)
    IN  Moved(Moved(bal, Host, p, s.escrowedStake), Vault, p, payout - fromEscrow)

\* Escrow goes to the player up to the payout, the vault tops up what is
\* missing, and what is left of the escrow goes to the vault.
AfterSettlement(bal, p, s, payout) ==
    LET fromEscrow == Lesser(payout, s.escrowedStake)
        fromVault == payout - fromEscrow
        toVault == s.escrowedStake - fromEscrow
    IN  Moved(Moved(Moved(bal, Host, p, fromEscrow), Vault, p, fromVault),
              Host, Vault, toVault)

\* Mutation: a failing token transfer is ignored.
CanSettleUnchecked(bal, s, payout) ==
    /\ payout <= s.escrowedStake + s.reservedProfit
    /\ s.escrowedStake <= bal[Host]

CanSettle(bal, s, payout) ==
    /\ payout <= s.escrowedStake + s.reservedProfit
    /\ s.escrowedStake <= bal[Host]
    /\ payout - s.escrowedStake <= bal[Vault]

\* A quote is clamped to what the session may pay; the player keeps 90%.
\* A failing quote counts as 0.
ForfeitPayout(s, quote) ==
    (Lesser(quote, s.escrowedStake + s.reservedProfit)
        * (BASIS_POINTS - FORFEIT_WINNINGS_CUT_BPS)) \div BASIS_POINTS

\* Mutation: the commitment is not deleted.
FinalizeSessionKeepsCommitment(p, s, phase, payout, bal, g) ==
    /\ CanSettle(bal, s, payout)
    /\ balanceOf' = AfterSettlement(bal, p, s, payout)
    /\ sessionCommitments' = sessionCommitments
    /\ settled' = [settled EXCEPT
                     ![s.sessionId] = [phase |-> phase, payout |-> payout]]
    /\ gain' = [gain EXCEPT ![s.sessionId] = g + payout]
    /\ UNCHANGED advanced

FinalizeSession(p, s, phase, payout, bal, g) ==
    /\ CanSettle(bal, s, payout)
    /\ balanceOf' = AfterSettlement(bal, p, s, payout)
    /\ sessionCommitments' = [sessionCommitments EXCEPT ![s.sessionId] = None]
    /\ settled' = [settled EXCEPT
                     ![s.sessionId] = [phase |-> phase, payout |-> payout]]
    /\ gain' = [gain EXCEPT ![s.sessionId] = g + payout]
    /\ UNCHANGED advanced

-----------------------------------------------------------------------------
\* Applying what a game callback returns: _processStepResult

Timeout(phase) == IF phase = "WAITING_RANDOMNESS"
                  THEN RANDOMNESS_TIMEOUT_BLOCKS ELSE ACTION_TIMEOUT_BLOCKS

\* Mutation: the step counter is not advanced.
SteppedInPlace(s, r) == [s EXCEPT !.escrowedStake = @ + r.escrowDelta,
                                  !.reservedProfit = @ + r.reservedProfitDelta]

\* The snapshot after _applyStepDeltas and the step increment.
Stepped(s, r) == [s EXCEPT !.escrowedStake = @ + r.escrowDelta,
                           !.reservedProfit = @ + r.reservedProfitDelta,
                           !.step = @ + 1]

\* CasinoSessionCodec.encode range checks.
Encodable(s, t) ==
    /\ s.sessionId <= UINT64_MAX
    /\ s.escrowedStake <= UINT128_MAX /\ s.reservedProfit <= UINT128_MAX
    /\ t.maxEscrowStake <= UINT128_MAX /\ t.maxReservedProfit <= UINT128_MAX

\* Mutation: a randomness request never expires.
KeepWaitingForever(s, bal, g) ==
    LET n == IF s.phase = "WAITING_RANDOMNESS"
             THEN [s EXCEPT !.deadlineBlock = MaxBlock] ELSE s
    IN  /\ sessionCommitments' = [sessionCommitments EXCEPT ![s.sessionId] = n]
        /\ advanced' = advanced \cup {n}
        /\ balanceOf' = bal
        /\ gain' = [gain EXCEPT ![s.sessionId] = g]
        /\ UNCHANGED settled

\* Commit to the next snapshot and emit it; a randomness step also hands it to
\* the router, which keeps it as the request's client data.
KeepWaiting(s, bal, g) ==
    /\ sessionCommitments' = [sessionCommitments EXCEPT ![s.sessionId] = s]
    /\ advanced' = advanced \cup {s}
    /\ balanceOf' = bal
    /\ gain' = [gain EXCEPT ![s.sessionId] = g]
    /\ UNCHANGED settled

EscrowMoves(p, s, r, allowEscrowIncrease, bal, alw) ==
    /\ r.escrowDelta > 0 => /\ allowEscrowIncrease
                            /\ CanPull(bal, alw, p, r.escrowDelta)
    /\ r.escrowDelta < 0 => /\ -r.escrowDelta <= s.escrowedStake
                            /\ -r.escrowDelta <= bal[Host]
    /\ r.reservedProfitDelta < 0 => -r.reservedProfitDelta <= s.reservedProfit

WithinCaps(s, t) == /\ s.escrowedStake <= t.maxEscrowStake
                    /\ s.reservedProfit <= t.maxReservedProfit

ProcessStepResult(t, s, r, allowEscrowIncrease, bal, alw, g) ==
    LET next == Stepped(s, r)
        waiting == [next EXCEPT !.phase = r.nextPhase,
                          !.deadlineBlock = blockNumber + Timeout(r.nextPhase)]
        held == Moved(bal, t.player, Host, r.escrowDelta)
    IN  /\ EscrowMoves(t.player, s, r, allowEscrowIncrease, bal, alw)
        /\ WithinCaps(next, t)
        /\ next.step <= UINT32_MAX
        /\ r.requestRandomnessNow <=> r.nextPhase = "WAITING_RANDOMNESS"
        /\ allowance' = IF r.escrowDelta > 0
                        THEN Spent(alw, t.player, r.escrowDelta) ELSE alw
        /\ \/ /\ r.nextPhase \in Waiting
              /\ Encodable(waiting, t)
              /\ KeepWaiting(waiting, held, g - r.escrowDelta)
           \/ /\ r.nextPhase \in Terminal
              /\ FinalizeSession(t.player, next, r.nextPhase, r.payout, held,
                                 g - r.escrowDelta)

-----------------------------------------------------------------------------
\* The entry points

\* Mutation: a deleted commitment matches anything.
LoadedOrClosed(s) == sessionCommitments[s.sessionId] \in {s, None}

\* _loadSession: the echoed snapshot is the committed one.
Loaded(s) == sessionCommitments[s.sessionId] = s

OpenSession(p, game, wager, cap, r) ==
    LET id == currentSessionId + 1
        t == [player |-> p, maxEscrowStake |-> cap.maxEscrowStake,
              maxReservedProfit |-> cap.maxReservedProfit]
        s == [sessionId |-> id, escrowedStake |-> wager, reservedProfit |-> 0,
              deadlineBlock |-> 0, step |-> 0, phase |-> "WAITING_RANDOMNESS"]
    IN  /\ id \in Ids
        /\ wager # 0
        /\ game \in registered
        /\ cap.maxEscrowStake >= wager
        /\ CanPull(balanceOf, allowance, p, wager)
        /\ currentSessionId' = id
        /\ terms' = [terms EXCEPT ![id] = t]
        /\ ProcessStepResult(t, s, r, TRUE, Moved(balanceOf, p, Host, wager),
                             Spent(allowance, p, wager), -wager)
        /\ UNCHANGED <<blockNumber, totalSupply, registered, donated>>

SubmitAction(s, r) ==
    /\ Loaded(s)
    /\ s.phase = "WAITING_PLAYER_ACTION"
    /\ blockNumber <= s.deadlineBlock
    /\ ProcessStepResult(terms[s.sessionId], s, r, TRUE, balanceOf, allowance,
                         gain[s.sessionId])
    /\ UNCHANGED <<blockNumber, totalSupply, registered, currentSessionId,
                   terms, donated>>

\* The router echoes the client data of the request it answers.  There is no
\* deadline here: an answer later than the deadline is still taken, as long as
\* nobody cancelled first.
OnRandomnessFulfilled(s, r) ==
    /\ Loaded(s)
    /\ s.phase = "WAITING_RANDOMNESS"
    /\ ProcessStepResult(terms[s.sessionId], s, r, FALSE, balanceOf, allowance,
                         gain[s.sessionId])
    /\ UNCHANGED <<blockNumber, totalSupply, registered, currentSessionId,
                   terms, donated>>

CancelStuckRandomness(s) ==
    /\ Loaded(s)
    /\ s.phase = "WAITING_RANDOMNESS"
    /\ blockNumber > s.deadlineBlock
    /\ FinalizeSession(terms[s.sessionId].player, s, "CANCELLED",
                       s.escrowedStake, balanceOf, gain[s.sessionId])
    /\ UNCHANGED <<blockNumber, allowance, totalSupply, registered,
                   currentSessionId, terms, donated>>

ForfeitDue(s) ==
    /\ Loaded(s)
    /\ s.phase = "WAITING_PLAYER_ACTION"
    /\ blockNumber > s.deadlineBlock

ForfeitExpiredSession(s, quote) ==
    /\ ForfeitDue(s)
    /\ FinalizeSession(terms[s.sessionId].player, s, "FORFEITED",
                       ForfeitPayout(s, quote), balanceOf, gain[s.sessionId])
    /\ UNCHANGED <<blockNumber, allowance, totalSupply, registered,
                   currentSessionId, terms, donated>>

\* forfeitExpiredSessions with two snapshots (bound: the array's length): one
\* transaction, so the second settlement sees the balances the first one left,
\* the same session cannot come twice, and one failure undoes both.
ForfeitExpiredSessions(s1, q1, s2, q2) ==
    LET pay1 == ForfeitPayout(s1, q1)
        pay2 == ForfeitPayout(s2, q2)
        bal1 == AfterSettlement(balanceOf, terms[s1.sessionId].player, s1, pay1)
    IN  /\ ForfeitDue(s1) /\ ForfeitDue(s2)
        /\ s1.sessionId # s2.sessionId
        /\ CanSettle(balanceOf, s1, pay1)
        /\ CanSettle(bal1, s2, pay2)
        /\ balanceOf' = AfterSettlement(bal1, terms[s2.sessionId].player, s2, pay2)
        /\ sessionCommitments' = [sessionCommitments EXCEPT
                                    ![s1.sessionId] = None, ![s2.sessionId] = None]
        /\ settled' = [settled EXCEPT
             ![s1.sessionId] = [phase |-> "FORFEITED", payout |-> pay1],
             ![s2.sessionId] = [phase |-> "FORFEITED", payout |-> pay2]]
        /\ gain' = [gain EXCEPT ![s1.sessionId] = @ + pay1,
                                ![s2.sessionId] = @ + pay2]
        /\ UNCHANGED <<blockNumber, allowance, totalSupply, registered,
                       currentSessionId, terms, advanced, donated>>

\* registerGame is permissionless, and an empty name takes a game off the list.
RegisterGame(game, named) ==
    /\ registered' = IF named THEN registered \cup {game}
                              ELSE registered \ {game}
    /\ UNCHANGED <<blockNumber, tokenVars, sessionVars, donated>>

\* Nothing stops a mint or a transfer straight to one of the contracts.
Donation(to, amount) ==
    IF to \in {Host, Vault} THEN [donated EXCEPT ![to] = @ + amount] ELSE donated

Mint(to, amount) ==
    /\ totalSupply + amount <= UINT_MAX
    /\ totalSupply' = totalSupply + amount
    /\ balanceOf' = [balanceOf EXCEPT ![to] = @ + amount]
    /\ donated' = Donation(to, amount)
    /\ UNCHANGED <<blockNumber, allowance, registered, sessionVars>>

Approve(p, amount) ==
    /\ allowance' = [allowance EXCEPT ![p] = amount]
    /\ UNCHANGED <<blockNumber, balanceOf, totalSupply, registered,
                   sessionVars, donated>>

Transfer(p, to, amount) ==
    /\ amount <= balanceOf[p]
    /\ balanceOf' = Moved(balanceOf, p, to, amount)
    /\ donated' = Donation(to, amount)
    /\ UNCHANGED <<blockNumber, allowance, totalSupply, registered, sessionVars>>

Mine ==
    /\ blockNumber < MaxBlock
    /\ blockNumber' = blockNumber + 1
    /\ UNCHANGED <<tokenVars, registered, sessionVars, donated>>

-----------------------------------------------------------------------------
\* The deployment: games registered, players and vault funded.
Init ==
    /\ blockNumber = 0
    /\ balanceOf = [a \in Accounts |-> IF a = Host THEN 0
                                       ELSE IF a = Vault THEN Bankroll ELSE Purse]
    /\ allowance = [p \in Players |-> 0]
    /\ totalSupply = Cardinality(Players) * Purse + Bankroll
    /\ registered = Games
    /\ currentSessionId = 0
    /\ sessionCommitments = [s \in Ids |-> None]
    /\ terms = [s \in Ids |-> None]
    /\ advanced = {}
    /\ settled = [s \in Ids |-> None]
    /\ gain = [s \in Ids |-> 0]
    /\ donated = [a \in {Host, Vault} |-> 0]

Next ==
    \/ \E p \in Players, game \in Games, wager \in Wagers, cap \in Caps,
          r \in StepResults : OpenSession(p, game, wager, cap, r)
    \/ \E s \in advanced, r \in StepResults :
          SubmitAction(s, r) \/ OnRandomnessFulfilled(s, r)
    \/ \E s \in advanced : CancelStuckRandomness(s)
    \/ \E s \in advanced, q \in ForfeitQuotes : ForfeitExpiredSession(s, q)
    \/ \E s1, s2 \in advanced, q1, q2 \in ForfeitQuotes :
          ForfeitExpiredSessions(s1, q1, s2, q2)
    \/ \E game \in Games, named \in BOOLEAN : RegisterGame(game, named)
    \/ \E a \in Accounts, amount \in Grants : Mint(a, amount)
    \/ \E p \in Players, amount \in Approvals \cup {UINT_MAX} : Approve(p, amount)
    \/ \E p \in Players, a \in Accounts, amount \in Grants :
          Transfer(p, a, amount)
    \/ Mine

Spec == Init /\ [][Next]_vars

-----------------------------------------------------------------------------
\* Properties

\* Every variable holds values of its type.
TypeOK ==
    /\ blockNumber \in Nat
    /\ balanceOf \in [Accounts -> Nat]
    /\ allowance \in [Players -> Nat]
    /\ totalSupply \in Nat
    /\ registered \subseteq Games
    /\ currentSessionId \in 0..UINT64_MAX
    /\ sessionCommitments \in [Ids -> Snapshots \cup {None}]
    /\ terms \in [Ids -> Terms \cup {None}]
    /\ advanced \subseteq Snapshots
    /\ settled \in [Ids -> Settlements \cup {None}]
    /\ gain \in [Ids -> Int]
    /\ donated \in [{Host, Vault} -> Nat]

\* A session is open exactly while the contract holds a commitment for it; its
\* snapshot is one that was emitted, keeps to the quoted caps, and the player is
\* out of pocket by exactly the escrow it records.
SessionsConsistent ==
    \A k \in Ids :
        LET c == sessionCommitments[k]
        IN  IF k <= currentSessionId
            THEN /\ terms[k] # None
                 /\ c = None <=> settled[k] # None
                 /\ c # None => /\ c.sessionId = k
                                /\ c \in advanced
                                /\ WithinCaps(c, terms[k])
                                /\ gain[k] = -c.escrowedStake
            ELSE c = None /\ settled[k] = None /\ terms[k] = None /\ gain[k] = 0

\* Whatever was emitted for an open session, the committed snapshot is the one
\* with the highest step, and the only one with that step.
CurrentIsLatest ==
    \A e \in advanced :
        LET c == sessionCommitments[e.sessionId]
        IN  /\ e.sessionId <= currentSessionId
            /\ c # None => /\ e.step <= c.step
                           /\ e.step = c.step => e = c

\* What the host holds for a session.
HeldFor(s) == IF sessionCommitments[s] = None THEN 0
              ELSE sessionCommitments[s].escrowedStake

Held == [s \in Ids |-> HeldFor(s)]

\* The host owns exactly the escrow of all open sessions together, apart from
\* tokens somebody gave it unasked: no path through open, step, settle, cancel
\* or forfeit leaks tokens into or out of the contract (LocalCasinoHost keeps
\* no total, so nothing in the code compares the two).
EscrowBacked == balanceOf[Host] = donated[Host] + SumFunction(Held)

\* What each session came to for its player, 0 while it is open.
Outcomes == [s \in Ids |-> gain[s] + Held[s]]

\* The house's books: the vault has won exactly what the players of all closed
\* sessions together lost, and paid exactly what they won; no transfer,
\* settlement or refund on the way creates or destroys a token, also when sender
\* and receiver are the same account.
HouseBooksBalance ==
    /\ balanceOf[Vault] = Bankroll + donated[Vault] - SumFunction(Outcomes)
    /\ totalSupply = SumFunction(balanceOf)

\* However the other sessions went, and however empty the vault is, returning
\* an open session's own escrow cannot revert: cancelStuckRandomness always
\* works once the deadline has passed.
RefundNeverBlocked ==
    \A s \in advanced : Loaded(s) => CanSettle(balanceOf, s, s.escrowedStake)

\* A snapshot that was superseded never becomes current again, so an echo of
\* an old snapshot, and a second or late answer to an old randomness request,
\* is refused forever (the step counter makes every snapshot unique).
StaleSnapshotsStayStale ==
    [][\A s \in advanced : ~Loaded(s) => ~Loaded(s)']_vars

\* Seen from outside, a session is a custody account: see SessionCustody.
SessionStatus == [s \in Ids |-> IF s > currentSessionId THEN "unopened"
                                ELSE IF settled[s] = None THEN "open"
                                ELSE "closed"]
SessionLimits == [s \in Ids |->
                    IF terms[s] = None THEN [loss |-> 0, win |-> 0]
                    ELSE [loss |-> terms[s].maxEscrowStake,
                          win |-> terms[s].maxReservedProfit]]

Custody == INSTANCE SessionCustody WITH
    status <- SessionStatus, stake <- Held, limits <- SessionLimits

\* The host implements the custody account: money moves only while a session
\* is open, it settles once, and the outcome stays between the caps quoted
\* when it was opened.
ImplementsCustody == Custody!CustodySpec
=============================================================================
