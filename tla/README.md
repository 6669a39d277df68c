# Verification of the casino simulator and its games

TLA+ models, model-checking runs and machine-checked proofs for the code in
`src/`: the casino host contract, the LEDGE contract, the simulator that shows
a game the state of its sessions, the two example games, and the local node,
scripts and checks around them. `PROJECT.json` lists the runs, the mutants, the
map from each definition to the source lines it stands for, the hazards, the
findings and the theorems.

Contents: 1 the system, 2 the modules, 3 the runs, 4 the proofs, 5 findings and
other limits met in the code, 6 what is not modelled, 7 what is left.

## 1. The system

A player opens a *session* with a stake on a game contract. The host contract
escrows the stake, asks the game what to do next, and moves through
`WAITING_RANDOMNESS` and `WAITING_PLAYER_ACTION` until the session is settled,
forfeited or cancelled. The simulator follows the contract's events on two
channels, a prompt one ("flashblock") and a lagging one ("indexed"), merges
what they say and hands a list of sessions to the game, which runs in an
iframe.

```
 game (iframe)  <-- snapshot / methods --  host (React)  -- transactions -->  LocalCasinoHost
 useLedgeRound    use-game-bridge          use-game-host, runtime.sendQueue     | callbacks | requests
 coinflip App                              balance-hold, use-round-ledger    LedgeGame   router
 (frame height)                            use-host-snapshot                 CoinflipGame (external)
                                           session-store, patches, memos
                                                ^
 simulator page  -- start/restart -->  runtime  +---- session-events (poller) <---- logs
      ^ deployed.json
 local node: boots the chain, deploys, watches the folder of game contracts
```

Everything in the simulator is asynchronous and JavaScript runs one callback at
a time: a step of its models is the code between two awaits, timers or renders.
A step of a contract model is one transaction.

| Component | State it keeps | Hard behaviour | What makes it correct |
|---|---|---|---|
| Host contract and token, `LocalCasinoHost.sol`, `LocalTestToken.sol` | one commitment per session, balances, allowances; the session itself is echoed by every caller | anybody echoes any old snapshot; the router answers late, twice or never; answers race with cancels and forfeits; the vault may be empty; games return anything | only the newest snapshot counts; each session ends once, within the caps quoted at opening; the contract holds exactly the open escrows; refunds always work |
| LEDGE contract, `LedgeGame.sol`, mirrored in `examples/ledge/src/lib/ledge.ts` | none | rejection sampling at the end of a seed, lanes without coins, the reserve of many lanes | no byte decides two lanes, lanes fall by their own draw, every outcome is covered |
| Event feed, `session-events.ts` | next block, seen logs, timers | failing calls between two awaits, retried ranges, lags that change, `stop` inside an await | each log once, in chain order, none lost, quiet after `stop` |
| Session store, patches, published snapshot, `session-store.ts`, `flashblock-session-patch.ts`, `use-host-snapshot.ts`, `monotonic-session-items.ts`, `optimistic-casino-session.ts` | a row and a patch per session, optimistic rows, two memos | the channels are at different points of one history; rows, patches and optimistic rows come and go on their own; the wallet comes and goes | what is shown agrees with the chain; a round in play never vanishes, goes back or loses its result |
| Host methods, `use-game-host.ts`; send queue, `runtime.ts` | bets being sent, the remembered session bytes, the queue | hash, receipt and event of a bet in any order; a send that fails after it landed; batches that wait for each other | a live bet keeps its row, actions carry the newest state, each bet spends its own approval |
| Balance ledger, `balance-hold.ts`, `use-round-ledger.ts` | confirmed balance, active rounds, queued reveals | stale reads, reveals before rows, refunds after a reset | the balance shown is what is on chain, less payouts not revealed yet |
| LEDGE guest and page, `useLedgeRound.ts`, `App.tsx`, `useSessionStats.ts`; bet limits, `bet-limits.ts` | phase, latch, timers; board, stake, statistics | double clicks, answers after the timeout, limits that change while the player edits | a result belongs to its own bet and is revealed once; a shown limit is exact; statistics count each round once |
| Coinflip guest, `coinflip-public/src/App.tsx` | phase, landing | a row that fills in part by part, a cancelled row with a refund | what is shown is how the round was settled |
| Local node and contracts watcher, `local-node/index.ts`, `game-contracts.ts` | processes, deployed revisions, `deployed.json` | edits during a deployment, failing calls, crashes between two writes | what is published is usable; a dropped file shows up |
| Simulator page, `App.tsx`, `SetupPanel.tsx`; bridge, `use-game-bridge.ts`; frame height | the running harness; last pushed snapshot; heights | answers out of order, restarts, a push lost, measures that feed back | one runtime; the guest follows; the frame settles on the game's height |
| Verification, `randomness-verification.ts`, `verify-network-*.ts`; session codec | none beyond a request | several fulfilments in one transaction, failing reads, values at their bounds | valid exactly for honest answers; decode inverts encode |
| Deploy script, `deploy-ledge.ts` | `deployments.json` | killed runs, reverted or slow transactions | a recorded contract exists on the chain it is recorded for |

## 2. The modules

| Module | Models | Lines |
|---|---|---|
| `CasinoHost` | host contract and token, for arbitrary games | 485 |
| `SessionCustody` | abstract specification of one stake, in four actions | 76 |
| `LedgeGame`, `LedgeSampler`, `LedgeRounds` | LEDGE's pure part, its draw loop, and the host with that game | 71, 140, 115 |
| `SessionFeed` | the event poller | 350 |
| `SessionViews`, `HostSnapshot` | rows, patches and optimistic items as operators; bets, channels, rendering, memos | 206, 480 |
| `BalanceLedger`, `HostLedger` | the store of the balance as operators; the host around it | 51, 473 |
| `SendQueue` | `sendActions` and its queue | 135 |
| `LedgeGuest`, `LedgePage`, `BetLimits` | the round of the LEDGE game, its page, the SDK's limit | 312, 274, 64 |
| `CoinflipMath`, `CoinflipGuest` | coinflip bets; the coinflip page | 39, 240 |
| `LocalNode`, `SimulatorShell` | launcher, watcher and `deployed.json`; the page that starts the harness (extends `LocalNode`) | 289, 182 |
| `GameBridge`, `FrameHeight` | connection and pushes to the frame; the frame's height | 131, 177 |
| `Ecvrf`, `RandomnessVerification` | the proof system; what the page concludes from a transaction (extends `Ecvrf`) | 78, 253 |
| `SessionCodec` | bytes of a session | 203 |
| `DeployScript` | `deploy-ledge.ts` | 132 |
| `SumFacts` | lemmas: sums of a function over a finite set | 450 |
| `CasinoHost_proofs`, `HostLedger_proofs` | theorems about the module named | 1460, 2927 |
| `SessionFeed_proofs` | theorems about `SessionFeed` and about `SessionCodec` | 3930 |
| `LedgeGame_proofs` | theorems about the LEDGE modules (sampler, rounds, page with limits and statistics) and the deploy script | 2383 |
| `HostViews_proofs` | theorems about `HostSnapshot` with `SessionViews`, and about `RandomnessVerification` with `Ecvrf` | 7065 |
| `Guests_proofs` | theorems about `LedgeGuest` and `CoinflipGuest` | 1068 |
| `Simulator_proofs` | theorems about `SimulatorShell`, `LocalNode` and `SendQueue` | 1416 |
| `MC_*` | values of the constants, and the choice between scenarios or parts | |

**CasinoHost.** A transaction is atomic, so an action is enabled exactly where
the call succeeds, and its primed state is the state after the whole call. The
contract stores `keccak256(encode(session))`; hash and codec are injective on
values in range, so `sessionCommitments` holds the snapshot itself, and the
codec's range checks are the guard `Encodable`. Fields fixed at opening
(player, caps) are kept apart in `terms`. Game data, game state and risk quotes
are only copied by the host and left out. `StepResults` is whatever a game
callback may return; `advanced` is every snapshot ever emitted, and any of them
may be echoed by anyone or answered by the router at any time.
`ProcessStepResult` follows `_processStepResult` in its order. `settled`,
`gain` and `donated` are histories. A batch forfeit is modelled with two
snapshots: the second settlement sees the balances the first one left, and one
failure undoes both.

**SessionCustody** is the abstract specification: a session is unopened, open
or closed; while open the player is out of pocket by exactly what is held; when
it closes, the outcome lies between the caps fixed at opening. `CasinoHost`
implements it (`Custody == INSTANCE SessionCustody WITH ...`).

**LedgeGame, LedgeSampler, LedgeRounds.** The numbers are those of the source.
In the sampler a seed is a number and the three bytes read from it may be any
of `Values`: keccak256 is a source of fresh bytes, and what is checked is which
bytes are used for what. In `LedgeRounds` the randomness is the set of lanes
that topple; its actions are those of `CasinoHost` with the results `LedgeGame`
returns, so a round is a behaviour of the host (proved).

**SessionFeed.** One coroutine, whose variable `mode` says at which await it
is. `start` replays history on the indexed channel; `poll` fetches the range
since the last poll that went through and sends each log not `seen` with the
lag of each channel. Failing calls: those inside `start`, the head and log
queries of `poll`, a block's timestamp.

**SessionViews, HostSnapshot.** The chain is external: it takes any step
`CasinoHost` allows for a session of one player and one game (`IsHistory` says
what such a chain looks like, for the histories a behaviour may start with). Game
state and random words are named by the step that made them, so "later" compares
numbers.
`Bet`, `Accept`, `Receipt` and `Fail` are the pieces of `openSession` between
its awaits; `FlashDeliver` and `IndexDeliver` apply an event to patch and row;
`Render` is the whole of `useHostSnapshot` on the present inputs, and the
pruning effect belongs to the render that changed the rows.

**BalanceLedger, HostLedger.** The operators are the methods of the balance
store. `HostLedger` adds what calls them: bets and actions whose sends fail
before or after they land, balance reads that answer late, rows and patches,
reveals, the effect that tracks rounds, a wallet that comes and goes, and a host
mounted anew, for the same account or another (the scope reset). `LedgerExact`
compares the store with the chain, with a history of what is still owed to the
display. On the chain a session goes from step to step by actions of the player
and by answers of the router (`RouterAdvances`): `turns`, chosen at the start,
says at which steps it waits for the player, so the router may answer between
any two actions, with rows, patches and receipts older or newer than one
another. A round found at load is at any step its bounds allow, its player's
turn or not. Either step may return a part of the escrow. The receipts' bytes
are a bounded map (`snapshots`, 64 entries in the code) whose oldest entry goes
(`Evicted`). `untold` is a history: the newest step an action of the player's
led to that no receipt in memory tells of, because its send failed, the host was
unmounted, the session was evicted or the page loaded later.
`ActionsEchoTheChain` says that an action never echoes a state its player has
already acted on, except below `untold`.

**SendQueue.** Each batch awaits the one before, then broadcasts its actions
one after the other's receipt. A call may fail before or after its transaction
got in, a transaction may revert, and a batch whose receipt is lost leaves its
transaction behind.

**LedgeGuest, CoinflipGuest.** The page between two of its awaits, timers or
renders, against a host that answers late or never, refuses, and pushes rows
whose parts (phase, word, payout) arrive apart. The LEDGE guest has its demo
without a host, the cascade of lanes, the 45 s timeout and the recovery of
stuck rounds.

**LedgePage, BetLimits.** The board the player edits, stake and limits as the
casino publishes them, drops, the next round, statistics. `ComputeMaxWager` is
the SDK's function; `FacetAccepts` is the check of the deployed host, stated on
its own, against which it is judged. Amounts are whole units and a multiplier
is an exact fraction.

**LocalNode, SimulatorShell.** The launcher's `main` with its chain and router
processes, deployment of the base contracts, `deployed.json`, the folder that a
developer edits, the watcher's debounce and queue, shutdown and crash, then the
page that polls `deployed.json`, fills its form and starts and restarts the
harness. A chain may come up whenever there is none. One that main spawned ends
main with its own end; one that main only found has no exit handler, so another
chain may take its place under a process that goes on, which the history
`replaced` remembers. What that process then sends to contracts of the old chain
reaches them, nobody, or whatever has the same address on the new one (`Calls`).

**GameBridge, FrameHeight.** One connection per frame element; pushes are
skipped when the snapshot was sent already. Reports of height go through
rounding and through the hint of the frame's own size back to the game.

**Ecvrf, RandomnessVerification.** The group is given by exponents of its
generator modulo its prime order, the digests are parameters. Signatures are
symbolic. The verification model has a transaction with logs and calldata of
one or more fulfilments, reads that fail, and the verdict per request. A
scenario is honest about two things (`VerificationAssumption`, which TLC
evaluates): no log holds a proof that passes under the assigned node's key and
is not that node's (`Unforged`, what an ECVRF promises), and a request marked
honest was answered by the node it was assigned to, with its own proof
(`HonestRequest`).

**SessionCodec.** Fields with their widths, bytes of base `BYTE`. A number is
shifted digit by digit to be written (`Shifted`) and summed up digit by digit to
be read (`uint`); it fits if nothing is left after its width. What decode throws
on is `WellFormed`: too short, truncated, or bytes left over. The actions are
what may happen to the bytes on their way: nothing, a cut, an extension, or a
writer that sets flags this reader does not know.

**DeployScript.** `main` from its configuration to the file, as calls that may
fail, with the process killed at any point and started again.

Operators whose comment begins "Mutation:" are plausible bugs in the definition
that follows them; no specification uses them, and `PROJECT.json` names the
property each of them breaks.

## 3. The runs

| Run | States | Properties | What it shows |
|---|---|---|---|
| `host` | 311,594 | `TypeOK` `SessionsConsistent` `EscrowBacked` `HouseBooksBalance` `RefundNeverBlocked` `StaleSnapshotsStayStale` `ImplementsCustody` | Three scenarios: one session of a game that may return any combination of deltas, phases and payouts, three steps so that it can come back to a phase it left; two players and a vault that cannot pay both, with batch forfeits; mints, transfers, approvals and the zero wager around sessions. |
| `feed` | 135,370 | `ChainOrder` `FlashblockFirst` `QuietAfterStop` `NothingLostToPolls` | Three blocks of two logs and two failing polls with fixed lags; one log per block with lags that change and any call failing. |
| `snapshot` | 831,951 | `ShownAsOnChain` `ResultNeverRegresses` `BetStaysVisible` `RoundStaysListed` `NoStepBack` | Each channel in order and either ahead: one bet of up to three steps, or two bets, or a round found at load that goes on, alone or beside a bet, while the wallet goes and comes back. Events in any order, also of a round found at load: two bets whose sends fail before or after they land, a wallet that goes and comes back, room for one entry per map and one row. |
| `host_ledger` | 4,887,893 | `LedgerExact` `ActiveRoundsHaveAnOwner` `ActionsEchoTheChain` | Two bets; or a bet beside a round found at load at its first or second step, with an action, a wallet that leaves and returns, another address and a second mount; the same with a round that waits for the router first; or two actions of one round with the router's answer between them and escrow returned in part; or a bet that evicts the receipts of a round found at load, which is acted on twice. |
| `guests` | 155,823 | `ResultsStayWithTheirBets` `ShownAsSettled` `EveryRoundIsRevealed` `EveryRoundResolves` | Two LEDGE bets, framed or not, with and without motion; one coinflip whose row lags part by part, or two. |
| `simulator` | 301,456 | `PublishedIsUsable` `OneRuntime` `EachBetSpendsItsOwnApproval` `DroppedGamesShowUp` `GuestFollows` `FrameFollowsTheGame` `EveryBatchSettles` `ResultIsShown` | A developer's edits against the watcher with a failing call, boots and crashes, a chain found running that another one replaces, two starts of the harness; two frames and a lost push; frames with rounding and a turn of fullscreen; three batches and two faults; one bet whose channels lag. |
| `ledge_and_checks` | 244,716 | `EveryOutcomeSettles` `RoundsEnd` `FreshBytes` `OutcomeFollowsDraws` `LimitIsRight` `StatsTellTheRounds` `DeploymentsAreInOrder` `VerdictIsRight` `CodecIsExact` | Two rounds on three boards; the draws of all 126 allocations; the page with every kind of limit; the deploy script on two chains; honest and flawed fulfilments, single and batched; every field of a session at and beyond its bounds. |
| `feed_block_fault` | violation | `NothingLost` | finding 1 |
| `snapshot_disconnected` | violation | `EmptyWithoutWallet` | finding 2 |
| `coin_cancelled` | violation | `CancelledIsNoWin` | finding 3 |
| `frame_wide` | violation | `FrameShrinksBack` | finding 4 |
| `snapshot_second_bet` | violation | `NeverBackToIdle` | finding 5 |

Each property is stated in words at its definition. In `host`, `feed`,
`snapshot`, `host_ledger` and the guests a behaviour chooses one of several
settings at its start, so that each question has bounds of its own. `guests`,
`simulator` and `ledge_and_checks` hold components that share no state: a
behaviour is one of a single part and the others rest, which checks each of
them on its own. The parts that do share state are composed by extension:
`LedgeRounds` on `CasinoHost`, `SimulatorShell` on `LocalNode`, `LedgePage` on
`BetLimits`, `HostLedger` on `BalanceLedger`, `HostSnapshot` on `SessionViews`,
`RandomnessVerification` on `Ecvrf`.

**Bounds.** Every bound is a constant or a field of a setting, used in a guard:
`MaxBlock(s)`, `MaxSeed`, `MaxFaults`, `MaxSendFaults`, `MaxBets`, `MaxRuns`,
`MaxMounts`, `MaxContent`, `MaxRebuilds`, `MaxLost`, the fields of `Settings`,
`Budgets`, `Pages`, `Sittings`, and the integer widths. The small widths are
part of the question: amounts that do not fit revert as they do in the
contract. Two sessions are enough for the contract because sessions share only
balances (the proofs confirm it for any number). One bet of two steps has
every relative position of row and patch: absent, behind, equal, ahead,
settled. Two bets, two frames, two starts, two faults are the smallest numbers
with an overlap, and an overlap of three adds no new pair. The round found at
load has a word and waits for the next one: each of its later events can come on
either channel first. Seeds of eight bytes
leave two spare bytes after two draws, as 32 bytes do after ten; the three-byte
values lie on both sides of each boundary. The group of order 13 with digests
below 11 makes wrong proofs that pass by chance rare but possible: the
scenarios of `VerdictIsRight` are fixed, and what holds for every group is the
theorem `HonestProofVerifies`. `OPEN_LIMIT` (32 in the source), the list's
limit (50) and the receipts remembered (64) are 1 where their overflow is the
question. Three steps with the router's turn in the middle are the fewest in
which an answer comes between two actions. The setting with an eviction has no
ends: what ends do does not depend on receipts. One replaced chain
(`chains`) is enough for a file that names what is not there.

**Deadlock.** Every run has `CHECK_DEADLOCK FALSE`: chains, edits and bets are
bounded, and a behaviour in which all rounds are over, the feed is stopped or
the script has ended rests there, as the system does.

**Fairness**, and why the code justifies it:

- `SessionFeed`: the event loop runs (`Proceed`, `Clock`). That the number of
  failing calls is bounded says that the RPC does not fail forever.
- `HostSnapshot`: the timers of the indexed channel fire, React renders and
  runs its effects. Nothing is assumed of the flashblock channel, of sends or
  of the chain.
- `LedgeRounds`: blocks keep coming, and somebody cancels a round that stays
  stuck (the call is open to anyone). Nothing is assumed of the randomness.
- `LedgeGuest`, `CoinflipGuest`: React renders, timers fire, and a row the host
  has is pushed in the end. Answers of the host may never come.
- `LocalNode`, `SimulatorShell`: timers and the promise queue go on, every call
  returns or fails; the page's interval polls. No developer, crash or click is
  fair.
- `GameBridge`, `FrameHeight`: a message posted to a frame that is there
  arrives, or is counted as lost; animation frames come.
- `SendQueue`: a broadcast is tried, a transaction in the pool is mined, and its
  receipt is read, or one of these fails.

## 4. The proofs

All hold for every value of the constants that the modules' `ASSUME`s allow,
and nothing is taken on trust: the lemmas down to division with remainder are
proved in the modules.

| Module | Theorem | Says |
|---|---|---|
| `CasinoHost_proofs` | `TypeCorrect` | no balance, escrow or reserve is ever negative |
| | `SessionsAgree` | a commitment exists exactly while the session is open, and the player is out of pocket by the recorded escrow |
| | `EscrowSafety` | the host's balance is the sum of the open escrows plus what was donated |
| | `BooksSafety` | what the vault holds is its bankroll less what the sessions gained, plus donations: nothing is created or lost |
| | `RefundSafety` | returning an open session's escrow cannot revert |
| | `ReplaySafety` | a superseded snapshot is never current again |
| | `CustodyRefinement` | `Spec` implements `SessionCustody` |
| `LedgeGame_proofs` | `FairDraw` | every draw below the denominator has the same number of three-byte preimages |
| | `EveryRoundReturnsIt` | 96% for every allocation |
| | `FreshBytesAlways` | no byte decides two lanes, for every seed length |
| | `OutcomeIsDrawn` | each lane with coins has one draw and falls exactly by it; the multiplier is the prize of the fallen lanes |
| | `ReserveCoversEveryOutcome` | the reserve covers the payout of every set of an allocation's lanes |
| | `RoundsRefineHost` | `LedgeRounds` is a `CasinoHost`: all theorems of the host hold for it |
| | `RoundsAgree`, `PayoutSafety`, `SettlementSafety` | escrow and reserve of an open round; what a closed one paid; no outcome reverts while the vault holds the reserve |
| | `LimitIsSafeForEveryGame` | a wager up to the limit is accepted, for every multiplier, also between basis points |
| | `LimitIsExactForLedge` | for a whole multiplier the limit is the largest accepted wager |
| | `LimitShownIsRight`, `BetsLeaveWithinLimits` | so is the limit on screen, whatever is edited; and every bet sent is legal under it |
| | `StatsSafety` | every settled round is counted once; history strip, best payout and streaks are those of the rounds, for any number of them |
| | `DeploymentSafety` | a chain's file names a contract deployed on that chain, whatever runs were killed |
| `SessionFeed_proofs` | `NoGap` | the logs seen are the first ones of the chain, and blocks that are not asked for again were taken in whole |
| | `OrderSafety` | no channel gets a log twice, and with lags left alone each gets them in chain order |
| | `FlashblockSafety` | while its lag is the smaller one, the flashblock channel has each log first |
| | `StoppedFeedIsQuiet` | nothing is sent once the feed is stopped and its replay is over |
| | `SessionsReadBack` | decode returns the session that was encoded, for every session that fits |
| | `AcceptedBytesAreCanonical` | encode writes the bytes that decode accepted, but for unknown flags |
| | `AcceptedBytesHaveNoPrefix` | no accepted byte string is the beginning of another |
| | `FixedLengthIsRight` | the constant 235 is the sum of the source's widths |
| | `CodecExactness` | the three together, of bytes on their way |
| `HostViews_proofs` | `ViewSafety` | a round is shown as one step of the chain left it, its result in one piece |
| | `ResultSafety` | a published result never regresses |
| | `ListSafety` | a round that was shown stays in the list |
| | `BetSafety` | the round of a bet that has come back is in every snapshot published, and a proven open keeps its row when its send fails; with channels in order, or one bet in any order |
| | `StepSafety` | a round that is shown never leaves the list and never goes back to an earlier step, nor, with one bet placed, to the idle phase, a bet's round also to no earlier word; for any number of bets and steps, for any rounds found at load (these also while the wallet comes and goes), channels in order |
| | `VerdictSafety` | a request shown as valid has the word its node's key determines, an honest answer is never shown as invalid, a failed read leaves the request unchecked |
| | `HonestProofVerifies` | a proof made with the key's secret passes `verify()`, for every group and digests |
| `HostLedger_proofs` | `HostSafety` | the invariant `HostInv` below |
| | `LedgerSafety` | the balance shown is exact |
| | `OwnerSafety` | every round that holds the balance back has a call or a tracked session that will let it go |
| | `EchoSafety` | an action that echoes a state which waited for the player echoes the newest, however the router, the channels, evictions and remounts come between; only below a step no receipt in memory tells of may an earlier one be echoed again |
| `Guests_proofs` | `GuestSafety` | a revealed result is that of its bet, and is revealed once |
| | `CoinSafety` | what the coinflip page shows is how the round was settled |
| `Simulator_proofs` | `ShellSafety` | at most one runtime is alive, the one on screen |
| | `NodeSafety` | while its process runs, what `deployed.json` names can be used: always on a chain that main spawned, and on a chain it found until somebody puts another in its place |
| | `ApprovalSafety` | a bet finds the allowance approved for it, for any number of batches, faults and reverts |

**The host's argument.** `SessionInv` is `TypeOK`, `SessionsConsistent` and
`CurrentIsLatest`. `SessionsConsistent` alone is not inductive: that a step's
snapshot is new needs that the committed one has the highest step of its
session. Every action is first shown to do one of four things to a session:
open it, move it, end it (or two of them) or leave all alone (the `...Effect`
lemmas); invariant steps and refinement follow from that classification.
`RefundSafety` follows from `EscrowBacked`.

**Sums.** `EscrowBacked`, `HouseBooksBalance` and `LedgerExact` are about sums
over finite sets, which the community modules define by a recursive function.
`SumFacts` proves what such a sum is (zero over the empty set, and the summand
more with an element more, in whatever order) without an induction theorem:
on a smallest counterexample, which exists because the strict subsets of a
finite set are well-founded. A step then moves one summand, or two.

**LEDGE.** `PrizeSum` is monotone in the set of lanes and the wager multiplies
it, which gives the reserve. `RoundsInv` ties each open round to its wager and
board. `FreshInv` says that every draw lies before the cursor in the chain of
seeds; `OutcomeInv` that the fallen lanes lie below the current one. The ASSUME
of `LedgeRounds` says that what LEDGE returns is among the results `CasinoHost`
allows: a condition on the constants of a model, not on the code.

**Limits.** `ComputeMaxWager` rounds the multiplier up to basis points and
divides down. `RoundedUp` and `BoundIsSafe` show that both roundings are on the
safe side; when the multiplier is whole the first is exact and the second loses
nothing. `PageInv` adds that board and stake are well formed and that every
drop was within the limits at its time.

**SendQueue.** `QueueInv` says that batches behind the head have sent nothing
(`Waiting`), that the head awaits the last transaction of all or has seen the
one before its next action succeed (`Turn`), and that whatever opens a session
was sent after its own approval was mined (`Approved`). The assumption is what
the host does: in a batch each open is preceded by its approval.

**Page statistics.** The recording effect runs after the render that settled a
round, and once more when it changed the streak. `Recording` says that the
statistics tell the rounds `outcomes`, or all but the last one while the effect
has still to see it (`ToRecord`); `Tells` has one part per number shown, and one
lemma per part takes it over one more round (`HistoryGoesOn`, `BestGoesOn`,
`StreakGoesOn`, `LongestGoesOn`; the longest streak needs the present one).

**Feed.** `FeedInv` has the logs seen as an initial piece of the chain
(`SeenAreFirst`), every block before `fromBlock` inside it (`Covered`), the batch
as the rest of a range (`BatchIsRange`), and what was sent or will be
(`SentInv`): timers are sorted by the time left, a log is once per channel in
what was delivered and timed together, and an indexed timer follows each
flashblock timer. Chain order needs that the sliders are not moved
(`LagsLeftAlone`), and the flashblock lead that its lag is the smaller one
(`LagsInOrder`); both are hypotheses inside the properties because the user
may do otherwise. `NoTimerLeft` (a stopped feed has no timer) gives
`StoppedFeedIsQuiet`.

**Codec.** Both directions go through one relation, `Encodes(w, s)`: which byte
of `w` is which digit of which field of `s`. What encode returns has this layout
(`EncodeLaysOut`; the concatenation of the fields is built up by `LayOut`, one
field after the other), no two byte strings have it (`OneEncoding`, because every
place belongs to one field), what has it is read back (`ReadBack`), and what is
accepted has it for the session read, once its unknown flags are cleared
(`AcceptedIsWritten`). Below are the digits: `ReadsWhatFits` and
`FitsWhatIsRead` say that the digits of a number and the number of its digits
are inverse. The model's recursive functions run over intervals; `Induction`
and `Recursion` derive what is needed about these from the well-foundedness of
`<`, without the induction theorems that take an operator. The assumption is
that a byte has more than three values (the flags take four), that widths are
positive and that the flags take one byte. `CodecInv` says what the bytes on
their way are compared to those that were written.

**Snapshot.** `ViewInv` says of each of the five layers (rows, patches,
optimistic rows, both memos) what it knows of the chain, whatever part of the
history has reached it (`LayersTell`): a settlement in one piece, or the state
and phase of one step. The merge operators keep that, one lemma each.
`ShownIsKept` says that what was shown is in one of the memos, a result in the
memo of results, from which the next render takes it. That a settlement is the
last event of its session (`IsHistory`, which the moves of the chain keep)
makes the result unique, so layers that both have it agree. The assumption
`NoneAssumption` says that the value for "absent" is none of the others.

**A bet on screen.** `BetInv` follows a bet from its send to its row. On the
chain, what a session does comes in its turn (`TurnsTaken`) and opens are those
of bets that landed (`OpensFollow`). An optimistic entry is of a live send or of
an opened session (`EntriesTell`), a bet still in play has what it will need for
its row (`InPlay`, `HasRow`), and the rows listed have an item (`RowsShown`).
The bounded maps drop the oldest entry: with channels in order, or with one bet,
that is never the live round's. `BetSafety` has this condition as its hypothesis
`InOrderOrOneBet`. The assumptions on the histories are that what they have of
each session is one session's events in their order (`IsRound`), that their
sessions were opened by no bet of this page and that there are ids left for the
bets.

**No step back.** Under `Steady` (channels in order, every row listed) the
argument goes round by round. The events of one session, in the order of the
chain, are a sequence of their own (`Projects(chain, s, h, p)`, where `p` gives
their places), and since both channels keep the order, each has delivered a
prefix of it, however the sessions interleave: `Told(s, h, p, b, f, g)` says
that these are the first `f` and the first `g` events, and which layer holds
what then (`LayersAt`). Of a round found at load the fast channel never delivers
the first `b` events, those of the history, and its patch starts from a later
one; for a bet's round `b` is 0, and only then the words of patch and row keep
pace (`WordsAt`). The wallet may come and go, except for rounds that have an
entry (`KeepsItsRow`): a render without rows gives nothing for the others and
takes them from the memos (`RenderAway`). `StepInv` has three parts: the entry
of an opened session is confirmed, so that a failed send does not take it away
(`EntriesConfirmed`); nothing is known of a session not opened (`Unknown`); and
each opened session that keeps its row is `OnScreen`. The last part makes it inductive: the row
rendered last is not ahead of the row known (`Behind`), and the item shown is
never ahead of what the layers would show now (`Ahead(Now(s), Item(s), BetAgain,
OpenedHere(s))`), where `Now` blends row, patch and entry as a render does. A
delivery moves `Now` forward, a render takes the item to `Now`, and a step about
one session leaves the others as they were. A later bet may drop a round's
entry; the round then has its indexed row (`BetsTell`, `EntryStaysNext`), so
that it stays in the list with its step and word, and only its phase may go
back: that case is `BetAgain`, and finding 5 shows that it happens. Bets are
sent one after the other, so the newest entry of a bounded map is the live bet's
and the oldest, which goes, is not. Nothing bounds bets, steps or payouts.

**Ledger.** `HostInv` goes through the sessions' life (`SessionFacts`: what is
known never runs ahead of the chain), calls of an earlier host (`CallFacts`),
whose the keys in play are (`RoundFacts`), which reads may still be adopted
(`ReadFacts`), the sum (`ExactFacts`) and the newest state known (`EchoFacts`, with
`ActionsEchoTheChain` itself beside it).
`ExactFacts` is `LedgerExact` for every value the display might start from, also
the reads on their way, as long as no stake is on its way for a round that
fell out of play (`Strays`). `EchoFacts` says that nothing known is ahead of the
chain, and that every step at which a session waited for its player, and which
it has left, is covered: a receipt in memory is newer, or `untold` is, or the
action that left it has landed and its receipt is still to come. The router
leaves only the other steps, so its answers cover nothing and need no cover; an
eviction or an unmount moves what the receipt told to `untold`. The newest state
known is then never a covered one.

**Simulator.** `ShellInv`: a start that another has overtaken is over or
cancelled (`Superseded`), and the page is about the one whose effect ran last
(`Mounted`). `NodeInv`: a chain of main's own has not been replaced
(`Spawned`), how far `main` has come on its chain
(`Progress`), that known games are registered (`Listed`) and that the file is of
this boot once the first sync is over (`Written`). The last three are about
`ItsChain`, a chain that is up and was not replaced; `Spawned` makes that of
every chain main spawned.

**Guests.** `GuestInv`: a result is on its way once (`OneReveal`); and as long
as no bet was given up and no recovery refused (`Smooth`), a bet that is asked
for is the round's (`Asked`), what is to come is the round's own (`Own`), and the
history has each bet once (`History`). `CoinInv`: rows tell parts of the truth
(`Sessions`), the round on the page moves with its bet (`Stage`) and shows what
is so (`ShowsTruth`). The assumption on the coinflip offers is that every
offered form pays something at the wager, which holds in the code from a wager
of two units of the token.

**Verification.** `CheckInv` is stated for the scenario chosen at the start: the
two reads of a request return one transaction of it (`ReadsTell`), and a verdict
is right both ways. The direction from valid to genuine rests on `Unforged`,
the other on `HonestProofVerifies`, which needs the order to be prime in one
place: no product of two points' exponents vanishes.

**Deploy script.** `DeployInv` says that a run's name is unused until it sends,
and that a receipt awaited is of the chain the run was configured for.

**Only model-checked.** Liveness, which is out of the prover's reach
(`RoundsEnd`, `NothingLostToPolls`, `ResultIsShown`, `EveryRoundIsRevealed`,
`EveryRoundResolves`, `EveryBatchSettles`, `DroppedGamesShowUp`,
`GuestFollows`, `FrameFollowsTheGame`; of `NothingLostToPolls` the safety half
is `NoGap`). Every invariant that a passing run checks is also proved.

## 5. Findings and other limits

1. `feed_block_fault` / `NothingLost`: `normalize` takes a log as seen before
   it awaits the block's timestamp (`session-events.ts:191`). If that one call
   fails, the range is retried and the log is skipped as a duplicate, although
   the comment at line 234 says that nothing is lost.
2. `snapshot_disconnected` / `EmptyWithoutWallet`: when the wallet is not ready
   only indexed rows are withheld; optimistic rows and both memos still go into
   the list, although `use-game-host.ts:64-65` says that games see the empty
   state.
3. `coin_cancelled` / `CancelledIsNoWin`: a coinflip that is cancelled carries
   the refund as its payout and is shown as a win.
4. `frame_wide` / `FrameShrinksBack`: with a frame wide enough to be capped by
   its aspect ratio, the height reached in fullscreen is reported back and the
   frame stays at its cap afterwards.
5. `snapshot_second_bet` / `NeverBackToIdle`: `openSession` drops every
   optimistic row whose session is indexed by then, whatever its phase
   (`use-game-host.ts:232`). A round placed before, whose open is indexed and
   whose first step is not, then goes back from `WAITING_RANDOMNESS` to `NONE`,
   although `optimistic-casino-session.ts:83-85` keeps that row "so the iframe
   never flashes back to an idle Bet state".

The models show further limits of the code, which no run claims as findings.
Most contradict no doc of the repository. One does in part:
`monotonic-session-items.ts:31-37` promises that no later snapshot regresses a
published round, while a bet's round may go back to phase `NONE` when the wallet
leaves (`KeepsItsRow`, below) or another bet is placed (finding 5). Where a
property has to exclude a limit, its definition or hazard says so.

- Balance: a read of the balance sampled while a round is in play becomes the
  baseline at mount (`balance-hold.ts:152`); a refund without a key, after a
  scope reset or after its round closed, adds a stake that does not exist
  (`use-game-host.ts:348`); an `openSession` in flight at unmount leaves its
  `open:` key active for good (`balance-hold.ts:120`); a win settled but not
  revealed at unmount is credited at the next reconcile only, and a failed
  reconcile read is not retried; a cancelled round stays active unless the
  game reveals it; escrow that a game returns before the end of a session is
  shown with the next reconcile only. The model counts each of these as `doubt`
  or `midRound`, which `LedgerExact` leaves out.
- Actions: what no receipt in memory tells of (its send failed, the host was
  unmounted, 64 other sessions followed, the page was reloaded) may be acted on
  again until a channel tells of it, and the contract rejects that; so it does
  an action sent while the session waits for the router.
- Queue: a harness started anew has a queue of its own, so bets of two
  runtimes are not ordered.
- LEDGE guest: an answer or refusal of `openSession` later than 45 s revives
  the round it was given up for, or hits the next bet; a refused
  `cancelStuckRandomness` that arrives late puts the next round in error, whose
  win is then not revealed; Dismiss in the tick of a Drop opens the latch. The
  limits on the page are as old as their last refresh (30 s).
- Coinflip: while a bet is opening the history strip does not withhold its row
  (`CanvasHistoryStrip.tsx:13`).
- Feed: a failing call inside `start` ends the feed silently
  (`session-events.ts:241`); the replay goes on after `stop` (`:211`).
- Snapshot: a late advance after both lags were lowered brings back an earlier
  word; so does, for a round found at load, the replay of an earlier advance
  after a settlement of the fast channel, which carries no nonce
  (`flashblock-session-patch.ts:53`; what `NoStepBack` says of words is about
  the rounds of the page's own bets); a row pushed out of the 50 shown comes
  back as an optimistic row; an indexed row faster than the bet's hash is listed
  beside the pending bet; a second bet shows no phase until its advance is
  indexed; a bet's round whose patch was pruned goes back to phase NONE when the
  wallet leaves (`use-game-host.ts:66` withholds its row, its optimistic row
  stays), so that `NoStepBack` lets the wallet go only for rounds found at load
  (`KeepsItsRow`).
- Local node: the watch starts after the initial scan (`game-contracts.ts:162`);
  a transient failure of a deployment is remembered as a broken revision; a
  file with two games may be deployed in part; an exception in a sync rejects
  the queue (`:169`). The page fills its form once per load (`App.tsx:81`). A chain
  that was already running has no exit handler (`index.ts:111-114`): replaced
  under a running process, it leaves a `deployed.json` that names contracts
  which are not there, until the next boot. `PublishedIsUsable` leaves out these
  processes, and only these (`ours \/ ~replaced`).
- Bridge and frame: a failed push counts as delivered
  (`use-game-bridge.ts:93`); a game within 2 px of the screen's height is taken
  for an echo.
- Codec: unknown flag bits are dropped. Verification: the sentinel fulfilment,
  and one called through another contract, are shown as invalid although
  honest. Deploy script: a killed run leaves a contract that is not recorded.

## 6. Not modelled

- `CoinflipGame.sol` is in the repository as bytecode only; what it pays is
  modelled from `coinflip.ts` and marked external. The router is an environment
  of `CasinoHost` that may do anything, and a party of the verification.
- Generated artifacts (ABI, bytecode); type declarations and the manifest's
  schema; the snapshot trace recorder (diagnostics: it warns of regressions
  that `HostSnapshot`'s properties rule out); interface components, layout,
  sound and theme.
- Build scripts, except the answer of the development server for
  `deployed.json`.
- In modelled components: timestamps, deadlines and hashes of rows, the order
  of the list, the `?maskWaiting` mode; the wallet's status on the LEDGE page,
  which only disables it; in `HostLedger` another tab or host of the same
  account, two `submitAction` calls of one round at a time, an action on a bet
  before its `openSession` has answered, and a settlement in the transaction of
  the open or action as one step (it is two); rounding of amounts for display; hexadecimal
  notation; the doubles behind a multiplier (exact fractions here); the
  compiler, which is a function of a file's content. Penpal's channel keeps
  order and may lose a message; one report of height is in flight at a time;
  the RPC endpoint of the deploy script serves one chain.

## 7. What is left

The plan of the first version (balance ledger, guests, watcher, limits, bridge,
proofs of the limits and of the feed) is done, with the launcher, page, frame,
verification, codec and deploy script beside it. Next would come a composition
of `LedgeGuest` with the list `HostSnapshot` publishes, in place of the rows
pushed one by one.
