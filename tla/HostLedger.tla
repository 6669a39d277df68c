----------------------------- MODULE HostLedger -----------------------------
(***************************************************************************)
(* The balance ledger at work (use-game-host.ts, use-round-ledger.ts): a   *)
(* host whose game may call any method at any time, bets whose sends fail  *)
(* before or after they land, balance reads that answer late, rows and     *)
(* patches that come at their own pace, a wallet that goes and comes back, *)
(* and a host that is mounted anew, perhaps for another account.           *)
(*                                                                         *)
(* The chain and the node are external.  A bet is named by its number, and *)
(* so is the session it opens.  What the host publishes is the subject of  *)
(* HostSnapshot; here a session's row is absent, open or over.             *)
(***************************************************************************)
EXTENDS BalanceLedger, FiniteSets, Functions, Sequences

CONSTANTS
    Bets,           \* bets and sessions, numbered
    Stake, ExtraStakes,
    Payouts,        \* what a session may return when it is over; the stake if cancelled
    Purse,          \* what an account holds when its page loads
    Settings        \* the bounds of a behaviour, one field each:
                    \* bets placed, sessions found at load, sessions that may
                    \* end, submitAction calls per session, wallet toggles,
                    \* remounts, changes of account; the steps a found session
                    \* may be at and the router may lead to, the steps at which
                    \* a game may wait for its player, what it may return of
                    \* an escrow before the end; and how many sessions' bytes
                    \* the host remembers (64)

ASSUME HostLedgerAssumption ==
    /\ Bets \subseteq Nat \ {0} /\ IsFiniteSet(Bets)
    /\ None \notin Int \cup ({"open", "resume"} \X Bets)
    /\ Stake \in Nat \ {0} /\ ExtraStakes \subseteq Nat /\ Stake \in Payouts /\ Payouts \subseteq Nat
    /\ Purse \in Nat
    /\ Settings \subseteq [bets : SUBSET Bets, found : SUBSET Bets, ends : SUBSET Bets,
                           actions : [Bets -> Nat], toggles : Nat, remounts : Nat, switches : Nat,
                           steps : Nat \ {0}, turns : SUBSET SUBSET Nat, returns : SUBSET Nat,
                           memory : Nat \ {0}]

VARIABLES
    setting,        \* the bounds of this behaviour
    turns,          \* the steps at which a session waits for the player, chosen
                    \* beforehand: at the others it waits for the router
    chain,          \* phase, payout and step of each session
    onChain,        \* the account's balance
    send,           \* idle, sending, done, failed
    submit,         \* idle, or the extra stake, and whether it has landed
    actions,        \* submitAction calls so far
    ledger,
    reads,          \* balance reads in flight: epoch, and what they may see
    rawRead, raw,   \* the read at mount: in flight, and its answer
    midRound,       \* rounds were played while that read was in flight
    tracked,        \* trackedRounds: key of a session's round
    pendingReveal,
    rows,           \* none, open, over
    patched,        \* a patch has the result
    remembered,     \* steps known: the player's receipts, the patch, the row
    snapshots,      \* sessionSnapshotsRef: the sessions with a receipt, oldest first
    untold,         \* history: the newest step an action of the player's led to
                    \* and no receipt in memory tells of, 0 for none
    walletReady, toggles,
    mounted, mount, \* the host is mounted; how often it was unmounted
    orphans,        \* calls of a host that was unmounted
    account, accountOf,
    doubt           \* a stake or a payout moved that the ledger cannot know of

chainVars == <<chain, onChain>>
callVars == <<send, submit, actions, orphans, accountOf>>
readVars == <<reads, rawRead, raw, midRound>>
roundVars == <<tracked, pendingReveal>>
memoryVars == <<remembered, snapshots, untold>>
viewVars == <<rows, patched, memoryVars>>
mountVars == <<setting, turns, walletReady, toggles, mounted, mount, account>>
hostVars == <<setting, turns, chain, onChain, send, submit, actions, ledger, reads, rawRead, raw,
              midRound, tracked, pendingReveal, rows, patched, memoryVars, walletReady,
              toggles, mounted, mount, orphans, account, accountOf, doubt>>

OpenKey(r) == <<"open", r>>
ResumeKey(r) == <<"resume", r>>
Unopened == [phase |-> "none", payout |-> None, step |-> 0]
NoSubmit == [extra |-> 0, landed |-> FALSE, echo |-> 0]

\* A session that is open when the page loads may be at any step: the player
\* opened it, and acted, in an earlier page load.
FoundAtLoad(reached) ==
    LET found == {r \in setting.found : reached[r] > 0}
    IN  /\ chain = [r \in Bets |-> IF r \in found
                                   THEN [phase |-> "open", payout |-> None, step |-> reached[r]]
                                   ELSE Unopened]
        /\ send = [r \in Bets |-> IF r \in found THEN "done" ELSE "idle"]

HostInit ==
    /\ setting \in Settings /\ turns \in [Bets -> setting.turns]
    /\ \E reached \in [setting.found -> 0..setting.steps] : FoundAtLoad(reached)
    /\ snapshots = <<>> /\ untold = [r \in Bets |-> chain[r].step]
    /\ onChain = Purse /\ rawRead = {Purse} /\ raw = None /\ reads = {} /\ midRound = FALSE
    /\ submit = [r \in Bets |-> NoSubmit] /\ actions = [r \in Bets |-> 0]
    /\ ledger = EmptyLedger
    /\ tracked = [r \in Bets |-> None] /\ pendingReveal = {}
    /\ rows = [r \in Bets |-> "none"] /\ patched = [r \in Bets |-> FALSE]
    /\ remembered = [r \in Bets |-> [receipt |-> 0, patch |-> 0, row |-> 0]]
    /\ walletReady = TRUE /\ toggles = 0
    /\ mounted = TRUE /\ mount = 0 /\ orphans = {}
    /\ account = 0 /\ accountOf = [r \in Bets |-> 0]
    /\ doubt = FALSE

Mine(r) == accountOf[r] = account
Active(r) == \E k \in {OpenKey(r), ResumeKey(r)} : k \in ledger.activeRounds

\* The account's balance is now v: reads in flight may answer v, or a value
\* from before.
Moves(v) == /\ onChain' = v
            /\ reads' = {[rd EXCEPT !.seen = @ \cup {v}] : rd \in reads}
            /\ rawRead' = IF rawRead = {} THEN {} ELSE rawRead \cup {v}
            /\ midRound' = (midRound \/ rawRead # {})
            /\ UNCHANGED raw

-----------------------------------------------------------------------------
\* Rounds

\* endRound for a set of sessions, each with what it is credited.
EndRounds(S, credit) ==
    LET revealed == {r \in S : tracked[r] \in ledger.activeRounds}
    IN  /\ ledger' = RoundsRevealed(ledger, {tracked[r] : r \in revealed},
                                    SumFunctionOnSet(credit, revealed))
        /\ tracked' = [r \in Bets |-> IF r \in S THEN None ELSE tracked[r]]
        /\ pendingReveal' = pendingReveal \ {r \in S : tracked[r] # None}

Nothing == [r \in Bets |-> 0]
PayoutOf == [r \in Bets |-> chain[r].payout]

\* settleTrackedRoundsOnSessionUpdate, for the rows known now: a round whose
\* reveal came first is credited, a loss is closed, a win waits.
SettleTrackedRounds(known) ==
    EndRounds({r \in Bets : known[r] = "over" /\ (r \in pendingReveal \/ PayoutOf[r] = 0)},
              PayoutOf)

NoRows == [r \in Bets |-> "none"]
SessionRows == IF walletReady THEN rows ELSE NoRows

\* trackRound, in the host that placed the bet: the maps of a host that was
\* unmounted are nobody's.
TrackRound(r) == tracked' = IF <<"open", r>> \in orphans THEN tracked
                            ELSE [tracked EXCEPT ![r] = OpenKey(r)]

-----------------------------------------------------------------------------
\* Methods of the host

\* openSession up to the send.
OpenSession(r) ==
    /\ mounted /\ walletReady /\ r \in setting.bets /\ send[r] = "idle"
    /\ \A q \in setting.bets : q < r => send[q] # "idle"
    /\ send' = [send EXCEPT ![r] = "sending"]
    /\ accountOf' = [accountOf EXCEPT ![r] = account]
    /\ ledger' = BetPlaced(ledger, OpenKey(r), Stake)
    /\ UNCHANGED <<chainVars, readVars, roundVars, viewVars, mountVars,
                   submit, actions, orphans, doubt>>

\* The open's transaction lands: also when its send was given up.  A game may
\* return a part of the stake at once, which the ledger does not expect.  (A
\* session that is settled in the same transaction is the next step's Ends.)
Land(r) ==
    /\ send[r] \in {"sending", "failed"} /\ chain[r].phase = "none"
    /\ chain' = [chain EXCEPT ![r].phase = "open", ![r].step = 1]
    /\ \E back \in {0} \cup setting.returns :
          /\ IF Mine(r) THEN Moves(onChain - Stake + back) ELSE UNCHANGED <<onChain, readVars>>
          /\ doubt' = (doubt \/ (Mine(r) /\ (~Active(r) \/ back # 0)))
    /\ UNCHANGED <<callVars, roundVars, viewVars, mountVars, ledger>>

\* sessionSnapshotsRef is a Map bounded to setting.memory sessions (64): the
\* one that was told of first goes.
Others(r) == SelectSeq(snapshots, LAMBDA q : q # r)
Evicted(r) == IF Len(Others(r)) >= setting.memory THEN {Head(Others(r))} ELSE {}

\* rememberSessionSnapshots: a receipt's bytes, unless newer ones are known.
Remember(r, step) ==
    IF remembered[r].receipt >= step THEN UNCHANGED memoryVars
    ELSE /\ snapshots' = Append(IF Evicted(r) = {} THEN Others(r) ELSE Tail(Others(r)), r)
         /\ remembered' = [q \in Bets |->
                [remembered[q] EXCEPT !.receipt = IF q = r THEN step
                                                  ELSE IF q \in Evicted(r) THEN 0 ELSE @]]
         /\ untold' = [q \in Bets |-> IF q \in Evicted(r) /\ remembered[q].receipt > untold[q]
                                      THEN remembered[q].receipt ELSE untold[q]]

\* The receipt is there.
OpenSucceeds(r) ==
    /\ send[r] = "sending" /\ chain[r].phase # "none"
    /\ send' = [send EXCEPT ![r] = "done"]
    /\ TrackRound(r)
    /\ IF <<"open", r>> \in orphans THEN UNCHANGED memoryVars ELSE Remember(r, 1)
    /\ UNCHANGED <<chainVars, readVars, mountVars, submit, actions, orphans, accountOf,
                   ledger, pendingReveal, rows, patched, doubt>>

\* The send fails, and the open was seen on the flashblock channel.
OpenRecovers(r) ==
    /\ send[r] = "sending" /\ chain[r].phase # "none"
    /\ send' = [send EXCEPT ![r] = "done"]
    /\ TrackRound(r)
    /\ UNCHANGED <<chainVars, readVars, viewVars, mountVars, submit, actions, orphans,
                   accountOf, ledger, pendingReveal, doubt>>

\* Mutation: the round of a failed bet stays in play.
OpenFailsUnclosed(r) ==
    /\ send[r] = "sending"
    /\ send' = [send EXCEPT ![r] = "failed"]
    /\ ledger' = RefundStake(ledger, Stake)
    /\ doubt' = (doubt \/ (Mine(r) /\ chain[r].phase # "none") \/ ~Active(r))
    /\ UNCHANGED <<chainVars, readVars, roundVars, viewVars, mountVars, submit, actions,
                   orphans, accountOf>>

\* The send fails, and nothing proves that the bet landed.
OpenFails(r) ==
    /\ send[r] = "sending"
    /\ send' = [send EXCEPT ![r] = "failed"]
    /\ ledger' = RoundClosed(RefundStake(ledger, Stake), OpenKey(r))
    /\ doubt' = (doubt \/ (Mine(r) /\ chain[r].phase # "none") \/ ~Active(r))
    /\ UNCHANGED <<chainVars, readVars, roundVars, viewVars, mountVars, submit, actions,
                   orphans, accountOf>>

\* Mutation: the indexed row's bytes are preferred to newer ones.
LatestPrefersRow(r) ==
    IF remembered[r].row > 0 THEN remembered[r].row
    ELSE IF remembered[r].patch > 0 THEN remembered[r].patch ELSE remembered[r].receipt

\* resolveEncodedSession: the newest step of the three layers, 0 for none.
Latest(r) ==
    LET steps == {remembered[r].receipt, remembered[r].patch,
                  IF walletReady THEN remembered[r].row ELSE 0}
    IN  CHOOSE m \in steps : \A n \in steps : n <= m

\* submitAction up to the send.  A round found at load is resumed: tracked
\* from here on, without a stake.  (A game acts on a bet when openSession has
\* answered, as the guides tell it to.)
SubmitAction(r, extra) ==
    /\ mounted /\ walletReady /\ submit[r] = NoSubmit /\ actions[r] < setting.actions[r]
    /\ send[r] # "sending" /\ Latest(r) > 0
    /\ LET fresh == tracked[r] = None
           roundKey == IF fresh THEN ResumeKey(r) ELSE tracked[r]
           resumed == IF fresh THEN BetPlaced(ledger, roundKey, 0) ELSE ledger
       IN  /\ tracked' = [tracked EXCEPT ![r] = roundKey]
           /\ ledger' = IF extra > 0 THEN BetPlaced(resumed, roundKey, extra) ELSE resumed
    /\ submit' = [submit EXCEPT ![r] = [extra |-> extra, landed |-> FALSE, echo |-> Latest(r)]]
    /\ actions' = [actions EXCEPT ![r] = @ + 1]
    /\ doubt' = (doubt \/ (tracked[r] = None /\ (chain[r].phase = "over" \/ Active(r))))
    /\ UNCHANGED <<chainVars, readVars, viewVars, mountVars, send, orphans, accountOf,
                   pendingReveal>>

\* The contract takes the action if the session waits for the player and the
\* action is given its newest snapshot.  The game pulls the extra stake, or
\* leaves it and returns a part of the escrow.
SubmitLands(r) ==
    /\ submit[r] # NoSubmit /\ ~submit[r].landed
    /\ chain[r].phase = "open" /\ chain[r].step \in turns[r] /\ chain[r].step = submit[r].echo
    /\ submit' = [submit EXCEPT ![r].landed = TRUE]
    /\ chain' = [chain EXCEPT ![r].step = @ + 1]
    /\ \E gain \in {-submit[r].extra} \cup setting.returns :
          /\ IF Mine(r) THEN Moves(onChain + gain) ELSE UNCHANGED <<onChain, readVars>>
          /\ doubt' = (doubt \/ (Mine(r) /\ (~Active(r) \/ gain # -submit[r].extra)))
    /\ UNCHANGED <<roundVars, viewVars, mountVars, send, actions, orphans, accountOf, ledger>>

\* The router answers, and the game goes on: a new snapshot no receipt of the
\* player's tells of, and perhaps a part of the escrow back, which the ledger
\* learns of with the next read only.
RouterAdvances(r) ==
    /\ chain[r].phase = "open" /\ chain[r].step \notin turns[r] /\ chain[r].step < setting.steps
    /\ chain' = [chain EXCEPT ![r].step = @ + 1]
    /\ \E back \in {0} \cup setting.returns :
          /\ IF Mine(r) /\ back # 0 THEN Moves(onChain + back) ELSE UNCHANGED <<onChain, readVars>>
          /\ doubt' = (doubt \/ (Mine(r) /\ back # 0))
    /\ UNCHANGED <<callVars, roundVars, viewVars, mountVars, ledger>>

\* What an action led to, if no receipt will tell.
Unreported(r) == untold' = [untold EXCEPT ![r] = IF submit[r].landed /\ @ <= submit[r].echo
                                                 THEN submit[r].echo + 1 ELSE @]

\* The receipt is there: in a host that was unmounted it is nobody's.
SubmitSucceeds(r) ==
    /\ submit[r].landed
    /\ submit' = [submit EXCEPT ![r] = NoSubmit]
    /\ IF <<"submit", r>> \in orphans THEN Unreported(r) /\ UNCHANGED <<remembered, snapshots>>
       ELSE Remember(r, submit[r].echo + 1)
    /\ UNCHANGED <<chainVars, readVars, roundVars, mountVars, send, actions, orphans,
                   accountOf, ledger, rows, patched, doubt>>

SubmitFails(r) ==
    /\ submit[r] # NoSubmit
    /\ submit' = [submit EXCEPT ![r] = NoSubmit]
    /\ ledger' = RefundStake(ledger, submit[r].extra)
    /\ doubt' = (doubt \/ submit[r].landed \/ ~Active(r))
    /\ Unreported(r)
    /\ UNCHANGED <<chainVars, readVars, roundVars, rows, patched, remembered, snapshots,
                   mountVars, send, actions, orphans, accountOf>>

\* revealOutcome: the payout of the row or the patch, or a reveal queued.
RevealOutcome(r) ==
    /\ tracked[r] # None
    /\ \/ /\ SessionRows[r] = "over" \/ patched[r]
          /\ EndRounds({r}, PayoutOf)
       \/ /\ SessionRows[r] # "over" /\ ~patched[r]
          /\ pendingReveal' = pendingReveal \cup {r}
          /\ UNCHANGED <<ledger, tracked>>
    /\ UNCHANGED <<chainVars, callVars, readVars, viewVars, mountVars, doubt>>

-----------------------------------------------------------------------------
\* Sessions end, and the two channels tell

\* A settlement, or the refund of a cancelled session (which
\* cancelStuckRandomness may have asked for).
Ends(r) ==
    /\ chain[r].phase = "open" /\ r \in setting.ends
    /\ \E payout \in Payouts :
          /\ chain' = [chain EXCEPT ![r].phase = "over", ![r].payout = payout]
          /\ IF Mine(r) THEN Moves(onChain + payout) ELSE UNCHANGED <<onChain, readVars>>
    /\ doubt' = (doubt \/ (Mine(r) /\ ~Active(r)))
    /\ UNCHANGED <<callVars, roundVars, viewVars, mountVars, ledger>>

\* A patch for newer events, as far as this channel has come.
Flash(r) ==
    /\ mounted /\ Mine(r) /\ chain[r].phase # "none" /\ rows[r] # "over"
    /\ ~patched[r]
    /\ \E step \in remembered[r].patch..chain[r].step, settled \in {FALSE, chain[r].phase = "over"} :
          /\ step > remembered[r].patch \/ settled
          /\ patched' = [patched EXCEPT ![r] = settled]
          /\ remembered' = [remembered EXCEPT ![r].patch = step]
    /\ UNCHANGED <<chainVars, callVars, readVars, roundVars, mountVars, ledger, rows, snapshots,
                   untold, doubt>>

\* An indexed event: the rows change, and with a ready wallet their effects run.
Index(r) ==
    /\ mounted /\ Mine(r) /\ chain[r].phase # "none" /\ rows[r] # "over"
    /\ \/ /\ remembered[r].row < chain[r].step
          /\ rows' = [rows EXCEPT ![r] = "open"]
          /\ remembered' = [remembered EXCEPT ![r].row = @ + 1]
          /\ UNCHANGED patched
       \/ /\ remembered[r].row = chain[r].step /\ chain[r].phase = "over"
          /\ rows' = [rows EXCEPT ![r] = "over"]
          /\ patched' = [patched EXCEPT ![r] = @ /\ ~walletReady]
          /\ UNCHANGED remembered
    /\ IF walletReady THEN SettleTrackedRounds(rows')
       ELSE UNCHANGED <<ledger, roundVars>>
    /\ UNCHANGED <<chainVars, callVars, readVars, mountVars, snapshots, untold, doubt>>

\* The wallet status override: rows are withheld, or there again.
SetWallet ==
    /\ mounted /\ toggles < setting.toggles
    /\ toggles' = toggles + 1 /\ walletReady' = ~walletReady
    /\ IF walletReady THEN UNCHANGED <<ledger, roundVars, patched>>
       ELSE /\ SettleTrackedRounds(rows)
            /\ patched' = [r \in Bets |-> patched[r] /\ rows[r] # "over"]
    /\ UNCHANGED <<setting, turns, chainVars, callVars, readVars, mount, account, rows,
                   memoryVars, mounted, doubt>>

-----------------------------------------------------------------------------
\* Reading the balance

\* The reconcile timer fires; a read starts if nothing is being played.
ReconcileTimer ==
    /\ ledger.timer
    /\ ledger' = [ledger EXCEPT !.timer = FALSE]
    /\ reads' = IF ledger.activeRounds = {} /\ mounted
                THEN reads \cup {[epoch |-> ledger.epoch, seen |-> {onChain}]} ELSE reads
    /\ UNCHANGED <<chainVars, callVars, rawRead, raw, midRound, roundVars, viewVars, mountVars, doubt>>

\* A read answers, or fails.
ReadReturns(rd) ==
    /\ rd \in reads
    /\ reads' = reads \ {rd}
    /\ \/ UNCHANGED ledger
       \/ /\ MayAdopt(ledger, rd.epoch)
          /\ \E fresh \in rd.seen : ledger' = Adopt(ledger, fresh)
    /\ UNCHANGED <<chainVars, callVars, rawRead, raw, midRound, roundVars, viewVars, mountVars, doubt>>

\* The read at mount answers; the next render may take it for the baseline.
RawReturns ==
    /\ rawRead # {}
    /\ raw' \in rawRead /\ rawRead' = {}
    /\ UNCHANGED <<chainVars, callVars, reads, midRound, roundVars, viewVars, mountVars, ledger,
                   doubt>>

Seed ==
    /\ mounted /\ MaySeed(ledger, raw)
    /\ ledger' = [ledger EXCEPT !.baseline = raw]
    /\ UNCHANGED <<chainVars, callVars, readVars, roundVars, viewVars, mountVars, doubt>>

-----------------------------------------------------------------------------
\* The harness is stopped and started again

Unmount ==
    /\ mounted /\ mount < setting.remounts
    /\ mounted' = FALSE /\ mount' = mount + 1
    /\ EndRounds(Bets, Nothing)
    /\ rawRead' = {} /\ raw' = None
    /\ rows' = NoRows /\ patched' = [r \in Bets |-> FALSE]
    /\ remembered' = [r \in Bets |-> [receipt |-> 0, patch |-> 0, row |-> 0]] /\ snapshots' = <<>>
    /\ untold' = [r \in Bets |-> IF remembered[r].receipt > untold[r] THEN remembered[r].receipt
                                 ELSE untold[r]]
    /\ doubt' = (doubt \/ \E r \in Bets : tracked[r] # None /\ chain[r].payout \notin {None, 0})
    /\ orphans' = orphans \cup {OpenKey(r) : r \in {q \in Bets : send[q] = "sending"}}
                          \cup {<<"submit", r>> : r \in {q \in Bets : submit[q] # NoSubmit}}
    /\ UNCHANGED <<chainVars, send, submit, actions, accountOf, reads, midRound, setting, turns, walletReady,
                   toggles, account>>

\* Bets were placed before any baseline: the next mount's read counts them too.
Unseeded == ledger.baseline = None /\ (ledger.activeRounds # {} \/ ledger.adjustment # 0)

\* The host for the same account or another, which resets the ledger.
Mount(next) ==
    /\ ~mounted
    /\ mounted' = TRUE /\ account' = next
    /\ midRound' = (next = account /\ (midRound \/ Unseeded))
    /\ IF next = account THEN UNCHANGED <<onChain, ledger, doubt>>
       ELSE onChain' = Purse /\ doubt' = FALSE /\ ledger' = ResetLedgerScope(ledger)
    /\ rawRead' = {onChain'}
    /\ UNCHANGED <<setting, turns, chain, callVars, reads, raw, roundVars, viewVars, walletReady,
                   toggles, mount>>

HostNext ==
    \/ \E r \in Bets :
          \/ OpenSession(r) \/ Land(r) \/ OpenSucceeds(r) \/ OpenRecovers(r) \/ OpenFails(r)
          \/ \E extra \in ExtraStakes : SubmitAction(r, extra)
          \/ SubmitLands(r) \/ RouterAdvances(r) \/ SubmitSucceeds(r) \/ SubmitFails(r)
          \/ RevealOutcome(r) \/ Ends(r) \/ Flash(r) \/ Index(r)
    \/ SetWallet \/ ReconcileTimer \/ (\E rd \in reads : ReadReturns(rd))
    \/ RawReturns \/ Seed \/ Unmount \/ (\E next \in account..setting.switches : Mount(next))

HostSpec == HostInit /\ [][HostNext]_hostVars

-----------------------------------------------------------------------------
\* What the chain does not show yet of a round, or shows too early: a stake
\* on its way, and a payout that was not revealed.
Due(r) ==
    IF ~Mine(r) THEN 0
    ELSE (IF send[r] = "sending" /\ chain[r].phase = "none" THEN Stake ELSE 0)
         + (IF Active(r) /\ ~submit[r].landed THEN submit[r].extra ELSE 0)
         + (IF Active(r) /\ chain[r].phase = "over" THEN chain[r].payout ELSE 0)

\* What a player should see.
Expected == onChain - SumFunction([r \in Bets |-> Due(r)])

\* An action is on its way whose round the ledger takes for closed.
Straggler == \E r \in Bets : submit[r].extra > 0 /\ ~Active(r)

\* The ledger is exact (balance-hold.ts): whatever the order of sends, rows,
\* patches, reveals and late balance reads, no stake is missed or taken twice,
\* no payout is credited twice or before it is revealed, and no stale read is
\* adopted; as long as what happens on chain can be known at all, and the read
\* at mount answered before a round was played.
LedgerExact ==
    ~doubt /\ ~midRound /\ ~Straggler /\ ledger.baseline # None =>
        ledger.baseline + ledger.adjustment = Expected

\* A round is in play for an owner (useRoundLedger, openSession): a send on its
\* way, a session that is tracked, or a call of a host that was unmounted.
\* Whatever else stayed in activeRounds would block every reconcile for good.
ActiveRoundsHaveAnOwner ==
    \A r \in Bets :
       /\ OpenKey(r) \in ledger.activeRounds =>
             send[r] = "sending" \/ tracked[r] = OpenKey(r) \/ OpenKey(r) \in orphans
       /\ ResumeKey(r) \in ledger.activeRounds => tracked[r] = ResumeKey(r)

\* No action is built on a state the player has already acted on
\* (rememberSessionSnapshots, resolveEncodedSession): however far both channels
\* are behind, and whatever the router did in between, an action that echoes a
\* state in which its session waited for the player echoes the newest one.
\* (What an action led to may be known to no receipt in memory: the send failed,
\* the host was unmounted, the session was evicted, the page was reloaded.  Until
\* a patch or a row tells of it, the action before may be echoed again, and the
\* contract rejects that; so it does an echo of a state that awaited the router.)
ActionsEchoTheChain ==
    \A r \in Bets :
        submit[r] # NoSubmit /\ ~submit[r].landed /\ chain[r].phase = "open"
        /\ submit[r].echo \in turns[r] /\ submit[r].echo >= untold[r] =>
            submit[r].echo = chain[r].step
=============================================================================
