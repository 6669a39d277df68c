-------------------------- MODULE HostLedger_proofs --------------------------
(***************************************************************************)
(* Proofs about HostLedger for every set of bets, every stake and payout   *)
(* and every bound.                                                        *)
(***************************************************************************)
EXTENDS HostLedger, SumFacts

Phases == {"none", "open", "over"}
Keys == {OpenKey(r) : r \in Bets} \cup {ResumeKey(r) : r \in Bets}

Ledgers == [baseline : Int \cup {None}, adjustment : Int, activeRounds : SUBSET Keys,
            epoch : Nat, timer : BOOLEAN]

\* The types of what the host and the chain keep.
LedgerTypes ==
    /\ setting \in Settings /\ onChain \in Int /\ account \in Nat /\ mount \in Nat
    /\ chain \in [Bets -> [phase : Phases, payout : Payouts \cup {None}, step : Nat]]
    /\ send \in [Bets -> {"idle", "sending", "done", "failed"}]
    /\ submit \in [Bets -> [extra : Nat, landed : BOOLEAN, echo : Nat]]
    /\ ledger \in Ledgers
    /\ reads \subseteq [epoch : Nat, seen : SUBSET Int]
    /\ rawRead \subseteq Int /\ raw \in Int \cup {None} /\ midRound \in BOOLEAN
    /\ tracked \in [Bets -> Keys \cup {None}] /\ pendingReveal \subseteq Bets
    /\ rows \in [Bets -> Phases] /\ patched \in [Bets -> BOOLEAN]
    /\ remembered \in [Bets -> [receipt : Nat, patch : Nat, row : Nat]]
    /\ turns \in [Bets -> SUBSET Nat] /\ untold \in [Bets -> Nat]
    /\ walletReady \in BOOLEAN /\ mounted \in BOOLEAN
    /\ accountOf \in [Bets -> Nat] /\ doubt \in BOOLEAN

\* What the player's host knows of a session.
Known(r) == remembered[r].receipt > 0 \/ remembered[r].patch > 0 \/ remembered[r].row > 0

\* The life of a session on chain, and what the host may know of it.
SessionFacts ==
    \A r \in Bets :
       /\ chain[r].phase = "over" => chain[r].payout \in Payouts
       /\ IF chain[r].phase = "none" THEN chain[r].step = 0 /\ submit[r] = NoSubmit
          ELSE chain[r].step > 0
       /\ send[r] = "idle" => chain[r].phase = "none"
       /\ send[r] \in {"idle", "sending"} =>
             tracked[r] = None /\ submit[r] = NoSubmit
       /\ rows[r] = "over" \/ patched[r] => chain[r].phase = "over"
       /\ Known(r) => chain[r].phase # "none" /\ Mine(r) /\ mounted
       /\ accountOf[r] <= account

\* Calls of an earlier host leave the maps of this one alone.
CallFacts ==
    /\ mount = 0 => mounted /\ orphans = {}
    /\ ~mounted => raw = None /\ rawRead = {}
    /\ \A r \in Bets :
          /\ send[r] = "sending" /\ OpenKey(r) \notin orphans => Mine(r) /\ mounted
          /\ submit[r] # NoSubmit /\ <<"submit", r>> \notin orphans => Mine(r) /\ mounted

\* Whose the rounds in play are.
RoundFacts ==
    \A r \in Bets :
       /\ tracked[r] \in {None, OpenKey(r), ResumeKey(r)}
       /\ tracked[r] # None => tracked[r] \in ledger.activeRounds /\ mounted
       /\ OpenKey(r) \in ledger.activeRounds =>
             /\ Mine(r) /\ send[r] \in {"sending", "done"}
             /\ send[r] = "sending" \/ tracked[r] = OpenKey(r) \/ OpenKey(r) \in orphans
       /\ ResumeKey(r) \in ledger.activeRounds =>
             Mine(r) /\ tracked[r] = ResumeKey(r) /\ chain[r].phase # "none"
       /\ send[r] = "sending" /\ Mine(r) => OpenKey(r) \in ledger.activeRounds
       /\ ~doubt => ~(OpenKey(r) \in ledger.activeRounds /\ ResumeKey(r) \in ledger.activeRounds)

\* A read that the ledger may still adopt saw nothing but today's balance.
ReadFacts ==
    \A rd \in reads :
       /\ rd.epoch <= ledger.epoch
       /\ rd.epoch = ledger.epoch /\ ~doubt => ledger.activeRounds = {} /\ rd.seen = {onChain}

\* The balances the display may start from.
Anchors == IF ledger.baseline # None THEN {ledger.baseline} ELSE rawRead \cup ({raw} \ {None})

\* A stake is on its way for a round that is no longer in play.
Strays == \E r \in Bets : Mine(r) /\ ~Active(r) /\ submit[r].extra > 0 /\ ~submit[r].landed

ExactFacts == ~doubt /\ ~midRound /\ ~Strays => \A v \in Anchors : v + ledger.adjustment = Expected

\* No layer knows more than the chain.  A state in which a session waited for
\* the player is left by an action of the player's only: a receipt tells of what
\* came next, or the history says that none does, or the call is still on its way.
EchoFacts ==
    \A r \in Bets :
       /\ remembered[r].receipt <= chain[r].step /\ remembered[r].patch <= chain[r].step
       /\ remembered[r].row <= chain[r].step
       /\ submit[r].landed => submit[r].echo < chain[r].step
       /\ submit[r] # NoSubmit => submit[r].echo > 0 /\ submit[r].echo <= chain[r].step
       /\ \A k \in turns[r] : k > 0 /\ k < chain[r].step =>
             k < remembered[r].receipt \/ k < untold[r] \/ (submit[r].landed /\ k <= submit[r].echo)

HostInv == /\ LedgerTypes /\ SessionFacts /\ CallFacts /\ RoundFacts /\ ReadFacts
           /\ ExactFacts /\ EchoFacts /\ ActionsEchoTheChain


-----------------------------------------------------------------------------
(***************************************************************************)
(* The parts the actions are made of.                                      *)
(***************************************************************************)

LEMMA Constants ==
    /\ IsFiniteSet(Bets) /\ Stake \in Nat /\ Stake \in Int /\ Stake > 0 /\ Purse \in Int
    /\ Payouts \subseteq Nat /\ ExtraStakes \subseteq Nat /\ None \notin Int
BY HostLedgerAssumption

LEMMA KeysDiffer ==
    ASSUME NEW q \in Bets, NEW r \in Bets
    PROVE  /\ OpenKey(q) # ResumeKey(r) /\ OpenKey(q) # None /\ ResumeKey(q) # None
           /\ q # r => OpenKey(q) # OpenKey(r) /\ ResumeKey(q) # ResumeKey(r)
<1>1. OpenKey(q) \in {"open", "resume"} \X Bets /\ ResumeKey(q) \in {"open", "resume"} \X Bets
    BY DEF OpenKey, ResumeKey
<1>2. OpenKey(q)[1] = "open" /\ OpenKey(q)[2] = q /\ OpenKey(r)[2] = r
      /\ ResumeKey(r)[1] = "resume" /\ ResumeKey(r)[2] = r /\ ResumeKey(q)[2] = q
    BY DEF OpenKey, ResumeKey
<1>. QED BY <1>1, <1>2, HostLedgerAssumption

LEMMA KeyTypes ==
    ASSUME NEW r \in Bets PROVE OpenKey(r) \in Keys /\ ResumeKey(r) \in Keys
BY DEF Keys

LEMMA RevealEffect ==
    ASSUME NEW l \in Ledgers, NEW ks, NEW n \in Int
    PROVE  /\ RoundsRevealed(l, ks, n) \in Ledgers
           /\ RoundsRevealed(l, ks, n).activeRounds = l.activeRounds \ ks
           /\ RoundsRevealed(l, ks, n).adjustment = l.adjustment + n
           /\ RoundsRevealed(l, ks, n).baseline = l.baseline
           /\ RoundsRevealed(l, ks, n).epoch = l.epoch
<1>. DEFINE timer == l.timer \/ (ks # {} /\ l.activeRounds = ks)
<1>1. l.adjustment + n \in Int /\ l.activeRounds \ ks \in SUBSET Keys /\ timer \in BOOLEAN
    BY DEF Ledgers
<1>2. RoundsRevealed(l, ks, n) = [l EXCEPT !.activeRounds = l.activeRounds \ ks,
                                    !.adjustment = l.adjustment + n, !.timer = timer]
    BY DEF RoundsRevealed, Ledgers
<1>. HIDE DEF timer
<1>. QED BY <1>1, <1>2 DEF Ledgers

LEMMA CloseEffect ==
    ASSUME NEW l \in Ledgers, NEW k
    PROVE  /\ RoundClosed(l, k) \in Ledgers
           /\ RoundClosed(l, k).activeRounds = l.activeRounds \ {k}
           /\ RoundClosed(l, k).adjustment = l.adjustment
           /\ RoundClosed(l, k).baseline = l.baseline /\ RoundClosed(l, k).epoch = l.epoch
<1>1. RoundClosed(l, k) = RoundsRevealed(l, {k} \cap l.activeRounds, 0)
    BY DEF RoundClosed
<1>2. l.adjustment + 0 = l.adjustment
    BY DEF Ledgers
<1>. QED BY <1>1, <1>2, RevealEffect

LEMMA BetEffect ==
    ASSUME NEW l \in Ledgers, NEW k \in Keys, NEW n \in Int
    PROVE  /\ BetPlaced(l, k, n) \in Ledgers
           /\ BetPlaced(l, k, n).activeRounds = l.activeRounds \cup {k}
           /\ BetPlaced(l, k, n).adjustment = l.adjustment - n
           /\ BetPlaced(l, k, n).baseline = l.baseline
           /\ BetPlaced(l, k, n).epoch = l.epoch + 1
<1>1. l.adjustment - n \in Int /\ l.epoch + 1 \in Nat /\ l.activeRounds \cup {k} \in SUBSET Keys
    BY DEF Ledgers
<1>. QED BY <1>1 DEF BetPlaced, Ledgers

LEMMA RefundEffect ==
    ASSUME NEW l \in Ledgers, NEW n \in Int
    PROVE  /\ RefundStake(l, n) \in Ledgers
           /\ RefundStake(l, n).activeRounds = l.activeRounds
           /\ RefundStake(l, n).adjustment = l.adjustment + n
           /\ RefundStake(l, n).baseline = l.baseline /\ RefundStake(l, n).epoch = l.epoch
BY DEF RefundStake, Ledgers

LEMMA ResetEffect ==
    ASSUME NEW l \in Ledgers
    PROVE  /\ ResetLedgerScope(l) \in Ledgers
           /\ ResetLedgerScope(l).activeRounds = {} /\ ResetLedgerScope(l).adjustment = 0
           /\ ResetLedgerScope(l).baseline = None /\ ResetLedgerScope(l).epoch = l.epoch + 1
<1>1. l.epoch + 1 \in Nat /\ EmptyLedger \in Ledgers
    BY DEF EmptyLedger, Ledgers
<1>2. EmptyLedger.activeRounds = {} /\ EmptyLedger.adjustment = 0 /\ EmptyLedger.baseline = None
    BY DEF EmptyLedger
<1>. QED BY <1>1, <1>2 DEF ResetLedgerScope, Ledgers

\* Rounds that end leave the ledger's record a record.
LEMMA EndRoundsTypes ==
    ASSUME LedgerTypes, NEW S \in SUBSET Bets, NEW credit,
           \A r \in S : credit[r] \in Int, EndRounds(S, credit)
    PROVE  /\ ledger' \in Ledgers
           /\ tracked' \in [Bets -> Keys \cup {None}] /\ pendingReveal' \subseteq Bets
<1>. DEFINE revealed == {r \in S : tracked[r] \in ledger.activeRounds}
            sum == SumFunctionOnSet(credit, revealed)
            ended == {tracked[r] : r \in revealed}
<1>1. sum \in Int
    BY HostLedgerAssumption, FS_Subset, SumType DEF Integral
<1>2. ledger' = RoundsRevealed(ledger, ended, sum)
    BY DEF EndRounds
<1>. HIDE DEF sum, ended
<1>3. ledger' \in Ledgers
    BY <1>1, <1>2, RevealEffect DEF LedgerTypes
<1>. QED BY <1>3 DEF EndRounds, LedgerTypes
LEMMA MovesTypes ==
    ASSUME LedgerTypes, NEW v \in Int, Moves(v)
    PROVE  /\ onChain' \in Int /\ reads' \subseteq [epoch : Nat, seen : SUBSET Int]
           /\ rawRead' \subseteq Int /\ raw' \in Int \cup {None} /\ midRound' \in BOOLEAN
BY DEF Moves, LedgerTypes

-----------------------------------------------------------------------------
(***************************************************************************)
(* Types.                                                                  *)
(***************************************************************************)

\* What a session's step may bring the player before the end is an integer.
LEMMA ReturnTypes ==
    ASSUME LedgerTypes PROVE setting.returns \subseteq Nat
BY HostLedgerAssumption DEF LedgerTypes

LEMMA TypesInit == HostInit => LedgerTypes
<1>. SUFFICES ASSUME HostInit PROVE LedgerTypes
    OBVIOUS
<1>1. PICK reached \in [setting.found -> 0..setting.steps] : FoundAtLoad(reached)
    BY DEF HostInit
<1>0. \A r \in setting.found : reached[r] \in Nat
    OBVIOUS
<1>2. chain \in [Bets -> [phase : Phases, payout : Payouts \cup {None}, step : Nat]]
      /\ send \in [Bets -> {"idle", "sending", "done", "failed"}]
    BY <1>0, <1>1 DEF FoundAtLoad, Phases, Unopened
<1>6. turns \in [Bets -> SUBSET Nat] /\ untold \in [Bets -> Nat]
    <2>1. setting.turns \subseteq SUBSET Nat
        BY HostLedgerAssumption DEF HostInit
    <2>. QED BY <1>2, <2>1 DEF HostInit
<1>3. ledger \in Ledgers
    BY DEF HostInit, EmptyLedger, Ledgers
<1>4. submit \in [Bets -> [extra : Nat, landed : BOOLEAN, echo : Nat]]
      /\ remembered \in [Bets -> [receipt : Nat, patch : Nat, row : Nat]]
    BY DEF HostInit, NoSubmit
<1>5. rows \in [Bets -> Phases] /\ patched \in [Bets -> BOOLEAN] /\ accountOf \in [Bets -> Nat]
      /\ tracked \in [Bets -> Keys \cup {None}]
    BY DEF HostInit, Phases
<1>. QED BY <1>2, <1>3, <1>4, <1>5, <1>6, Constants DEF HostInit, LedgerTypes

LEMMA OpenSessionTypes ==
    ASSUME LedgerTypes, NEW r \in Bets, OpenSession(r) PROVE LedgerTypes'
<1>1. ledger' \in Ledgers
    BY Constants, KeyTypes, BetEffect DEF OpenSession, LedgerTypes
<1>2. send' \in [Bets -> {"idle", "sending", "done", "failed"}] /\ accountOf' \in [Bets -> Nat]
    BY DEF OpenSession, LedgerTypes
<1>. QED BY <1>1, <1>2 DEF LedgerTypes, OpenSession, chainVars, callVars, readVars, roundVars, viewVars, memoryVars, mountVars

LEMMA PhaseTypes ==
    ASSUME NEW f \in [Bets -> [phase : Phases, payout : Payouts \cup {None}, step : Nat]],
           NEW r \in Bets, NEW p \in Phases
    PROVE  [f EXCEPT ![r].phase = p] \in [Bets -> [phase : Phases, payout : Payouts \cup {None}, step : Nat]]
<1>. DEFINE Rounds == [phase : Phases, payout : Payouts \cup {None}, step : Nat]
<1>1. f[r] \in Rounds
    OBVIOUS
<1>2. [f[r] EXCEPT !.phase = p] \in Rounds
    BY <1>1
<1>3. [f EXCEPT ![r] = [f[r] EXCEPT !.phase = p]] \in [Bets -> Rounds]
    <2>1. f \in [Bets -> Rounds]
        OBVIOUS
    <2>. HIDE DEF Rounds
    <2>. QED BY <1>2, <2>1
<1>4. [f EXCEPT ![r].phase = p] = [f EXCEPT ![r] = [f[r] EXCEPT !.phase = p]]
    OBVIOUS
<1>. QED BY <1>3, <1>4

\* Remembering a receipt changes what is known of its session, of the sessions
\* that are evicted, and nothing else.
LEMMA RememberEffect ==
    ASSUME LedgerTypes, NEW r \in Bets, NEW step \in Nat, Remember(r, step)
    PROVE  /\ remembered' \in [Bets -> [receipt : Nat, patch : Nat, row : Nat]]
           /\ untold' \in [Bets -> Nat]
           /\ remembered'[r].receipt >= step /\ remembered'[r].receipt >= remembered[r].receipt
           /\ remembered'[r].receipt \in {step, remembered[r].receipt}
           /\ \A q \in Bets :
                 /\ remembered'[q].patch = remembered[q].patch /\ remembered'[q].row = remembered[q].row
                 /\ untold'[q] >= untold[q]
                 /\ q # r => \/ remembered'[q].receipt = remembered[q].receipt
                             \/ remembered'[q].receipt = 0 /\ untold'[q] >= remembered[q].receipt
<1>0. \A q \in Bets : remembered[q] \in [receipt : Nat, patch : Nat, row : Nat] /\ untold[q] \in Nat
    BY DEF LedgerTypes
<1>1. CASE remembered[r].receipt >= step /\ UNCHANGED <<remembered, snapshots, untold>>
    BY <1>0, <1>1 DEF LedgerTypes
<1>2. CASE ~(remembered[r].receipt >= step)
    <2>1. /\ remembered' = [q \in Bets |->
                [remembered[q] EXCEPT !.receipt = IF q = r THEN step
                                                  ELSE IF q \in Evicted(r) THEN 0 ELSE @]]
          /\ untold' = [q \in Bets |-> IF q \in Evicted(r) /\ remembered[q].receipt > untold[q]
                                      THEN remembered[q].receipt ELSE untold[q]]
        BY <1>2 DEF Remember
    <2>. HIDE DEF Evicted
    <2>2. ASSUME NEW q \in Bets
          PROVE  /\ remembered'[q].receipt = IF q = r THEN step ELSE IF q \in Evicted(r) THEN 0
                                             ELSE remembered[q].receipt
                 /\ remembered'[q].patch = remembered[q].patch /\ remembered'[q].row = remembered[q].row
                 /\ remembered'[q] \in [receipt : Nat, patch : Nat, row : Nat]
        BY <1>0, <2>1
    <2>3. ASSUME NEW q \in Bets
          PROVE  untold'[q] = IF q \in Evicted(r) /\ remembered[q].receipt > untold[q]
                              THEN remembered[q].receipt ELSE untold[q]
        BY <2>1
    <2>4. remembered' \in [Bets -> [receipt : Nat, patch : Nat, row : Nat]]
        BY <1>0, <2>1, <2>2
    <2>5. untold' \in [Bets -> Nat]
        BY <1>0, <2>1
    <2>6. ASSUME NEW q \in Bets, q # r
          PROVE  \/ remembered'[q].receipt = remembered[q].receipt
                 \/ remembered'[q].receipt = 0 /\ untold'[q] >= remembered[q].receipt
        <3>1. remembered[q].receipt \in Nat /\ untold[q] \in Nat
            BY <1>0
        <3>2. untold'[q] = IF q \in Evicted(r) /\ remembered[q].receipt > untold[q]
                           THEN remembered[q].receipt ELSE untold[q]
            BY <2>3
        <3>3. CASE q \in Evicted(r)
            <4>1. remembered'[q].receipt = 0
                BY <2>2, <2>6, <3>3
            <4>2. untold'[q] >= remembered[q].receipt
                BY <3>1, <3>2, <3>3
            <4>. QED BY <4>1, <4>2
        <3>4. CASE q \notin Evicted(r)
            BY <2>2, <2>6, <3>4
        <3>. QED BY <3>3, <3>4
    <2>7. ASSUME NEW q \in Bets PROVE untold'[q] >= untold[q]
        BY <1>0, <2>3
    <2>8. remembered'[r].receipt = step /\ step > remembered[r].receipt
        <3>1. remembered'[r].receipt = step
            BY <2>2
        <3>2. remembered[r].receipt \in Nat
            BY <1>0
        <3>. QED BY <1>2, <3>1, <3>2
    <2>. QED BY <1>0, <2>2, <2>4, <2>5, <2>6, <2>7, <2>8
<1>. QED BY <1>1, <1>2 DEF Remember, memoryVars

LEMMA UnreportedEffect ==
    ASSUME LedgerTypes, NEW r \in Bets, Unreported(r)
    PROVE  /\ untold' \in [Bets -> Nat]
           /\ submit[r].landed => untold'[r] > submit[r].echo
           /\ \A q \in Bets : untold'[q] >= untold[q]
<1>1. untold[r] \in Nat /\ submit[r].echo \in Nat
    BY DEF LedgerTypes
<1>2. untold' = [untold EXCEPT ![r] = IF submit[r].landed /\ untold[r] <= submit[r].echo
                                      THEN submit[r].echo + 1 ELSE untold[r]]
    BY DEF Unreported
<1>. QED BY <1>1, <1>2 DEF LedgerTypes

LEMMA LandTypes ==
    ASSUME LedgerTypes, NEW r \in Bets, Land(r) PROVE LedgerTypes'
<1>1. /\ onChain' \in Int /\ reads' \subseteq [epoch : Nat, seen : SUBSET Int]
      /\ rawRead' \subseteq Int /\ raw' \in Int \cup {None} /\ midRound' \in BOOLEAN
    <2>1. \A back \in {0} \cup setting.returns : onChain - Stake + back \in Int
        BY Constants, ReturnTypes DEF LedgerTypes
    <2>. QED BY <2>1, MovesTypes DEF Land, LedgerTypes, readVars
<1>2. chain' \in [Bets -> [phase : Phases, payout : Payouts \cup {None}, step : Nat]]
    <2>1. [chain EXCEPT ![r].phase = "open"]
             \in [Bets -> [phase : Phases, payout : Payouts \cup {None}, step : Nat]]
        <3>1. "open" \in Phases
            BY DEF Phases
        <3>. QED BY <3>1, PhaseTypes DEF LedgerTypes
    <2>. QED BY <2>1 DEF Land
<1>3. doubt' \in BOOLEAN
    BY DEF Land, LedgerTypes
<1>. QED BY <1>1, <1>2, <1>3 DEF LedgerTypes, Land, callVars, roundVars, viewVars, memoryVars, mountVars

LEMMA OpenSucceedsTypes ==
    ASSUME LedgerTypes, NEW r \in Bets, OpenSucceeds(r) PROVE LedgerTypes'
<1>1. tracked' \in [Bets -> Keys \cup {None}]
    BY KeyTypes DEF OpenSucceeds, TrackRound, LedgerTypes
<1>2. remembered' \in [Bets -> [receipt : Nat, patch : Nat, row : Nat]] /\ untold' \in [Bets -> Nat]
    BY RememberEffect DEF OpenSucceeds, LedgerTypes, memoryVars
<1>3. send' \in [Bets -> {"idle", "sending", "done", "failed"}]
    BY DEF OpenSucceeds, LedgerTypes
<1>. QED BY <1>1, <1>2, <1>3 DEF LedgerTypes, OpenSucceeds, chainVars, readVars, mountVars

LEMMA OpenRecoversTypes ==
    ASSUME LedgerTypes, NEW r \in Bets, OpenRecovers(r) PROVE LedgerTypes'
<1>1. tracked' \in [Bets -> Keys \cup {None}]
    BY KeyTypes DEF OpenRecovers, TrackRound, LedgerTypes
<1>2. send' \in [Bets -> {"idle", "sending", "done", "failed"}]
    BY DEF OpenRecovers, LedgerTypes
<1>. QED BY <1>1, <1>2 DEF LedgerTypes, OpenRecovers, chainVars, readVars, viewVars, memoryVars, mountVars

LEMMA OpenFailsTypes ==
    ASSUME LedgerTypes, NEW r \in Bets, OpenFails(r) PROVE LedgerTypes'
<1>1. RefundStake(ledger, Stake) \in Ledgers
    BY Constants, RefundEffect DEF LedgerTypes
<1>2. ledger' \in Ledgers
    BY <1>1, CloseEffect DEF OpenFails
<1>3. send' \in [Bets -> {"idle", "sending", "done", "failed"}] /\ doubt' \in BOOLEAN
    BY DEF OpenFails, LedgerTypes
<1>. QED BY <1>2, <1>3 DEF LedgerTypes, OpenFails, chainVars, readVars, roundVars, viewVars, memoryVars, mountVars
LEMMA LatestType ==
    ASSUME LedgerTypes, NEW r \in Bets
    PROVE  /\ Latest(r) \in Nat
           /\ Latest(r) \in {remembered[r].receipt, remembered[r].patch, remembered[r].row, 0}
           /\ Latest(r) >= remembered[r].receipt /\ Latest(r) >= remembered[r].patch
<1>. DEFINE row == IF walletReady THEN remembered[r].row ELSE 0
            steps == {remembered[r].receipt, remembered[r].patch, row}
<1>1. remembered[r].receipt \in Nat /\ remembered[r].patch \in Nat /\ row \in Nat
    BY DEF LedgerTypes
<1>2. \E m \in steps : \A n \in steps : n <= m
    <2>. HIDE DEF row
    <2>. QED BY <1>1
<1>3. Latest(r) = CHOOSE m \in steps : \A n \in steps : n <= m
    BY DEF Latest
<1>4. Latest(r) \in steps /\ \A n \in steps : n <= Latest(r)
    BY <1>2, <1>3
<1>. QED BY <1>1, <1>4

LEMMA SubmitActionTypes ==
    ASSUME LedgerTypes, NEW r \in Bets, NEW extra \in ExtraStakes, SubmitAction(r, extra)
    PROVE  LedgerTypes'
<1>. DEFINE fresh == tracked[r] = None
            roundKey == IF fresh THEN ResumeKey(r) ELSE tracked[r]
            resumed == IF fresh THEN BetPlaced(ledger, roundKey, 0) ELSE ledger
<1>1. tracked' = [tracked EXCEPT ![r] = roundKey]
      /\ ledger' = IF extra > 0 THEN BetPlaced(resumed, roundKey, extra) ELSE resumed
    BY DEF SubmitAction
<1>2. roundKey \in Keys
    BY KeyTypes DEF LedgerTypes
<1>. HIDE DEF roundKey
<1>3. resumed \in Ledgers
    BY <1>2, BetEffect DEF LedgerTypes
<1>. HIDE DEF resumed
<1>4. ledger' \in Ledgers
    BY <1>1, <1>2, <1>3, BetEffect, Constants
<1>5. tracked' \in [Bets -> Keys \cup {None}]
    BY <1>1, <1>2 DEF LedgerTypes
<1>6. submit' \in [Bets -> [extra : Nat, landed : BOOLEAN, echo : Nat]]
    <2>1. [extra |-> extra, landed |-> FALSE, echo |-> Latest(r)]
              \in [extra : Nat, landed : BOOLEAN, echo : Nat]
        BY Constants, LatestType
    <2>. QED BY <2>1 DEF SubmitAction, LedgerTypes
<1>7. doubt' \in BOOLEAN
    BY DEF SubmitAction, LedgerTypes
<1>. QED BY <1>4, <1>5, <1>6, <1>7
         DEF LedgerTypes, SubmitAction, chainVars, readVars, viewVars, memoryVars, mountVars

LEMMA StepTypes ==
    ASSUME LedgerTypes, NEW r \in Bets, chain' = [chain EXCEPT ![r].step = @ + 1]
    PROVE  chain' \in [Bets -> [phase : Phases, payout : Payouts \cup {None}, step : Nat]]
<1>. DEFINE P == Payouts \cup {None}
<1>1. chain[r].step + 1 \in Nat /\ chain' = [chain EXCEPT ![r].step = chain[r].step + 1]
    BY DEF LedgerTypes
<1>2. chain \in [Bets -> [phase : Phases, payout : P, step : Nat]]
    BY DEF LedgerTypes
<1>. HIDE DEF P
<1>3. chain' \in [Bets -> [phase : Phases, payout : P, step : Nat]]
    BY <1>1, <1>2
<1>. QED BY <1>3 DEF P

LEMMA SubmitLandsTypes ==
    ASSUME LedgerTypes, NEW r \in Bets, SubmitLands(r) PROVE LedgerTypes'
<1>1. /\ onChain' \in Int /\ reads' \subseteq [epoch : Nat, seen : SUBSET Int]
      /\ rawRead' \subseteq Int /\ raw' \in Int \cup {None} /\ midRound' \in BOOLEAN
    <2>1. \A gain \in {-submit[r].extra} \cup setting.returns : onChain + gain \in Int
        BY ReturnTypes DEF LedgerTypes
    <2>. QED BY <2>1, MovesTypes DEF SubmitLands, LedgerTypes, readVars
<1>2. chain' \in [Bets -> [phase : Phases, payout : Payouts \cup {None}, step : Nat]]
    BY StepTypes DEF SubmitLands, LedgerTypes
<1>3. submit' \in [Bets -> [extra : Nat, landed : BOOLEAN, echo : Nat]]
    <2>1. submit' = [submit EXCEPT ![r].landed = TRUE]
        BY DEF SubmitLands
    <2>. QED BY <2>1 DEF LedgerTypes
<1>4. doubt' \in BOOLEAN
    BY DEF SubmitLands, LedgerTypes
<1>. QED BY <1>1, <1>2, <1>3, <1>4 DEF LedgerTypes, SubmitLands, roundVars, viewVars, memoryVars, mountVars

LEMMA RouterAdvancesTypes ==
    ASSUME LedgerTypes, NEW r \in Bets, RouterAdvances(r) PROVE LedgerTypes'
<1>1. /\ onChain' \in Int /\ reads' \subseteq [epoch : Nat, seen : SUBSET Int]
      /\ rawRead' \subseteq Int /\ raw' \in Int \cup {None} /\ midRound' \in BOOLEAN
    <2>1. \A back \in {0} \cup setting.returns : onChain + back \in Int
        BY ReturnTypes DEF LedgerTypes
    <2>. QED BY <2>1, MovesTypes DEF RouterAdvances, LedgerTypes, readVars
<1>2. chain' \in [Bets -> [phase : Phases, payout : Payouts \cup {None}, step : Nat]]
    BY StepTypes DEF RouterAdvances
<1>3. doubt' \in BOOLEAN
    BY DEF RouterAdvances, LedgerTypes
<1>. QED BY <1>1, <1>2, <1>3 DEF LedgerTypes, RouterAdvances, callVars, roundVars, viewVars, memoryVars,
                                 mountVars

LEMMA SubmitSucceedsTypes ==
    ASSUME LedgerTypes, NEW r \in Bets, SubmitSucceeds(r) PROVE LedgerTypes'
<1>1. submit' \in [Bets -> [extra : Nat, landed : BOOLEAN, echo : Nat]]
    BY DEF SubmitSucceeds, LedgerTypes, NoSubmit
<1>2. remembered' \in [Bets -> [receipt : Nat, patch : Nat, row : Nat]] /\ untold' \in [Bets -> Nat]
    <2>1. submit[r].echo + 1 \in Nat
        BY DEF LedgerTypes
    <2>2. CASE <<"submit", r>> \in orphans
        BY <2>2, UnreportedEffect DEF SubmitSucceeds, LedgerTypes
    <2>3. CASE Remember(r, submit[r].echo + 1)
        BY <2>1, <2>3, RememberEffect
    <2>. QED BY <2>2, <2>3 DEF SubmitSucceeds
<1>. QED BY <1>1, <1>2 DEF LedgerTypes, SubmitSucceeds, chainVars, readVars, roundVars, mountVars

LEMMA SubmitFailsTypes ==
    ASSUME LedgerTypes, NEW r \in Bets, SubmitFails(r) PROVE LedgerTypes'
<1>1. submit' \in [Bets -> [extra : Nat, landed : BOOLEAN, echo : Nat]]
    BY DEF SubmitFails, LedgerTypes, NoSubmit
<1>2. ledger' \in Ledgers
    <2>1. submit[r].extra \in Int
        BY DEF LedgerTypes
    <2>. QED BY <2>1, RefundEffect DEF SubmitFails, LedgerTypes
<1>3. doubt' \in BOOLEAN
    BY DEF SubmitFails, LedgerTypes
<1>4. untold' \in [Bets -> Nat]
    BY UnreportedEffect DEF SubmitFails
<1>. QED BY <1>1, <1>2, <1>3, <1>4
         DEF LedgerTypes, SubmitFails, chainVars, readVars, roundVars, viewVars, memoryVars, mountVars

\* What a step of the chain does to the balance: as much as the ledger expects,
\* unless it is in doubt from then on.
LEMMA LandEffect ==
    ASSUME LedgerTypes, NEW r \in Bets, Land(r)
    PROVE  /\ doubt => doubt'
           /\ ~Mine(r) => UNCHANGED <<onChain, readVars>>
           /\ Mine(r) => \E v \in Int : Moves(v) /\ (~doubt' => Active(r) /\ v = onChain - Stake)
<1>1. PICK back \in {0} \cup setting.returns :
         /\ IF Mine(r) THEN Moves(onChain - Stake + back) ELSE UNCHANGED <<onChain, readVars>>
         /\ doubt' = (doubt \/ (Mine(r) /\ (~Active(r) \/ back # 0)))
    BY DEF Land
<1>2. onChain \in Int /\ back \in Int /\ Stake \in Int
    BY Constants, ReturnTypes DEF LedgerTypes
<1>3. onChain - Stake + back \in Int /\ (back = 0 => onChain - Stake + back = onChain - Stake)
    BY <1>2
<1>. QED BY <1>1, <1>3

LEMMA SubmitLandsEffect ==
    ASSUME LedgerTypes, NEW r \in Bets, SubmitLands(r)
    PROVE  /\ doubt => doubt'
           /\ ~Mine(r) => UNCHANGED <<onChain, readVars>>
           /\ Mine(r) => \E v \in Int : Moves(v) /\ (~doubt' => Active(r) /\ v = onChain - submit[r].extra)
<1>1. PICK gain \in {-submit[r].extra} \cup setting.returns :
         /\ IF Mine(r) THEN Moves(onChain + gain) ELSE UNCHANGED <<onChain, readVars>>
         /\ doubt' = (doubt \/ (Mine(r) /\ (~Active(r) \/ gain # -submit[r].extra)))
    BY DEF SubmitLands
<1>2. onChain \in Int /\ gain \in Int /\ submit[r].extra \in Int
    BY ReturnTypes DEF LedgerTypes
<1>3. onChain + gain \in Int /\ (gain = -submit[r].extra => onChain + gain = onChain - submit[r].extra)
    BY <1>2
<1>. QED BY <1>1, <1>3

LEMMA RouterEffect ==
    ASSUME LedgerTypes, NEW r \in Bets, RouterAdvances(r)
    PROVE  /\ chain[r].phase = "open" /\ chain'[r].phase = "open"
           /\ \A q \in Bets : chain'[q].phase = chain[q].phase /\ chain'[q].payout = chain[q].payout
           /\ \A q \in Bets \ {r} : chain'[q] = chain[q]
           /\ chain[r].step \notin turns[r] /\ chain'[r].step = chain[r].step + 1
           /\ doubt => doubt'
           /\ UNCHANGED <<onChain, readVars>> \/ (doubt' /\ \E v \in Int : Moves(v))
           /\ UNCHANGED <<callVars, roundVars, viewVars, memoryVars, mountVars, ledger>>
<1>1. PICK back \in {0} \cup setting.returns :
         /\ IF Mine(r) /\ back # 0 THEN Moves(onChain + back) ELSE UNCHANGED <<onChain, readVars>>
         /\ doubt' = (doubt \/ (Mine(r) /\ back # 0))
    BY DEF RouterAdvances
<1>2. onChain + back \in Int
    BY ReturnTypes DEF LedgerTypes
<1>3. UNCHANGED <<onChain, readVars>> \/ (doubt' /\ \E v \in Int : Moves(v))
    BY <1>1, <1>2
<1>4. chain[r].step \in Nat /\ chain' = [chain EXCEPT ![r].step = chain[r].step + 1]
    BY DEF RouterAdvances, LedgerTypes
<1>5. /\ \A q \in Bets : chain'[q].phase = chain[q].phase /\ chain'[q].payout = chain[q].payout
      /\ \A q \in Bets \ {r} : chain'[q] = chain[q]
      /\ chain'[r].step = chain[r].step + 1
    BY <1>4 DEF LedgerTypes
<1>6. chain[r].phase = "open" /\ chain[r].step \notin turns[r]
      /\ UNCHANGED <<callVars, roundVars, viewVars, memoryVars, mountVars, ledger>>
    BY DEF RouterAdvances, viewVars
<1>7. doubt => doubt'
    BY <1>1
<1>. QED BY <1>3, <1>5, <1>6, <1>7

\* A session that is over has been given its payout.
LEMMA PayoutType ==
    ASSUME LedgerTypes, SessionFacts, NEW r \in Bets, chain[r].phase = "over"
    PROVE  PayoutOf[r] = chain[r].payout /\ PayoutOf[r] \in Int /\ PayoutOf[r] \in Nat
<1>1. chain[r].payout \in Payouts
    BY DEF SessionFacts
<1>4. \A p \in Payouts : p \in Nat /\ p \in Int
    BY Constants
<1>2. chain[r].payout \in Nat /\ chain[r].payout \in Int
    BY <1>1, <1>4
<1>3. PayoutOf[r] = chain[r].payout
    BY DEF PayoutOf
<1>. QED BY <1>2, <1>3

LEMMA RevealOutcomeTypes ==
    ASSUME LedgerTypes, SessionFacts, NEW r \in Bets, RevealOutcome(r) PROVE LedgerTypes'
<1>1. /\ ledger' \in Ledgers
      /\ tracked' \in [Bets -> Keys \cup {None}] /\ pendingReveal' \subseteq Bets
    <2>1. CASE (SessionRows[r] = "over" \/ patched[r]) /\ EndRounds({r}, PayoutOf)
        <3>1. chain[r].phase = "over"
            BY <2>1 DEF SessionFacts, SessionRows, NoRows
        <3>2. \A q \in {r} : PayoutOf[q] \in Int
            BY <3>1, PayoutType
        <3>3. {r} \in SUBSET Bets
            OBVIOUS
        <3>. QED BY <2>1, <3>2, <3>3, EndRoundsTypes
    <2>2. CASE pendingReveal' = pendingReveal \cup {r} /\ UNCHANGED <<ledger, tracked>>
        BY <2>2 DEF LedgerTypes
    <2>. QED BY <2>1, <2>2 DEF RevealOutcome
<1>. QED BY <1>1 DEF LedgerTypes, RevealOutcome, chainVars, callVars, readVars, viewVars, memoryVars, mountVars

LEMMA EndsTypes ==
    ASSUME LedgerTypes, NEW r \in Bets, Ends(r) PROVE LedgerTypes'
<1>1. PICK payout \in Payouts :
         /\ chain' = [chain EXCEPT ![r].phase = "over", ![r].payout = payout]
         /\ IF Mine(r) THEN Moves(onChain + payout) ELSE UNCHANGED <<onChain, readVars>>
    BY DEF Ends
<1>2. /\ onChain' \in Int /\ reads' \subseteq [epoch : Nat, seen : SUBSET Int]
      /\ rawRead' \subseteq Int /\ raw' \in Int \cup {None} /\ midRound' \in BOOLEAN
    <2>1. onChain + payout \in Int
        BY Constants DEF LedgerTypes
    <2>. QED BY <1>1, <2>1, MovesTypes DEF LedgerTypes, readVars
<1>3. chain' \in [Bets -> [phase : Phases, payout : Payouts \cup {None}, step : Nat]]
    <2>1. [chain EXCEPT ![r].phase = "over"]
             \in [Bets -> [phase : Phases, payout : Payouts \cup {None}, step : Nat]]
        <3>1. "over" \in Phases
            BY DEF Phases
        <3>. QED BY <3>1, PhaseTypes DEF LedgerTypes
    <2>. QED BY <1>1, <2>1
<1>4. doubt' \in BOOLEAN
    BY DEF Ends, LedgerTypes
<1>. QED BY <1>2, <1>3, <1>4 DEF LedgerTypes, Ends, callVars, roundVars, viewVars, memoryVars, mountVars

LEMMA FlashTypes ==
    ASSUME LedgerTypes, NEW r \in Bets, Flash(r) PROVE LedgerTypes'
<1>1. PICK step \in remembered[r].patch..chain[r].step : \E settled \in {FALSE, chain[r].phase = "over"} :
          /\ patched' = [patched EXCEPT ![r] = settled]
          /\ remembered' = [remembered EXCEPT ![r].patch = step]
    BY DEF Flash
<1>2. step \in Nat
    BY DEF LedgerTypes
<1>3. patched' \in [Bets -> BOOLEAN]
    BY <1>1 DEF LedgerTypes
<1>4. remembered' \in [Bets -> [receipt : Nat, patch : Nat, row : Nat]]
    <2>1. remembered \in [Bets -> [receipt : Nat, patch : Nat, row : Nat]]
        BY DEF LedgerTypes
    <2>2. [remembered[r] EXCEPT !.patch = step] \in [receipt : Nat, patch : Nat, row : Nat]
        BY <1>2, <2>1
    <2>. QED BY <1>1, <2>1, <2>2
<1>. QED BY <1>3, <1>4 DEF LedgerTypes, Flash, chainVars, callVars, readVars, roundVars, mountVars

\* Rounds that the rows settle.
LEMMA SettleTypes ==
    ASSUME LedgerTypes, SessionFacts, NEW known, \A r \in Bets : known[r] = "over" => chain[r].phase = "over",
           SettleTrackedRounds(known)
    PROVE  /\ ledger' \in Ledgers
           /\ tracked' \in [Bets -> Keys \cup {None}] /\ pendingReveal' \subseteq Bets
<1>. DEFINE S == {r \in Bets : known[r] = "over" /\ (r \in pendingReveal \/ PayoutOf[r] = 0)}
<1>1. EndRounds(S, PayoutOf)
    BY DEF SettleTrackedRounds
<1>2. \A r \in S : PayoutOf[r] \in Int
    BY PayoutType
<1>3. S \in SUBSET Bets
    OBVIOUS
<1>. QED BY <1>1, <1>2, <1>3, EndRoundsTypes

\* Only a session that is over gets a final row.
LEMMA IndexedRows ==
    ASSUME LedgerTypes, SessionFacts, NEW r \in Bets, Index(r)
    PROVE  /\ rows' \in [Bets -> Phases]
           /\ \A q \in Bets : rows'[q] = "over" => chain[q].phase = "over"
BY DEF Index, LedgerTypes, SessionFacts, Phases

LEMMA IndexTypes ==
    ASSUME LedgerTypes, SessionFacts, NEW r \in Bets, Index(r) PROVE LedgerTypes'
<1>1. /\ ledger' \in Ledgers
      /\ tracked' \in [Bets -> Keys \cup {None}] /\ pendingReveal' \subseteq Bets
    BY IndexedRows, SettleTypes DEF Index, LedgerTypes, roundVars
<1>2. patched' \in [Bets -> BOOLEAN] /\ remembered' \in [Bets -> [receipt : Nat, patch : Nat, row : Nat]]
    <2>1. remembered[r].row + 1 \in Nat
        BY DEF LedgerTypes
    <2>2. CASE patched' = [patched EXCEPT ![r] = @ /\ ~walletReady] /\ UNCHANGED remembered
        BY <2>2 DEF LedgerTypes
    <2>3. CASE UNCHANGED patched /\ remembered' = [remembered EXCEPT ![r].row = @ + 1]
        BY <2>1, <2>3 DEF LedgerTypes
    <2>. QED BY <2>2, <2>3 DEF Index
<1>. QED BY <1>1, <1>2, IndexedRows DEF LedgerTypes, Index, chainVars, callVars, readVars, mountVars

LEMMA SetWalletTypes ==
    ASSUME LedgerTypes, SessionFacts, SetWallet PROVE LedgerTypes'
<1>1. /\ ledger' \in Ledgers
      /\ tracked' \in [Bets -> Keys \cup {None}] /\ pendingReveal' \subseteq Bets
    <2>1. CASE walletReady
        BY <2>1 DEF SetWallet, LedgerTypes, roundVars
    <2>2. CASE ~walletReady
        <3>1. SettleTrackedRounds(rows)
            BY <2>2 DEF SetWallet
        <3>2. \A r \in Bets : rows[r] = "over" => chain[r].phase = "over"
            BY DEF SessionFacts
        <3>. QED BY <3>1, <3>2, SettleTypes
    <2>. QED BY <2>1, <2>2
<1>2. patched' \in [Bets -> BOOLEAN]
    BY DEF SetWallet, LedgerTypes
<1>. QED BY <1>1, <1>2 DEF LedgerTypes, SetWallet, memoryVars, chainVars, callVars, readVars

\* The other steps of the host.
LEMMA TimerTypes == ASSUME LedgerTypes, ReconcileTimer PROVE LedgerTypes'
<1>1. ledger' \in Ledgers
    BY DEF ReconcileTimer, LedgerTypes, Ledgers
<1>2. reads' \subseteq [epoch : Nat, seen : SUBSET Int]
    <2>1. [epoch |-> ledger.epoch, seen |-> {onChain}] \in [epoch : Nat, seen : SUBSET Int]
        BY DEF LedgerTypes, Ledgers
    <2>. QED BY <2>1 DEF ReconcileTimer, LedgerTypes
<1>. QED BY <1>1, <1>2 DEF LedgerTypes, ReconcileTimer, chainVars, callVars, roundVars, viewVars, memoryVars, mountVars

LEMMA AdoptEffect ==
    ASSUME NEW l \in Ledgers, NEW fresh \in Int
    PROVE  /\ Adopt(l, fresh) \in Ledgers /\ Adopt(l, fresh).activeRounds = l.activeRounds
           /\ Adopt(l, fresh).adjustment = 0 /\ Adopt(l, fresh).baseline = fresh
           /\ Adopt(l, fresh).epoch = l.epoch
<1>1. Adopt(l, fresh) \in Ledgers
    <2>. DEFINE Balances == Int \cup {None}
    <2>1. fresh \in Balances /\ 0 \in Int
        OBVIOUS
    <2>2. l \in [baseline : Balances, adjustment : Int, activeRounds : SUBSET Keys,
                 epoch : Nat, timer : BOOLEAN]
        BY DEF Ledgers
    <2>. HIDE DEF Balances
    <2>3. [l EXCEPT !.baseline = fresh, !.adjustment = 0]
             \in [baseline : Balances, adjustment : Int, activeRounds : SUBSET Keys,
                 epoch : Nat, timer : BOOLEAN]
        BY <2>1, <2>2
    <2>. QED BY <2>3 DEF Adopt, Ledgers, Balances
<1>2. Adopt(l, fresh).adjustment = 0 /\ Adopt(l, fresh).baseline = fresh
    BY DEF Adopt, Ledgers
<1>3. Adopt(l, fresh).epoch = l.epoch /\ Adopt(l, fresh).activeRounds = l.activeRounds
    BY DEF Adopt, Ledgers
<1>. QED BY <1>1, <1>2, <1>3

LEMMA ReadReturnsTypes ==
    ASSUME LedgerTypes, NEW rd \in reads, ReadReturns(rd) PROVE LedgerTypes'
<1>1. ledger' \in Ledgers
    <2>1. \A fresh \in rd.seen : fresh \in Int
        BY DEF LedgerTypes
    <2>. QED BY <2>1, AdoptEffect DEF ReadReturns, LedgerTypes
<1>2. reads' \subseteq [epoch : Nat, seen : SUBSET Int]
    BY DEF ReadReturns, LedgerTypes
<1>. QED BY <1>1, <1>2 DEF LedgerTypes, ReadReturns, chainVars, callVars, roundVars, viewVars, memoryVars, mountVars

LEMMA RawReturnsTypes == ASSUME LedgerTypes, RawReturns PROVE LedgerTypes'
<1>1. raw' \in Int \cup {None} /\ rawRead' \subseteq Int
    BY DEF RawReturns, LedgerTypes
<1>. QED BY <1>1 DEF LedgerTypes, RawReturns, chainVars, callVars, roundVars, viewVars, memoryVars, mountVars

LEMMA SeedEffect ==
    ASSUME LedgerTypes, Seed
    PROVE  /\ ledger' \in Ledgers /\ ledger'.activeRounds = ledger.activeRounds
           /\ ledger'.adjustment = ledger.adjustment /\ ledger'.baseline = raw
           /\ ledger'.epoch = ledger.epoch
BY DEF Seed, LedgerTypes, Ledgers

LEMMA SeedTypes == ASSUME LedgerTypes, Seed PROVE LedgerTypes'
BY SeedEffect
   DEF LedgerTypes, Seed, chainVars, callVars, readVars, roundVars, viewVars, memoryVars, mountVars

LEMMA UnmountTypes == ASSUME LedgerTypes, Unmount PROVE LedgerTypes'
<1>1. /\ ledger' \in Ledgers
      /\ tracked' \in [Bets -> Keys \cup {None}] /\ pendingReveal' \subseteq Bets
    <2>1. EndRounds(Bets, Nothing) /\ \A q \in Bets : Nothing[q] \in Int
        BY DEF Unmount, Nothing
    <2>. QED BY <2>1, EndRoundsTypes
<1>2. rawRead' \subseteq Int /\ raw' \in Int \cup {None} /\ mount' \in Nat /\ doubt' \in BOOLEAN
    BY DEF Unmount, LedgerTypes
<1>3. /\ rows' \in [Bets -> Phases] /\ patched' \in [Bets -> BOOLEAN]
      /\ remembered' \in [Bets -> [receipt : Nat, patch : Nat, row : Nat]]
    BY DEF Unmount, NoRows, Phases
<1>4. untold' \in [Bets -> Nat]
    BY DEF Unmount, LedgerTypes
<1>. QED BY <1>1, <1>2, <1>3, <1>4 DEF LedgerTypes, Unmount, chainVars

LEMMA MountTypes ==
    ASSUME LedgerTypes, NEW next \in account..setting.switches, Mount(next) PROVE LedgerTypes'
<1>1. next \in Nat
    BY DEF LedgerTypes
<1>2. ledger' \in Ledgers /\ onChain' \in Int /\ doubt' \in BOOLEAN
    BY ResetEffect, Constants DEF Mount, LedgerTypes
<1>3. midRound' \in BOOLEAN /\ rawRead' \subseteq Int
    BY <1>2 DEF Mount, LedgerTypes
<1>. QED BY <1>1, <1>2, <1>3 DEF LedgerTypes, Mount, callVars, roundVars, viewVars, memoryVars

LEMMA TypesStep == LedgerTypes /\ SessionFacts /\ [HostNext]_hostVars => LedgerTypes'
<1>. SUFFICES ASSUME LedgerTypes, SessionFacts, [HostNext]_hostVars PROVE LedgerTypes'
    OBVIOUS
<1>1. CASE \E r \in Bets :
              \/ OpenSession(r) \/ Land(r) \/ OpenSucceeds(r) \/ OpenRecovers(r) \/ OpenFails(r)
              \/ \E extra \in ExtraStakes : SubmitAction(r, extra)
              \/ SubmitLands(r) \/ RouterAdvances(r) \/ SubmitSucceeds(r) \/ SubmitFails(r)
              \/ RevealOutcome(r) \/ Ends(r) \/ Flash(r) \/ Index(r)
    BY <1>1, OpenSessionTypes, LandTypes, OpenSucceedsTypes, OpenRecoversTypes, OpenFailsTypes,
       SubmitActionTypes, SubmitLandsTypes, RouterAdvancesTypes, SubmitSucceedsTypes, SubmitFailsTypes,
       RevealOutcomeTypes, EndsTypes, FlashTypes, IndexTypes
<1>2. CASE \/ SetWallet \/ ReconcileTimer \/ (\E rd \in reads : ReadReturns(rd))
           \/ RawReturns \/ Seed \/ Unmount \/ (\E next \in account..setting.switches : Mount(next))
    BY <1>2, SetWalletTypes, TimerTypes, ReadReturnsTypes, RawReturnsTypes, SeedTypes,
       UnmountTypes, MountTypes
<1>3. CASE UNCHANGED hostVars
    BY <1>3 DEF hostVars, memoryVars, LedgerTypes
<1>. QED BY <1>1, <1>2, <1>3 DEF HostNext

-----------------------------------------------------------------------------
(***************************************************************************)
(* Rounds that end.                                                        *)
(***************************************************************************)

LEMMA EndRoundsEffect ==
    ASSUME LedgerTypes, RoundFacts, NEW S \in SUBSET Bets, NEW credit,
           \A r \in S : tracked[r] # None => credit[r] \in Int, EndRounds(S, credit)
    PROVE  LET revealed == {r \in S : tracked[r] # None}
           IN  /\ IsFiniteSet(revealed) /\ SumFunctionOnSet(credit, revealed) \in Int
               /\ ledger'.adjustment = ledger.adjustment + SumFunctionOnSet(credit, revealed)
               /\ ledger'.baseline = ledger.baseline /\ ledger'.epoch = ledger.epoch
               /\ ledger'.activeRounds = ledger.activeRounds \ {tracked[r] : r \in revealed}
               /\ \A q \in Bets :
                     /\ tracked'[q] = IF q \in S THEN None ELSE tracked[q]
                     /\ OpenKey(q) \in ledger'.activeRounds <=>
                           OpenKey(q) \in ledger.activeRounds /\ ~(q \in S /\ tracked[q] = OpenKey(q))
                     /\ ResumeKey(q) \in ledger'.activeRounds <=>
                           ResumeKey(q) \in ledger.activeRounds /\ ~(q \in S /\ tracked[q] = ResumeKey(q))
<1>. DEFINE revealed == {r \in S : tracked[r] # None}
            sum == SumFunctionOnSet(credit, revealed)
            ended == {tracked[r] : r \in revealed}
<1>1. \A r \in Bets : tracked[r] # None <=> tracked[r] \in ledger.activeRounds
    <2>1. \A r \in Bets : tracked[r] # None => tracked[r] \in ledger.activeRounds
        BY DEF RoundFacts
    <2>2. None \notin Keys
        <3>1. \A r \in Bets : OpenKey(r) # None /\ ResumeKey(r) # None
            BY KeysDiffer
        <3>. QED BY <3>1, Zenon DEF Keys
    <2>. QED BY <2>1, <2>2 DEF LedgerTypes, Ledgers
<1>2. {r \in S : tracked[r] \in ledger.activeRounds} = revealed
    BY <1>1
<1>3. IsFiniteSet(revealed) /\ sum \in Int
    <2>1. IsFiniteSet(revealed) /\ Integral(credit, revealed)
        BY Constants, FS_Subset DEF Integral
    <2>. QED BY <2>1, SumType
<1>4. ledger' = RoundsRevealed(ledger, ended, sum)
    BY <1>2 DEF EndRounds
<1>5. \A q \in Bets : tracked'[q] = IF q \in S THEN None ELSE tracked[q]
    BY DEF EndRounds
<1>6. ASSUME NEW q \in Bets
      PROVE  /\ OpenKey(q) \in ended <=> q \in S /\ tracked[q] = OpenKey(q)
             /\ ResumeKey(q) \in ended <=> q \in S /\ tracked[q] = ResumeKey(q)
    <2>1. \A r \in S : tracked[r] \in {None, OpenKey(r), ResumeKey(r)}
        BY DEF RoundFacts
    <2>2. OpenKey(q) # None /\ ResumeKey(q) # None
        BY KeysDiffer
    <2>3. ASSUME NEW r \in S, tracked[r] = OpenKey(q) PROVE r = q
        BY <2>1, <2>2, <2>3, KeysDiffer
    <2>4. ASSUME NEW r \in S, tracked[r] = ResumeKey(q) PROVE r = q
        BY <2>1, <2>2, <2>4, KeysDiffer
    <2>. QED BY <2>2, <2>3, <2>4
<1>. HIDE DEF sum, ended, revealed
<1>7. /\ ledger'.adjustment = ledger.adjustment + sum
      /\ ledger'.baseline = ledger.baseline /\ ledger'.epoch = ledger.epoch
      /\ ledger'.activeRounds = ledger.activeRounds \ ended
    BY <1>3, <1>4, RevealEffect DEF LedgerTypes
<1>8. \A q \in Bets :
         /\ OpenKey(q) \in ledger'.activeRounds <=>
               OpenKey(q) \in ledger.activeRounds /\ ~(q \in S /\ tracked[q] = OpenKey(q))
         /\ ResumeKey(q) \in ledger'.activeRounds <=>
               ResumeKey(q) \in ledger.activeRounds /\ ~(q \in S /\ tracked[q] = ResumeKey(q))
    BY <1>6, <1>7
<1>. QED BY <1>3, <1>5, <1>7, <1>8 DEF sum, ended, revealed

\* The same for the rounds that a reveal, the rows or an unmount end, whatever
\* they are credited.
LEMMA RoundsEnd ==
    ASSUME LedgerTypes, RoundFacts, NEW S \in SUBSET Bets, NEW credit,
           \A r \in S : tracked[r] # None => credit[r] \in Int, EndRounds(S, credit)
    PROVE  /\ ledger'.baseline = ledger.baseline /\ ledger'.epoch = ledger.epoch
           /\ ledger'.activeRounds \subseteq ledger.activeRounds
           /\ \A q \in Bets :
                 /\ tracked'[q] = IF q \in S THEN None ELSE tracked[q]
                 /\ OpenKey(q) \in ledger'.activeRounds <=>
                       OpenKey(q) \in ledger.activeRounds /\ ~(q \in S /\ tracked[q] = OpenKey(q))
                 /\ ResumeKey(q) \in ledger'.activeRounds <=>
                       ResumeKey(q) \in ledger.activeRounds /\ ~(q \in S /\ tracked[q] = ResumeKey(q))
<1>1. LET revealed == {r \in S : tracked[r] # None}
      IN  /\ ledger'.baseline = ledger.baseline /\ ledger'.epoch = ledger.epoch
          /\ ledger'.activeRounds = ledger.activeRounds \ {tracked[r] : r \in revealed}
    BY EndRoundsEffect
<1>. QED BY <1>1, EndRoundsEffect

\* A reveal and the rows end rounds of sessions that are over, if any.
RoundsOver ==
    \/ UNCHANGED <<ledger, tracked>>
    \/ \E S \in SUBSET Bets : (\A q \in S : chain[q].phase = "over") /\ EndRounds(S, PayoutOf)

LEMMA RevealsEndRounds ==
    ASSUME LedgerTypes, SessionFacts, (\E r \in Bets : RevealOutcome(r) \/ Index(r)) \/ SetWallet
    PROVE  RoundsOver
<1>1. ASSUME NEW known, \A q \in Bets : known[q] = "over" => chain[q].phase = "over",
             SettleTrackedRounds(known)
      PROVE  RoundsOver
    <2>. DEFINE S == {q \in Bets : known[q] = "over" /\ (q \in pendingReveal \/ PayoutOf[q] = 0)}
    <2>1. EndRounds(S, PayoutOf) /\ S \in SUBSET Bets /\ \A q \in S : chain[q].phase = "over"
        BY <1>1 DEF SettleTrackedRounds
    <2>. QED BY <2>1 DEF RoundsOver
<1>2. ASSUME NEW r \in Bets, RevealOutcome(r) PROVE RoundsOver
    <2>1. CASE (SessionRows[r] = "over" \/ patched[r]) /\ EndRounds({r}, PayoutOf)
        <3>1. chain[r].phase = "over"
            BY <2>1 DEF SessionFacts, SessionRows, NoRows
        <3>2. {r} \in SUBSET Bets /\ \A q \in {r} : chain[q].phase = "over"
            BY <3>1
        <3>. QED BY <2>1, <3>2 DEF RoundsOver
    <2>2. CASE UNCHANGED <<ledger, tracked>>
        BY <2>2 DEF RoundsOver
    <2>. QED BY <1>2, <2>1, <2>2 DEF RevealOutcome
<1>3. ASSUME NEW r \in Bets, Index(r) PROVE RoundsOver
    BY <1>1, <1>3, IndexedRows DEF Index, roundVars, RoundsOver
<1>4. CASE SetWallet
    <2>1. \A q \in Bets : rows[q] = "over" => chain[q].phase = "over"
        BY DEF SessionFacts
    <2>2. CASE walletReady
        BY <1>4, <2>2 DEF SetWallet, roundVars, RoundsOver
    <2>3. CASE ~walletReady
        <3>1. SettleTrackedRounds(rows)
            BY <1>4, <2>3 DEF SetWallet
        <3>. QED BY <1>1, <2>1, <3>1
    <2>. QED BY <2>2, <2>3
<1>. QED BY <1>2, <1>3, <1>4

LEMMA RoundsOverEffect ==
    ASSUME LedgerTypes, SessionFacts, RoundFacts, RoundsOver
    PROVE  /\ ledger'.baseline = ledger.baseline /\ ledger'.epoch = ledger.epoch
           /\ ledger'.activeRounds \subseteq ledger.activeRounds
           /\ \A q \in Bets :
                 /\ tracked'[q] = tracked[q] \/ tracked'[q] = None
                 /\ tracked'[q] # None => tracked'[q] = tracked[q]
                 /\ OpenKey(q) \in ledger'.activeRounds <=>
                       OpenKey(q) \in ledger.activeRounds /\ ~(tracked[q] = OpenKey(q) /\ tracked'[q] = None)
                 /\ ResumeKey(q) \in ledger'.activeRounds <=>
                       ResumeKey(q) \in ledger.activeRounds /\ ~(tracked[q] = ResumeKey(q) /\ tracked'[q] = None)
<1>1. CASE UNCHANGED <<ledger, tracked>>
    BY <1>1, KeysDiffer
<1>2. CASE \E S \in SUBSET Bets : (\A q \in S : chain[q].phase = "over") /\ EndRounds(S, PayoutOf)
    <2>1. PICK S \in SUBSET Bets : (\A q \in S : chain[q].phase = "over") /\ EndRounds(S, PayoutOf)
        BY <1>2
    <2>2. \A q \in S : tracked[q] # None => PayoutOf[q] \in Int
        BY <2>1, PayoutType
    <2>. HIDE DEF PayoutOf
    <2>3. /\ ledger'.baseline = ledger.baseline /\ ledger'.epoch = ledger.epoch
          /\ ledger'.activeRounds \subseteq ledger.activeRounds
          /\ \A q \in Bets :
                 /\ tracked'[q] = IF q \in S THEN None ELSE tracked[q]
                 /\ OpenKey(q) \in ledger'.activeRounds <=>
                       OpenKey(q) \in ledger.activeRounds /\ ~(q \in S /\ tracked[q] = OpenKey(q))
                 /\ ResumeKey(q) \in ledger'.activeRounds <=>
                       ResumeKey(q) \in ledger.activeRounds /\ ~(q \in S /\ tracked[q] = ResumeKey(q))
        BY <2>1, <2>2, RoundsEnd
    <2>. QED BY <2>3, KeysDiffer
<1>. QED BY <1>1, <1>2 DEF RoundsOver

-----------------------------------------------------------------------------
(***************************************************************************)
(* The life of a session.                                                  *)
(***************************************************************************)

LEMMA SessionInit == HostInit => SessionFacts
<1>. SUFFICES ASSUME HostInit PROVE SessionFacts
    OBVIOUS
<1>1. PICK reached \in [setting.found -> 0..setting.steps] : FoundAtLoad(reached)
    BY DEF HostInit
<1>0. \A r \in setting.found : reached[r] \in Nat
    OBVIOUS
<1>. QED BY <1>0, <1>1 DEF FoundAtLoad, HostInit, SessionFacts, Unopened, Known, Mine

LEMMA KnownAfter ==
    ASSUME LedgerTypes, NEW r \in Bets, NEW step \in Nat, Remember(r, step), NEW q \in Bets, Known(q)'
    PROVE  Known(q) \/ q = r
<1>1. /\ remembered'[q].patch = remembered[q].patch /\ remembered'[q].row = remembered[q].row
      /\ q # r => remembered'[q].receipt = remembered[q].receipt \/ remembered'[q].receipt = 0
    BY RememberEffect
<1>. QED BY <1>1 DEF Known

LEMMA SessionStep ==
    LedgerTypes /\ SessionFacts /\ CallFacts /\ RoundFacts /\ [HostNext]_hostVars => SessionFacts'
<1>. SUFFICES ASSUME LedgerTypes, SessionFacts, CallFacts, RoundFacts, [HostNext]_hostVars
              PROVE  SessionFacts'
    OBVIOUS
<1>1. ASSUME NEW r \in Bets, OpenSession(r) PROVE SessionFacts'
    BY <1>1 DEF LedgerTypes, SessionFacts, Known, Mine, OpenSession, chainVars, roundVars, viewVars, memoryVars,
                mountVars
<1>2. ASSUME NEW r \in Bets, Land(r) PROVE SessionFacts'
    BY <1>2 DEF LedgerTypes, SessionFacts, Known, Mine, Land, callVars, roundVars, viewVars, memoryVars, mountVars
<1>3. ASSUME NEW r \in Bets, OpenSucceeds(r) PROVE SessionFacts'
    <2>1. send[r] = "sending" /\ chain[r].phase # "none" /\ (OpenKey(r) \notin orphans => Mine(r) /\ mounted)
        BY <1>3 DEF OpenSucceeds, CallFacts
    <2>2. ASSUME NEW q \in Bets, Known(q)' PROVE Known(q) \/ (q = r /\ OpenKey(r) \notin orphans)
        <3>1. CASE OpenKey(r) \in orphans
            BY <1>3, <2>2, <3>1 DEF OpenSucceeds, OpenKey, Known, memoryVars
        <3>2. CASE OpenKey(r) \notin orphans
            <4>1. Remember(r, 1)
                BY <1>3, <3>2 DEF OpenSucceeds, OpenKey
            <4>. QED BY <2>2, <3>2, <4>1, KnownAfter
        <3>. QED BY <3>1, <3>2
    <2>3. send'[r] = "done" /\ \A q \in Bets \ {r} : send'[q] = send[q] /\ tracked'[q] = tracked[q]
        BY <1>3 DEF OpenSucceeds, TrackRound, LedgerTypes
    <2>4. UNCHANGED <<chain, submit, rows, patched, accountOf, account, mounted>>
        BY <1>3 DEF OpenSucceeds, chainVars, mountVars
    <2>. HIDE DEF Known
    <2>. QED BY <2>1, <2>2, <2>3, <2>4 DEF SessionFacts, Mine
<1>4. ASSUME NEW r \in Bets, OpenRecovers(r) PROVE SessionFacts'
    BY <1>4 DEF LedgerTypes, SessionFacts, Known, Mine, OpenRecovers, TrackRound,
                chainVars, viewVars, memoryVars, mountVars
<1>5. ASSUME NEW r \in Bets, OpenFails(r) PROVE SessionFacts'
    BY <1>5 DEF LedgerTypes, SessionFacts, Known, Mine, OpenFails, chainVars, roundVars, viewVars, memoryVars,
                mountVars
<1>6. ASSUME NEW r \in Bets, NEW extra \in ExtraStakes, SubmitAction(r, extra) PROVE SessionFacts'
    <2>1. Known(r)
        BY <1>6, LatestType DEF SubmitAction, Known
    <2>2. chain[r].phase # "none"
        BY <2>1 DEF SessionFacts
    <2>3. send[r] \notin {"idle", "sending"} /\ \A q \in Bets \ {r} : submit'[q] = submit[q] /\ tracked'[q] = tracked[q]
        BY <1>6, <2>2 DEF SubmitAction, SessionFacts, LedgerTypes
    <2>. QED BY <1>6, <2>2, <2>3 DEF SessionFacts, Known, Mine, SubmitAction, chainVars, viewVars, memoryVars, mountVars
<1>7. ASSUME NEW r \in Bets, SubmitLands(r) PROVE SessionFacts'
    BY <1>7 DEF LedgerTypes, SessionFacts, Known, Mine, SubmitLands, roundVars, viewVars, memoryVars, mountVars
<1>8. ASSUME NEW r \in Bets, SubmitSucceeds(r) PROVE SessionFacts'
    <2>1. submit[r] # NoSubmit
        BY <1>8 DEF SubmitSucceeds, NoSubmit
    <2>2. chain[r].phase # "none" /\ send[r] \notin {"idle", "sending"}
          /\ (<<"submit", r>> \notin orphans => Mine(r) /\ mounted)
        BY <2>1 DEF SessionFacts, CallFacts
    <2>3. ASSUME NEW q \in Bets, Known(q)' PROVE Known(q) \/ (q = r /\ <<"submit", r>> \notin orphans)
        <3>1. CASE <<"submit", r>> \in orphans
            BY <1>8, <2>3, <3>1 DEF SubmitSucceeds, Known
        <3>2. CASE <<"submit", r>> \notin orphans
            <4>1. Remember(r, submit[r].echo + 1) /\ submit[r].echo + 1 \in Nat
                BY <1>8, <3>2 DEF SubmitSucceeds, LedgerTypes
            <4>. QED BY <2>3, <3>2, <4>1, KnownAfter
        <3>. QED BY <3>1, <3>2
    <2>4. ASSUME NEW q \in Bets PROVE submit'[q] = submit[q] \/ submit'[q] = NoSubmit
        BY <1>8 DEF SubmitSucceeds, LedgerTypes
    <2>. HIDE DEF Known, NoSubmit
    <2>. QED BY <1>8, <2>2, <2>3, <2>4 DEF SessionFacts, Mine, SubmitSucceeds, chainVars, roundVars, mountVars
<1>9. ASSUME NEW r \in Bets, SubmitFails(r) PROVE SessionFacts'
    BY <1>9 DEF LedgerTypes, SessionFacts, Known, Mine, SubmitFails, chainVars, roundVars, viewVars, memoryVars,
                mountVars
<1>10. ASSUME NEW r \in Bets, RevealOutcome(r) PROVE SessionFacts'
    <2>1. \A q \in Bets : tracked'[q] = tracked[q] \/ tracked'[q] = None
        BY <1>10, RevealsEndRounds, RoundsOverEffect
    <2>. QED BY <1>10, <2>1 DEF SessionFacts, Known, Mine, RevealOutcome, chainVars, callVars,
                viewVars, memoryVars, mountVars
<1>11. ASSUME NEW r \in Bets, Ends(r) PROVE SessionFacts'
    BY <1>11 DEF LedgerTypes, SessionFacts, Known, Mine, Ends, callVars, roundVars, viewVars, memoryVars, mountVars
<1>12. ASSUME NEW r \in Bets, Flash(r) PROVE SessionFacts'
    BY <1>12 DEF LedgerTypes, SessionFacts, Known, Mine, Flash, chainVars, callVars, roundVars, mountVars
<1>13. ASSUME NEW r \in Bets, Index(r) PROVE SessionFacts'
    <2>1. \A q \in Bets : tracked'[q] = tracked[q] \/ tracked'[q] = None
        BY <1>13, RevealsEndRounds, RoundsOverEffect
    <2>2. ASSUME NEW q \in Bets, Known(q)' PROVE Known(q) \/ q = r
        BY <1>13, <2>2 DEF Index, Known, LedgerTypes
    <2>3. ASSUME NEW q \in Bets, rows'[q] = "over" \/ patched'[q] PROVE chain[q].phase = "over"
        <3>1. rows'[q] = "over" => chain[q].phase = "over"
            BY <1>13, IndexedRows
        <3>2. patched'[q] => patched[q]
            BY <1>13 DEF Index, LedgerTypes
        <3>. QED BY <2>3, <3>1, <3>2 DEF SessionFacts
    <2>. QED BY <1>13, <2>1, <2>2, <2>3 DEF SessionFacts, Mine, Index, chainVars, callVars, mountVars
<1>14. ASSUME SetWallet PROVE SessionFacts'
    <2>1. \A q \in Bets : tracked'[q] = tracked[q] \/ tracked'[q] = None
        BY <1>14, RevealsEndRounds, RoundsOverEffect
    <2>. QED BY <1>14, <2>1 DEF LedgerTypes, SessionFacts, Known, Mine, SetWallet, memoryVars, chainVars, callVars
<1>15. ASSUME ReconcileTimer \/ (\E rd \in reads : ReadReturns(rd)) \/ RawReturns \/ Seed
       PROVE  SessionFacts'
    BY <1>15 DEF SessionFacts, Known, Mine, ReconcileTimer, ReadReturns, RawReturns, Seed,
                 chainVars, callVars, roundVars, viewVars, memoryVars, mountVars
<1>16. ASSUME Unmount PROVE SessionFacts'
    <2>1. \A q \in Bets : tracked'[q] = None
        BY <1>16 DEF Unmount, EndRounds
    <2>. QED BY <1>16, <2>1 DEF SessionFacts, Known, Mine, Unmount, NoRows, chainVars
<1>17. ASSUME NEW next \in account..setting.switches, Mount(next) PROVE SessionFacts'
    BY <1>17 DEF LedgerTypes, SessionFacts, Known, Mine, Mount, callVars, roundVars, viewVars, memoryVars
<1>18. ASSUME UNCHANGED hostVars PROVE SessionFacts'
    BY <1>18 DEF SessionFacts, Known, Mine, memoryVars, hostVars
<1>19. ASSUME NEW r \in Bets, RouterAdvances(r) PROVE SessionFacts'
    <2>1. /\ chain[r].phase = "open" /\ chain'[r].step = chain[r].step + 1 /\ chain[r].step \in Nat
          /\ \A q \in Bets : chain'[q].phase = chain[q].phase /\ chain'[q].payout = chain[q].payout
          /\ \A q \in Bets \ {r} : chain'[q] = chain[q]
        BY <1>19, RouterEffect DEF LedgerTypes
    <2>2. UNCHANGED <<send, submit, tracked, rows, patched, remembered, accountOf, account, mounted>>
        BY <1>19, RouterEffect DEF callVars, roundVars, viewVars, memoryVars, mountVars
    <2>. QED BY <2>1, <2>2 DEF SessionFacts, Known, Mine
<1>. QED BY <1>19, <1>1, <1>2, <1>3, <1>4, <1>5, <1>6, <1>7, <1>8, <1>9, <1>10, <1>11, <1>12, <1>13, <1>14,
            <1>15, <1>16, <1>17, <1>18 DEF HostNext

-----------------------------------------------------------------------------
(***************************************************************************)
(* Calls of an earlier host.                                               *)
(***************************************************************************)

LEMMA CallInit == HostInit => CallFacts
BY DEF HostInit, CallFacts, Mine, NoSubmit

LEMMA CallStep ==
    LedgerTypes /\ SessionFacts /\ CallFacts /\ [HostNext]_hostVars => CallFacts'
<1>. SUFFICES ASSUME LedgerTypes, SessionFacts, CallFacts, [HostNext]_hostVars PROVE CallFacts'
    OBVIOUS
<1>1. ASSUME NEW r \in Bets, OpenSession(r) PROVE CallFacts'
    BY <1>1 DEF LedgerTypes, CallFacts, Mine, OpenSession, NoSubmit, readVars, mountVars
<1>2. ASSUME NEW r \in Bets, Land(r) \/ Ends(r) PROVE CallFacts'
    <2>1. ~mounted => raw' = None /\ rawRead' = {}
        BY <1>2 DEF CallFacts, Land, Ends, Moves, readVars
    <2>. QED BY <1>2, <2>1 DEF CallFacts, Mine, Land, Ends, callVars, mountVars
<1>3. ASSUME NEW r \in Bets, OpenSucceeds(r) \/ OpenRecovers(r) \/ OpenFails(r) PROVE CallFacts'
    BY <1>3 DEF LedgerTypes, CallFacts, Mine, OpenSucceeds, OpenRecovers, OpenFails, readVars, mountVars
<1>4. ASSUME NEW r \in Bets, NEW extra \in ExtraStakes, SubmitAction(r, extra) PROVE CallFacts'
    <2>1. Known(r)
        BY <1>4, LatestType DEF SubmitAction, Known
    <2>2. Mine(r) /\ mounted
        BY <2>1 DEF SessionFacts
    <2>3. ASSUME NEW q \in Bets PROVE q = r \/ submit'[q] = submit[q]
        BY <1>4 DEF SubmitAction, LedgerTypes
    <2>. QED BY <1>4, <2>2, <2>3 DEF CallFacts, Mine, SubmitAction, readVars, mountVars
<1>5. ASSUME NEW r \in Bets, SubmitLands(r) PROVE CallFacts'
    <2>1. ~mounted => raw' = None /\ rawRead' = {}
        BY <1>5 DEF CallFacts, SubmitLands, Moves, readVars
    <2>2. ASSUME NEW q \in Bets, submit'[q] # NoSubmit PROVE submit[q] # NoSubmit
        BY <1>5, <2>2 DEF SubmitLands, LedgerTypes
    <2>. QED BY <1>5, <2>1, <2>2 DEF CallFacts, Mine, SubmitLands, mountVars
<1>6. ASSUME NEW r \in Bets, SubmitSucceeds(r) \/ SubmitFails(r) PROVE CallFacts'
    <2>1. ASSUME NEW q \in Bets PROVE submit'[q] = submit[q] \/ submit'[q] = NoSubmit
        BY <1>6 DEF SubmitSucceeds, SubmitFails, LedgerTypes
    <2>. QED BY <1>6, <2>1 DEF CallFacts, Mine, SubmitSucceeds, SubmitFails, readVars, mountVars
<1>7. ASSUME NEW r \in Bets, RevealOutcome(r) \/ Flash(r) \/ Index(r) PROVE CallFacts'
    BY <1>7 DEF CallFacts, Mine, RevealOutcome, Flash, Index, callVars, readVars, mountVars
<1>8. ASSUME SetWallet \/ ReconcileTimer \/ Seed \/ \E rd \in reads : ReadReturns(rd) PROVE CallFacts'
    BY <1>8 DEF CallFacts, Mine, SetWallet, ReconcileTimer, Seed, ReadReturns, callVars, readVars,
                mountVars
<1>9. ASSUME RawReturns PROVE CallFacts'
    BY <1>9 DEF CallFacts, Mine, RawReturns, callVars, mountVars
<1>10. ASSUME Unmount PROVE CallFacts'
    <2>1. ASSUME NEW q \in Bets
          PROVE  /\ send[q] = "sending" => OpenKey(q) \in orphans'
                 /\ submit[q] # NoSubmit => <<"submit", q>> \in orphans'
        BY <1>10 DEF Unmount
    <2>. QED BY <1>10, <2>1 DEF CallFacts, LedgerTypes, Unmount
<1>11. ASSUME NEW next \in account..setting.switches, Mount(next) PROVE CallFacts'
    BY <1>11 DEF CallFacts, Mine, Mount, callVars
<1>12. ASSUME UNCHANGED hostVars PROVE CallFacts'
    BY <1>12 DEF CallFacts, Mine, hostVars
<1>13. ASSUME NEW r \in Bets, RouterAdvances(r) PROVE CallFacts'
    <2>1. UNCHANGED <<onChain, readVars>> \/ (\E v \in Int : Moves(v))
        BY <1>13, RouterEffect
    <2>2. ~mounted => raw' = None /\ rawRead' = {}
        BY <2>1 DEF CallFacts, Moves, readVars
    <2>3. UNCHANGED <<mount, mounted, orphans, send, submit, accountOf, account>>
        BY <1>13, RouterEffect DEF callVars, mountVars
    <2>. QED BY <2>2, <2>3 DEF CallFacts, Mine
<1>. QED BY <1>13, <1>1, <1>2, <1>3, <1>4, <1>5, <1>6, <1>7, <1>8, <1>9, <1>10, <1>11, <1>12 DEF HostNext

-----------------------------------------------------------------------------
(***************************************************************************)
(* Rounds in play have an owner.                                           *)
(***************************************************************************)

\* What the calls of the host do to the ledger.
LEMMA OpenSessionEffect ==
    ASSUME LedgerTypes, NEW r \in Bets, OpenSession(r)
    PROVE  /\ ledger'.activeRounds = ledger.activeRounds \cup {OpenKey(r)}
           /\ ledger'.adjustment = ledger.adjustment - Stake
           /\ ledger'.baseline = ledger.baseline /\ ledger'.epoch = ledger.epoch + 1
<1>1. ledger \in Ledgers /\ OpenKey(r) \in Keys /\ Stake \in Int
    BY KeyTypes, Constants DEF LedgerTypes
<1>2. ledger' = BetPlaced(ledger, OpenKey(r), Stake)
    BY DEF OpenSession
<1>. QED BY <1>1, <1>2, BetEffect

LEMMA OpenFailsEffect ==
    ASSUME LedgerTypes, NEW r \in Bets, OpenFails(r)
    PROVE  /\ ledger'.activeRounds = ledger.activeRounds \ {OpenKey(r)}
           /\ ledger'.adjustment = ledger.adjustment + Stake
           /\ ledger'.baseline = ledger.baseline /\ ledger'.epoch = ledger.epoch
<1>1. ledger' = RoundClosed(RefundStake(ledger, Stake), OpenKey(r))
    BY DEF OpenFails
<1>2. ledger \in Ledgers /\ Stake \in Int
    BY Constants DEF LedgerTypes
<1>3. /\ RefundStake(ledger, Stake) \in Ledgers
      /\ RefundStake(ledger, Stake).activeRounds = ledger.activeRounds
      /\ RefundStake(ledger, Stake).adjustment = ledger.adjustment + Stake
      /\ RefundStake(ledger, Stake).baseline = ledger.baseline
      /\ RefundStake(ledger, Stake).epoch = ledger.epoch
    BY <1>2, RefundEffect
<1>. QED BY <1>1, <1>3, CloseEffect

LEMMA SubmitActionEffect ==
    ASSUME LedgerTypes, RoundFacts, NEW r \in Bets, NEW extra \in ExtraStakes, SubmitAction(r, extra)
    PROVE  /\ ledger'.activeRounds =
                  ledger.activeRounds \cup {IF tracked[r] = None THEN ResumeKey(r) ELSE tracked[r]}
           /\ ledger'.adjustment = ledger.adjustment - extra
           /\ ledger'.baseline = ledger.baseline
           /\ ledger'.epoch >= ledger.epoch
           /\ tracked[r] = None \/ extra > 0 => ledger'.epoch > ledger.epoch
<1>. DEFINE roundKey == IF tracked[r] = None THEN ResumeKey(r) ELSE tracked[r]
            resumed == IF tracked[r] = None THEN BetPlaced(ledger, roundKey, 0) ELSE ledger
<1>1. roundKey \in Keys /\ (tracked[r] # None => roundKey \in ledger.activeRounds)
    BY KeyTypes DEF LedgerTypes, RoundFacts
<1>2. ledger' = IF extra > 0 THEN BetPlaced(resumed, roundKey, extra) ELSE resumed
    BY DEF SubmitAction
<1>. HIDE DEF roundKey
<1>3. ledger \in Ledgers /\ ledger.epoch \in Nat /\ ledger.adjustment \in Int
    BY DEF LedgerTypes, Ledgers
<1>4. /\ BetPlaced(ledger, roundKey, 0) \in Ledgers
      /\ BetPlaced(ledger, roundKey, 0).activeRounds = ledger.activeRounds \cup {roundKey}
      /\ BetPlaced(ledger, roundKey, 0).adjustment = ledger.adjustment - 0
      /\ BetPlaced(ledger, roundKey, 0).baseline = ledger.baseline
      /\ BetPlaced(ledger, roundKey, 0).epoch = ledger.epoch + 1
    <2>1. 0 \in Int
        OBVIOUS
    <2>. QED BY <1>1, <1>3, <2>1, BetEffect
<1>5. /\ resumed \in Ledgers /\ resumed.activeRounds = ledger.activeRounds \cup {roundKey}
      /\ resumed.adjustment = ledger.adjustment /\ resumed.baseline = ledger.baseline
      /\ resumed.epoch = IF tracked[r] = None THEN ledger.epoch + 1 ELSE ledger.epoch
    <2>1. CASE tracked[r] = None
        BY <1>3, <1>4, <2>1
    <2>2. CASE tracked[r] # None
        BY <1>1, <1>3, <2>2
    <2>. QED BY <2>1, <2>2
<1>. HIDE DEF resumed
<1>6. extra \in Int /\ extra >= 0
    BY Constants
<1>7. /\ BetPlaced(resumed, roundKey, extra).activeRounds = resumed.activeRounds \cup {roundKey}
      /\ BetPlaced(resumed, roundKey, extra).adjustment = resumed.adjustment - extra
      /\ BetPlaced(resumed, roundKey, extra).baseline = resumed.baseline
      /\ BetPlaced(resumed, roundKey, extra).epoch = resumed.epoch + 1
    BY <1>1, <1>5, <1>6, BetEffect
<1>8. ledger'.activeRounds = ledger.activeRounds \cup {roundKey} /\ ledger'.baseline = ledger.baseline
    BY <1>2, <1>5, <1>7
<1>9. /\ ledger'.adjustment = ledger.adjustment - extra /\ ledger'.epoch >= ledger.epoch
      /\ tracked[r] = None \/ extra > 0 => ledger'.epoch > ledger.epoch
    <2>1. CASE extra > 0
        BY <1>2, <1>3, <1>5, <1>6, <1>7, <2>1
    <2>2. CASE extra = 0
        BY <1>2, <1>3, <1>5, <2>2
    <2>. QED BY <1>6, <2>1, <2>2
<1>. QED BY <1>8, <1>9 DEF roundKey

LEMMA RoundInit == HostInit => RoundFacts
<1>. SUFFICES ASSUME HostInit PROVE RoundFacts
    OBVIOUS
<1>1. PICK reached \in [setting.found -> 0..setting.steps] : FoundAtLoad(reached)
    BY DEF HostInit
<1>2. \A r \in Bets : send[r] # "sending"
    BY <1>1 DEF FoundAtLoad
<1>. QED BY <1>2 DEF HostInit, RoundFacts, EmptyLedger

LEMMA RoundStep ==
    LedgerTypes /\ SessionFacts /\ CallFacts /\ RoundFacts /\ [HostNext]_hostVars => RoundFacts'
<1>. SUFFICES ASSUME LedgerTypes, SessionFacts, CallFacts, RoundFacts, [HostNext]_hostVars
              PROVE  RoundFacts'
    OBVIOUS
<1>0. \A q, r \in Bets :
         /\ OpenKey(q) # ResumeKey(r) /\ OpenKey(q) # None /\ ResumeKey(q) # None
         /\ q # r => OpenKey(q) # OpenKey(r) /\ ResumeKey(q) # ResumeKey(r)
    BY KeysDiffer
<1>1. ASSUME NEW r \in Bets, OpenSession(r) PROVE RoundFacts'
    <2>1. ledger'.activeRounds = ledger.activeRounds \cup {OpenKey(r)}
        BY <1>1, OpenSessionEffect
    <2>2. tracked[r] = None
        BY <1>1 DEF OpenSession, SessionFacts
    <2>. QED BY <1>0, <1>1, <2>1, <2>2 DEF LedgerTypes, RoundFacts, Mine, OpenSession, chainVars, roundVars,
                mountVars
<1>2. ASSUME NEW r \in Bets, Land(r) PROVE RoundFacts'
    <2>1. ASSUME NEW q \in Bets PROVE chain[q].phase # "none" => chain'[q].phase # "none"
        BY <1>2 DEF Land, LedgerTypes
    <2>. QED BY <1>2, <2>1 DEF RoundFacts, Mine, Land, callVars, roundVars, mountVars
<1>3. ASSUME NEW r \in Bets, OpenSucceeds(r) \/ OpenRecovers(r) PROVE RoundFacts'
    <2>1. tracked[r] = None /\ (OpenKey(r) \notin orphans => Mine(r) /\ mounted)
        BY <1>3 DEF OpenSucceeds, OpenRecovers, SessionFacts, CallFacts
    <2>2. send'[r] = "done" /\ \A q \in Bets \ {r} : send'[q] = send[q]
        BY <1>3 DEF OpenSucceeds, OpenRecovers, LedgerTypes
    <2>3. tracked'[r] = (IF OpenKey(r) \in orphans THEN None ELSE OpenKey(r))
          /\ \A q \in Bets \ {r} : tracked'[q] = tracked[q]
        <3>1. tracked' = IF OpenKey(r) \in orphans THEN tracked ELSE [tracked EXCEPT ![r] = OpenKey(r)]
            BY <1>3 DEF OpenSucceeds, OpenRecovers, TrackRound, OpenKey
        <3>. QED BY <2>1, <3>1 DEF LedgerTypes
    <2>4. send[r] = "sending" /\ UNCHANGED <<ledger, orphans, accountOf, account, mounted, doubt, chain>>
        BY <1>3 DEF OpenSucceeds, OpenRecovers, chainVars, mountVars
    <2>. QED BY <1>0, <2>1, <2>2, <2>3, <2>4 DEF RoundFacts, Mine
<1>4. ASSUME NEW r \in Bets, OpenFails(r) PROVE RoundFacts'
    <2>1. ledger'.activeRounds = ledger.activeRounds \ {OpenKey(r)}
        BY <1>4, OpenFailsEffect
    <2>2. tracked[r] = None
        BY <1>4 DEF OpenFails, SessionFacts
    <2>. QED BY <1>0, <1>4, <2>1, <2>2 DEF LedgerTypes, RoundFacts, Mine, OpenFails, chainVars, roundVars,
                mountVars
<1>5. ASSUME NEW r \in Bets, NEW extra \in ExtraStakes, SubmitAction(r, extra) PROVE RoundFacts'
    <2>. DEFINE roundKey == IF tracked[r] = None THEN ResumeKey(r) ELSE tracked[r]
    <2>1. Known(r)
        BY <1>5, LatestType DEF SubmitAction, Known
    <2>2. Mine(r) /\ mounted /\ chain[r].phase # "none" /\ send[r] # "idle"
        BY <2>1 DEF SessionFacts
    <2>6. ledger'.activeRounds = ledger.activeRounds \cup {roundKey}
        BY <1>5, SubmitActionEffect
    <2>7. tracked'[r] = roundKey /\ \A q \in Bets \ {r} : tracked'[q] = tracked[q]
        BY <1>5 DEF SubmitAction, LedgerTypes
    <2>8. doubt' = (doubt \/ (tracked[r] = None /\ (chain[r].phase = "over" \/ Active(r))))
          /\ send[r] # "sending"
          /\ UNCHANGED <<orphans, accountOf, account, mounted, chain, send>>
        BY <1>5 DEF SubmitAction, chainVars, mountVars
    <2>. QED BY <1>0, <2>2, <2>6, <2>7, <2>8 DEF RoundFacts, Mine, Active
<1>6. ASSUME NEW r \in Bets, SubmitLands(r) \/ RouterAdvances(r) \/ Ends(r) PROVE RoundFacts'
    <2>1. ASSUME NEW q \in Bets PROVE chain[q].phase # "none" => chain'[q].phase # "none"
        <3>1. CASE SubmitLands(r)
            BY <3>1 DEF SubmitLands, LedgerTypes
        <3>2. CASE Ends(r)
            BY <3>2 DEF Ends, LedgerTypes
        <3>3. CASE RouterAdvances(r)
            BY <3>3, RouterEffect
        <3>. QED BY <1>6, <3>1, <3>2, <3>3
    <2>2. doubt => doubt'
        BY <1>6, RouterEffect DEF SubmitLands, Ends
    <2>3. UNCHANGED <<ledger, tracked, orphans, accountOf, account, mounted, send>>
        BY <1>6, RouterEffect DEF SubmitLands, Ends, callVars, roundVars, mountVars
    <2>. QED BY <1>0, <2>1, <2>2, <2>3 DEF RoundFacts, Mine
<1>7. ASSUME NEW r \in Bets, SubmitSucceeds(r) \/ Flash(r) PROVE RoundFacts'
    BY <1>7 DEF RoundFacts, Mine, SubmitSucceeds, Flash, chainVars, callVars, roundVars, mountVars
<1>8. ASSUME NEW r \in Bets, SubmitFails(r) PROVE RoundFacts'
    <2>1. ledger'.activeRounds = ledger.activeRounds
        <3>1. submit[r].extra \in Int
            BY DEF LedgerTypes
        <3>. QED BY <1>8, <3>1, RefundEffect DEF SubmitFails, LedgerTypes
    <2>. QED BY <1>8, <2>1 DEF RoundFacts, Mine, SubmitFails, chainVars, roundVars, mountVars
<1>9. ASSUME (\E r \in Bets : RevealOutcome(r) \/ Index(r)) \/ SetWallet PROVE RoundFacts'
    <2>1. /\ ledger'.activeRounds \subseteq ledger.activeRounds
          /\ \A q \in Bets :
                 /\ tracked'[q] = tracked[q] \/ tracked'[q] = None
                 /\ tracked'[q] # None => tracked'[q] = tracked[q]
                 /\ OpenKey(q) \in ledger'.activeRounds <=>
                       OpenKey(q) \in ledger.activeRounds /\ ~(tracked[q] = OpenKey(q) /\ tracked'[q] = None)
                 /\ ResumeKey(q) \in ledger'.activeRounds <=>
                       ResumeKey(q) \in ledger.activeRounds /\ ~(tracked[q] = ResumeKey(q) /\ tracked'[q] = None)
        BY <1>9, RevealsEndRounds, RoundsOverEffect
    <2>2. UNCHANGED <<orphans, accountOf, account, mounted, chain, send, doubt>>
        BY <1>9 DEF RevealOutcome, Index, SetWallet, chainVars, callVars, mountVars
    <2>3. \A q \in Bets : send[q] = "sending" => tracked[q] = None
        BY DEF SessionFacts
    <2>. QED BY <1>0, <2>1, <2>2, <2>3 DEF RoundFacts, Mine
<1>10. ASSUME ReconcileTimer PROVE RoundFacts'
    <2>1. ledger'.activeRounds = ledger.activeRounds
        BY <1>10 DEF ReconcileTimer, LedgerTypes, Ledgers
    <2>. QED BY <1>10, <2>1 DEF RoundFacts, Mine, ReconcileTimer, chainVars, callVars, roundVars, mountVars
<1>11. ASSUME NEW rd \in reads, ReadReturns(rd) PROVE RoundFacts'
    <2>1. ledger'.activeRounds = ledger.activeRounds
        <3>1. \A fresh \in rd.seen : fresh \in Int
            BY DEF LedgerTypes
        <3>. QED BY <1>11, <3>1, AdoptEffect DEF ReadReturns, LedgerTypes
    <2>. QED BY <1>11, <2>1 DEF RoundFacts, Mine, ReadReturns, chainVars, callVars, roundVars, mountVars
<1>12. ASSUME RawReturns PROVE RoundFacts'
    BY <1>12 DEF RoundFacts, Mine, RawReturns, chainVars, callVars, roundVars, mountVars
<1>13. ASSUME Seed PROVE RoundFacts'
    BY <1>13, SeedEffect DEF RoundFacts, Mine, Seed, chainVars, callVars, roundVars, mountVars
<1>14. ASSUME Unmount PROVE RoundFacts'
    <2>1. EndRounds(Bets, Nothing) /\ \A q \in Bets : Nothing[q] \in Int
        BY <1>14 DEF Unmount, Nothing
    <2>2. \A q \in Bets :
             /\ tracked'[q] = None
             /\ OpenKey(q) \in ledger'.activeRounds <=>
                   OpenKey(q) \in ledger.activeRounds /\ ~(tracked[q] = OpenKey(q))
             /\ ResumeKey(q) \in ledger'.activeRounds <=>
                   ResumeKey(q) \in ledger.activeRounds /\ ~(tracked[q] = ResumeKey(q))
        BY <2>1, RoundsEnd
    <2>3. \A q \in Bets : send[q] = "sending" => tracked[q] = None /\ OpenKey(q) \in orphans'
        BY <1>14 DEF SessionFacts, Unmount
    <2>4. UNCHANGED <<chain, accountOf, account, send>> /\ orphans \subseteq orphans' /\ (doubt => doubt')
        BY <1>14 DEF Unmount, chainVars
    <2>. QED BY <1>0, <2>2, <2>3, <2>4 DEF RoundFacts, Mine
<1>15. ASSUME NEW next \in account..setting.switches, Mount(next) PROVE RoundFacts'
    <2>1. \A q \in Bets : tracked[q] = None
        BY <1>15 DEF Mount, RoundFacts
    <2>2. CASE next = account
        BY <1>15, <2>1, <2>2 DEF RoundFacts, Mine, Mount, callVars, roundVars
    <2>3. CASE next # account
        <3>1. ledger'.activeRounds = {}
            BY <1>15, <2>3, ResetEffect DEF Mount, LedgerTypes
        <3>2. \A q \in Bets : ~Mine(q)'
            BY <1>15, <2>3 DEF Mine, Mount, callVars, SessionFacts, LedgerTypes
        <3>. QED BY <1>15, <2>1, <3>1, <3>2 DEF RoundFacts, Mount, roundVars
    <2>. QED BY <2>2, <2>3
<1>16. ASSUME UNCHANGED hostVars PROVE RoundFacts'
    BY <1>16 DEF RoundFacts, Mine, hostVars
<1>17. CASE \E r \in Bets :
              \/ OpenSession(r) \/ Land(r) \/ OpenSucceeds(r) \/ OpenRecovers(r) \/ OpenFails(r)
              \/ \E extra \in ExtraStakes : SubmitAction(r, extra)
              \/ SubmitLands(r) \/ RouterAdvances(r) \/ SubmitSucceeds(r) \/ SubmitFails(r)
              \/ RevealOutcome(r) \/ Ends(r) \/ Flash(r) \/ Index(r)
    BY <1>17, <1>1, <1>2, <1>3, <1>4, <1>5, <1>6, <1>7, <1>8, <1>9
<1>18. CASE \/ SetWallet \/ ReconcileTimer \/ (\E rd \in reads : ReadReturns(rd))
            \/ RawReturns \/ Seed \/ Unmount \/ (\E next \in account..setting.switches : Mount(next))
    BY <1>18, <1>9, <1>10, <1>11, <1>12, <1>13, <1>14, <1>15
<1>. QED BY <1>16, <1>17, <1>18 DEF HostNext

-----------------------------------------------------------------------------
(***************************************************************************)
(* What an action carries.                                                 *)
(***************************************************************************)

LEMMA EchoInit == HostInit => EchoFacts /\ ActionsEchoTheChain
<1>. SUFFICES ASSUME HostInit PROVE EchoFacts /\ ActionsEchoTheChain
    OBVIOUS
<1>1. LedgerTypes
    BY TypesInit
<1>2. \A r \in Bets : /\ submit[r] = NoSubmit /\ untold[r] = chain[r].step /\ chain[r].step \in Nat
                      /\ remembered[r] = [receipt |-> 0, patch |-> 0, row |-> 0]
    BY <1>1 DEF HostInit, LedgerTypes
<1>3. \A r \in Bets : turns[r] \subseteq Nat
    BY <1>1 DEF LedgerTypes
<1>. QED BY <1>2, <1>3 DEF EchoFacts, ActionsEchoTheChain, NoSubmit

\* A step that leaves the chain, the calls and what is known of a session alone,
\* or knows less of it and says so.
Unheard(q) == /\ chain'[q].step = chain[q].step /\ submit'[q] = submit[q] /\ turns'[q] = turns[q]
              /\ chain'[q].phase = "open" => chain[q].phase = "open"
              /\ remembered'[q].patch <= chain[q].step /\ remembered'[q].row <= chain[q].step
              /\ untold'[q] >= untold[q]
              /\ \/ remembered'[q].receipt = remembered[q].receipt
                 \/ remembered'[q].receipt = 0 /\ untold'[q] >= remembered[q].receipt

\* EchoFacts and ActionsEchoTheChain, for one session.
EchoOf(q) ==
    /\ remembered[q].receipt <= chain[q].step /\ remembered[q].patch <= chain[q].step
    /\ remembered[q].row <= chain[q].step
    /\ submit[q].landed => submit[q].echo < chain[q].step
    /\ submit[q] # NoSubmit => submit[q].echo > 0 /\ submit[q].echo <= chain[q].step
    /\ \A k \in turns[q] : k > 0 /\ k < chain[q].step =>
          k < remembered[q].receipt \/ k < untold[q] \/ (submit[q].landed /\ k <= submit[q].echo)
    /\ submit[q] # NoSubmit /\ ~submit[q].landed /\ chain[q].phase = "open"
       /\ submit[q].echo \in turns[q] /\ submit[q].echo >= untold[q] => submit[q].echo = chain[q].step

LEMMA EchoOfAll == EchoFacts /\ ActionsEchoTheChain <=> \A q \in Bets : EchoOf(q)
BY DEF EchoFacts, ActionsEchoTheChain, EchoOf

\* The numbers of a session.
Numbers(q) == /\ chain[q].step \in Nat /\ submit[q].echo \in Nat /\ submit[q].landed \in BOOLEAN
              /\ remembered[q].receipt \in Nat /\ remembered[q].patch \in Nat
              /\ remembered[q].row \in Nat /\ untold[q] \in Nat /\ turns[q] \subseteq Nat

LEMMA AllNumbers == LedgerTypes => \A q \in Bets : Numbers(q)
BY DEF LedgerTypes, Numbers

LEMMA UnheardEcho ==
    ASSUME NEW q \in Bets, Numbers(q), Numbers(q)', EchoOf(q), Unheard(q) PROVE EchoOf(q)'
<1>1. ASSUME NEW k \in turns[q], k > 0, k < chain[q].step
      PROVE  k < remembered'[q].receipt \/ k < untold'[q] \/ (submit[q].landed /\ k <= submit[q].echo)
    <2>1. k < remembered[q].receipt \/ k < untold[q] \/ (submit[q].landed /\ k <= submit[q].echo)
        BY <1>1 DEF EchoOf
    <2>2. k \in Nat
        BY DEF Numbers
    <2>. QED BY <2>1, <2>2 DEF Unheard, Numbers
<1>2. submit'[q] # NoSubmit /\ ~submit'[q].landed /\ chain'[q].phase = "open"
      /\ submit'[q].echo \in turns'[q] /\ submit'[q].echo >= untold'[q] => submit'[q].echo = chain'[q].step
    BY DEF Unheard, EchoOf, Numbers
<1>3. remembered'[q].receipt <= chain'[q].step
    BY DEF Unheard, EchoOf, Numbers
<1>. QED BY <1>1, <1>2, <1>3 DEF Unheard, EchoOf

\* A receipt of step chain[r].step or less, after which nothing of r is on its
\* way that landed, or nothing was.
LEMMA ReceiptEcho ==
    ASSUME LedgerTypes, LedgerTypes', NEW r \in Bets, NEW step \in Nat, Remember(r, step),
           step <= chain[r].step, UNCHANGED <<chain, turns>>,
           \A q \in Bets \ {r} : submit'[q] = submit[q],
           submit'[r] = NoSubmit,
           submit[r].landed => step > submit[r].echo,
           \A q \in Bets : EchoOf(q)
    PROVE  \A q \in Bets : EchoOf(q)'
<1>. SUFFICES ASSUME NEW q \in Bets PROVE EchoOf(q)'
    OBVIOUS
<1>0. Numbers(q) /\ Numbers(q)' /\ Numbers(r) /\ EchoOf(q)
    BY DEF LedgerTypes, Numbers
<1>1. /\ remembered'[r].receipt >= step /\ remembered'[r].receipt >= remembered[r].receipt
      /\ remembered'[r].receipt \in {step, remembered[r].receipt}
      /\ remembered'[q].patch = remembered[q].patch /\ remembered'[q].row = remembered[q].row
      /\ untold'[q] >= untold[q]
      /\ q # r => \/ remembered'[q].receipt = remembered[q].receipt
                  \/ remembered'[q].receipt = 0 /\ untold'[q] >= remembered[q].receipt
    BY RememberEffect
<1>2. CASE q # r
    <2>1. Unheard(q)
        BY <1>0, <1>1, <1>2 DEF Unheard, EchoOf
    <2>. QED BY <1>0, <2>1, UnheardEcho
<1>3. CASE q = r
    <2>1. ASSUME NEW k \in turns[r], k > 0, k < chain[r].step
          PROVE  k < remembered'[r].receipt \/ k < untold'[r]
        <3>1. k < remembered[r].receipt \/ k < untold[r] \/ (submit[r].landed /\ k <= submit[r].echo)
            BY <1>0, <1>3, <2>1 DEF EchoOf
        <3>2. k \in Nat
            BY <1>0 DEF Numbers
        <3>. QED BY <1>0, <1>1, <1>3, <3>1, <3>2 DEF Numbers
    <2>2. ~submit'[r].landed
        BY DEF NoSubmit
    <2>3. remembered'[r].receipt <= chain[r].step
        BY <1>0, <1>1, <1>3 DEF EchoOf
    <2>4. remembered'[r].patch <= chain[r].step /\ remembered'[r].row <= chain[r].step
        BY <1>0, <1>1, <1>3 DEF EchoOf
    <2>. QED BY <1>3, <2>1, <2>2, <2>3, <2>4 DEF EchoOf
<1>. QED BY <1>2, <1>3

LEMMA EchoStep ==
    LedgerTypes /\ LedgerTypes' /\ SessionFacts /\ EchoFacts /\ ActionsEchoTheChain /\ [HostNext]_hostVars
       => EchoFacts' /\ ActionsEchoTheChain'
<1>. SUFFICES ASSUME LedgerTypes, LedgerTypes', SessionFacts, \A q \in Bets : EchoOf(q),
                     [HostNext]_hostVars
              PROVE  \A q \in Bets : EchoOf(q)'
    <2>1. EchoFacts' /\ ActionsEchoTheChain' <=> \A q \in Bets : EchoOf(q)'
        BY DEF EchoFacts, ActionsEchoTheChain, EchoOf
    <2>. QED BY <2>1, EchoOfAll
<1>0. \A q \in Bets : Numbers(q) /\ Numbers(q)'
    <2>1. LedgerTypes' => \A q \in Bets : Numbers(q)'
        BY DEF LedgerTypes, Numbers
    <2>. QED BY <2>1, AllNumbers
<1>. DEFINE All == \A q \in Bets : EchoOf(q)'
<1>20. ASSUME \A q \in Bets : Unheard(q) PROVE All
    BY <1>0, <1>20, UnheardEcho
<1>1. ASSUME NEW r \in Bets, Land(r) PROVE All
    <2>1. chain[r].step = 0 /\ submit[r] = NoSubmit
        BY <1>1 DEF Land, SessionFacts
    <2>2. chain'[r].step = 1 /\ \A q \in Bets \ {r} : chain'[q] = chain[q]
        BY <1>1 DEF Land, LedgerTypes
    <2>3. UNCHANGED <<submit, remembered, turns, untold>>
        BY <1>1 DEF Land, callVars, viewVars, memoryVars, mountVars
    <2>4. \A q \in Bets \ {r} : Unheard(q)
        BY <1>0, <2>2, <2>3 DEF Unheard, EchoOf, Numbers
    <2>5. EchoOf(r)'
        <3>1. ASSUME NEW k \in turns[r], k > 0, k < 1 PROVE FALSE
            BY <1>0, <3>1 DEF Numbers
        <3>2. ~submit[r].landed
            BY <2>1 DEF NoSubmit
        <3>3. remembered[r].receipt <= 1 /\ remembered[r].patch <= 1 /\ remembered[r].row <= 1
            BY <1>0, <2>1 DEF EchoOf, Numbers
        <3>. QED BY <2>1, <2>2, <2>3, <3>1, <3>2, <3>3 DEF EchoOf
    <2>. QED BY <1>0, <2>4, <2>5, UnheardEcho
<1>2. ASSUME NEW r \in Bets, OpenSucceeds(r) PROVE All
    <2>1. chain[r].step > 0 /\ submit[r] = NoSubmit
        BY <1>2 DEF OpenSucceeds, SessionFacts
    <2>2. UNCHANGED <<chain, turns, submit>>
        BY <1>2 DEF OpenSucceeds, chainVars, mountVars
    <2>3. CASE Remember(r, 1)
        <3>1. 1 <= chain[r].step /\ ~submit[r].landed
            BY <1>0, <2>1 DEF Numbers, NoSubmit
        <3>. QED BY <2>1, <2>2, <2>3, <3>1, ReceiptEcho
    <2>4. CASE UNCHANGED memoryVars
        <3>1. \A q \in Bets : Unheard(q)
            BY <1>0, <2>2, <2>4 DEF Unheard, EchoOf, Numbers, memoryVars
        <3>. QED BY <1>20, <3>1
    <2>. QED BY <1>2, <2>3, <2>4 DEF OpenSucceeds
<1>3. ASSUME NEW r \in Bets, NEW extra \in ExtraStakes, SubmitAction(r, extra) PROVE All
    <2>1. submit[r] = NoSubmit /\ Latest(r) > 0
          /\ UNCHANGED <<chain, remembered, turns, untold>>
        BY <1>3 DEF SubmitAction, chainVars, viewVars, memoryVars, mountVars
    <2>2. submit'[r].landed = FALSE /\ submit'[r].echo = Latest(r)
          /\ \A q \in Bets \ {r} : submit'[q] = submit[q]
        BY <1>3 DEF SubmitAction, LedgerTypes
    <2>3. /\ Latest(r) \in Nat /\ Latest(r) >= remembered[r].receipt
          /\ Latest(r) \in {remembered[r].receipt, remembered[r].patch, remembered[r].row, 0}
        BY LatestType
    <2>4. Latest(r) <= chain[r].step
        BY <1>0, <2>3 DEF EchoOf, Numbers
    <2>5. ~submit[r].landed
        BY <2>1 DEF NoSubmit
    <2>6. ASSUME Latest(r) \in turns[r], Latest(r) >= untold[r] PROVE Latest(r) = chain[r].step
        <3>1. SUFFICES ASSUME Latest(r) < chain[r].step PROVE FALSE
            BY <1>0, <2>3, <2>4 DEF Numbers
        <3>2. Latest(r) < remembered[r].receipt \/ Latest(r) < untold[r]
            BY <2>1, <2>5, <2>6, <3>1 DEF EchoOf
        <3>. QED BY <1>0, <2>3, <2>6, <3>2 DEF Numbers
    <2>7. EchoOf(r)'
        <3>1. ASSUME NEW k \in turns[r], k > 0, k < chain[r].step
              PROVE  k < remembered[r].receipt \/ k < untold[r]
            BY <2>5, <3>1 DEF EchoOf
        <3>2. remembered[r].receipt <= chain[r].step /\ remembered[r].patch <= chain[r].step
              /\ remembered[r].row <= chain[r].step
            BY DEF EchoOf
        <3>. QED BY <2>1, <2>2, <2>4, <2>6, <3>1, <3>2 DEF EchoOf
    <2>8. \A q \in Bets \ {r} : Unheard(q)
        BY <1>0, <2>1, <2>2 DEF Unheard, EchoOf, Numbers
    <2>. QED BY <1>0, <2>7, <2>8, UnheardEcho
<1>4. ASSUME NEW r \in Bets, SubmitLands(r) PROVE All
    <2>1. chain[r].step = submit[r].echo /\ submit[r] # NoSubmit /\ ~submit[r].landed
          /\ UNCHANGED <<remembered, turns, untold>>
        BY <1>4 DEF SubmitLands, viewVars, memoryVars, mountVars
    <2>2. chain'[r].step = chain[r].step + 1 /\ \A q \in Bets \ {r} : chain'[q] = chain[q]
        BY <1>4 DEF SubmitLands, LedgerTypes
    <2>3. submit'[r].landed /\ submit'[r].echo = submit[r].echo
          /\ \A q \in Bets \ {r} : submit'[q] = submit[q]
        BY <1>4 DEF SubmitLands, LedgerTypes
    <2>4. EchoOf(r)'
        <3>1. submit[r].echo > 0 /\ remembered[r].receipt <= chain[r].step
              /\ remembered[r].patch <= chain[r].step /\ remembered[r].row <= chain[r].step
            BY <2>1 DEF EchoOf
        <3>2. ASSUME NEW k \in turns[r], k < chain[r].step + 1 PROVE k <= submit[r].echo
            BY <1>0, <2>1, <3>2 DEF Numbers
        <3>3. remembered[r].receipt <= chain[r].step + 1 /\ remembered[r].patch <= chain[r].step + 1
              /\ remembered[r].row <= chain[r].step + 1 /\ submit[r].echo < chain[r].step + 1
              /\ submit[r].echo <= chain[r].step + 1
            BY <1>0, <2>1, <3>1 DEF Numbers
        <3>. QED BY <2>1, <2>2, <2>3, <3>1, <3>2, <3>3 DEF EchoOf
    <2>5. \A q \in Bets \ {r} : Unheard(q)
        BY <1>0, <2>1, <2>2, <2>3 DEF Unheard, EchoOf, Numbers
    <2>. QED BY <1>0, <2>4, <2>5, UnheardEcho
<1>5. ASSUME NEW r \in Bets, RouterAdvances(r) PROVE All
    <2>1. /\ chain[r].step \notin turns[r] /\ chain'[r].step = chain[r].step + 1
          /\ \A q \in Bets \ {r} : chain'[q] = chain[q]
          /\ chain[r].phase = "open" /\ chain'[r].phase = "open"
        BY <1>5, RouterEffect
    <2>2. UNCHANGED <<submit, remembered, turns, untold>>
        BY <1>5, RouterEffect DEF callVars, viewVars, memoryVars, mountVars
    <2>3. EchoOf(r)'
        <3>1. ASSUME NEW k \in turns[r], k > 0, k < chain[r].step + 1
              PROVE  k < remembered[r].receipt \/ k < untold[r] \/ (submit[r].landed /\ k <= submit[r].echo)
            <4>1. k < chain[r].step
                BY <1>0, <2>1, <3>1 DEF Numbers
            <4>. QED BY <3>1, <4>1 DEF EchoOf
        <3>2. remembered[r].receipt <= chain[r].step + 1 /\ remembered[r].patch <= chain[r].step + 1
              /\ remembered[r].row <= chain[r].step + 1
            BY <1>0 DEF EchoOf, Numbers
        <3>3. /\ submit[r].landed => submit[r].echo < chain[r].step + 1
              /\ submit[r] # NoSubmit => submit[r].echo > 0 /\ submit[r].echo <= chain[r].step + 1
            BY <1>0 DEF EchoOf, Numbers
        <3>4. ~(submit[r] # NoSubmit /\ ~submit[r].landed /\ submit[r].echo \in turns[r]
                /\ submit[r].echo >= untold[r])
            <4>1. submit[r] # NoSubmit /\ ~submit[r].landed /\ submit[r].echo \in turns[r]
                  /\ submit[r].echo >= untold[r] => submit[r].echo = chain[r].step
                BY <2>1 DEF EchoOf
            <4>. QED BY <2>1, <4>1
        <3>. QED BY <2>1, <2>2, <3>1, <3>2, <3>3, <3>4 DEF EchoOf
    <2>4. \A q \in Bets \ {r} : Unheard(q)
        BY <1>0, <2>1, <2>2 DEF Unheard, EchoOf, Numbers
    <2>. QED BY <1>0, <2>3, <2>4, UnheardEcho
<1>6. ASSUME NEW r \in Bets, Unreported(r), submit' = [submit EXCEPT ![r] = NoSubmit],
             UNCHANGED <<chain, remembered, turns>>
      PROVE  All
    <2>1. submit'[r] = NoSubmit /\ \A q \in Bets \ {r} : submit'[q] = submit[q]
        BY <1>6 DEF LedgerTypes
    <2>2. (submit[r].landed => untold'[r] > submit[r].echo) /\ \A q \in Bets : untold'[q] >= untold[q]
        BY <1>6, UnreportedEffect
    <2>3. EchoOf(r)'
        <3>1. ASSUME NEW k \in turns[r], k > 0, k < chain[r].step
              PROVE  k < remembered[r].receipt \/ k < untold'[r]
            <4>1. k < remembered[r].receipt \/ k < untold[r] \/ (submit[r].landed /\ k <= submit[r].echo)
                BY <3>1 DEF EchoOf
            <4>. QED BY <1>0, <2>2, <4>1 DEF Numbers
        <3>2. ~submit'[r].landed
            BY <2>1 DEF NoSubmit
        <3>3. remembered[r].receipt <= chain[r].step /\ remembered[r].patch <= chain[r].step
              /\ remembered[r].row <= chain[r].step
            BY DEF EchoOf
        <3>. QED BY <1>6, <2>1, <3>1, <3>2, <3>3 DEF EchoOf
    <2>4. \A q \in Bets \ {r} : Unheard(q)
        BY <1>0, <1>6, <2>1, <2>2 DEF Unheard, EchoOf, Numbers
    <2>. QED BY <1>0, <2>3, <2>4, UnheardEcho
<1>7. ASSUME NEW r \in Bets, SubmitSucceeds(r) PROVE All
    <2>1. submit[r].landed /\ submit' = [submit EXCEPT ![r] = NoSubmit] /\ UNCHANGED <<chain, turns>>
        BY <1>7 DEF SubmitSucceeds, chainVars, mountVars
    <2>2. CASE Unreported(r) /\ UNCHANGED <<remembered, snapshots>>
        BY <1>6, <2>1, <2>2
    <2>3. CASE Remember(r, submit[r].echo + 1)
        <3>1. submit'[r] = NoSubmit /\ \A q \in Bets \ {r} : submit'[q] = submit[q]
            BY <2>1 DEF LedgerTypes
        <3>2. /\ submit[r].echo + 1 \in Nat /\ submit[r].echo + 1 <= chain[r].step
              /\ submit[r].echo + 1 > submit[r].echo
            BY <1>0, <2>1 DEF EchoOf, Numbers
        <3>. QED BY <2>1, <2>3, <3>1, <3>2, ReceiptEcho
    <2>. QED BY <1>7, <2>2, <2>3 DEF SubmitSucceeds
<1>8. ASSUME NEW r \in Bets, SubmitFails(r) PROVE All
    <2>1. Unreported(r) /\ submit' = [submit EXCEPT ![r] = NoSubmit] /\ UNCHANGED <<chain, remembered, turns>>
        BY <1>8 DEF SubmitFails, chainVars, mountVars
    <2>. QED BY <1>6, <2>1
<1>9. ASSUME NEW r \in Bets, Ends(r) PROVE All
    <2>1. \A q \in Bets : chain'[q].step = chain[q].step /\ (chain'[q].phase = "open" => chain[q].phase = "open")
        BY <1>9 DEF Ends, LedgerTypes
    <2>2. UNCHANGED <<submit, remembered, turns, untold>>
        BY <1>9 DEF Ends, callVars, viewVars, memoryVars, mountVars
    <2>3. \A q \in Bets : Unheard(q)
        BY <1>0, <2>1, <2>2 DEF Unheard, EchoOf, Numbers
    <2>. QED BY <1>20, <2>3
<1>10. ASSUME NEW r \in Bets, Flash(r) PROVE All
    <2>1. PICK step \in remembered[r].patch..chain[r].step : remembered' = [remembered EXCEPT ![r].patch = step]
        BY <1>10 DEF Flash
    <2>2. step \in Nat /\ step <= chain[r].step
        BY <1>0 DEF Numbers
    <2>3. ASSUME NEW q \in Bets
          PROVE  /\ remembered'[q].receipt = remembered[q].receipt /\ remembered'[q].row = remembered[q].row
                 /\ remembered'[q].patch = remembered[q].patch \/ (q = r /\ remembered'[q].patch = step)
        BY <2>1 DEF LedgerTypes
    <2>4. UNCHANGED <<chain, submit, turns, untold>>
        BY <1>10 DEF Flash, chainVars, callVars, mountVars
    <2>5. \A q \in Bets : Unheard(q)
        BY <1>0, <2>2, <2>3, <2>4 DEF Unheard, EchoOf, Numbers
    <2>. QED BY <1>20, <2>5
<1>11. ASSUME NEW r \in Bets, Index(r) PROVE All
    <2>1. ASSUME NEW q \in Bets
          PROVE  /\ remembered'[q].receipt = remembered[q].receipt
                 /\ remembered'[q].patch = remembered[q].patch
                 /\ remembered'[q].row = remembered[q].row \/ remembered'[q].row <= chain[q].step
        <3>1. CASE UNCHANGED remembered
            BY <3>1
        <3>2. CASE remembered[r].row < chain[r].step /\ remembered' = [remembered EXCEPT ![r].row = @ + 1]
            BY <1>0, <3>2 DEF LedgerTypes, Numbers
        <3>. QED BY <1>11, <3>1, <3>2 DEF Index
    <2>2. UNCHANGED <<chain, submit, turns, untold>>
        BY <1>11 DEF Index, chainVars, callVars, mountVars
    <2>3. \A q \in Bets : Unheard(q)
        BY <1>0, <2>1, <2>2 DEF Unheard, EchoOf, Numbers
    <2>. QED BY <1>20, <2>3
<1>12. ASSUME UNCHANGED <<chain, submit, remembered, turns, untold>> PROVE All
    <2>1. \A q \in Bets : Unheard(q)
        BY <1>0, <1>12 DEF Unheard, EchoOf, Numbers
    <2>. QED BY <1>20, <2>1
<1>13. ASSUME NEW r \in Bets, OpenSession(r) \/ OpenRecovers(r) \/ OpenFails(r) \/ RevealOutcome(r)
       PROVE  All
    <2>1. CASE OpenSession(r)
        BY <1>12, <2>1 DEF OpenSession, chainVars, viewVars, memoryVars, mountVars
    <2>2. CASE OpenFails(r)
        BY <1>12, <2>2 DEF OpenFails, chainVars, viewVars, memoryVars, mountVars
    <2>3. CASE OpenRecovers(r)
        BY <1>12, <2>3 DEF OpenRecovers, chainVars, viewVars, memoryVars, mountVars
    <2>4. CASE RevealOutcome(r)
        BY <1>12, <2>4 DEF RevealOutcome, chainVars, callVars, viewVars, memoryVars, mountVars
    <2>. QED BY <1>13, <2>1, <2>2, <2>3, <2>4
<1>14. ASSUME SetWallet \/ ReconcileTimer \/ (\E rd \in reads : ReadReturns(rd)) \/ RawReturns \/ Seed
              \/ UNCHANGED hostVars \/ (\E next \in account..setting.switches : Mount(next))
       PROVE  All
    <2>1. UNCHANGED <<chain, submit, remembered, turns, untold>>
        BY <1>14 DEF SetWallet, ReconcileTimer, ReadReturns, RawReturns, Seed, Mount, hostVars, chainVars,
                     callVars, viewVars, memoryVars, mountVars
    <2>. QED BY <1>12, <2>1
<1>15. ASSUME Unmount PROVE All
    <2>1. ASSUME NEW q \in Bets
          PROVE  /\ remembered'[q].receipt = 0 /\ remembered'[q].patch = 0 /\ remembered'[q].row = 0
                 /\ untold'[q] >= untold[q] /\ untold'[q] >= remembered[q].receipt
        BY <1>0, <1>15 DEF Unmount, Numbers
    <2>2. UNCHANGED <<chain, submit, turns>>
        BY <1>15 DEF Unmount, chainVars
    <2>3. \A q \in Bets : Unheard(q)
        BY <1>0, <2>1, <2>2 DEF Unheard, Numbers
    <2>. QED BY <1>20, <2>3
<1>16. CASE \E r \in Bets :
              \/ OpenSession(r) \/ Land(r) \/ OpenSucceeds(r) \/ OpenRecovers(r) \/ OpenFails(r)
              \/ \E extra \in ExtraStakes : SubmitAction(r, extra)
              \/ SubmitLands(r) \/ RouterAdvances(r) \/ SubmitSucceeds(r) \/ SubmitFails(r)
              \/ RevealOutcome(r) \/ Ends(r) \/ Flash(r) \/ Index(r)
    BY <1>16, <1>1, <1>2, <1>3, <1>4, <1>5, <1>7, <1>8, <1>9, <1>10, <1>11, <1>13
<1>17. All
    BY <1>14, <1>15, <1>16 DEF HostNext
<1>. QED BY <1>17 DEF All

-----------------------------------------------------------------------------
(***************************************************************************)
(* Reads that may still be adopted.                                        *)
(***************************************************************************)

LEMMA ReadInit == HostInit => ReadFacts
BY DEF HostInit, ReadFacts

\* A step that moves no balance and opens no round without a new epoch.
LEMMA ReadsKept ==
    ASSUME LedgerTypes, ReadFacts, UNCHANGED onChain, reads' \subseteq reads, doubt => doubt',
           ledger'.epoch \in Nat, ledger'.epoch >= ledger.epoch,
           ledger'.epoch = ledger.epoch => ledger'.activeRounds \subseteq ledger.activeRounds
    PROVE  ReadFacts'
<1>. SUFFICES ASSUME NEW rd \in reads'
              PROVE  /\ rd.epoch <= ledger'.epoch
                     /\ rd.epoch = ledger'.epoch /\ ~doubt' =>
                           ledger'.activeRounds = {} /\ rd.seen = {onChain'}
    BY DEF ReadFacts
<1>1. rd \in reads /\ rd.epoch \in Nat /\ ledger.epoch \in Nat
    BY DEF LedgerTypes, Ledgers
<1>2. /\ rd.epoch <= ledger.epoch
      /\ rd.epoch = ledger.epoch /\ ~doubt => ledger.activeRounds = {} /\ rd.seen = {onChain}
    BY <1>1 DEF ReadFacts
<1>. QED BY <1>1, <1>2

\* A step that moves the balance: the ledger knows the round, so that no read
\* may be adopted any more, or it is in doubt.
LEMMA ReadsMoved ==
    ASSUME LedgerTypes, ReadFacts, UNCHANGED ledger, NEW v \in Int, Moves(v), doubt => doubt',
           ~doubt' => ledger.activeRounds # {}
    PROVE  ReadFacts'
<1>1. ASSUME NEW rd \in reads' PROVE \E old \in reads : rd.epoch = old.epoch
    <2>1. PICK old \in reads : rd = [old EXCEPT !.seen = @ \cup {v}]
        BY <1>1 DEF Moves
    <2>2. old \in [epoch : Nat, seen : SUBSET Int]
        BY DEF LedgerTypes
    <2>. QED BY <2>1, <2>2
<1>. QED BY <1>1 DEF ReadFacts

LEMMA ReadReturnsEffect ==
    ASSUME LedgerTypes, NEW rd \in reads, ReadReturns(rd)
    PROVE  /\ ledger'.epoch = ledger.epoch /\ ledger'.activeRounds = ledger.activeRounds
           /\ \/ UNCHANGED ledger
              \/ /\ ledger.epoch = rd.epoch /\ ledger.activeRounds = {}
                 /\ ledger'.adjustment = 0 /\ ledger'.baseline \in rd.seen
<1>1. \A fresh \in rd.seen : fresh \in Int
    BY DEF LedgerTypes
<1>2. CASE UNCHANGED ledger
    BY <1>2
<1>3. CASE MayAdopt(ledger, rd.epoch) /\ \E fresh \in rd.seen : ledger' = Adopt(ledger, fresh)
    <2>1. PICK fresh \in rd.seen : ledger' = Adopt(ledger, fresh)
        BY <1>3
    <2>2. ledger \in Ledgers /\ fresh \in Int
        BY <1>1 DEF LedgerTypes
    <2>. QED BY <1>3, <2>1, <2>2, AdoptEffect DEF MayAdopt
<1>. QED BY <1>2, <1>3 DEF ReadReturns

LEMMA ReadStep ==
    LedgerTypes /\ LedgerTypes' /\ SessionFacts /\ RoundFacts /\ ReadFacts /\ [HostNext]_hostVars
       => ReadFacts'
<1>. SUFFICES ASSUME LedgerTypes, LedgerTypes', SessionFacts, RoundFacts, ReadFacts, [HostNext]_hostVars
              PROVE  ReadFacts'
    OBVIOUS
<1>0. ledger.epoch \in Nat /\ ledger'.epoch \in Nat
    BY DEF LedgerTypes, Ledgers
<1>1. ASSUME NEW r \in Bets, OpenSession(r) PROVE ReadFacts'
    <2>1. ledger'.epoch = ledger.epoch + 1
        BY <1>1, OpenSessionEffect
    <2>2. UNCHANGED <<onChain, reads, doubt>>
        BY <1>1 DEF OpenSession, chainVars, readVars
    <2>. QED BY <1>0, <2>1, <2>2, ReadsKept
<1>2. ASSUME NEW r \in Bets, Land(r) PROVE ReadFacts'
    <2>1. CASE Mine(r)
        <3>1. PICK v \in Int : Moves(v) /\ (~doubt' => Active(r))
            BY <1>2, <2>1, LandEffect
        <3>2. UNCHANGED ledger /\ (doubt => doubt')
            BY <1>2 DEF Land
        <3>. QED BY <3>1, <3>2, ReadsMoved DEF Active
    <2>2. CASE ~Mine(r)
        <3>1. UNCHANGED <<onChain, reads, ledger>> /\ (doubt => doubt')
            BY <1>2, <2>2, LandEffect DEF Land, readVars
        <3>. QED BY <1>0, <3>1, ReadsKept
    <2>. QED BY <2>1, <2>2
<1>3. ASSUME NEW r \in Bets, SubmitLands(r) PROVE ReadFacts'
    <2>1. CASE Mine(r)
        <3>1. PICK v \in Int : Moves(v) /\ (~doubt' => Active(r))
            BY <1>3, <2>1, SubmitLandsEffect
        <3>2. UNCHANGED ledger /\ (doubt => doubt')
            BY <1>3 DEF SubmitLands
        <3>. QED BY <3>1, <3>2, ReadsMoved DEF Active
    <2>2. CASE ~Mine(r)
        <3>1. UNCHANGED <<onChain, reads, ledger>> /\ (doubt => doubt')
            BY <1>3, <2>2, SubmitLandsEffect DEF SubmitLands, readVars
        <3>. QED BY <1>0, <3>1, ReadsKept
    <2>. QED BY <2>1, <2>2
<1>4. ASSUME NEW r \in Bets, Ends(r) PROVE ReadFacts'
    <2>1. CASE Mine(r)
        <3>1. PICK payout \in Payouts : Moves(onChain + payout)
            BY <1>4, <2>1 DEF Ends
        <3>2. UNCHANGED ledger /\ (doubt => doubt') /\ (~doubt' => ledger.activeRounds # {})
            BY <1>4, <2>1 DEF Ends, Active
        <3>3. onChain + payout \in Int
            BY Constants DEF LedgerTypes
        <3>. QED BY <3>1, <3>2, <3>3, ReadsMoved
    <2>2. CASE ~Mine(r)
        <3>1. UNCHANGED <<onChain, reads, ledger>> /\ (doubt => doubt')
            BY <1>4, <2>2 DEF Ends, readVars
        <3>. QED BY <1>0, <3>1, ReadsKept
    <2>. QED BY <2>1, <2>2
<1>5. ASSUME NEW r \in Bets, OpenFails(r) PROVE ReadFacts'
    <2>1. ledger'.epoch = ledger.epoch /\ ledger'.activeRounds \subseteq ledger.activeRounds
        BY <1>5, OpenFailsEffect
    <2>2. UNCHANGED <<onChain, reads>> /\ (doubt => doubt')
        BY <1>5 DEF OpenFails, chainVars, readVars
    <2>. QED BY <1>0, <2>1, <2>2, ReadsKept
<1>6. ASSUME NEW r \in Bets, NEW extra \in ExtraStakes, SubmitAction(r, extra) PROVE ReadFacts'
    <2>1. /\ ledger'.activeRounds =
                  ledger.activeRounds \cup {IF tracked[r] = None THEN ResumeKey(r) ELSE tracked[r]}
          /\ ledger'.epoch >= ledger.epoch
          /\ tracked[r] = None => ledger'.epoch > ledger.epoch
        BY <1>6, SubmitActionEffect
    <2>2. tracked[r] # None => tracked[r] \in ledger.activeRounds
        BY DEF RoundFacts
    <2>3. UNCHANGED <<onChain, reads>> /\ (doubt => doubt')
        BY <1>6 DEF SubmitAction, chainVars, readVars
    <2>4. ledger'.epoch = ledger.epoch => ledger'.activeRounds \subseteq ledger.activeRounds
        BY <1>0, <2>1, <2>2
    <2>. QED BY <1>0, <2>1, <2>3, <2>4, ReadsKept
<1>7. ASSUME NEW r \in Bets, SubmitFails(r) PROVE ReadFacts'
    <2>1. ledger'.epoch = ledger.epoch /\ ledger'.activeRounds = ledger.activeRounds
        <3>1. submit[r].extra \in Int
            BY DEF LedgerTypes
        <3>. QED BY <1>7, <3>1, RefundEffect DEF SubmitFails, LedgerTypes
    <2>2. UNCHANGED <<onChain, reads>> /\ (doubt => doubt')
        BY <1>7 DEF SubmitFails, chainVars, readVars
    <2>. QED BY <1>0, <2>1, <2>2, ReadsKept
<1>8. ASSUME NEW r \in Bets, OpenSucceeds(r) \/ OpenRecovers(r) \/ SubmitSucceeds(r) \/ Flash(r)
      PROVE  ReadFacts'
    <2>1. UNCHANGED <<onChain, reads, doubt, ledger>>
        BY <1>8 DEF OpenSucceeds, OpenRecovers, SubmitSucceeds, Flash, chainVars, readVars
    <2>. QED BY <1>0, <2>1, ReadsKept
<1>9. ASSUME (\E r \in Bets : RevealOutcome(r) \/ Index(r)) \/ SetWallet PROVE ReadFacts'
    <2>1. ledger'.epoch = ledger.epoch /\ ledger'.activeRounds \subseteq ledger.activeRounds
        BY <1>9, RevealsEndRounds, RoundsOverEffect
    <2>2. UNCHANGED <<onChain, reads, doubt>>
        BY <1>9 DEF RevealOutcome, Index, SetWallet, chainVars, readVars
    <2>. QED BY <1>0, <2>1, <2>2, ReadsKept
<1>10. ASSUME ReconcileTimer PROVE ReadFacts'
    <2>1. ledger'.epoch = ledger.epoch /\ ledger'.activeRounds = ledger.activeRounds
        BY <1>10 DEF ReconcileTimer, LedgerTypes, Ledgers
    <2>2. UNCHANGED <<onChain, doubt>>
        BY <1>10 DEF ReconcileTimer, chainVars
    <2>3. ASSUME NEW rd \in reads'
          PROVE  rd \in reads \/ (ledger.activeRounds = {} /\ rd.epoch = ledger.epoch /\ rd.seen = {onChain})
        BY <1>10 DEF ReconcileTimer
    <2>. QED BY <1>0, <2>1, <2>2, <2>3 DEF ReadFacts
<1>11. ASSUME NEW rd \in reads, ReadReturns(rd) PROVE ReadFacts'
    <2>1. ledger'.epoch = ledger.epoch /\ ledger'.activeRounds = ledger.activeRounds
        BY <1>11, ReadReturnsEffect
    <2>2. UNCHANGED <<onChain, doubt>> /\ reads' \subseteq reads
        BY <1>11 DEF ReadReturns, chainVars
    <2>. QED BY <1>0, <2>1, <2>2, ReadsKept
<1>12. ASSUME RawReturns \/ UNCHANGED hostVars PROVE ReadFacts'
    <2>1. UNCHANGED <<onChain, reads, doubt, ledger>>
        BY <1>12 DEF RawReturns, hostVars, chainVars
    <2>. QED BY <1>0, <2>1, ReadsKept
<1>13. ASSUME Seed PROVE ReadFacts'
    <2>1. UNCHANGED <<onChain, reads, doubt>>
        BY <1>13 DEF Seed, chainVars, readVars
    <2>. QED BY <1>0, <1>13, <2>1, SeedEffect, ReadsKept
<1>14. ASSUME Unmount PROVE ReadFacts'
    <2>1. EndRounds(Bets, Nothing) /\ \A q \in Bets : Nothing[q] \in Int
        BY <1>14 DEF Unmount, Nothing
    <2>2. ledger'.epoch = ledger.epoch /\ ledger'.activeRounds \subseteq ledger.activeRounds
        BY <2>1, RoundsEnd
    <2>3. UNCHANGED <<onChain, reads>> /\ (doubt => doubt')
        BY <1>14 DEF Unmount, chainVars
    <2>. QED BY <1>0, <2>2, <2>3, ReadsKept
<1>15. ASSUME NEW next \in account..setting.switches, Mount(next) PROVE ReadFacts'
    <2>1. CASE next = account
        BY <1>0, <1>15, <2>1, ReadsKept DEF Mount
    <2>2. CASE next # account
        <3>1. ledger'.epoch = ledger.epoch + 1 /\ UNCHANGED reads
            BY <1>15, <2>2, ResetEffect DEF Mount, LedgerTypes
        <3>2. \A rd \in reads : rd.epoch \in Nat /\ rd.epoch <= ledger.epoch
            BY DEF LedgerTypes, ReadFacts
        <3>. QED BY <1>0, <3>1, <3>2 DEF ReadFacts
    <2>. QED BY <2>1, <2>2
<1>16. ASSUME NEW r \in Bets, RouterAdvances(r) PROVE ReadFacts'
    <2>1. UNCHANGED ledger /\ (doubt => doubt')
        BY <1>16, RouterEffect
    <2>2. CASE UNCHANGED <<onChain, readVars>>
        BY <1>0, <2>1, <2>2, ReadsKept DEF readVars
    <2>3. CASE doubt' /\ \E v \in Int : Moves(v)
        BY <2>1, <2>3, ReadsMoved
    <2>. QED BY <1>16, <2>2, <2>3, RouterEffect
<1>17. CASE \E r \in Bets :
              \/ OpenSession(r) \/ Land(r) \/ OpenSucceeds(r) \/ OpenRecovers(r) \/ OpenFails(r)
              \/ \E extra \in ExtraStakes : SubmitAction(r, extra)
              \/ SubmitLands(r) \/ RouterAdvances(r) \/ SubmitSucceeds(r) \/ SubmitFails(r)
              \/ RevealOutcome(r) \/ Ends(r) \/ Flash(r) \/ Index(r)
    BY <1>17, <1>1, <1>2, <1>3, <1>4, <1>5, <1>6, <1>7, <1>8, <1>9, <1>16
<1>18. CASE \/ SetWallet \/ ReconcileTimer \/ (\E rd \in reads : ReadReturns(rd))
            \/ RawReturns \/ Seed \/ Unmount \/ (\E next \in account..setting.switches : Mount(next))
    BY <1>18, <1>9, <1>10, <1>11, <1>12, <1>13, <1>14, <1>15
<1>. QED BY <1>12, <1>17, <1>18 DEF HostNext

-----------------------------------------------------------------------------
(***************************************************************************)
(* What is due.                                                            *)
(***************************************************************************)

Dues == [r \in Bets |-> Due(r)]

LEMMA DueType ==
    ASSUME LedgerTypes, SessionFacts, NEW r \in Bets PROVE Due(r) \in Int
<1>1. Stake \in Int /\ submit[r].extra \in Int
    BY Constants DEF LedgerTypes
<1>2. chain[r].phase = "over" => chain[r].payout \in Int
    BY PayoutType
<1>. QED BY <1>1, <1>2 DEF Due

DueTypes == \A r \in Bets : Due(r) \in Int

LEMMA AllDueTypes == LedgerTypes /\ SessionFacts => DueTypes
BY DueType DEF DueTypes

LEMMA ExpectedIs ==
    LedgerTypes /\ SessionFacts =>
       /\ Integral(Dues, Bets) /\ SumFunctionOnSet(Dues, Bets) \in Int
       /\ Expected = onChain - SumFunctionOnSet(Dues, Bets) /\ Expected \in Int
<1>. SUFFICES ASSUME LedgerTypes, SessionFacts
              PROVE  /\ Integral(Dues, Bets) /\ SumFunctionOnSet(Dues, Bets) \in Int
                     /\ Expected = onChain - SumFunctionOnSet(Dues, Bets) /\ Expected \in Int
    OBVIOUS
<1>1. Integral(Dues, Bets)
    BY DueType DEF Integral, Dues
<1>2. SumFunctionOnSet(Dues, Bets) \in Int
    BY <1>1, Constants, SumType
<1>3. SumFunction([r \in Bets |-> Due(r)]) = SumFunctionOnSet(Dues, Bets)
    BY DEF SumFunction, SumFunctionOnSet, FoldFunction, Dues
<1>4. onChain \in Int
    BY DEF LedgerTypes
<1>. QED BY <1>1, <1>2, <1>3, <1>4 DEF Expected

\* While no round is in play the chain shows what the player should see.
LEMMA NothingDue ==
    LedgerTypes /\ SessionFacts /\ RoundFacts /\ ledger.activeRounds = {} => Expected = onChain
<1>. SUFFICES ASSUME LedgerTypes, SessionFacts, RoundFacts, ledger.activeRounds = {}
              PROVE  Expected = onChain
    OBVIOUS
<1>1. \A r \in Bets : Dues[r] = 0
    BY DEF Dues, Due, RoundFacts, Active
<1>2. SumFunctionOnSet(Dues, Bets) = 0
    BY <1>1, Constants, SumOfZeros
<1>. QED BY <1>2, ExpectedIs DEF LedgerTypes

\* What is due of a round only changes with what it is made of.
LEMMA SameDue ==
    ASSUME NEW q \in Bets, Mine(q)' = Mine(q), Active(q)' = Active(q),
           send'[q] = send[q], chain'[q] = chain[q], submit'[q] = submit[q]
    PROVE  Due(q)' = Due(q)
BY DEF Due

\* Only one round changes.
LEMMA OneDue ==
    ASSUME LedgerTypes, SessionFacts, LedgerTypes', SessionFacts', NEW r \in Bets,
           \A q \in Bets \ {r} : Due(q)' = Due(q)
    PROVE  Expected' - onChain' = Expected - onChain + Due(r) - Due(r)'
<1>1. /\ Integral(Dues, Bets) /\ SumFunctionOnSet(Dues, Bets) \in Int
      /\ Expected = onChain - SumFunctionOnSet(Dues, Bets)
    BY ExpectedIs
<1>2. /\ Integral(Dues, Bets)' /\ (SumFunctionOnSet(Dues, Bets) \in Int)'
      /\ (Expected = onChain - SumFunctionOnSet(Dues, Bets))'
    BY ExpectedIs, PTL
<1>3. Dues[r] = Due(r) /\ (Dues[r])' = Due(r)' /\ \A q \in Bets \ {r} : Dues[q] = Dues'[q]
    BY DEF Dues
<1>4. Dues'[r] \in Int /\ Due(r) \in Int
    BY <1>1, <1>2, <1>3 DEF Integral
<1>5. SumFunctionOnSet(Dues', Bets) = SumFunctionOnSet(Dues, Bets) - Dues[r] + Dues'[r]
    BY <1>1, <1>3, <1>4, Constants, SumUpdate
<1>6. onChain \in Int /\ onChain' \in Int
    BY DEF LedgerTypes
<1>7. SumFunctionOnSet(Dues', Bets) = SumFunctionOnSet(Dues, Bets)'
    OBVIOUS
<1>. HIDE DEF Dues
<1>. QED BY <1>1, <1>2, <1>3, <1>4, <1>5, <1>6, <1>7

LEMMA NoDue ==
    ASSUME LedgerTypes, SessionFacts, LedgerTypes', SessionFacts',
           \A q \in Bets : Due(q)' = Due(q)
    PROVE  Expected' - onChain' = Expected - onChain
<1>1. SumFunctionOnSet(Dues, Bets) \in Int /\ Expected = onChain - SumFunctionOnSet(Dues, Bets)
    BY ExpectedIs
<1>2. (Expected = onChain - SumFunctionOnSet(Dues, Bets))'
    BY ExpectedIs, PTL
<1>3. \A q \in Bets : Dues[q] = Dues'[q]
    BY DEF Dues
<1>5. SumFunctionOnSet(Dues, Bets) = SumFunctionOnSet(Dues', Bets)
    BY <1>3, Constants, SumAgrees
<1>6. onChain \in Int /\ onChain' \in Int
    BY DEF LedgerTypes
<1>7. SumFunctionOnSet(Dues', Bets) = SumFunctionOnSet(Dues, Bets)'
    OBVIOUS
<1>. HIDE DEF Dues
<1>. QED BY <1>1, <1>2, <1>5, <1>6, <1>7

\* Rounds that end with what was due of them.
LEMMA RoundsEndExactly ==
    ASSUME LedgerTypes, SessionFacts, RoundFacts, LedgerTypes', SessionFacts',
           UNCHANGED <<chain, onChain, send, submit, accountOf, account>>,
           ~doubt, ~Strays', NEW S \in SUBSET Bets, NEW credit, EndRounds(S, credit),
           \A q \in S : tracked[q] # None =>
              credit[q] = IF chain[q].phase = "over" THEN chain[q].payout ELSE 0
    PROVE  Expected' - ledger'.adjustment = Expected - ledger.adjustment
<1>. DEFINE revealed == {q \in S : tracked[q] # None}
            rest == Bets \ revealed
            Sum(f, T) == SumFunctionOnSet(f, T)
<1>1. \A q \in S : tracked[q] # None => credit[q] \in Int
    BY PayoutType
<1>2. /\ IsFiniteSet(revealed) /\ SumFunctionOnSet(credit, revealed) \in Int
      /\ ledger'.adjustment = ledger.adjustment + SumFunctionOnSet(credit, revealed)
    BY <1>1, EndRoundsEffect
<1>3. \A q \in Bets :
         /\ OpenKey(q) \in ledger'.activeRounds <=>
               OpenKey(q) \in ledger.activeRounds /\ ~(q \in S /\ tracked[q] = OpenKey(q))
         /\ ResumeKey(q) \in ledger'.activeRounds <=>
               ResumeKey(q) \in ledger.activeRounds /\ ~(q \in S /\ tracked[q] = ResumeKey(q))
    BY <1>1, RoundsEnd
<1>4. ASSUME NEW q \in rest PROVE Due(q)' = Due(q)
    <2>1. Active(q)' = Active(q)
        BY <1>3, KeysDiffer DEF Active
    <2>2. Mine(q)' = Mine(q)
        BY DEF Mine
    <2>. QED BY <2>1, <2>2, SameDue
<1>5. ASSUME NEW q \in revealed PROVE Due(q)' = 0 /\ Due(q) = credit[q]
    <2>1. tracked[q] \in {OpenKey(q), ResumeKey(q)} /\ tracked[q] \in ledger.activeRounds
          /\ ~(OpenKey(q) \in ledger.activeRounds /\ ResumeKey(q) \in ledger.activeRounds)
        BY DEF RoundFacts
    <2>2. ~Active(q)' /\ Active(q) /\ Mine(q)
        BY <1>3, <2>1 DEF Active, RoundFacts
    <2>3. send[q] # "sending"
        BY DEF SessionFacts
    <2>4. Mine(q)'
        BY <2>2 DEF Mine
    <2>5. submit[q].extra = 0 \/ submit[q].landed
        <3>1. submit[q].extra \in Nat
            BY DEF LedgerTypes
        <3>2. ~(submit'[q].extra > 0 /\ ~submit'[q].landed)
            BY <2>2, <2>4 DEF Strays
        <3>. QED BY <3>1, <3>2
    <2>6. Due(q)' = 0
        BY <2>2, <2>3 DEF Due
    <2>7. credit[q] = (IF chain[q].phase = "over" THEN chain[q].payout ELSE 0) /\ credit[q] \in Int
        BY <1>1
    <2>8. Due(q) = 0 + 0 + (IF chain[q].phase = "over" THEN chain[q].payout ELSE 0)
        BY <2>2, <2>3, <2>5 DEF Due
    <2>. QED BY <2>6, <2>7, <2>8
<1>6. /\ Integral(Dues, Bets) /\ Sum(Dues, Bets) \in Int /\ Expected = onChain - Sum(Dues, Bets)
    BY ExpectedIs
<1>7. /\ Integral(Dues, Bets)' /\ (SumFunctionOnSet(Dues, Bets) \in Int)'
      /\ (Expected = onChain - SumFunctionOnSet(Dues, Bets))'
    BY ExpectedIs, PTL
<1>8. revealed \in SUBSET Bets /\ IsFiniteSet(rest)
    BY Constants, FS_Subset
<1>9. Sum(Dues, Bets) = Sum(Dues, revealed) + Sum(Dues, rest)
    BY <1>6, <1>8, Constants, SumSplit
<1>10. Sum(Dues', Bets) = Sum(Dues', revealed) + Sum(Dues', rest)
    BY <1>7, <1>8, Constants, SumSplit
<1>11. Sum(Dues, rest) = Sum(Dues', rest)
    <2>1. \A q \in rest : Dues[q] = Dues'[q]
        BY <1>4 DEF Dues
    <2>. QED BY <1>8, <2>1, SumAgrees
<1>12. Sum(Dues', revealed) = 0
    <2>1. \A q \in revealed : Dues'[q] = 0
        BY <1>5 DEF Dues
    <2>. QED BY <1>2, <2>1, SumOfZeros
<1>13. Sum(Dues, revealed) = Sum(credit, revealed)
    <2>1. \A q \in revealed : Dues[q] = credit[q]
        BY <1>5 DEF Dues
    <2>. QED BY <1>2, <2>1, SumAgrees
<1>14. Sum(Dues, rest) \in Int
    <2>1. Integral(Dues, rest)
        BY <1>6 DEF Integral
    <2>. QED BY <1>8, <2>1, SumType
<1>15. onChain \in Int /\ onChain' = onChain /\ ledger.adjustment \in Int
    BY DEF LedgerTypes, Ledgers
<1>16. Expected' = onChain - Sum(Dues', Bets) /\ Sum(credit, revealed) \in Int
       /\ ledger'.adjustment = ledger.adjustment + Sum(credit, revealed)
    BY <1>2, <1>7, <1>15
<1>. HIDE DEF Sum, revealed, rest
<1>. QED BY <1>6, <1>9, <1>10, <1>11, <1>12, <1>13, <1>14, <1>15, <1>16

-----------------------------------------------------------------------------
(***************************************************************************)
(* The ledger is exact.                                                    *)
(***************************************************************************)

LEMMA ExactInit == HostInit => ExactFacts
<1>. SUFFICES ASSUME HostInit PROVE ExactFacts
    OBVIOUS
<1>1. LedgerTypes /\ SessionFacts /\ RoundFacts
    BY TypesInit, SessionInit, RoundInit
<1>2. ledger.activeRounds = {} /\ ledger.baseline = None /\ ledger.adjustment = 0
    BY DEF HostInit, EmptyLedger
<1>3. Expected = onChain
    BY <1>1, <1>2, NothingDue
<1>4. Anchors = {onChain} /\ onChain \in Int
    BY <1>2, Constants DEF HostInit, Anchors
<1>. QED BY <1>2, <1>3, <1>4 DEF ExactFacts

AnchorTypes == \A v \in Anchors : v \in Int

LEMMA AnchorsAreIntegers == LedgerTypes => AnchorTypes
<1>. SUFFICES ASSUME LedgerTypes PROVE AnchorTypes
    OBVIOUS
<1>1. (ledger.baseline # None => ledger.baseline \in Int) /\ (raw # None => raw \in Int) /\ rawRead \subseteq Int
    BY DEF LedgerTypes, Ledgers
<1>. QED BY <1>1 DEF Anchors, AnchorTypes

\* A step after which the display starts from no new balance, and whose effect
\* on the ledger is its effect on what is expected.
LEMMA ExactKept ==
    ASSUME LedgerTypes, SessionFacts, LedgerTypes', SessionFacts', ExactFacts,
           ~doubt' /\ ~midRound' /\ ~Strays' =>
              /\ ~doubt /\ ~midRound /\ ~Strays /\ Anchors' \subseteq Anchors
              /\ Expected' - ledger'.adjustment = Expected - ledger.adjustment
    PROVE  ExactFacts'
<1>. SUFFICES ASSUME ~doubt', ~midRound', ~Strays', NEW v \in Anchors'
              PROVE  v + ledger'.adjustment = Expected'
    BY DEF ExactFacts
<1>1. v \in Anchors /\ v + ledger.adjustment = Expected
    BY DEF ExactFacts
<1>2. v \in Int
    BY <1>1, AnchorsAreIntegers DEF AnchorTypes
<1>3. Expected \in Int /\ Expected' \in Int
    <2>1. (LedgerTypes /\ SessionFacts => Expected \in Int)'
        BY ExpectedIs, PTL
    <2>. QED BY <2>1, ExpectedIs
<1>4. ledger.adjustment \in Int /\ ledger'.adjustment \in Int
    BY DEF LedgerTypes, Ledgers
<1>. QED BY <1>1, <1>2, <1>3, <1>4

\* Balances that move while the read at mount is out spoil it.
LEMMA MovedAnchors ==
    ASSUME NEW v, Moves(v), UNCHANGED ledger, ~midRound'
    PROVE  ~midRound /\ Anchors' = Anchors
BY DEF Moves, Anchors

\* A round in play is of the account that is signed in.
LEMMA ActiveIsMine == ASSUME RoundFacts, NEW r \in Bets, Active(r) PROVE Mine(r)
BY DEF RoundFacts, Active

LEMMA NoBalance ==
    ASSUME NEW e \in Int, NEW e1 \in Int, NEW c \in Int, NEW c1, c1 = c, e1 - c1 = e - c
    PROVE  e1 = e
OBVIOUS

\* What follows for a step from its effect on one round.
LEMMA OneExact ==
    ASSUME LedgerTypes, SessionFacts, LedgerTypes', SessionFacts', NEW r \in Bets,
           \A q \in Bets \ {r} : Due(q)' = Due(q),
           onChain' - Due(r)' - ledger'.adjustment = onChain - Due(r) - ledger.adjustment
    PROVE  Expected' - ledger'.adjustment = Expected - ledger.adjustment
<1>1. Expected' - onChain' = Expected - onChain + Due(r) - Due(r)'
    BY OneDue
<1>2. Expected \in Int /\ Due(r) \in Int /\ Expected' \in Int /\ Due(r)' \in Int
    <2>1. (LedgerTypes /\ SessionFacts => Expected \in Int)'
        BY ExpectedIs, PTL
    <2>2. Due(r) \in Int
        BY DueType
    <2>3. (LedgerTypes /\ SessionFacts => DueTypes)'
        BY AllDueTypes, PTL
    <2>. QED BY <2>1, <2>2, <2>3, ExpectedIs DEF DueTypes
<1>3. ledger.adjustment \in Int /\ ledger'.adjustment \in Int /\ onChain \in Int /\ onChain' \in Int
    BY DEF LedgerTypes, Ledgers
<1>4. onChain' - Due(r)' - ledger'.adjustment = onChain - Due(r) - ledger.adjustment
    OBVIOUS
<1>5. PICK e, e1, d, d1, c, c1, a, a1 :
         /\ e = Expected /\ e1 = Expected' /\ d = Due(r) /\ d1 = Due(r)'
         /\ c = onChain /\ c1 = onChain' /\ a = ledger.adjustment /\ a1 = ledger'.adjustment
    OBVIOUS
<1>6. /\ e \in Int /\ e1 \in Int /\ d \in Int /\ d1 \in Int
      /\ c \in Int /\ c1 \in Int /\ a \in Int /\ a1 \in Int
    BY <1>2, <1>3, <1>5, Zenon
<1>7. e1 - c1 = e - c + d - d1
    BY <1>1, <1>5, Zenon
<1>8. c1 - d1 - a1 = c - d - a
    BY <1>4, <1>5, Zenon
<1>9. e1 - a1 = e - a
    BY <1>6, <1>7, <1>8
<1>. QED BY <1>5, <1>9, Zenon

LEMMA NoExact ==
    ASSUME LedgerTypes, SessionFacts, LedgerTypes', SessionFacts',
           \A q \in Bets : Due(q)' = Due(q), UNCHANGED onChain, ledger'.adjustment = ledger.adjustment
    PROVE  Expected' - ledger'.adjustment = Expected - ledger.adjustment
<1>1. Expected' - onChain' = Expected - onChain
    BY NoDue
<1>2. Expected \in Int /\ Expected' \in Int
    <2>1. (LedgerTypes /\ SessionFacts => Expected \in Int)'
        BY ExpectedIs, PTL
    <2>. QED BY <2>1, ExpectedIs
<1>3. ledger.adjustment \in Int /\ onChain \in Int
    BY DEF LedgerTypes, Ledgers
<1>4. onChain' = onChain /\ ledger'.adjustment = ledger.adjustment
    OBVIOUS
<1>5. Expected' = Expected
    BY <1>1, <1>2, <1>3, <1>4, NoBalance, Zenon
<1>. QED BY <1>4, <1>5

LEMMA OpenSessionExact ==
    ASSUME LedgerTypes, SessionFacts, RoundFacts, LedgerTypes', SessionFacts', ExactFacts,
           NEW r \in Bets, OpenSession(r)
    PROVE  ExactFacts'
<1>1. /\ ledger'.activeRounds = ledger.activeRounds \cup {OpenKey(r)}
      /\ ledger'.adjustment = ledger.adjustment - Stake /\ ledger'.baseline = ledger.baseline
    BY OpenSessionEffect
<1>2. /\ send[r] = "idle" /\ submit[r] = NoSubmit /\ chain[r].phase = "none"
      /\ UNCHANGED <<onChain, chain, submit, account, doubt, midRound, raw, rawRead>>
    BY DEF OpenSession, SessionFacts, chainVars, readVars, mountVars
<1>3. ASSUME NEW q \in Bets \ {r} PROVE Due(q)' = Due(q) /\ Mine(q)' = Mine(q) /\ Active(q)' = Active(q)
    <2>1. Active(q)' = Active(q)
        BY <1>1, KeysDiffer DEF Active
    <2>2. Mine(q)' = Mine(q) /\ send'[q] = send[q]
        BY DEF Mine, OpenSession, LedgerTypes, mountVars
    <2>. QED BY <1>2, <2>1, <2>2, SameDue
<1>4. Due(r) = 0 /\ Due(r)' = Stake
    <2>1. send'[r] = "sending" /\ accountOf'[r] = account
        BY DEF OpenSession, LedgerTypes
    <2>2. Mine(r)'
        BY <1>2, <2>1 DEF Mine
    <2>3. Stake \in Int
        BY Constants
    <2>. QED BY <1>2, <2>1, <2>2, <2>3 DEF Due, NoSubmit
<1>5. Expected' - ledger'.adjustment = Expected - ledger.adjustment
    <2>1. ledger.adjustment \in Int /\ onChain \in Int /\ Stake \in Int
        BY Constants DEF LedgerTypes, Ledgers
    <2>2. onChain' - Due(r)' - ledger'.adjustment = onChain - Due(r) - ledger.adjustment
        BY <1>1, <1>2, <1>4, <2>1
    <2>. QED BY <1>3, <2>2, OneExact
<1>6. Strays => Strays'
    BY <1>2, <1>3 DEF Strays, NoSubmit
<1>7. Anchors' = Anchors
    BY <1>1, <1>2 DEF Anchors
<1>. QED BY <1>2, <1>5, <1>6, <1>7, ExactKept

LEMMA LandExact ==
    ASSUME LedgerTypes, SessionFacts, RoundFacts, LedgerTypes', SessionFacts', ExactFacts,
           NEW r \in Bets, Land(r)
    PROVE  ExactFacts'
<1>1. /\ send[r] \in {"sending", "failed"} /\ chain[r].phase = "none" /\ chain'[r].phase = "open"
      /\ UNCHANGED <<send, submit, accountOf, account, ledger>>
    BY DEF Land, callVars, mountVars, LedgerTypes
<1>2. \A q \in Bets : Mine(q)' = Mine(q) /\ Active(q)' = Active(q)
    BY <1>1 DEF Mine, Active
<1>3. ASSUME NEW q \in Bets \ {r} PROVE Due(q)' = Due(q)
    <2>1. chain'[q] = chain[q]
        BY DEF Land, LedgerTypes
    <2>. QED BY <1>1, <1>2, <2>1, SameDue
<1>4. Strays' = Strays
    BY <1>1, <1>2 DEF Strays
<1>5. CASE ~Mine(r)
    <2>1. UNCHANGED <<onChain, readVars>> /\ (doubt => doubt')
        BY <1>5, LandEffect
    <2>2. Due(r)' = Due(r)
        BY <1>2, <1>5 DEF Due
    <2>3. Expected' - ledger'.adjustment = Expected - ledger.adjustment
        BY <1>1, <1>3, <2>1, <2>2, NoExact
    <2>4. Anchors' = Anchors /\ midRound' = midRound
        BY <1>1, <2>1 DEF Anchors, readVars
    <2>. QED BY <1>4, <2>1, <2>3, <2>4, ExactKept
<1>6. CASE Mine(r)
    <2>1. PICK v \in Int : Moves(v) /\ (~doubt' => Active(r) /\ v = onChain - Stake)
        BY <1>6, LandEffect
    <2>2. (doubt => doubt') /\ (~doubt' => onChain' = onChain - Stake)
        BY <2>1, LandEffect DEF Moves
    <2>3. ASSUME ~doubt' PROVE onChain' - Due(r)' - ledger'.adjustment = onChain - Due(r) - ledger.adjustment
        <3>1. send[r] = "sending"
            BY <1>1, <2>1, <2>3 DEF Active, RoundFacts
        <3>2. submit[r] = NoSubmit
            BY <1>1 DEF SessionFacts
        <3>3. Stake \in Int /\ onChain \in Int /\ ledger.adjustment \in Int
            BY Constants DEF LedgerTypes, Ledgers
        <3>4. Due(r) = Stake /\ Due(r)' = 0
            BY <1>1, <1>2, <1>6, <3>1, <3>2, <3>3 DEF Due, NoSubmit
        <3>. QED BY <1>1, <2>2, <2>3, <3>3, <3>4
    <2>4. ~doubt' => Expected' - ledger'.adjustment = Expected - ledger.adjustment
        BY <1>3, <2>3, OneExact
    <2>5. ~midRound' => ~midRound /\ Anchors' = Anchors
        BY <1>1, <2>1, MovedAnchors
    <2>. QED BY <1>4, <2>2, <2>4, <2>5, ExactKept
<1>. QED BY <1>5, <1>6

LEMMA ReceiptExact ==
    ASSUME LedgerTypes, SessionFacts, LedgerTypes', SessionFacts', ExactFacts,
           NEW r \in Bets, OpenSucceeds(r) \/ OpenRecovers(r)
    PROVE  ExactFacts'
<1>1. /\ chain[r].phase # "none"
      /\ UNCHANGED <<onChain, chain, submit, accountOf, account, doubt, midRound, raw, rawRead, ledger>>
    BY DEF OpenSucceeds, OpenRecovers, chainVars, readVars, mountVars
<1>2. \A q \in Bets : Mine(q)' = Mine(q) /\ Active(q)' = Active(q)
    BY <1>1 DEF Mine, Active
<1>3. ASSUME NEW q \in Bets PROVE Due(q)' = Due(q)
    <2>1. CASE q = r
        BY <1>1, <1>2, <2>1 DEF Due
    <2>2. CASE q # r
        <3>1. send'[q] = send[q]
            BY <2>2 DEF OpenSucceeds, OpenRecovers, LedgerTypes
        <3>. QED BY <1>1, <1>2, <3>1, SameDue
    <2>. QED BY <2>1, <2>2
<1>4. Strays' = Strays /\ Anchors' = Anchors
    BY <1>1, <1>2 DEF Strays, Anchors
<1>5. Expected' - ledger'.adjustment = Expected - ledger.adjustment
    BY <1>1, <1>3, NoExact
<1>. QED BY <1>1, <1>4, <1>5, ExactKept

LEMMA OpenFailsExact ==
    ASSUME LedgerTypes, SessionFacts, RoundFacts, LedgerTypes', SessionFacts', ExactFacts,
           NEW r \in Bets, OpenFails(r)
    PROVE  ExactFacts'
<1>1. /\ ledger'.activeRounds = ledger.activeRounds \ {OpenKey(r)}
      /\ ledger'.adjustment = ledger.adjustment + Stake /\ ledger'.baseline = ledger.baseline
    BY OpenFailsEffect
<1>2. /\ send[r] = "sending" /\ submit[r] = NoSubmit
      /\ UNCHANGED <<onChain, chain, submit, accountOf, account, midRound, raw, rawRead>>
    BY DEF OpenFails, SessionFacts, chainVars, readVars, mountVars
<1>3. ASSUME NEW q \in Bets \ {r} PROVE Due(q)' = Due(q) /\ Mine(q)' = Mine(q) /\ Active(q)' = Active(q)
    <2>1. Active(q)' = Active(q)
        BY <1>1, KeysDiffer DEF Active
    <2>2. Mine(q)' = Mine(q) /\ send'[q] = send[q]
        BY <1>2 DEF Mine, OpenFails, LedgerTypes
    <2>. QED BY <1>2, <2>1, <2>2, SameDue
<1>4. (doubt => doubt') /\ (~doubt' => Active(r) /\ ~(Mine(r) /\ chain[r].phase # "none"))
    BY DEF OpenFails
<1>5. ASSUME ~doubt' PROVE onChain' - Due(r)' - ledger'.adjustment = onChain - Due(r) - ledger.adjustment
    <2>1. Mine(r) /\ chain[r].phase = "none"
        BY <1>4, <1>5, ActiveIsMine
    <2>2. send'[r] = "failed"
        BY DEF OpenFails, LedgerTypes
    <2>3. Stake \in Int /\ onChain \in Int /\ ledger.adjustment \in Int
        BY Constants DEF LedgerTypes, Ledgers
    <2>4. Due(r) = Stake /\ Due(r)' = 0
        BY <1>2, <2>1, <2>2, <2>3 DEF Due, NoSubmit
    <2>. QED BY <1>1, <1>2, <2>3, <2>4
<1>6. ~doubt' => Expected' - ledger'.adjustment = Expected - ledger.adjustment
    BY <1>3, <1>5, OneExact
<1>7. Strays => Strays'
    BY <1>2, <1>3 DEF Strays, NoSubmit
<1>8. Anchors' = Anchors
    BY <1>1, <1>2 DEF Anchors
<1>. QED BY <1>2, <1>4, <1>6, <1>7, <1>8, ExactKept

LEMMA SubmitActionExact ==
    ASSUME LedgerTypes, SessionFacts, RoundFacts, LedgerTypes', SessionFacts', ExactFacts,
           NEW r \in Bets, NEW extra \in ExtraStakes, SubmitAction(r, extra)
    PROVE  ExactFacts'
<1>. DEFINE roundKey == IF tracked[r] = None THEN ResumeKey(r) ELSE tracked[r]
<1>1. /\ ledger'.activeRounds = ledger.activeRounds \cup {roundKey}
      /\ ledger'.adjustment = ledger.adjustment - extra /\ ledger'.baseline = ledger.baseline
    BY SubmitActionEffect
<1>2. /\ submit[r] = NoSubmit /\ send[r] # "sending"
      /\ UNCHANGED <<onChain, chain, send, accountOf, account, midRound, raw, rawRead>>
    BY DEF SubmitAction, chainVars, readVars, mountVars
<1>3. roundKey \in {OpenKey(r), ResumeKey(r)} /\ (tracked[r] # None => Active(r))
    BY DEF RoundFacts, Active
<1>4. Mine(r) /\ Mine(r)' /\ Active(r)'
    <2>1. Known(r)
        BY LatestType DEF SubmitAction, Known
    <2>2. Mine(r)
        BY <2>1 DEF SessionFacts
    <2>. QED BY <1>1, <1>2, <1>3, <2>2 DEF Mine, Active
<1>5. ASSUME NEW q \in Bets \ {r} PROVE Due(q)' = Due(q) /\ Mine(q)' = Mine(q) /\ Active(q)' = Active(q)
    <2>1. Active(q)' = Active(q)
        BY <1>1, <1>3, KeysDiffer DEF Active
    <2>2. Mine(q)' = Mine(q) /\ submit'[q] = submit[q]
        BY <1>2 DEF Mine, SubmitAction, LedgerTypes
    <2>. QED BY <1>2, <2>1, <2>2, SameDue
<1>6. (doubt => doubt') /\ (~doubt' => tracked[r] # None \/ (chain[r].phase # "over" /\ ~Active(r)))
    BY DEF SubmitAction
<1>7. ASSUME ~doubt' PROVE onChain' - Due(r)' - ledger'.adjustment = onChain - Due(r) - ledger.adjustment
    <2>. DEFINE payout == IF Active(r) /\ chain[r].phase = "over" THEN chain[r].payout ELSE 0
    <2>1. extra \in Int /\ onChain \in Int /\ ledger.adjustment \in Int /\ payout \in Int
        <3>1. extra \in Int /\ onChain \in Int /\ ledger.adjustment \in Int
            BY Constants DEF LedgerTypes, Ledgers
        <3>2. chain[r].phase = "over" => chain[r].payout \in Int
            BY PayoutType
        <3>. QED BY <3>1, <3>2
    <2>2. submit'[r].extra = extra /\ ~submit'[r].landed
        BY DEF SubmitAction, LedgerTypes
    <2>3. Due(r) = 0 + 0 + payout
        BY <1>2, <1>4 DEF Due, NoSubmit
    <2>4. Due(r)' = 0 + extra + payout
        BY <1>2, <1>3, <1>4, <1>6, <1>7, <2>2 DEF Due
    <2>. HIDE DEF payout
    <2>. QED BY <1>1, <1>2, <2>1, <2>3, <2>4
<1>8. ~doubt' => Expected' - ledger'.adjustment = Expected - ledger.adjustment
    BY <1>5, <1>7, OneExact
<1>9. Strays => Strays'
    <2>1. ASSUME NEW q \in Bets, Mine(q), ~Active(q), submit[q].extra > 0, ~submit[q].landed PROVE Strays'
        <3>1. q # r
            BY <1>2, <2>1 DEF NoSubmit
        <3>2. submit'[q] = submit[q]
            BY <3>1 DEF SubmitAction, LedgerTypes
        <3>. QED BY <1>5, <2>1, <3>1, <3>2 DEF Strays
    <2>. QED BY <2>1 DEF Strays
<1>10. Anchors' = Anchors
    BY <1>1, <1>2 DEF Anchors
<1>. QED BY <1>2, <1>6, <1>8, <1>9, <1>10, ExactKept

LEMMA SubmitLandsExact ==
    ASSUME LedgerTypes, SessionFacts, RoundFacts, LedgerTypes', SessionFacts', ExactFacts,
           NEW r \in Bets, SubmitLands(r)
    PROVE  ExactFacts'
<1>1. /\ chain[r].phase = "open" /\ chain'[r].phase = "open" /\ ~submit[r].landed
      /\ UNCHANGED <<send, accountOf, account, ledger>> /\ (doubt => doubt')
    BY DEF SubmitLands, mountVars, LedgerTypes
<1>2. submit'[r].landed /\ submit'[r].extra = submit[r].extra
    BY DEF SubmitLands, LedgerTypes
<1>3. \A q \in Bets : Mine(q)' = Mine(q) /\ Active(q)' = Active(q)
    BY <1>1 DEF Mine, Active
<1>4. \A q \in Bets \ {r} : chain'[q] = chain[q] /\ submit'[q] = submit[q]
    BY DEF SubmitLands, LedgerTypes
<1>5. \A q \in Bets \ {r} : Due(q)' = Due(q)
    BY <1>1, <1>3, <1>4, SameDue
<1>6. CASE ~Mine(r)
    <2>1. UNCHANGED <<onChain, readVars>>
        BY <1>6, SubmitLandsEffect
    <2>2. Due(r)' = Due(r)
        BY <1>3, <1>6 DEF Due
    <2>3. Expected' - ledger'.adjustment = Expected - ledger.adjustment
        BY <1>1, <1>5, <2>1, <2>2, NoExact
    <2>4. Anchors' = Anchors /\ midRound' = midRound
        BY <1>1, <2>1 DEF Anchors, readVars
    <2>5. Strays => Strays'
        BY <1>3, <1>4, <1>6 DEF Strays
    <2>. QED BY <1>1, <2>3, <2>4, <2>5, ExactKept
<1>7. CASE Mine(r)
    <2>1. PICK v \in Int : Moves(v) /\ (~doubt' => Active(r) /\ v = onChain - submit[r].extra)
        BY <1>7, SubmitLandsEffect
    <2>2. ~doubt' => Active(r) /\ onChain' = onChain - submit[r].extra
        BY <2>1 DEF Moves
    <2>3. ASSUME ~doubt' PROVE onChain' - Due(r)' - ledger'.adjustment = onChain - Due(r) - ledger.adjustment
        <3>1. submit[r].extra \in Int /\ onChain \in Int /\ ledger.adjustment \in Int
            BY DEF LedgerTypes, Ledgers
        <3>2. Due(r) = submit[r].extra
            BY <1>1, <1>7, <2>2, <2>3, <3>1 DEF Due
        <3>3. Due(r)' = 0
            BY <1>1, <1>2 DEF Due
        <3>. QED BY <1>1, <2>2, <2>3, <3>1, <3>2, <3>3
    <2>4. ~doubt' => Expected' - ledger'.adjustment = Expected - ledger.adjustment
        BY <1>5, <2>3, OneExact
    <2>5. ~midRound' => ~midRound /\ Anchors' = Anchors
        BY <1>1, <2>1, MovedAnchors
    <2>6. ~doubt' => (Strays => Strays')
        BY <1>3, <1>4, <2>2 DEF Strays
    <2>. QED BY <1>1, <2>4, <2>5, <2>6, ExactKept
<1>. QED BY <1>6, <1>7

LEMMA RouterExact ==
    ASSUME LedgerTypes, SessionFacts, RoundFacts, LedgerTypes', SessionFacts', ExactFacts,
           NEW r \in Bets, RouterAdvances(r)
    PROVE  ExactFacts'
<1>1. /\ \A q \in Bets : chain'[q].phase = chain[q].phase /\ chain'[q].payout = chain[q].payout
      /\ UNCHANGED <<send, submit, accountOf, account, ledger>> /\ (doubt => doubt')
    BY RouterEffect DEF callVars, mountVars
<1>2. \A q \in Bets : Mine(q)' = Mine(q) /\ Active(q)' = Active(q)
    BY <1>1 DEF Mine, Active
<1>3. \A q \in Bets : Due(q)' = Due(q)
    BY <1>1, <1>2 DEF Due
<1>4. CASE UNCHANGED <<onChain, readVars>>
    <2>1. Expected' - ledger'.adjustment = Expected - ledger.adjustment
        BY <1>1, <1>3, <1>4, NoExact
    <2>2. Anchors' = Anchors /\ midRound' = midRound
        BY <1>1, <1>4 DEF Anchors, readVars
    <2>3. Strays' = Strays
        BY <1>1, <1>2 DEF Strays
    <2>. QED BY <1>1, <2>1, <2>2, <2>3, ExactKept
<1>5. CASE doubt'
    BY <1>5, ExactKept
<1>. QED BY <1>4, <1>5, RouterEffect

LEMMA SubmitSucceedsExact ==
    ASSUME LedgerTypes, SessionFacts, LedgerTypes', SessionFacts', ExactFacts,
           NEW r \in Bets, SubmitSucceeds(r)
    PROVE  ExactFacts'
<1>1. /\ submit[r].landed /\ submit'[r] = NoSubmit
      /\ UNCHANGED <<onChain, chain, send, accountOf, account, doubt, midRound, raw, rawRead, ledger>>
    BY DEF SubmitSucceeds, chainVars, readVars, mountVars, LedgerTypes
<1>2. \A q \in Bets : Mine(q)' = Mine(q) /\ Active(q)' = Active(q)
    BY <1>1 DEF Mine, Active
<1>3. \A q \in Bets \ {r} : submit'[q] = submit[q]
    BY DEF SubmitSucceeds, LedgerTypes
<1>4. ASSUME NEW q \in Bets PROVE Due(q)' = Due(q)
    <2>1. CASE q = r
        BY <1>1, <1>2, <2>1 DEF Due, NoSubmit
    <2>2. CASE q # r
        BY <1>1, <1>2, <1>3, <2>2, SameDue
    <2>. QED BY <2>1, <2>2
<1>5. Strays => Strays'
    BY <1>1, <1>2, <1>3 DEF Strays
<1>6. Anchors' = Anchors
    BY <1>1 DEF Anchors
<1>7. Expected' - ledger'.adjustment = Expected - ledger.adjustment
    BY <1>1, <1>4, NoExact
<1>. QED BY <1>1, <1>5, <1>6, <1>7, ExactKept

LEMMA SubmitFailsExact ==
    ASSUME LedgerTypes, SessionFacts, RoundFacts, LedgerTypes', SessionFacts', ExactFacts,
           NEW r \in Bets, SubmitFails(r)
    PROVE  ExactFacts'
<1>1. /\ ledger'.activeRounds = ledger.activeRounds
      /\ ledger'.adjustment = ledger.adjustment + submit[r].extra /\ ledger'.baseline = ledger.baseline
    <2>1. submit[r].extra \in Int
        BY DEF LedgerTypes
    <2>. QED BY <2>1, RefundEffect DEF SubmitFails, LedgerTypes
<1>2. /\ submit'[r] = NoSubmit
      /\ UNCHANGED <<onChain, chain, send, accountOf, account, midRound, raw, rawRead>>
    BY DEF SubmitFails, chainVars, readVars, mountVars, LedgerTypes
<1>3. (doubt => doubt') /\ (~doubt' => ~submit[r].landed /\ Active(r))
    BY DEF SubmitFails
<1>4. \A q \in Bets : Mine(q)' = Mine(q) /\ Active(q)' = Active(q)
    BY <1>1, <1>2 DEF Mine, Active
<1>5. \A q \in Bets \ {r} : submit'[q] = submit[q]
    BY DEF SubmitFails, LedgerTypes
<1>6. \A q \in Bets \ {r} : Due(q)' = Due(q)
    BY <1>2, <1>4, <1>5, SameDue
<1>7. ASSUME ~doubt' PROVE onChain' - Due(r)' - ledger'.adjustment = onChain - Due(r) - ledger.adjustment
    <2>. DEFINE payout == IF chain[r].phase = "over" THEN chain[r].payout ELSE 0
                stake == IF send[r] = "sending" /\ chain[r].phase = "none" THEN Stake ELSE 0
    <2>1. submit[r].extra \in Int /\ onChain \in Int /\ ledger.adjustment \in Int /\ payout \in Int
          /\ stake \in Int
        <3>1. submit[r].extra \in Int /\ onChain \in Int /\ ledger.adjustment \in Int
            BY DEF LedgerTypes, Ledgers
        <3>2. chain[r].phase = "over" => chain[r].payout \in Int
            BY PayoutType
        <3>. QED BY <3>1, <3>2, Constants
    <2>2. Mine(r) /\ Active(r) /\ ~submit[r].landed
        BY <1>3, <1>7, ActiveIsMine
    <2>3. Due(r) = stake + submit[r].extra + payout
        BY <2>2 DEF Due
    <2>4. Due(r)' = stake + 0 + payout
        BY <1>2, <1>4, <2>2 DEF Due, NoSubmit
    <2>. HIDE DEF payout, stake
    <2>. QED BY <1>1, <1>2, <2>1, <2>3, <2>4
<1>8. ~doubt' => Expected' - ledger'.adjustment = Expected - ledger.adjustment
    BY <1>6, <1>7, OneExact
<1>9. ~doubt' => (Strays => Strays')
    BY <1>3, <1>4, <1>5 DEF Strays
<1>10. Anchors' = Anchors
    BY <1>1, <1>2 DEF Anchors
<1>. QED BY <1>2, <1>3, <1>8, <1>9, <1>10, ExactKept

LEMMA EndsExact ==
    ASSUME LedgerTypes, SessionFacts, RoundFacts, LedgerTypes', SessionFacts', ExactFacts,
           NEW r \in Bets, Ends(r)
    PROVE  ExactFacts'
<1>1. PICK payout \in Payouts :
         /\ chain' = [chain EXCEPT ![r].phase = "over", ![r].payout = payout]
         /\ IF Mine(r) THEN Moves(onChain + payout) ELSE UNCHANGED <<onChain, readVars>>
    BY DEF Ends
<1>2. chain'[r].phase = "over" /\ chain'[r].payout = payout /\ \A q \in Bets \ {r} : chain'[q] = chain[q]
    BY <1>1 DEF LedgerTypes
<1>3. /\ chain[r].phase = "open" /\ UNCHANGED <<send, submit, accountOf, account, ledger>>
      /\ (doubt => doubt') /\ (~doubt' /\ Mine(r) => Active(r))
    BY DEF Ends, callVars, mountVars
<1>4. \A q \in Bets : Mine(q)' = Mine(q) /\ Active(q)' = Active(q)
    BY <1>3 DEF Mine, Active
<1>5. \A q \in Bets \ {r} : Due(q)' = Due(q)
    BY <1>2, <1>3, <1>4, SameDue
<1>6. Strays' = Strays
    BY <1>3, <1>4 DEF Strays
<1>7. CASE ~Mine(r)
    <2>1. UNCHANGED <<onChain, readVars>>
        BY <1>1, <1>7
    <2>2. Due(r)' = Due(r)
        BY <1>4, <1>7 DEF Due
    <2>3. Expected' - ledger'.adjustment = Expected - ledger.adjustment
        BY <1>3, <1>5, <2>1, <2>2, NoExact
    <2>4. Anchors' = Anchors /\ midRound' = midRound
        BY <1>3, <2>1 DEF Anchors, readVars
    <2>. QED BY <1>3, <1>6, <2>3, <2>4, ExactKept
<1>8. CASE Mine(r)
    <2>1. Moves(onChain + payout) /\ onChain' = onChain + payout
        BY <1>1, <1>8 DEF Moves
    <2>2. ASSUME ~doubt' PROVE onChain' - Due(r)' - ledger'.adjustment = onChain - Due(r) - ledger.adjustment
        <3>. DEFINE extra == IF submit[r].landed THEN 0 ELSE submit[r].extra
        <3>1. payout \in Int /\ onChain \in Int /\ ledger.adjustment \in Int /\ extra \in Int
            BY Constants DEF LedgerTypes, Ledgers
        <3>2. Active(r) /\ Active(r)' /\ Mine(r)'
            BY <1>3, <1>4, <1>8, <2>2
        <3>3. Due(r) = 0 + extra + 0
            BY <1>3, <1>8, <3>2 DEF Due
        <3>4. Due(r)' = 0 + extra + payout
            BY <1>2, <1>3, <3>2 DEF Due
        <3>. HIDE DEF extra
        <3>. QED BY <1>3, <2>1, <3>1, <3>3, <3>4
    <2>3. ~doubt' => Expected' - ledger'.adjustment = Expected - ledger.adjustment
        BY <1>5, <2>2, OneExact
    <2>4. ~midRound' => ~midRound /\ Anchors' = Anchors
        BY <1>3, <2>1, MovedAnchors
    <2>. QED BY <1>3, <1>6, <2>3, <2>4, ExactKept
<1>. QED BY <1>7, <1>8

\* Reveals and rows.
LEMMA RevealsExact ==
    ASSUME LedgerTypes, SessionFacts, RoundFacts, LedgerTypes', SessionFacts', ExactFacts,
           (\E r \in Bets : RevealOutcome(r) \/ Index(r)) \/ SetWallet
    PROVE  ExactFacts'
<1>1. UNCHANGED <<onChain, chain, send, submit, accountOf, account, doubt, midRound, raw, rawRead>>
    BY DEF RevealOutcome, Index, SetWallet, chainVars, callVars, readVars, mountVars
<1>2. ledger'.baseline = ledger.baseline /\ ledger'.activeRounds \subseteq ledger.activeRounds
    BY RevealsEndRounds, RoundsOverEffect
<1>3. Anchors' = Anchors
    BY <1>1, <1>2 DEF Anchors
<1>4. Strays => Strays'
    BY <1>1, <1>2 DEF Strays, Mine, Active
<1>5. ASSUME ~doubt, ~Strays' PROVE Expected' - ledger'.adjustment = Expected - ledger.adjustment
    <2>1. CASE UNCHANGED <<ledger, tracked>>
        <3>1. \A q \in Bets : Mine(q)' = Mine(q) /\ Active(q)' = Active(q)
            BY <1>1, <2>1 DEF Mine, Active
        <3>2. \A q \in Bets : Due(q)' = Due(q)
            BY <1>1, <3>1, SameDue
        <3>. QED BY <1>1, <2>1, <3>2, NoExact
    <2>2. CASE \E S \in SUBSET Bets : (\A q \in S : chain[q].phase = "over") /\ EndRounds(S, PayoutOf)
        <3>1. PICK S \in SUBSET Bets : (\A q \in S : chain[q].phase = "over") /\ EndRounds(S, PayoutOf)
            BY <2>2
        <3>2. \A q \in S : PayoutOf[q] = chain[q].payout
            BY <3>1, PayoutType
        <3>3. \A q \in S : tracked[q] # None =>
                 PayoutOf[q] = IF chain[q].phase = "over" THEN chain[q].payout ELSE 0
            BY <3>1, <3>2
        <3>. HIDE DEF PayoutOf
        <3>. QED BY <1>1, <1>5, <3>1, <3>3, RoundsEndExactly
    <2>. QED BY <2>1, <2>2, RevealsEndRounds DEF RoundsOver
<1>. QED BY <1>1, <1>3, <1>4, <1>5, ExactKept

\* The ledger, the chain and what is in flight stay as they are.
Still == UNCHANGED <<onChain, chain, send, submit, accountOf, account, ledger>>

LEMMA StillExact ==
    ASSUME LedgerTypes, SessionFacts, LedgerTypes', SessionFacts', Still
    PROVE  (Strays => Strays') /\ Expected' - ledger'.adjustment = Expected - ledger.adjustment
<1>1. \A q \in Bets : Mine(q)' = Mine(q) /\ Active(q)' = Active(q)
    BY DEF Still, Mine, Active
<1>2. \A q \in Bets : Due(q)' = Due(q)
    BY <1>1, SameDue DEF Still
<1>. QED BY <1>1, <1>2, NoExact DEF Still, Strays

LEMMA QuietExact ==
    ASSUME LedgerTypes, SessionFacts, LedgerTypes', SessionFacts', ExactFacts,
           RawReturns \/ (\E r \in Bets : Flash(r)) \/ UNCHANGED hostVars
    PROVE  ExactFacts'
<1>1. Still /\ UNCHANGED <<doubt, midRound>>
    BY DEF RawReturns, Flash, hostVars, Still, chainVars, callVars, readVars, mountVars
<1>2. Anchors' \subseteq Anchors
    <2>1. CASE RawReturns
        <3>1. raw' \in rawRead /\ rawRead' = {} /\ UNCHANGED ledger
            BY <2>1 DEF RawReturns
        <3>. QED BY <3>1 DEF Anchors
    <2>2. CASE (\E r \in Bets : Flash(r)) \/ UNCHANGED hostVars
        <3>1. UNCHANGED <<raw, rawRead, ledger>>
            BY <2>2 DEF Flash, hostVars, readVars
        <3>. QED BY <3>1 DEF Anchors
    <2>. QED BY <2>1, <2>2
<1>. QED BY <1>1, <1>2, StillExact, ExactKept

LEMMA TimerExact ==
    ASSUME LedgerTypes, SessionFacts, LedgerTypes', SessionFacts', ExactFacts, ReconcileTimer \/ Seed
    PROVE  ExactFacts'
<1>1. UNCHANGED <<onChain, chain, send, submit, accountOf, account, doubt, midRound, raw, rawRead>>
    BY DEF ReconcileTimer, Seed, chainVars, callVars, readVars, mountVars
<1>2. /\ ledger'.activeRounds = ledger.activeRounds /\ ledger'.adjustment = ledger.adjustment
      /\ ledger'.baseline = ledger.baseline
         \/ (ledger.baseline = None /\ raw # None /\ ledger'.baseline = raw)
    <2>1. CASE ReconcileTimer
        BY <2>1 DEF ReconcileTimer, LedgerTypes, Ledgers
    <2>2. CASE Seed
        <3>1. ledger.baseline = None /\ raw # None
            BY <2>2 DEF Seed, MaySeed
        <3>. QED BY <2>2, <3>1, SeedEffect
    <2>. QED BY <2>1, <2>2
<1>3. Anchors' \subseteq Anchors
    BY <1>1, <1>2 DEF Anchors
<1>4. \A q \in Bets : Mine(q)' = Mine(q) /\ Active(q)' = Active(q)
    BY <1>1, <1>2 DEF Mine, Active
<1>5. \A q \in Bets : Due(q)' = Due(q)
    BY <1>1, <1>4, SameDue
<1>6. Expected' - ledger'.adjustment = Expected - ledger.adjustment
    BY <1>1, <1>2, <1>5, NoExact
<1>7. Strays => Strays'
    BY <1>1, <1>4 DEF Strays
<1>. QED BY <1>1, <1>3, <1>6, <1>7, ExactKept

\* A read that is adopted saw today's balance, and nothing is due.
LEMMA ReadReturnsExact ==
    ASSUME LedgerTypes, SessionFacts, RoundFacts, ReadFacts, LedgerTypes', SessionFacts', RoundFacts',
           ExactFacts, NEW rd \in reads, ReadReturns(rd)
    PROVE  ExactFacts'
<1>1. UNCHANGED <<onChain, chain, send, submit, accountOf, account, doubt, midRound, raw, rawRead>>
    BY DEF ReadReturns, chainVars, callVars, mountVars
<1>2. CASE UNCHANGED ledger
    <2>1. Still
        BY <1>1, <1>2 DEF Still
    <2>2. Anchors' = Anchors
        BY <1>1, <1>2 DEF Anchors
    <2>. QED BY <1>1, <2>1, <2>2, StillExact, ExactKept
<1>3. CASE /\ ledger.epoch = rd.epoch /\ ledger.activeRounds = {}
           /\ ledger'.adjustment = 0 /\ ledger'.baseline \in rd.seen
    <2>1. SUFFICES ASSUME ~doubt', NEW v \in Anchors' PROVE v + ledger'.adjustment = Expected'
        BY DEF ExactFacts
    <2>2. rd.seen = {onChain}
        BY <1>1, <1>3, <2>1 DEF ReadFacts
    <2>3. ledger'.baseline = onChain /\ onChain \in Int /\ None \notin Int
        BY <1>3, <2>2, Constants DEF LedgerTypes
    <2>4. v = onChain
        BY <2>1, <2>3 DEF Anchors
    <2>5. ledger'.activeRounds = {}
        BY <1>3, ReadReturnsEffect
    <2>6. (LedgerTypes /\ SessionFacts /\ RoundFacts /\ ledger.activeRounds = {} => Expected = onChain)'
        BY NothingDue, PTL
    <2>7. Expected' = onChain
        BY <1>1, <2>5, <2>6
    <2>. QED BY <1>3, <2>3, <2>4, <2>7
<1>. QED BY <1>2, <1>3, ReadReturnsEffect

LEMMA UnmountExact ==
    ASSUME LedgerTypes, SessionFacts, RoundFacts, LedgerTypes', SessionFacts', ExactFacts, Unmount
    PROVE  ExactFacts'
<1>1. /\ UNCHANGED <<onChain, chain, send, submit, accountOf, account, midRound>>
      /\ rawRead' = {} /\ raw' = None /\ EndRounds(Bets, Nothing)
      /\ doubt' = (doubt \/ \E r \in Bets : tracked[r] # None /\ chain[r].payout \notin {None, 0})
    BY DEF Unmount, chainVars
<1>2. \A q \in Bets : Nothing[q] = 0 /\ Nothing[q] \in Int
    BY DEF Nothing
<1>3. ledger'.baseline = ledger.baseline /\ ledger'.activeRounds \subseteq ledger.activeRounds
    BY <1>1, <1>2, RoundsEnd
<1>4. Anchors' \subseteq Anchors
    BY <1>1, <1>3 DEF Anchors
<1>5. Strays => Strays'
    BY <1>1, <1>3 DEF Strays, Mine, Active
<1>6. ASSUME ~doubt', ~Strays' PROVE Expected' - ledger'.adjustment = Expected - ledger.adjustment
    <2>1. ASSUME NEW q \in Bets, tracked[q] # None
          PROVE  Nothing[q] = IF chain[q].phase = "over" THEN chain[q].payout ELSE 0
        <3>1. chain[q].payout \in {None, 0}
            BY <1>1, <1>6, <2>1
        <3>2. chain[q].phase = "over" => chain[q].payout \in Int
            BY PayoutType
        <3>. QED BY <1>2, <3>1, <3>2, Constants
    <2>2. ~doubt
        BY <1>1, <1>6
    <2>. HIDE DEF Nothing
    <2>. QED BY <1>1, <1>6, <2>1, <2>2, RoundsEndExactly
<1>7. ~doubt' => ~doubt
    BY <1>1
<1>. QED BY <1>1, <1>4, <1>5, <1>6, <1>7, ExactKept

\* The new host's first read sees today's balance: either nothing is due, or
\* it is the baseline of the ledger it keeps that counts.
LEMMA MountExact ==
    ASSUME LedgerTypes, SessionFacts, CallFacts, RoundFacts, LedgerTypes', SessionFacts', RoundFacts',
           ExactFacts, NEW next \in account..setting.switches, Mount(next)
    PROVE  ExactFacts'
<1>1. raw = None /\ raw' = None /\ rawRead' = {onChain'} /\ onChain' \in Int
    BY DEF Mount, CallFacts, LedgerTypes
<1>2. (LedgerTypes /\ SessionFacts /\ RoundFacts /\ ledger.activeRounds = {} => Expected = onChain)'
    BY NothingDue, PTL
<1>3. CASE next = account
    <2>1. /\ Still /\ UNCHANGED doubt /\ midRound' = (midRound \/ Unseeded)
        BY <1>3 DEF Mount, Still, callVars
    <2>2. CASE ledger.baseline # None
        <3>1. Anchors' = Anchors
            BY <2>1, <2>2 DEF Anchors, Still
        <3>. QED BY <2>1, <3>1, StillExact, ExactKept
    <2>3. CASE ledger.baseline = None
        <3>1. SUFFICES ASSUME ~midRound', NEW v \in Anchors' PROVE v + ledger'.adjustment = Expected'
            BY DEF ExactFacts
        <3>2. ledger'.activeRounds = {} /\ ledger'.adjustment = 0
            BY <2>1, <2>3, <3>1 DEF Unseeded, Still
        <3>3. v = onChain'
            BY <1>1, <2>1, <2>3, <3>1 DEF Anchors, Still
        <3>. QED BY <1>1, <1>2, <3>2, <3>3
    <2>. QED BY <2>2, <2>3
<1>4. CASE next # account
    <2>1. ledger'.activeRounds = {} /\ ledger'.adjustment = 0 /\ ledger'.baseline = None
        BY <1>4, ResetEffect DEF Mount, LedgerTypes
    <2>2. SUFFICES ASSUME NEW v \in Anchors' PROVE v + ledger'.adjustment = Expected'
        BY DEF ExactFacts
    <2>3. v = onChain'
        BY <1>1, <2>1, <2>2 DEF Anchors
    <2>4. Expected' = onChain'
        BY <1>2, <2>1
    <2>5. onChain' + 0 = onChain'
        <3>1. \A c \in Int : c + 0 = c
            OBVIOUS
        <3>. QED BY <1>1, <3>1, Zenon
    <2>. QED BY <2>1, <2>3, <2>4, <2>5, Zenon
<1>. QED BY <1>3, <1>4

LEMMA ExactStep ==
    LedgerTypes /\ SessionFacts /\ CallFacts /\ RoundFacts /\ ReadFacts /\ ExactFacts
    /\ LedgerTypes' /\ SessionFacts' /\ RoundFacts' /\ [HostNext]_hostVars => ExactFacts'
<1>. SUFFICES ASSUME LedgerTypes, SessionFacts, CallFacts, RoundFacts, ReadFacts, ExactFacts,
                     LedgerTypes', SessionFacts', RoundFacts', [HostNext]_hostVars
              PROVE  ExactFacts'
    OBVIOUS
<1>1. CASE \E r \in Bets :
              \/ OpenSession(r) \/ Land(r) \/ OpenSucceeds(r) \/ OpenRecovers(r) \/ OpenFails(r)
              \/ \E extra \in ExtraStakes : SubmitAction(r, extra)
              \/ SubmitLands(r) \/ RouterAdvances(r) \/ SubmitSucceeds(r) \/ SubmitFails(r)
              \/ RevealOutcome(r) \/ Ends(r) \/ Flash(r) \/ Index(r)
    BY <1>1, OpenSessionExact, LandExact, ReceiptExact, OpenFailsExact, SubmitActionExact,
       SubmitLandsExact, RouterExact, SubmitSucceedsExact, SubmitFailsExact, EndsExact, RevealsExact, QuietExact
<1>2. CASE \/ SetWallet \/ ReconcileTimer \/ (\E rd \in reads : ReadReturns(rd))
           \/ RawReturns \/ Seed \/ Unmount \/ (\E next \in account..setting.switches : Mount(next))
    BY <1>2, RevealsExact, TimerExact, ReadReturnsExact, QuietExact, UnmountExact, MountExact
<1>3. CASE UNCHANGED hostVars
    BY <1>3, QuietExact
<1>. QED BY <1>1, <1>2, <1>3 DEF HostNext

-----------------------------------------------------------------------------
(***************************************************************************)
(* Theorems.                                                               *)
(***************************************************************************)

\* Everything above holds in every behaviour of the host.
THEOREM HostSafety == HostSpec => []HostInv
<1>1. HostInit => HostInv
    BY TypesInit, SessionInit, CallInit, RoundInit, ReadInit, ExactInit, EchoInit DEF HostInv
<1>2. HostInv /\ [HostNext]_hostVars => HostInv'
    <2>. SUFFICES ASSUME LedgerTypes, SessionFacts, CallFacts, RoundFacts, ReadFacts, ExactFacts, EchoFacts,
                         ActionsEchoTheChain, [HostNext]_hostVars
                  PROVE  HostInv'
        BY DEF HostInv
    <2>1. LedgerTypes'
        BY TypesStep
    <2>2. SessionFacts'
        BY SessionStep
    <2>3. CallFacts'
        BY CallStep
    <2>4. RoundFacts'
        BY RoundStep
    <2>5. ReadFacts'
        BY <2>1, ReadStep
    <2>6. ExactFacts'
        BY <2>1, <2>2, <2>4, ExactStep
    <2>7. EchoFacts' /\ ActionsEchoTheChain'
        BY <2>1, EchoStep
    <2>. QED BY <2>1, <2>2, <2>3, <2>4, <2>5, <2>6, <2>7 DEF HostInv
<1>. QED BY <1>1, <1>2, PTL DEF HostSpec

\* Whatever the order of sends, rows, patches, reveals and late balance reads,
\* the balance shown is the one the chain will have (balance-hold.ts).
THEOREM LedgerSafety == HostSpec => []LedgerExact
<1>1. HostInv => LedgerExact
    <2>. SUFFICES ASSUME HostInv, ~doubt, ~midRound, ~Straggler, ledger.baseline # None
                  PROVE  ledger.baseline + ledger.adjustment = Expected
        BY DEF LedgerExact
    <2>1. ~Strays
        BY DEF Strays, Straggler
    <2>2. ledger.baseline \in Anchors
        BY DEF Anchors
    <2>. QED BY <2>1, <2>2 DEF HostInv, ExactFacts
<1>. QED BY <1>1, HostSafety, PTL

\* No round is left in play that nobody will end (use-round-ledger.ts).
THEOREM OwnerSafety == HostSpec => []ActiveRoundsHaveAnOwner
<1>1. HostInv => ActiveRoundsHaveAnOwner
    BY DEF HostInv, RoundFacts, ActiveRoundsHaveAnOwner
<1>. QED BY <1>1, HostSafety, PTL

\* An action that echoes a state in which its session waited for the player
\* echoes the newest one, whatever the router did in between and however far the
\* channels are behind (rememberSessionSnapshots, resolveEncodedSession).
THEOREM EchoSafety == HostSpec => []ActionsEchoTheChain
<1>1. HostInv => ActionsEchoTheChain
    BY DEF HostInv
<1>. QED BY <1>1, HostSafety, PTL

=============================================================================
