---------------------------- MODULE HostSnapshot ----------------------------
(***************************************************************************)
(* What the simulator's host shows a game.  Bets are sent one at a time    *)
(* (use-game-host.ts); the chain's events of the player's sessions come    *)
(* back on the flashblock and the indexed channel, each with a lag of its  *)
(* own; rows, patches and optimistic rows are merged, and reconciled with  *)
(* what was published before, every time React renders                     *)
(* (use-host-snapshot.ts, monotonic-session-items.ts).                     *)
(*                                                                         *)
(* The game contract and the node are external: they may take any step     *)
(* CasinoHost allows, and a transaction whose sending failed may land.     *)
(* Bets are named by their order and session ids count up.  Order of the   *)
(* list, timestamps and the ?maskWaiting mode are left out.                *)
(***************************************************************************)
EXTENDS SessionViews, Sequences, FiniteSets

CONSTANTS
    Histories,      \* chains a page may find when it loads
    MaxBets,
    MaxId,          \* sessions of a history and of all bets
    Payouts,
    Settings        \* history found, bets placed, steps of a session, wallet toggles: bounds;
                    \* does each channel deliver in chain order (fixed lags);
                    \* rows listed, 50 in the source, and entries kept of opens
                    \* and of accepted bets, 32

Requests == 1..MaxBets
Ids == 1..MaxId
Pending == 0        \* the session of a bet that is not known to have opened

Events ==
    [name: {"Opened"}, session: Nat, request: Nat]
    \cup [name: {"Advanced"}, session: Nat, step: Nat \ {0}, state: Nat, phase: Waiting,
          asks: BOOLEAN, word: Nat]
    \cup [name: {"Settled"}, session: Nat, state: Nat, phase: Terminal, payout: Nat, word: Nat]

OpenedIn(c) == {c[i].session : i \in {j \in DOMAIN c : c[j].name = "Opened"}}

\* What the host contract leaves on chain: sessions are numbered as they open,
\* a step's event is named by the step, and a settlement is a session's last.
IsHistory(c) ==
    /\ c \in Seq(Events)
    /\ \E n \in 0..Len(c) : OpenedIn(c) = 1..n
    /\ \A i \in DOMAIN c :
          /\ c[i].session \in OpenedIn(c)
          /\ c[i].name = "Advanced" => c[i].state = c[i].step
          /\ c[i].name = "Settled" =>
                /\ \A j \in DOMAIN c : c[j].session = c[i].session => j <= i
                /\ c[i].phase = "SETTLED" => c[i].state # 0

\* Events of one session, taken out of a chain.
IsRecord(c) ==
    /\ c \in Seq(Events)
    /\ \A i \in DOMAIN c :
          /\ c[i].name = "Advanced" => c[i].state = c[i].step
          /\ c[i].name = "Settled" => (c[i].phase = "SETTLED" => c[i].state # 0)

\* One session: its open, its steps in turn, and its settlement.
OneSession(c) ==
    /\ c # <<>> => c[1].name = "Opened"
    /\ \A k \in DOMAIN c \ {1} :
          /\ c[k].name # "Opened" /\ c[k].word \in {0, k - 2}
          /\ c[k].word # 0 => c[k - 1].name = "Advanced" /\ c[k - 1].phase = "WAITING_RANDOMNESS"
          /\ c[k].name = "Advanced" => /\ c[k].step = k - 1
                                       /\ c[k].asks = (c[k].phase = "WAITING_RANDOMNESS")
          /\ c[k].name = "Settled" => k = Len(c) /\ c[k].state \in {k - 1, k - 2}

\* h is what chain c has of session s, and p[k] the place of its k-th event.
Projects(c, s, h, p) ==
    /\ IsRecord(h) /\ OneSession(h) /\ p \in [DOMAIN h -> DOMAIN c]
    /\ \A k \in DOMAIN h : h[k] = c[p[k]] /\ h[k].session = s
    /\ \A j, k \in DOMAIN h : j < k => p[j] < p[k]
    /\ \A i \in DOMAIN c : c[i].session = s => \E k \in DOMAIN h : p[k] = i

IsRound(c, s) ==
    \E n \in 1..Len(c) : \E p \in [1..n -> DOMAIN c] :
        Projects(c, s, [k \in 1..n |-> c[p[k]]], p)

ASSUME HostSnapshotAssumption ==
    /\ MaxBets \in Nat /\ MaxId \in Nat /\ Payouts \subseteq Nat
    /\ \A c \in Histories :
          /\ IsHistory(c) /\ \A s \in OpenedIn(c) : IsRound(c, s)
          /\ \A i \in DOMAIN c : c[i].name = "Opened" => c[i].request = 0
          /\ Cardinality(OpenedIn(c)) + MaxBets <= MaxId
    /\ Settings \subseteq [history: Histories, bets: SUBSET Requests, steps: Nat, toggles: Nat,
                           inOrder: BOOLEAN, listLimit: Nat, openLimit: Nat \ {0}]

VARIABLES
    setting,                    \* the choices of this behaviour
    chain,                      \* events of this player and game, in order
    bets,                       \* idle, sending, accepted, done, failed
    flashSeen, indexSeen,       \* positions of chain each channel delivered
    rows,                       \* the session store
    patches,                    \* flashblockPatches
    optimisticSessions,
    pendingOpenTransactions,    \* accepted bets, oldest first
    recentFlashblockOpens,      \* opens no accepted bet claims, oldest first
    confirmedOpens,             \* opens proven for a bet that is not done
    walletReady, toggles,
    sessionRows,                \* the rows of the last render
    pruneDue,                   \* updatePatches is to run for that render
    publishedSettledItems, publishedOpenItems,
    published                   \* pending: bets shown; item: sessions shown

chainVars == <<chain>>
sendVars == <<bets, pendingOpenTransactions, confirmedOpens>>
feedVars == <<flashSeen, indexSeen, rows>>
walletVars == <<setting, walletReady, toggles>>
shownVars == <<sessionRows, publishedSettledItems, publishedOpenItems, published>>
vars == <<setting, chain, bets, flashSeen, indexSeen, rows, patches, optimisticSessions,
          pendingOpenTransactions, recentFlashblockOpens, confirmedOpens,
          walletReady, toggles, sessionRows, pruneDue, publishedSettledItems,
          publishedOpenItems, published>>

NoRows == [s \in Ids |-> None]

Init == /\ setting \in Settings
        /\ chain = setting.history
        /\ bets = [r \in Requests |-> "idle"]
        /\ flashSeen = DOMAIN chain         \* replayed on the indexed channel
        /\ indexSeen = {}
        /\ rows = NoRows /\ patches = NoRows /\ sessionRows = NoRows
        /\ optimisticSessions = {} /\ confirmedOpens = {}
        /\ pendingOpenTransactions = <<>> /\ recentFlashblockOpens = <<>>
        /\ walletReady = TRUE /\ toggles = 0 /\ pruneDue = FALSE
        /\ publishedSettledItems = NoRows /\ publishedOpenItems = NoRows
        /\ published = [pending |-> {}, item |-> NoRows]

-----------------------------------------------------------------------------
\* The chain

EventsOf(s) == {i \in DOMAIN chain : chain[i].session = s}
OpenedIds == OpenedIn(chain)
Last(s) == chain[CHOOSE i \in EventsOf(s) : \A j \in EventsOf(s) : j <= i]
Live(s) == s \in OpenedIds /\ Last(s).name # "Settled"
LastStep(s) == IF Last(s).name = "Advanced" THEN Last(s).step ELSE 0

\* A step of the game: it waits again, or ends the session.
StepOutcomes(s, step, word) ==
    {Advanced(s, step, phase, word) : phase \in IF step <= setting.steps THEN Waiting ELSE {}}
    \cup {Settled(s, step, "SETTLED", payout, word) : payout \in Payouts}

Landed(r) == \E i \in DOMAIN chain : chain[i].name = "Opened" /\ chain[i].request = r

\* A bet is sent when the ones before it have come back (sendQueue).
Turn(r) == /\ bets[r] # "idle"
           /\ \A q \in setting.bets : q < r => bets[q] \in {"done", "failed"}

\* All transactions are one account's: they land in the order of their nonces.
Land(r) ==
    /\ Turn(r) /\ bets[r] # "done"
    /\ \A q \in r..MaxBets : ~Landed(q)
    /\ LET s == Cardinality(OpenedIds) + 1
       IN  \E e \in StepOutcomes(s, 1, 0) : chain' = chain \o <<Opened(s, r), e>>
    /\ UNCHANGED <<sendVars, feedVars, walletVars, shownVars, patches,
                   optimisticSessions, recentFlashblockOpens, pruneDue>>

\* An answer, a player's action, or a timeout's refund or forfeit.
Step(s) ==
    /\ Live(s)
    /\ \E e \in IF Last(s).phase = "WAITING_RANDOMNESS"
                THEN StepOutcomes(s, LastStep(s) + 1, LastStep(s))
                     \cup {Settled(s, LastStep(s), "CANCELLED", p, 0) : p \in Payouts}
                ELSE StepOutcomes(s, LastStep(s) + 1, 0)
                     \cup {Settled(s, LastStep(s), "FORFEITED", p, 0) : p \in Payouts} :
           chain' = Append(chain, e)
    /\ UNCHANGED <<sendVars, feedVars, walletVars, shownVars, patches,
                   optimisticSessions, recentFlashblockOpens, pruneDue>>

-----------------------------------------------------------------------------
\* Sending a bet

\* Confirmed: the pending row of r takes its session's id.
Confirmed(r, s) ==
    {IF o.request = r THEN [o EXCEPT !.session = s] ELSE o : o \in optimisticSessions}

\* An entry of a map goes.
Without(seq, x) ==
    IF \E i \in DOMAIN seq : seq[i] = x
    THEN LET i == CHOOSE j \in DOMAIN seq : seq[j] = x
         IN  SubSeq(seq, 1, i - 1) \o SubSeq(seq, i + 1, Len(seq))
    ELSE seq

\* A bounded map: the oldest entry makes room.
Bounded(seq, x) == Append(IF Len(seq) >= setting.openLimit THEN Tail(seq) ELSE seq, x)

\* openSession up to the send: a pending row, and the rows that are indexed
\* by now go.
Bet(r) ==
    /\ r \in setting.bets /\ bets[r] = "idle" /\ walletReady
    /\ \A q \in setting.bets : q < r => bets[q] # "idle"
    /\ bets' = [bets EXCEPT ![r] = "sending"]
    /\ optimisticSessions' =
          {o \in optimisticSessions : o.session = Pending \/ sessionRows[o.session] = None}
          \cup {[request |-> r, session |-> Pending]}
    /\ UNCHANGED <<chain, feedVars, walletVars, shownVars, patches, pruneDue,
                   pendingOpenTransactions, recentFlashblockOpens, confirmedOpens>>

RecentOpens(r) ==
    {recentFlashblockOpens[i] :
        i \in {j \in DOMAIN recentFlashblockOpens : recentFlashblockOpens[j].request = r}}

\* Mutation: opens pushed before the hash was known are not looked up.
AcceptIgnoresRecent(r) ==
    /\ Turn(r) /\ bets[r] = "sending"
    /\ bets' = [bets EXCEPT ![r] = "accepted"]
    /\ pendingOpenTransactions' = Bounded(pendingOpenTransactions, r)
    /\ UNCHANGED <<chain, feedVars, walletVars, shownVars, patches, pruneDue,
                   optimisticSessions, recentFlashblockOpens, confirmedOpens>>

\* onAccepted: the transaction has a hash.
Accept(r) ==
    /\ Turn(r) /\ bets[r] = "sending"
    /\ bets' = [bets EXCEPT ![r] = "accepted"]
    /\ \/ /\ RecentOpens(r) = {}
          /\ pendingOpenTransactions' = Bounded(pendingOpenTransactions, r)
          /\ UNCHANGED <<recentFlashblockOpens, confirmedOpens, optimisticSessions>>
       \/ \E seen \in RecentOpens(r) :
             /\ recentFlashblockOpens' = Without(recentFlashblockOpens, seen)
             /\ confirmedOpens' = confirmedOpens \cup {seen}
             /\ optimisticSessions' = Confirmed(r, seen.session)
             /\ UNCHANGED pendingOpenTransactions
    /\ UNCHANGED <<chain, feedVars, walletVars, shownVars, patches, pruneDue>>

SessionOf(r) ==
    chain[CHOOSE i \in DOMAIN chain : chain[i].name = "Opened" /\ chain[i].request = r].session

\* The receipt is there.
Receipt(r) ==
    /\ bets[r] = "accepted" /\ Landed(r)
    /\ bets' = [bets EXCEPT ![r] = "done"]
    /\ pendingOpenTransactions' = Without(pendingOpenTransactions, r)
    /\ optimisticSessions' = Confirmed(r, SessionOf(r))
    /\ confirmedOpens' = {c \in confirmedOpens : c.request # r}
    /\ UNCHANGED <<chain, feedVars, walletVars, shownVars, patches, pruneDue,
                   recentFlashblockOpens>>

\* sendActions rejects: an error before or after the broadcast, a revert, no
\* receipt in time.
Fail(r) ==
    /\ Turn(r) /\ bets[r] \in {"sending", "accepted"}
    /\ bets' = [bets EXCEPT ![r] = "failed"]
    /\ confirmedOpens' = {c \in confirmedOpens : c.request # r}
    /\ \/ \E c \in confirmedOpens :
             c.request = r /\ optimisticSessions' = Confirmed(r, c.session)
       \/ /\ \A c \in confirmedOpens : c.request # r
          /\ optimisticSessions' = {o \in optimisticSessions : o.request # r}
    /\ UNCHANGED <<chain, feedVars, walletVars, shownVars, patches, pruneDue,
                   pendingOpenTransactions, recentFlashblockOpens>>

-----------------------------------------------------------------------------
\* The two channels

Undelivered(seen) == {i \in DOMAIN chain \ seen : setting.inOrder => \A j \in 1..(i - 1) : j \in seen}

\* handleFlashblockSessionOpened
NoteOpen(e) ==
    IF \E j \in DOMAIN pendingOpenTransactions : pendingOpenTransactions[j] = e.request
    THEN /\ pendingOpenTransactions' = Without(pendingOpenTransactions, e.request)
         /\ confirmedOpens' = confirmedOpens
                \cup {[request |-> e.request, session |-> e.session]}
         /\ optimisticSessions' = Confirmed(e.request, e.session)
         /\ UNCHANGED recentFlashblockOpens
    ELSE /\ recentFlashblockOpens' =
                Bounded(recentFlashblockOpens, [request |-> e.request, session |-> e.session])
         /\ UNCHANGED <<pendingOpenTransactions, confirmedOpens, optimisticSessions>>

FlashDeliver(i) ==
    /\ i \in Undelivered(flashSeen)
    /\ flashSeen' = flashSeen \cup {i}
    /\ LET e == chain[i] IN
       /\ patches' = [patches EXCEPT ![e.session] = ApplyFlashblockEvent(@, e)]
       /\ IF e.name = "Opened" THEN NoteOpen(e)
          ELSE UNCHANGED <<pendingOpenTransactions, confirmedOpens, optimisticSessions,
                           recentFlashblockOpens>>
    /\ UNCHANGED <<chain, bets, indexSeen, rows, walletVars, shownVars, pruneDue>>

IndexDeliver(i) ==
    /\ i \in Undelivered(indexSeen)
    /\ indexSeen' = indexSeen \cup {i}
    /\ LET e == chain[i] IN
       rows' = [rows EXCEPT ![e.session] = Evolve(IF @ = None THEN InitialRow ELSE @, e)]
    /\ UNCHANGED <<chain, sendVars, flashSeen, walletVars, shownVars, patches,
                   optimisticSessions, recentFlashblockOpens, pruneDue>>

-----------------------------------------------------------------------------
\* Rendering

\* listByPlayerAndGame: newest first, rows without an opening time last.
ListedIds == {s \in Ids : rows[s] # None /\ Listed(rows[s])}
Newer(s, t) == \/ rows[s].opened /\ ~rows[t].opened
               \/ rows[s].opened = rows[t].opened /\ s > t
ListByPlayerAndGame ==
    [s \in Ids |-> IF s \in ListedIds
                      /\ Cardinality({t \in ListedIds : Newer(t, s)}) < setting.listLimit
                   THEN rows[s] ELSE None]

\* Mutation: any row hides the host's one.
MergedItemRowWins(shownRows, s) ==
    LET row == shownRows[s] IN
    IF row # None THEN Projected(row, patches[s])
    ELSE IF \E o \in optimisticSessions : o.session = s
    THEN MergeIntoItem(OptimisticItem, patches[s]) ELSE None

\* The item mergeCasinoSessionItems passes on for a session, if any: an
\* optimistic one is visible until there is a row that has left NONE.
MergedItem(shownRows, s) ==
    LET row == shownRows[s]
        projected == IF row = None THEN None ELSE Projected(row, patches[s])
        optimistic == \E o \in optimisticSessions : o.session = s
    IN  IF optimistic /\ row = None THEN MergeIntoItem(OptimisticItem, patches[s])
        ELSE IF optimistic /\ projected.phase = "NONE" THEN OptimisticItem
        ELSE projected

\* Mutation: a round absent from the list is not put back.
ReconciledPresent(item, row, wasSettled, wasOpen) ==
    [item |-> item, settled |-> wasSettled, open |-> wasOpen]

\* Mutation: a round in play keeps the item published first.
ReconciledFirstWins(item, row, wasSettled, wasOpen) ==
    LET shown == IF wasOpen # None THEN wasOpen ELSE item
    IN  [item |-> shown, settled |-> wasSettled, open |-> shown]

\* reconcileMonotonicSessionItems for one session: what is shown, and the two
\* memos afterwards.
Reconciled(item, row, wasSettled, wasOpen) ==
    LET released == row # None /\ RowIsTerminal(row) /\ row.payout # None
        settled == IF released THEN None ELSE wasSettled
        open == IF released THEN None ELSE wasOpen
    IN  IF item = None
        THEN [item |-> IF settled # None THEN settled ELSE open,
              settled |-> settled, open |-> open]
        ELSE IF IsCompleteSettledItem(item)
        THEN [item |-> item, settled |-> item, open |-> None]
        ELSE IF settled # None
        THEN [item |-> settled, settled |-> settled, open |-> open]
        ELSE LET next == IF item.settled \/ item.phase \in Terminal
                         THEN DemoteToWaitingRandomness(item) ELSE item
             IN  [item |-> next, settled |-> settled, open |-> next]

\* useHostSnapshot, for the present state of its inputs.  (The two are bound by
\* \E over a singleton so that TLC computes each of them once.)
Render ==
    /\ ~pruneDue
    /\ \E now \in {IF walletReady THEN ListByPlayerAndGame ELSE NoRows} :
       \E result \in {[s \in Ids |->
                        Reconciled(MergedItem(now, s), now[s], publishedSettledItems[s],
                                   publishedOpenItems[s])]} :
           /\ sessionRows' = now
           /\ pruneDue' = (now # sessionRows /\ now # NoRows)
           /\ publishedSettledItems' = [s \in Ids |-> result[s].settled]
           /\ publishedOpenItems' = [s \in Ids |-> result[s].open]
           /\ published' =
                [pending |-> {o.request : o \in {p \in optimisticSessions :
                                                    p.session = Pending}},
                 item |-> [s \in Ids |-> result[s].item]]
    /\ UNCHANGED <<chain, sendVars, feedVars, walletVars, patches, optimisticSessions,
                   recentFlashblockOpens>>

\* updatePatches, with the rows of the render it belongs to.
PruneEffect ==
    /\ pruneDue
    /\ pruneDue' = FALSE
    /\ patches' = [s \in Ids |->
          IF patches[s] # None /\ sessionRows[s] # None /\ CaughtUp(sessionRows[s], patches[s])
          THEN None ELSE patches[s]]
    /\ UNCHANGED <<chain, sendVars, feedVars, walletVars, shownVars, optimisticSessions,
                   recentFlashblockOpens>>

\* The wallet status override of the setup panel.
SetWallet ==
    /\ toggles < setting.toggles
    /\ toggles' = toggles + 1 /\ walletReady' = ~walletReady
    /\ UNCHANGED <<setting, chain, sendVars, feedVars, shownVars, patches, optimisticSessions,
                   recentFlashblockOpens, pruneDue>>

Next == \/ \E r \in Requests : Land(r) \/ Bet(r) \/ Accept(r) \/ Receipt(r) \/ Fail(r)
        \/ \E s \in Ids : Step(s)
        \/ \E i \in DOMAIN chain : FlashDeliver(i) \/ IndexDeliver(i)
        \/ Render \/ PruneEffect \/ SetWallet

Spec == Init /\ [][Next]_vars

\* Timers fire and React renders.
Fairness == /\ WF_vars(\E i \in DOMAIN chain : IndexDeliver(i))
            /\ WF_vars(Render) /\ WF_vars(PruneEffect)

FairSpec == Spec /\ Fairness

-----------------------------------------------------------------------------
Item(s) == published.item[s]

SettlementOf(s) == {i \in EventsOf(s) : chain[i].name = "Settled"}

\* What is shown is what some step of the chain has left: a round in play has
\* the phase of the step its state comes from and no payout, and a settled one
\* the phase, payout and final state of its settlement, in one piece
\* (docs/CHAIN_WTF_CASINO_GAMES.md, "isSettled flips once, atomically").
ShownAsOnChain ==
    \A s \in Ids : Item(s) # None =>
       IF Item(s).settled
       THEN \E i \in SettlementOf(s) :
               /\ Item(s).phase = chain[i].phase /\ Item(s).payout = chain[i].payout
               /\ Item(s).state = chain[i].state
       ELSE /\ Item(s).payout = None
            /\ Item(s).state # 0 =>
                  \E i \in EventsOf(s) : /\ chain[i].name = "Advanced"
                                         /\ chain[i].state = Item(s).state
                                         /\ chain[i].phase = Item(s).phase

\* A published result never regresses (simulator/README.md): once settled, a
\* round stays in the list with its phase, payout and state.
ResultNeverRegresses ==
    [][\A s \in Ids : Item(s) # None /\ Item(s).settled =>
          /\ Item(s)' # None /\ Item(s)'.settled
          /\ Item(s)'.phase = Item(s).phase /\ Item(s)'.payout = Item(s).payout
          /\ Item(s)'.state = Item(s).state]_vars

\* Two bets have been placed: the later one's openSession has dropped the
\* entries of the rounds that were indexed by then, whatever their phase.
BetAgain == \E r, q \in Requests : r < q /\ bets[r] # "idle" /\ bets[q] # "idle"

\* The lags are fixed and every row is listed.
Steady == setting.inOrder /\ setting.listLimit >= MaxId

\* The session of a bet of this page.
OpenedHere(s) == \E i \in DOMAIN chain : /\ chain[i].name = "Opened" /\ chain[i].session = s
                                        /\ chain[i].request \in Requests

\* No render shows the round by its optimistic row while the wallet is away.
KeepsItsRow(s) == setting.toggles = 0 \/ ~OpenedHere(s)

\* With steady inputs a round that was shown with an id only moves forward, while
\* layers catch up with each other and drop out again and other rounds go on
\* beside it, and for a round found at load also while the wallet comes and goes:
\* it stays in the list, with no earlier step; with one bet placed, with no phase
\* NONE on its way (for two bets see NeverBackToIdle); and a round of this page's
\* bets with no earlier random word (flashblock-session-patch.ts; of one found at
\* load the fast channel may bring the last word alone).
NoStepBack ==
    [][Steady => \A s \in Ids : KeepsItsRow(s) /\ Item(s) # None =>
          /\ Item(s)' # None
          /\ Item(s)'.state >= Item(s).state
          /\ OpenedHere(s) => Item(s)'.word >= Item(s).word
          /\ Item(s)'.phase = "NONE" => Item(s).phase = "NONE" \/ BetAgain]_vars

\* "Keep the host row through an intermediate NONE phase so the iframe never
\* flashes back to an idle Bet state" (optimistic-casino-session.ts).
NeverBackToIdle ==
    [][\A s \in Ids : Item(s) # None /\ Item(s)' # None /\ Item(s)'.phase = "NONE"
          => Item(s).phase = "NONE"]_vars

\* The live round can never vanish from the published snapshot
\* (use-game-host.ts): when its bet has come back, every render shows it; and a
\* bet whose open the flashblock channel has proven, before or after the hash
\* was known, keeps its row when its send is reported as failed, unless the
\* session has been indexed by then.
BetStaysVisible ==
    [][\A r \in Requests :
          /\ (bets[r] = "done" \/ r \in published.pending) /\ bets[r] # "failed" /\ Render
             => r \in published'.pending \/ (Landed(r) /\ published'.item[SessionOf(r)] # None)
          /\ /\ bets[r] = "accepted" /\ bets'[r] = "failed" /\ Landed(r)
             /\ \E i \in flashSeen : chain[i].name = "Opened" /\ chain[i].request = r
             => \/ [request |-> r, session |-> SessionOf(r)] \in optimisticSessions'
                \/ rows[SessionOf(r)] # None]_vars

\* A round that was shown with an id stays in the list, whatever happens to
\* the wallet, and also when newer rounds push it out of the rows listed.
RoundStaysListed ==
    [][\A s \in Ids : Item(s) # None => Item(s)' # None]_vars

\* "Games see the same empty state" while the wallet is not ready
\* (use-game-host.ts).
EmptyWithoutWallet ==
    [][Render /\ ~walletReady => \A s \in Ids : Item(s)' = None]_vars

\* Every settled round is shown as settled in the end.
ResultIsShown ==
    \A s \in Ids : SettlementOf(s) # {} ~> (Item(s) # None /\ Item(s).settled)
====
