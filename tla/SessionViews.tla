---------------------------- MODULE SessionViews ----------------------------
(***************************************************************************)
(* How the host's layers read one session's events: the indexed row        *)
(* (evolve in session-store.ts), the flashblock patch                      *)
(* (flashblock-session-patch.ts), the item shown to the game               *)
(* (use-host-snapshot.ts) and the optimistic item                          *)
(* (optimistic-casino-session.ts).                                         *)
(*                                                                         *)
(* Steps count from 1, so 0 stands for an undefined step or nonce.  A game *)
(* state is named by the step that wrote it and a random word by the step  *)
(* that asked for it (0: undefined).  Stakes, deadlines, hashes and        *)
(* timestamps are left out.                                                *)
(***************************************************************************)
EXTENDS Integers

CONSTANT None               \* undefined

Waiting == {"WAITING_RANDOMNESS", "WAITING_PLAYER_ACTION"}
Terminal == {"SETTLED", "FORFEITED", "CANCELLED"}
Phases == {"NONE"} \cup Waiting \cup Terminal

\* request: the bet whose transaction it is (0: a bet of an earlier page).
Opened(s, request) == [name |-> "Opened", session |-> s, request |-> request]

\* asks: this step asks for randomness; word: the one this step consumed.
Advanced(s, step, phase, word) ==
    [name |-> "Advanced", session |-> s, step |-> step, state |-> step,
     phase |-> phase, asks |-> phase = "WAITING_RANDOMNESS", word |-> word]

Settled(s, state, phase, payout, word) ==
    [name |-> "Settled", session |-> s, state |-> state, phase |-> phase,
     payout |-> payout, word |-> word]

\* What the layers keep of a session.
RandomnessRequests == [nonce: Nat, word: Nat]
Rows == [opened: BOOLEAN, settled: BOOLEAN, phase: Phases, step: Nat, state: Nat,
         payout: Nat \cup {None}, requests: SUBSET RandomnessRequests]
Patches == [step: Nat, phase: Phases, state: Nat, requestNonce: Nat, fulfilledNonce: Nat,
            word: Nat, settled: BOOLEAN, payout: Nat \cup {None}]
Items == [phase: Phases, settled: BOOLEAN, payout: Nat \cup {None}, state: Nat, word: Nat]

ASSUME NoneAssumption ==
    None \notin Nat /\ None \notin Rows /\ None \notin Patches /\ None \notin Items

-----------------------------------------------------------------------------
\* The indexed row

InitialRow == [opened |-> FALSE, settled |-> FALSE, phase |-> "NONE", step |-> 0,
               state |-> 0, payout |-> None, requests |-> {}]

\* upsertRandomnessRequest: one entry per nonce, a fulfilled one stays.
Upsert(requests, entry) ==
    IF \E r \in requests : r.nonce = entry.nonce /\ r.word # 0
    THEN requests
    ELSE {r \in requests : r.nonce # entry.nonce} \cup {entry}

Fulfilled(requests, nonce, word) ==
    IF word = 0 THEN requests ELSE Upsert(requests, [nonce |-> nonce, word |-> word])

EvolveOpened(row) == [row EXCEPT !.opened = TRUE]

\* Mutation: the guards against replayed and late steps are gone.
EvolveAdvancedAlways(row, e) ==
    [row EXCEPT !.step = e.step, !.phase = e.phase, !.state = e.state,
                !.requests =
                   LET done == Fulfilled(@, e.step - 1, e.word)
                   IN  IF e.asks
                       THEN Upsert(done, [nonce |-> e.step, word |-> 0])
                       ELSE done]

EvolveAdvanced(row, e) ==
    IF row.settled \/ e.step <= row.step THEN row
    ELSE [row EXCEPT !.step = e.step, !.phase = e.phase, !.state = e.state,
                     !.requests =
                        LET done == Fulfilled(@, e.step - 1, e.word)
                        IN  IF e.asks
                            THEN Upsert(done, [nonce |-> e.step, word |-> 0])
                            ELSE done]

EvolveSettled(row, e) ==
    [row EXCEPT !.settled = TRUE, !.phase = e.phase, !.payout = e.payout,
                !.state = e.state,
                !.requests = Fulfilled(@, row.step, e.word)]

Evolve(row, e) == CASE e.name = "Opened" -> EvolveOpened(row)
                    [] e.name = "Advanced" -> EvolveAdvanced(row, e)
                    [] e.name = "Settled" -> EvolveSettled(row, e)

RowIsTerminal(row) == row.settled \/ row.phase \in Terminal

\* listByPlayerAndGame shows rows whose player and game are filled in.
Listed(row) == row.opened \/ row.settled

-----------------------------------------------------------------------------
\* The flashblock patch

EmptyPatch == [step |-> 0, phase |-> "NONE", state |-> 0, requestNonce |-> 0,
               fulfilledNonce |-> 0, word |-> 0, settled |-> FALSE,
               payout |-> None]

WithFulfillment(patch, nonce, word) ==
    IF word = 0 THEN patch
    ELSE IF nonce = 0 THEN [patch EXCEPT !.word = word]
    ELSE [patch EXCEPT !.fulfilledNonce = nonce, !.word = word]

PatchAdvanced(patch, e) ==
    IF patch.settled \/ e.step <= patch.step THEN patch
    ELSE LET next == [patch EXCEPT !.step = e.step, !.phase = e.phase,
                                   !.state = e.state,
                                   !.requestNonce = IF e.asks THEN e.step ELSE @]
         IN  WithFulfillment(next, e.step - 1, e.word)

PatchSettled(patch, e) ==
    IF patch.settled THEN patch
    ELSE LET next == [patch EXCEPT !.settled = TRUE, !.phase = e.phase,
                                   !.payout = e.payout, !.state = e.state]
             pendingNonce == IF patch.requestNonce # 0 THEN patch.requestNonce
                             ELSE patch.step
         IN  WithFulfillment(next, pendingNonce, e.word)

\* applyFlashblockEvent
ApplyFlashblockEvent(patch, e) ==
    LET current == IF patch = None THEN EmptyPatch ELSE patch
    IN  CASE e.name = "Opened" -> current
          [] e.name = "Advanced" -> PatchAdvanced(current, e)
          [] e.name = "Settled" -> PatchSettled(current, e)

Recorded(row, nonce) == \E r \in row.requests : r.nonce = nonce /\ r.word # 0

\* pruneFlashblockPatches: the row has everything the patch says.
CaughtUp(row, patch) ==
    /\ row.step >= patch.step
    /\ patch.settled => RowIsTerminal(row)
    /\ patch.fulfilledNonce # 0 => Recorded(row, patch.fulfilledNonce)

-----------------------------------------------------------------------------
\* What is shown

\* Mutation: the patch wins over the row.
MergeIntoRowAlways(row, patch) ==
    IF patch = None THEN row
    ELSE LET stepped == IF patch.step = 0 THEN row
                        ELSE [row EXCEPT !.step = patch.step, !.phase = patch.phase,
                                         !.state = patch.state]
             ended == IF ~patch.settled THEN stepped
                      ELSE [stepped EXCEPT !.settled = TRUE, !.phase = patch.phase,
                                           !.payout = patch.payout,
                                           !.state = patch.state]
         IN  IF patch.fulfilledNonce = 0 \/ Recorded(row, patch.fulfilledNonce)
             THEN ended
             ELSE [ended EXCEPT !.requests =
                     Fulfilled(@, patch.fulfilledNonce, patch.word)]

\* mergeFlashblockPatchIntoRow: the patch fills in what the row is behind on.
MergeIntoRow(row, patch) ==
    IF patch = None THEN row
    ELSE LET stepped == IF RowIsTerminal(row) \/ patch.step <= row.step THEN row
                        ELSE [row EXCEPT !.step = patch.step, !.phase = patch.phase,
                                         !.state = patch.state]
             ended == IF RowIsTerminal(row) \/ ~patch.settled THEN stepped
                      ELSE [stepped EXCEPT !.settled = TRUE, !.phase = patch.phase,
                                           !.payout = patch.payout,
                                           !.state = patch.state]
         IN  IF patch.fulfilledNonce = 0 \/ Recorded(row, patch.fulfilledNonce)
             THEN ended
             ELSE [ended EXCEPT !.requests =
                     Fulfilled(@, patch.fulfilledNonce, patch.word)]

\* The word of the latest fulfilled request, else the patch's.
LatestWord(row, patch) ==
    LET done == {r \in row.requests : r.word # 0}
    IN  IF done # {} THEN (CHOOSE r \in done : \A q \in done : q.nonce <= r.nonce).word
        ELSE IF patch = None THEN 0 ELSE patch.word

\* An indexed row as useHostSnapshot projects it.
Projected(row, patch) ==
    LET merged == MergeIntoRow(row, patch)
    IN  [phase |-> merged.phase, settled |-> RowIsTerminal(merged),
         payout |-> merged.payout, state |-> merged.state,
         word |-> LatestWord(merged, patch)]

\* createOptimisticCasinoSession
OptimisticItem == [phase |-> "WAITING_RANDOMNESS", settled |-> FALSE,
                   payout |-> None, state |-> 0, word |-> 0]

\* mergeFlashblockPatchIntoItem, for an item with no row yet.
MergeIntoItem(item, patch) ==
    IF patch = None THEN item
    ELSE IF patch.settled
    THEN [phase |-> patch.phase, settled |-> TRUE, payout |-> patch.payout,
          state |-> patch.state, word |-> patch.word]
    ELSE IF patch.phase = "NONE" THEN item
    ELSE [item EXCEPT !.phase = patch.phase, !.state = patch.state,
                      !.word = patch.word]

-----------------------------------------------------------------------------
\* monotonic-session-items.ts

IsCompleteSettledItem(item) ==
    /\ item.settled /\ item.payout # None
    /\ item.phase = "SETTLED" => item.state # 0

DemoteToWaitingRandomness(item) ==
    [item EXCEPT !.phase = "WAITING_RANDOMNESS", !.settled = FALSE,
                 !.payout = None, !.state = 0]
=============================================================================
