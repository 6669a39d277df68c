-------------------------- MODULE HostViews_proofs --------------------------
(***************************************************************************)
(* Proofs about what the simulator's host shows a game: the rounds of the  *)
(* player (HostSnapshot) and the checks of their random words              *)
(* (RandomnessVerification), for every history, any number of bets and     *)
(* steps, any order of delivery and any wallet; and for every group order. *)
(***************************************************************************)
EXTENDS HostSnapshot, RandomnessVerification, FiniteSetTheorems, SequenceTheorems,
        WellFoundedInduction, TLAPS

-----------------------------------------------------------------------------
(***************************************************************************)
(* What a row, a patch or an item may say of a session, with chain c.      *)
(***************************************************************************)

\* x has the end of the session as its settlement left it, in one piece.
SettlementTold(c, s, x) ==
    \E i \in DOMAIN c : /\ c[i].session = s /\ c[i].name = "Settled"
                        /\ x.phase = c[i].phase /\ x.payout = c[i].payout
                        /\ x.state = c[i].state

\* x has the state and the phase of one of the session's steps.
StepTold(c, s, x) ==
    \E i \in DOMAIN c : /\ c[i].session = s /\ c[i].name = "Advanced"
                        /\ c[i].state = x.state /\ c[i].phase = x.phase

\* A row or a patch: without a step it knows no phase.
LayerTells(c, s, x) ==
    /\ x.settled => SettlementTold(c, s, x)
    /\ ~x.settled => /\ x.payout = None /\ x.phase \notin Terminal
                     /\ x.step = 0 => x.phase = "NONE" /\ x.state = 0
                     /\ x.step # 0 => StepTold(c, s, x)

RowTells(c, s, row) ==
    /\ row \in Rows /\ LayerTells(c, s, row)
    /\ \A r \in row.requests : r.nonce <= row.step

PatchTells(c, s, patch) ==
    /\ patch \in Patches /\ LayerTells(c, s, patch)
    /\ patch.requestNonce <= patch.step /\ patch.fulfilledNonce <= patch.step

ItemTells(c, s, item) ==
    /\ item \in Items
    /\ item.settled => SettlementTold(c, s, item)
    /\ ~item.settled => /\ item.payout = None /\ item.phase \notin Terminal
                        /\ item.state # 0 => StepTold(c, s, item)

\* The chain d is c or longer.
Extends(c, d) == \A i \in DOMAIN c : i \in DOMAIN d /\ d[i] = c[i]

LEMMA ToldStays ==
    ASSUME NEW c, NEW d, Extends(c, d), NEW s, NEW x
    PROVE  /\ SettlementTold(c, s, x) => SettlementTold(d, s, x)
           /\ StepTold(c, s, x) => StepTold(d, s, x)
BY DEF Extends, SettlementTold, StepTold

LEMMA TellsStays ==
    ASSUME NEW c, NEW d, Extends(c, d), NEW s, NEW x
    PROVE  /\ RowTells(c, s, x) => RowTells(d, s, x)
           /\ PatchTells(c, s, x) => PatchTells(d, s, x)
           /\ ItemTells(c, s, x) => ItemTells(d, s, x)
BY ToldStays DEF RowTells, PatchTells, ItemTells, LayerTells

LEMMA EventFacts ==
    ASSUME NEW c, IsHistory(c), NEW i \in DOMAIN c
    PROVE  /\ c[i] \in Events /\ c[i].session \in Nat
           /\ c[i].name \in {"Opened", "Advanced", "Settled"}
           /\ c[i].name = "Advanced" =>
                /\ c[i].step \in Nat \ {0} /\ c[i].state = c[i].step
                /\ c[i].phase \in Waiting /\ c[i].word \in Nat /\ c[i].asks \in BOOLEAN
           /\ c[i].name = "Settled" =>
                /\ c[i].state \in Nat /\ c[i].phase \in Terminal
                /\ c[i].payout \in Nat /\ c[i].word \in Nat
                /\ c[i].phase = "SETTLED" => c[i].state # 0
<1>1. c \in Seq(Events)
    BY DEF IsHistory
<1>2. c[i] \in Events
    BY <1>1, LenProperties, ElementOfSeq
<1>3. /\ c[i].name = "Advanced" => c[i].state = c[i].step
      /\ c[i].name = "Settled" => (c[i].phase = "SETTLED" => c[i].state # 0)
    BY DEF IsHistory
<1>. QED BY <1>2, <1>3 DEF Events

LEMMA PhaseFacts ==
    /\ \A p \in Waiting : p \in Phases /\ p \notin Terminal
    /\ \A p \in Terminal : p \in Phases
    /\ "NONE" \in Phases /\ "NONE" \notin Terminal /\ "NONE" \notin Waiting
BY DEF Waiting, Terminal, Phases

-----------------------------------------------------------------------------
\* Rows

LEMMA RequestsKept ==
    ASSUME NEW R \in SUBSET RandomnessRequests, NEW m \in Nat, \A r \in R : r.nonce <= m,
           NEW n \in Nat, n <= m, NEW w \in Nat
    PROVE  /\ Fulfilled(R, n, w) \in SUBSET RandomnessRequests
           /\ \A r \in Fulfilled(R, n, w) : r.nonce <= m
           /\ Upsert(R, [nonce |-> n, word |-> w]) \in SUBSET RandomnessRequests
           /\ \A r \in Upsert(R, [nonce |-> n, word |-> w]) : r.nonce <= m
<1>. DEFINE e == [nonce |-> n, word |-> w]
<1>1. e \in RandomnessRequests /\ e.nonce = n
    BY DEF RandomnessRequests
<1>. HIDE DEF e
<1>2. /\ Upsert(R, e) \in SUBSET RandomnessRequests
      /\ \A r \in Upsert(R, e) : r.nonce <= m
    BY <1>1 DEF Upsert
<1>. QED BY <1>2 DEF Fulfilled, e

LEMMA EvolveTells ==
    ASSUME NEW c, IsHistory(c), NEW i \in DOMAIN c, NEW row, RowTells(c, c[i].session, row)
    PROVE  RowTells(c, c[i].session, Evolve(row, c[i]))
<1>. DEFINE e == c[i]
            s == c[i].session
<1>0. /\ row \in Rows /\ LayerTells(c, s, row) /\ row.step \in Nat
      /\ row.requests \in SUBSET RandomnessRequests
      /\ \A r \in row.requests : r.nonce <= row.step
    BY DEF RowTells, Rows
<1>1. CASE e.name = "Opened"
    <2>1. Evolve(row, e) = [row EXCEPT !.opened = TRUE]
        BY <1>1 DEF Evolve, EvolveOpened
    <2>. DEFINE new == [row EXCEPT !.opened = TRUE]
    <2>2. /\ new \in Rows /\ new.settled = row.settled /\ new.payout = row.payout
          /\ new.phase = row.phase /\ new.state = row.state /\ new.step = row.step
          /\ new.requests = row.requests
        BY <1>0 DEF Rows
    <2>. HIDE DEF new
    <2>3. RowTells(c, s, new)
        BY <1>0, <2>2 DEF RowTells, LayerTells, SettlementTold, StepTold
    <2>. QED BY <2>1, <2>3 DEF new
<1>2. CASE e.name = "Advanced"
    <2>0. /\ e.step \in Nat \ {0} /\ e.state = e.step /\ e.phase \in Waiting
          /\ e.phase \in Phases /\ e.phase \notin Terminal
          /\ e.word \in Nat
        BY <1>2, EventFacts, PhaseFacts
    <2>1. Evolve(row, e) = EvolveAdvanced(row, e)
        BY <1>2 DEF Evolve
    <2>2. CASE row.settled \/ e.step <= row.step
        BY <2>1, <2>2 DEF EvolveAdvanced
    <2>3. CASE ~(row.settled \/ e.step <= row.step)
        <3>. DEFINE done == Fulfilled(row.requests, e.step - 1, e.word)
                    asked == IF e.asks THEN Upsert(done, [nonce |-> e.step, word |-> 0]) ELSE done
                    new == [row EXCEPT !.step = e.step, !.phase = e.phase, !.state = e.state,
                                       !.requests = asked]
        <3>1. Evolve(row, e) = new
            BY <2>1, <2>3 DEF EvolveAdvanced
        <3>2. e.step - 1 \in Nat /\ e.step - 1 <= e.step /\ e.step \in Nat /\ 0 \in Nat
              /\ e.step <= e.step
            BY <2>0
        <3>3. \A r \in row.requests : r.nonce <= e.step
            <4>1. \A r \in row.requests : r.nonce \in Nat /\ r.nonce <= row.step
                BY <1>0 DEF RandomnessRequests
            <4>. QED BY <4>1, <1>0, <2>0, <2>3
        <3>4. done \in SUBSET RandomnessRequests /\ \A r \in done : r.nonce <= e.step
            BY <1>0, <2>0, <3>2, <3>3, RequestsKept
        <3>. HIDE DEF done
        <3>5. asked \in SUBSET RandomnessRequests /\ \A r \in asked : r.nonce <= e.step
            BY <3>2, <3>4, RequestsKept
        <3>. HIDE DEF asked
        <3>6. /\ new \in Rows /\ new.settled = FALSE /\ new.payout = row.payout
              /\ new.phase = e.phase /\ new.state = e.state /\ new.step = e.step
              /\ new.requests = asked
            BY <1>0, <2>0, <2>3, <3>5 DEF Rows
        <3>. HIDE DEF new
        <3>7. StepTold(c, s, new)
            BY <1>2, <3>6 DEF StepTold
        <3>8. LayerTells(c, s, new)
            BY <1>0, <2>0, <2>3, <3>6, <3>7 DEF LayerTells
        <3>. QED BY <3>1, <3>5, <3>6, <3>8 DEF RowTells
    <2>. QED BY <2>2, <2>3
<1>3. CASE e.name = "Settled"
    <2>0. e.state \in Nat /\ e.phase \in Phases /\ e.payout \in Nat /\ e.word \in Nat
        BY <1>3, EventFacts, PhaseFacts
    <2>. DEFINE done == Fulfilled(row.requests, row.step, e.word)
                new == [row EXCEPT !.settled = TRUE, !.phase = e.phase, !.payout = e.payout,
                                   !.state = e.state, !.requests = done]
    <2>1. Evolve(row, e) = new
        BY <1>3 DEF Evolve, EvolveSettled
    <2>2. row.step <= row.step
        BY <1>0
    <2>3. done \in SUBSET RandomnessRequests /\ \A r \in done : r.nonce <= row.step
        BY <1>0, <2>0, <2>2, RequestsKept
    <2>. HIDE DEF done
    <2>4. /\ new \in Rows /\ new.settled = TRUE /\ new.payout = e.payout
          /\ new.phase = e.phase /\ new.state = e.state /\ new.step = row.step
          /\ new.requests = done
        BY <1>0, <2>0, <2>3 DEF Rows
    <2>. HIDE DEF new
    <2>5. SettlementTold(c, s, new)
        BY <1>3, <2>4 DEF SettlementTold
    <2>. QED BY <2>1, <2>3, <2>4, <2>5 DEF RowTells, LayerTells
<1>. QED BY <1>1, <1>2, <1>3, EventFacts

LEMMA InitialRowTells == ASSUME NEW c, NEW s PROVE RowTells(c, s, InitialRow)
BY PhaseFacts DEF RowTells, LayerTells, InitialRow, Rows

-----------------------------------------------------------------------------
\* Patches

LEMMA FulfillmentKeeps ==
    ASSUME NEW patch \in Patches, NEW n \in Nat, n <= patch.step, NEW w \in Nat,
           patch.fulfilledNonce <= patch.step
    PROVE  LET new == WithFulfillment(patch, n, w)
           IN  /\ new \in Patches /\ new.settled = patch.settled /\ new.payout = patch.payout
               /\ new.phase = patch.phase /\ new.state = patch.state /\ new.step = patch.step
               /\ new.requestNonce = patch.requestNonce /\ new.fulfilledNonce <= new.step
<1>1. CASE w = 0
    BY <1>1 DEF WithFulfillment
<1>2. CASE w # 0 /\ n = 0
    BY <1>2 DEF WithFulfillment, Patches
<1>3. CASE w # 0 /\ n # 0
    BY <1>3 DEF WithFulfillment, Patches
<1>. QED BY <1>1, <1>2, <1>3

LEMMA EmptyPatchTells == ASSUME NEW c, NEW s PROVE PatchTells(c, s, EmptyPatch)
BY PhaseFacts DEF PatchTells, LayerTells, EmptyPatch, Patches

LEMMA ApplyTells ==
    ASSUME NEW c, IsHistory(c), NEW i \in DOMAIN c,
           NEW patch, patch = None \/ PatchTells(c, c[i].session, patch)
    PROVE  PatchTells(c, c[i].session, ApplyFlashblockEvent(patch, c[i]))
<1>. DEFINE e == c[i]
            s == c[i].session
            p == IF patch = None THEN EmptyPatch ELSE patch
<1>0. PatchTells(c, s, p)
    BY EmptyPatchTells
<1>a. /\ e.name = "Opened" => ApplyFlashblockEvent(patch, e) = p
      /\ e.name = "Advanced" => ApplyFlashblockEvent(patch, e) = PatchAdvanced(p, e)
      /\ e.name = "Settled" => ApplyFlashblockEvent(patch, e) = PatchSettled(p, e)
    BY DEF ApplyFlashblockEvent
<1>. HIDE DEF p
<1>b. /\ p \in Patches /\ LayerTells(c, s, p) /\ p.step \in Nat /\ p.requestNonce \in Nat
      /\ p.fulfilledNonce \in Nat /\ p.requestNonce <= p.step /\ p.fulfilledNonce <= p.step
    BY <1>0 DEF PatchTells, Patches
<1>1. CASE e.name = "Opened"
    BY <1>0, <1>1, <1>a
<1>2. CASE e.name = "Advanced"
    <2>0. /\ e.step \in Nat \ {0} /\ e.state = e.step /\ e.phase \in Waiting
          /\ e.phase \in Phases /\ e.phase \notin Terminal
          /\ e.word \in Nat
        BY <1>2, EventFacts, PhaseFacts
    <2>1. CASE p.settled \/ e.step <= p.step
        BY <1>0, <1>2, <1>a, <2>1 DEF PatchAdvanced
    <2>2. CASE ~(p.settled \/ e.step <= p.step)
        <3>. DEFINE asked == IF e.asks THEN e.step ELSE p.requestNonce
                    next == [p EXCEPT !.step = e.step, !.phase = e.phase, !.state = e.state,
                                      !.requestNonce = asked]
                    new == WithFulfillment(next, e.step - 1, e.word)
        <3>1. ApplyFlashblockEvent(patch, e) = new
            BY <1>2, <1>a, <2>2 DEF PatchAdvanced
        <3>a. asked \in Nat /\ asked <= e.step
            <4>1. p.requestNonce <= e.step
                BY <1>b, <2>0, <2>2
            <4>. QED BY <1>b, <2>0, <4>1
        <3>. HIDE DEF asked
        <3>2. /\ next \in Patches /\ next.settled = FALSE /\ next.payout = p.payout
              /\ next.phase = e.phase /\ next.state = e.state /\ next.step = e.step
              /\ next.requestNonce <= e.step /\ next.fulfilledNonce = p.fulfilledNonce
            BY <1>b, <2>0, <2>2, <3>a DEF Patches
        <3>. HIDE DEF next
        <3>3. e.step - 1 \in Nat /\ e.step - 1 <= next.step
              /\ next.fulfilledNonce <= next.step
            BY <1>b, <2>0, <2>2, <3>2
        <3>4. /\ new \in Patches /\ new.settled = FALSE /\ new.payout = p.payout
              /\ new.phase = e.phase /\ new.state = e.state /\ new.step = e.step
              /\ new.requestNonce <= new.step /\ new.fulfilledNonce <= new.step
            BY <2>0, <3>2, <3>3, FulfillmentKeeps
        <3>. HIDE DEF new
        <3>5. StepTold(c, s, new)
            BY <1>2, <3>4 DEF StepTold
        <3>6. LayerTells(c, s, new)
            BY <1>b, <2>0, <2>2, <3>4, <3>5 DEF LayerTells
        <3>. QED BY <3>1, <3>4, <3>6 DEF PatchTells
    <2>. QED BY <2>1, <2>2
<1>3. CASE e.name = "Settled"
    <2>0. e.state \in Nat /\ e.phase \in Phases /\ e.payout \in Nat /\ e.word \in Nat
        BY <1>3, EventFacts, PhaseFacts
    <2>1. CASE p.settled
        BY <1>0, <1>3, <1>a, <2>1 DEF PatchSettled
    <2>2. CASE ~p.settled
        <3>. DEFINE next == [p EXCEPT !.settled = TRUE, !.phase = e.phase,
                                      !.payout = e.payout, !.state = e.state]
                    nonce == IF p.requestNonce # 0 THEN p.requestNonce ELSE p.step
                    new == WithFulfillment(next, nonce, e.word)
        <3>1. ApplyFlashblockEvent(patch, e) = new
            BY <1>3, <1>a, <2>2 DEF PatchSettled
        <3>2. /\ next \in Patches /\ next.settled = TRUE /\ next.payout = e.payout
              /\ next.phase = e.phase /\ next.state = e.state /\ next.step = p.step
              /\ next.requestNonce = p.requestNonce /\ next.fulfilledNonce = p.fulfilledNonce
            BY <1>b, <2>0 DEF Patches
        <3>3. nonce \in Nat /\ nonce <= next.step
            BY <1>b, <3>2
        <3>. HIDE DEF next, nonce
        <3>4. /\ new \in Patches /\ new.settled = TRUE /\ new.payout = e.payout
              /\ new.phase = e.phase /\ new.state = e.state /\ new.step = p.step
              /\ new.requestNonce <= new.step /\ new.fulfilledNonce <= new.step
            BY <1>b, <2>0, <3>2, <3>3, FulfillmentKeeps
        <3>. HIDE DEF new
        <3>5. SettlementTold(c, s, new)
            BY <1>3, <3>4 DEF SettlementTold
        <3>. QED BY <3>1, <3>4, <3>5 DEF PatchTells, LayerTells
    <2>. QED BY <2>1, <2>2
<1>. QED BY <1>1, <1>2, <1>3, EventFacts

-----------------------------------------------------------------------------
\* What is shown of a row and of a patch

LEMMA MaximumExists ==
    ASSUME NEW S \in SUBSET Nat, S # {}, NEW m \in Nat, \A x \in S : x <= m
    PROVE  \E x \in S : \A y \in S : y <= x
<1>. DEFINE Left == {m - x : x \in S}
            R == OpToRel(<, Nat)
<1>1. Left \subseteq Nat /\ Left # {}
    <2>1. \A x \in S : m - x \in Nat
        OBVIOUS
    <2>. QED BY <2>1
<1>2. IsWellFoundedOn(R, Nat)
    BY NatLessThanWellFounded
<1>3. \A x, y \in Nat : <<y, x>> \in R <=> y < x
    BY Zenon DEF OpToRel
<1>. HIDE DEF R
<1>4. PICK l \in Left : \A k \in Left : ~(<<k, l>> \in R)
    <2>. HIDE DEF Left
    <2>. QED BY <1>1, <1>2, WFMin
<1>5. PICK x \in S : l = m - x
    BY <1>4
<1>6. ASSUME NEW y \in S PROVE y <= x
    <2>1. m - y \in Left /\ m - y \in Nat /\ l \in Nat
        BY <1>1, <1>4
    <2>2. ~(m - y < l)
        BY <1>3, <1>4, <2>1
    <2>. QED BY <1>5, <2>2
<1>. QED BY <1>6

LEMMA LatestExists ==
    ASSUME NEW D \in SUBSET RandomnessRequests, D # {}, NEW m \in Nat,
           \A r \in D : r.nonce <= m
    PROVE  \E r \in D : \A q \in D : q.nonce <= r.nonce
<1>. DEFINE S == {r.nonce : r \in D}
<1>1. S \in SUBSET Nat /\ S # {} /\ \A x \in S : x <= m
    BY DEF RandomnessRequests
<1>2. PICK x \in S : \A y \in S : y <= x
    <2>. HIDE DEF S
    <2>. QED BY <1>1, MaximumExists
<1>. QED BY <1>2

\* The patch fills in what a row is behind on, and tells no less and nothing
\* else: the row that is projected tells of the chain as the two do.
MergedTells(c, s, row, merged) ==
    /\ merged.opened = row.opened /\ merged.settled \in BOOLEAN
    /\ merged.phase \in Phases /\ merged.state \in Nat /\ merged.payout \in Nat \cup {None}
    /\ merged.settled => SettlementTold(c, s, merged)
    /\ ~merged.settled => /\ merged.payout = None /\ merged.phase \notin Terminal
                          /\ merged.state # 0 => StepTold(c, s, merged)
    /\ row.settled => merged.settled
    /\ merged.requests \in SUBSET RandomnessRequests
    /\ \E m \in Nat : \A r \in merged.requests : r.nonce <= m

\* As far as x tells of the end, it is terminal.
LEMMA TerminalIsSettled ==
    ASSUME NEW c, IsHistory(c), NEW s, NEW x, x.settled \in BOOLEAN,
           x.settled => SettlementTold(c, s, x), ~x.settled => x.phase \notin Terminal
    PROVE  /\ (x.settled \/ x.phase \in Terminal) <=> x.settled
           /\ x.settled => /\ x.phase \in Terminal /\ x.payout \in Nat
                           /\ x.phase = "SETTLED" => x.state # 0
BY EventFacts DEF SettlementTold

LEMMA MergeTells ==
    ASSUME NEW c, IsHistory(c), NEW s, NEW row, RowTells(c, s, row),
           NEW patch, patch = None \/ PatchTells(c, s, patch)
    PROVE  MergedTells(c, s, row, MergeIntoRow(row, patch))
<1>0. /\ row \in Rows /\ LayerTells(c, s, row) /\ row.settled \in BOOLEAN
      /\ row.opened \in BOOLEAN /\ row.phase \in Phases
      /\ row.step \in Nat /\ row.state \in Nat /\ row.payout \in Nat \cup {None}
      /\ row.requests \in SUBSET RandomnessRequests
      /\ \A r \in row.requests : r.nonce <= row.step
    BY DEF RowTells, Rows
<1>1. CASE patch = None
    <2>1. MergeIntoRow(row, patch) = row
        BY <1>1 DEF MergeIntoRow
    <2>2. MergedTells(c, s, row, row)
        BY <1>0 DEF MergedTells, LayerTells
    <2>. QED BY <2>1, <2>2
<1>2. CASE patch # None
    <2>0. /\ PatchTells(c, s, patch) /\ patch \in Patches /\ LayerTells(c, s, patch)
          /\ patch.settled \in BOOLEAN /\ patch.phase \in Phases /\ patch.step \in Nat
          /\ patch.state \in Nat /\ patch.payout \in Nat \cup {None}
          /\ patch.fulfilledNonce \in Nat /\ patch.word \in Nat
          /\ patch.fulfilledNonce <= patch.step
        BY <1>2 DEF PatchTells, Patches
    <2>1. RowIsTerminal(row) <=> row.settled
        BY <1>0, TerminalIsSettled DEF LayerTells, RowIsTerminal
    <2>. DEFINE stepped == IF row.settled \/ patch.step <= row.step THEN row
                           ELSE [row EXCEPT !.step = patch.step, !.phase = patch.phase,
                                            !.state = patch.state]
                ended == IF row.settled \/ ~patch.settled THEN stepped
                         ELSE [stepped EXCEPT !.settled = TRUE, !.phase = patch.phase,
                                              !.payout = patch.payout,
                                              !.state = patch.state]
                merged == IF patch.fulfilledNonce = 0 \/ Recorded(row, patch.fulfilledNonce)
                          THEN ended
                          ELSE [ended EXCEPT !.requests =
                                  Fulfilled(@, patch.fulfilledNonce, patch.word)]
    <2>2. MergeIntoRow(row, patch) = merged
        BY <1>2, <2>1 DEF MergeIntoRow
    <2>. DEFINE Stepped(r) ==
                /\ r \in Rows /\ r.requests = row.requests
                /\ r.opened = row.opened /\ r.settled = row.settled
                /\ r.payout = row.payout
                /\ \/ /\ row.settled \/ patch.step <= row.step
                      /\ r.phase = row.phase /\ r.state = row.state
                   \/ /\ ~row.settled /\ patch.step > row.step
                      /\ r.phase = patch.phase /\ r.state = patch.state
    <2>3. Stepped(stepped)
        <3>1. CASE row.settled \/ patch.step <= row.step
            BY <1>0, <3>1
        <3>2. CASE ~(row.settled \/ patch.step <= row.step)
            <4>. DEFINE new == [row EXCEPT !.step = patch.step, !.phase = patch.phase,
                                           !.state = patch.state]
            <4>1. /\ new \in Rows /\ new.requests = row.requests /\ new.opened = row.opened
                  /\ new.settled = row.settled /\ new.payout = row.payout
                  /\ new.phase = patch.phase /\ new.state = patch.state
                BY <1>0, <2>0 DEF Rows
            <4>2. stepped = new
                BY <3>2
            <4>3. ~row.settled /\ patch.step > row.step
                BY <1>0, <2>0, <3>2
            <4>. HIDE DEF new, stepped
            <4>. QED BY <4>1, <4>2, <4>3
        <3>. QED BY <3>1, <3>2
    <2>. HIDE DEF stepped
    <2>4. /\ ended \in Rows /\ ended.requests = row.requests
          /\ ended.opened = row.opened
          /\ \/ /\ row.settled \/ ~patch.settled
                /\ ended.settled = row.settled /\ ended.payout = row.payout
                /\ ended.phase = stepped.phase /\ ended.state = stepped.state
             \/ /\ ~row.settled /\ patch.settled
                /\ ended.settled /\ ended.payout = patch.payout
                /\ ended.phase = patch.phase /\ ended.state = patch.state
        BY <1>0, <2>0, <2>3 DEF Rows
    <2>. HIDE DEF ended
    <2>5. /\ merged.opened = ended.opened /\ merged.settled = ended.settled
          /\ merged.phase = ended.phase /\ merged.state = ended.state
          /\ merged.payout = ended.payout
          /\ \/ merged.requests = row.requests
             \/ merged.requests = Fulfilled(row.requests, patch.fulfilledNonce, patch.word)
        BY <2>4 DEF Rows
    <2>. HIDE DEF merged
    <2>6. /\ merged.requests \in SUBSET RandomnessRequests
          /\ \E m \in Nat : \A r \in merged.requests : r.nonce <= m
        <3>. DEFINE m == row.step + patch.step
        <3>1. m \in Nat /\ patch.fulfilledNonce <= m
            BY <1>0, <2>0
        <3>2. \A r \in row.requests : r.nonce <= m
            <4>1. \A r \in row.requests : r.nonce \in Nat /\ r.nonce <= row.step
                BY <1>0 DEF RandomnessRequests
            <4>. QED BY <4>1, <1>0, <2>0
        <3>. HIDE DEF m
        <3>3. /\ Fulfilled(row.requests, patch.fulfilledNonce, patch.word)
                     \in SUBSET RandomnessRequests
              /\ \A r \in Fulfilled(row.requests, patch.fulfilledNonce, patch.word) :
                    r.nonce <= m
            BY <1>0, <2>0, <3>1, <3>2, RequestsKept
        <3>. QED BY <1>0, <2>5, <3>1, <3>2, <3>3
    <2>7. merged.settled \in BOOLEAN /\ merged.phase \in Phases /\ merged.state \in Nat
          /\ merged.payout \in Nat \cup {None} /\ merged.opened = row.opened
        BY <2>4, <2>5 DEF Rows
    <2>8. merged.settled => SettlementTold(c, s, merged)
        <3>1. row.settled => SettlementTold(c, s, row)
            BY <1>0 DEF LayerTells
        <3>2. patch.settled => SettlementTold(c, s, patch)
            BY <2>0 DEF LayerTells
        <3>. QED BY <2>3, <2>4, <2>5, <3>1, <3>2 DEF SettlementTold
    <2>9. ASSUME ~merged.settled
          PROVE  /\ merged.payout = None /\ merged.phase \notin Terminal
                 /\ merged.state # 0 => StepTold(c, s, merged)
        <3>1. /\ ~row.settled /\ ~patch.settled /\ merged.payout = row.payout
              /\ merged.phase = stepped.phase /\ merged.state = stepped.state
            BY <2>4, <2>5, <2>9
        <3>2. /\ row.payout = None /\ row.phase \notin Terminal
              /\ row.state # 0 => StepTold(c, s, row)
            BY <1>0, <3>1 DEF LayerTells
        <3>3. /\ patch.phase \notin Terminal
              /\ patch.state # 0 => StepTold(c, s, patch)
            BY <2>0, <3>1 DEF LayerTells
        <3>4. CASE merged.phase = row.phase /\ merged.state = row.state
            BY <3>1, <3>2, <3>4 DEF StepTold
        <3>5. CASE merged.phase = patch.phase /\ merged.state = patch.state
            <4>1. StepTold(c, s, patch) => StepTold(c, s, merged)
                BY <3>5 DEF StepTold
            <4>. QED BY <3>1, <3>2, <3>3, <3>5, <4>1
        <3>. QED BY <2>3, <3>1, <3>4, <3>5
    <2>10. row.settled => merged.settled
        BY <2>4, <2>5
    <2>. QED BY <2>2, <2>6, <2>7, <2>8, <2>9, <2>10 DEF MergedTells
<1>. QED BY <1>1, <1>2

LEMMA LatestWordIsNatural ==
    ASSUME NEW row, row.requests \in SUBSET RandomnessRequests,
           \E m \in Nat : \A r \in row.requests : r.nonce <= m,
           NEW patch, patch = None \/ patch.word \in Nat
    PROVE  LatestWord(row, patch) \in Nat
<1>. DEFINE done == {r \in row.requests : r.word # 0}
<1>1. CASE done = {}
    BY <1>1 DEF LatestWord
<1>2. CASE done # {}
    <2>1. done \in SUBSET RandomnessRequests
        OBVIOUS
    <2>2. PICK m \in Nat : \A r \in row.requests : r.nonce <= m
        OBVIOUS
    <2>3. \A r \in done : r.nonce <= m
        BY <2>2
    <2>4. LatestWord(row, patch) = (CHOOSE r \in done : \A q \in done : q.nonce <= r.nonce).word
        BY <1>2 DEF LatestWord
    <2>. HIDE DEF done
    <2>5. \E r \in done : \A q \in done : q.nonce <= r.nonce
        BY <1>2, <2>1, <2>3, LatestExists
    <2>6. (CHOOSE r \in done : \A q \in done : q.nonce <= r.nonce) \in done
        BY <2>5
    <2>. QED BY <2>1, <2>4, <2>6 DEF RandomnessRequests
<1>. QED BY <1>1, <1>2

LEMMA ProjectedTells ==
    ASSUME NEW c, IsHistory(c), NEW s, NEW row, RowTells(c, s, row),
           NEW patch, patch = None \/ PatchTells(c, s, patch)
    PROVE  /\ ItemTells(c, s, Projected(row, patch))
           /\ row.settled => Projected(row, patch).settled
<1>. DEFINE merged == MergeIntoRow(row, patch)
            word == LatestWord(merged, patch)
<1>1. MergedTells(c, s, row, merged)
    BY MergeTells
<1>2. patch = None \/ patch.word \in Nat
    BY DEF PatchTells, Patches
<1>3. Projected(row, patch) = [phase |-> merged.phase, settled |-> RowIsTerminal(merged),
                               payout |-> merged.payout, state |-> merged.state,
                               word |-> word]
    BY DEF Projected
<1>. HIDE DEF merged
<1>4. word \in Nat
    BY <1>1, <1>2, LatestWordIsNatural DEF MergedTells
<1>. HIDE DEF word
<1>5. RowIsTerminal(merged) <=> merged.settled
    BY <1>1, TerminalIsSettled DEF RowIsTerminal, MergedTells
<1>6. RowIsTerminal(merged) = merged.settled
    BY <1>1, <1>5 DEF RowIsTerminal, MergedTells
<1>. DEFINE item == [phase |-> merged.phase, settled |-> merged.settled,
                     payout |-> merged.payout, state |-> merged.state, word |-> word]
<1>7. /\ item \in Items /\ item.settled = merged.settled /\ item.phase = merged.phase
      /\ item.payout = merged.payout /\ item.state = merged.state
    BY <1>1, <1>4 DEF Items, MergedTells
<1>8. Projected(row, patch) = item
    BY <1>3, <1>6
<1>. HIDE DEF item
<1>9. ItemTells(c, s, item)
    BY <1>1, <1>7 DEF ItemTells, MergedTells, SettlementTold, StepTold
<1>. QED BY <1>1, <1>7, <1>8, <1>9 DEF MergedTells

LEMMA OptimisticTells ==
    ASSUME NEW c, IsHistory(c), NEW s, NEW patch, patch = None \/ PatchTells(c, s, patch)
    PROVE  /\ ItemTells(c, s, OptimisticItem)
           /\ ItemTells(c, s, MergeIntoItem(OptimisticItem, patch))
<1>1. ItemTells(c, s, OptimisticItem)
    BY PhaseFacts DEF ItemTells, OptimisticItem, Items, Waiting
<1>2. CASE patch = None
    BY <1>1, <1>2 DEF MergeIntoItem
<1>3. CASE patch # None
    <2>0. patch \in Patches /\ LayerTells(c, s, patch)
        BY <1>3 DEF PatchTells
    <2>1. CASE patch.settled
        <3>. DEFINE new == [phase |-> patch.phase, settled |-> TRUE,
                            payout |-> patch.payout, state |-> patch.state,
                            word |-> patch.word]
        <3>1. MergeIntoItem(OptimisticItem, patch) = new
            BY <1>3, <2>1 DEF MergeIntoItem
        <3>2. /\ new \in Items /\ new.settled /\ new.phase = patch.phase
              /\ new.payout = patch.payout /\ new.state = patch.state
            BY <2>0 DEF Patches, Items
        <3>. HIDE DEF new
        <3>3. SettlementTold(c, s, new)
            BY <2>0, <2>1, <3>2 DEF LayerTells, SettlementTold
        <3>. QED BY <1>1, <3>1, <3>2, <3>3 DEF ItemTells
    <2>2. CASE ~patch.settled /\ patch.phase = "NONE"
        BY <1>1, <1>3, <2>2 DEF MergeIntoItem
    <2>3. CASE ~patch.settled /\ patch.phase # "NONE"
        <3>. DEFINE new == [OptimisticItem EXCEPT !.phase = patch.phase,
                                !.state = patch.state, !.word = patch.word]
        <3>1. MergeIntoItem(OptimisticItem, patch) = new
            BY <1>3, <2>3 DEF MergeIntoItem
        <3>2. /\ new \in Items /\ new.settled = FALSE /\ new.payout = None
              /\ new.phase = patch.phase /\ new.state = patch.state
            BY <2>0 DEF Patches, Items, OptimisticItem
        <3>. HIDE DEF new
        <3>3. patch.phase \notin Terminal /\ StepTold(c, s, patch)
            BY <2>0, <2>3 DEF LayerTells
        <3>4. StepTold(c, s, new)
            BY <3>2, <3>3 DEF StepTold
        <3>. QED BY <1>1, <3>1, <3>2, <3>3, <3>4 DEF ItemTells
    <2>. QED BY <2>1, <2>2, <2>3
<1>. QED BY <1>1, <1>2, <1>3

-----------------------------------------------------------------------------
(***************************************************************************)
(* The rendering of one session.                                           *)
(***************************************************************************)

\* What is kept of a session from one render to the next: a result once there
\* is one, and what was last shown while there is none.
Kept(c, s, settled, open, item) ==
    /\ settled # None => ItemTells(c, s, settled) /\ settled.settled
    /\ open # None => ItemTells(c, s, open) /\ ~open.settled
    /\ item = IF settled # None THEN settled ELSE open

\* The two say the same of the result.
SameResult(x, y) == x.phase = y.phase /\ x.payout = y.payout /\ x.state = y.state

LEMMA OneSettlement ==
    ASSUME NEW c, IsHistory(c), NEW s, NEW x, SettlementTold(c, s, x),
           NEW y, SettlementTold(c, s, y)
    PROVE  SameResult(x, y)
<1>1. PICK i \in DOMAIN c : /\ c[i].session = s /\ c[i].name = "Settled"
                            /\ x.phase = c[i].phase /\ x.payout = c[i].payout
                            /\ x.state = c[i].state
    BY DEF SettlementTold
<1>2. PICK j \in DOMAIN c : /\ c[j].session = s /\ c[j].name = "Settled"
                            /\ y.phase = c[j].phase /\ y.payout = c[j].payout
                            /\ y.state = c[j].state
    BY DEF SettlementTold
<1>3. j <= i /\ i <= j
    BY <1>1, <1>2 DEF IsHistory
<1>4. i \in Nat /\ j \in Nat
    BY LenProperties DEF IsHistory
<1>. QED BY <1>1, <1>2, <1>3, <1>4 DEF SameResult

\* The item that the layers give for a session: nothing only where the store
\* has no row, and the result where the row has it.
ItemIs(c, s, row, item) ==
    /\ item # None => ItemTells(c, s, item)
    /\ row # None => item # None
    /\ row # None /\ row.settled => item.settled

LEMMA MergedItemTells ==
    ASSUME NEW c, IsHistory(c), NEW s, NEW shownRows, shownRows[s] # None =>
               RowTells(c, s, shownRows[s]),
           patches[s] # None => PatchTells(c, s, patches[s])
    PROVE  ItemIs(c, s, shownRows[s], MergedItem(shownRows, s))
<1>. DEFINE row == shownRows[s]
            patch == patches[s]
            projected == Projected(row, patch)
            optimistic == \E o \in optimisticSessions : o.session = s
            item == MergedItem(shownRows, s)
<1>0. patch = None \/ PatchTells(c, s, patch)
    OBVIOUS
<1>1. /\ ItemTells(c, s, OptimisticItem)
      /\ ItemTells(c, s, MergeIntoItem(OptimisticItem, patch))
    BY <1>0, OptimisticTells
<1>a. \A x \in Items : x # None
    BY NoneAssumption
<1>2. CASE row = None
    <2>1. item = IF optimistic THEN MergeIntoItem(OptimisticItem, patch) ELSE None
        <3>1. CASE optimistic
            BY <1>2, <3>1 DEF MergedItem
        <3>2. CASE ~optimistic
            BY <1>2, <3>2 DEF MergedItem
        <3>. QED BY <3>1, <3>2
    <2>. HIDE DEF item, optimistic, row, patch
    <2>2. ItemIs(c, s, row, item)
        BY <1>1, <1>2, <2>1 DEF ItemIs
    <2>. QED BY <2>2 DEF item, row
<1>3. CASE row # None
    <2>0. RowTells(c, s, row)
        BY <1>3
    <2>1. ItemTells(c, s, projected) /\ (row.settled => projected.settled)
        BY <1>0, <2>0, ProjectedTells
    <2>2. item = IF optimistic /\ projected.phase = "NONE" THEN OptimisticItem ELSE projected
        <3>1. CASE optimistic /\ projected.phase = "NONE"
            BY <1>3, <3>1 DEF MergedItem
        <3>2. CASE ~(optimistic /\ projected.phase = "NONE")
            BY <1>3, <3>2 DEF MergedItem
        <3>. QED BY <3>1, <3>2
    <2>. HIDE DEF item, optimistic, row, patch, projected
    <2>3. projected.settled => projected.phase # "NONE"
        BY <2>1, TerminalIsSettled, PhaseFacts DEF ItemTells, Items
    <2>4. item # None /\ ItemTells(c, s, item) /\ (row.settled => item.settled)
        <3>1. OptimisticItem # None /\ projected # None
            BY <1>1, <1>a, <2>1 DEF ItemTells
        <3>. QED BY <1>1, <2>1, <2>2, <2>3, <3>1
    <2>5. ItemIs(c, s, row, item)
        BY <2>4 DEF ItemIs
    <2>. QED BY <2>5 DEF item, row
<1>. QED BY <1>2, <1>3

\* No step of a render loses what was shown, and none shows anything else than
\* the layers give or gave.
LEMMA ReconciledKeeps ==
    ASSUME NEW c, IsHistory(c), NEW s, NEW row, row # None => RowTells(c, s, row),
           NEW item, ItemIs(c, s, row, item),
           NEW settled, NEW open, NEW shown, Kept(c, s, settled, open, shown)
    PROVE  LET new == Reconciled(item, row, settled, open)
           IN  /\ Kept(c, s, new.settled, new.open, new.item)
               /\ settled # None \/ open # None => new.item # None
               /\ settled # None => new.item.settled /\ SameResult(settled, new.item)
               /\ new.item = IF item # None /\ (item.settled \/ settled = None) THEN item
                             ELSE IF settled # None THEN settled ELSE open
<1>. DEFINE new == Reconciled(item, row, settled, open)
            Good == /\ Kept(c, s, new.settled, new.open, new.item)
                    /\ settled # None \/ open # None => new.item # None
                    /\ settled # None => new.item.settled /\ SameResult(settled, new.item)
                    /\ new.item = IF item # None /\ (item.settled \/ settled = None) THEN item
                                  ELSE IF settled # None THEN settled ELSE open
            released == row # None /\ RowIsTerminal(row) /\ row.payout # None
<1>. SUFFICES Good
    OBVIOUS
<1>1. row # None => (RowIsTerminal(row) <=> row.settled)
    <2>1. CASE row # None
        <3>1. row.settled \in BOOLEAN /\ LayerTells(c, s, row)
            BY <2>1 DEF RowTells, Rows
        <3>. QED BY <3>1, TerminalIsSettled DEF RowIsTerminal, LayerTells
    <2>. QED BY <2>1
<1>2. released => item # None /\ item.settled
    BY <1>1 DEF ItemIs
<1>3. item # None => /\ ItemTells(c, s, item) /\ item.settled \in BOOLEAN
                     /\ (item.settled \/ item.phase \in Terminal) <=> item.settled
                     /\ IsCompleteSettledItem(item) <=> item.settled
    <2>1. CASE item # None
        <3>1. ItemTells(c, s, item) /\ item.settled \in BOOLEAN
            BY <2>1 DEF ItemIs, ItemTells, Items
        <3>a. /\ item.settled => SettlementTold(c, s, item)
              /\ ~item.settled => item.phase \notin Terminal
            BY <3>1 DEF ItemTells
        <3>2. (item.settled \/ item.phase \in Terminal) <=> item.settled
            BY <3>1, <3>a, TerminalIsSettled
        <3>3. ASSUME item.settled
              PROVE  item.payout \in Nat /\ (item.phase = "SETTLED" => item.state # 0)
            <4>1. SettlementTold(c, s, item)
                BY <3>a, <3>3
            <4>. QED BY <4>1, EventFacts DEF SettlementTold
        <3>4. IsCompleteSettledItem(item) <=> item.settled
            BY <3>3, NoneAssumption DEF IsCompleteSettledItem
        <3>. QED BY <3>1, <3>2, <3>4
    <2>. QED BY <2>1
<1>4. CASE item = None
    <2>1. ~released
        BY <1>2, <1>4
    <2>2. new = [item |-> IF settled # None THEN settled ELSE open,
                 settled |-> settled, open |-> open]
        <3>. HIDE DEF Good
        <3>. QED BY <1>4, <2>1 DEF Reconciled
    <2>3. /\ new.item = IF settled # None THEN settled ELSE open
          /\ new.settled = settled /\ new.open = open
        BY <2>2
    <2>. HIDE DEF new
    <2>. QED BY <1>4, <2>3 DEF Kept, SameResult
<1>5. CASE item # None /\ item.settled
    <2>1. new = [item |-> item, settled |-> item, open |-> None]
        <3>. HIDE DEF Good
        <3>. QED BY <1>3, <1>5 DEF Reconciled
    <2>2. new.item = item /\ new.settled = item /\ new.open = None
        BY <2>1
    <2>. HIDE DEF new
    <2>3. settled # None => SameResult(settled, item)
        <3>1. ASSUME settled # None PROVE SettlementTold(c, s, settled)
            BY <3>1 DEF Kept, ItemTells
        <3>2. SettlementTold(c, s, item)
            BY <1>3, <1>5 DEF ItemTells
        <3>. QED BY <3>1, <3>2, OneSettlement
    <2>4. Kept(c, s, new.settled, new.open, new.item)
        BY <1>3, <1>5, <2>2 DEF Kept
    <2>. QED BY <1>5, <2>2, <2>3, <2>4
<1>6. CASE item # None /\ ~item.settled /\ settled # None
    <2>1. ~released
        BY <1>2, <1>6
    <2>2. new = [item |-> settled, settled |-> settled, open |-> open]
        <3>. HIDE DEF Good
        <3>. QED BY <1>3, <1>6, <2>1 DEF Reconciled
    <2>3. new.item = settled /\ new.settled = settled /\ new.open = open
        BY <2>2
    <2>. HIDE DEF new
    <2>. QED BY <1>6, <2>3 DEF Kept, SameResult
<1>7. CASE item # None /\ ~item.settled /\ settled = None
    <2>1. ~released
        BY <1>2, <1>7
    <2>2. new = [item |-> item, settled |-> None, open |-> item]
        <3>. HIDE DEF Good
        <3>. QED BY <1>3, <1>7, <2>1 DEF Reconciled
    <2>3. new.item = item /\ new.settled = None /\ new.open = item
        BY <2>2
    <2>. HIDE DEF new
    <2>. QED BY <1>3, <1>7, <2>3 DEF Kept
<1>. QED BY <1>3, <1>4, <1>5, <1>6, <1>7

-----------------------------------------------------------------------------
(***************************************************************************)
(* The chain stays a history of the host contract.                         *)
(***************************************************************************)

\* The event e may follow the history c.
Follows(c, e) ==
    /\ e \in Events
    /\ \/ /\ e.name = "Opened"
          /\ \E n \in 0..Len(c) : OpenedIn(c) = 1..n /\ e.session = n + 1
       \/ /\ e.name # "Opened" /\ e.session \in OpenedIn(c)
          /\ \A i \in DOMAIN c : c[i].session = e.session => c[i].name # "Settled"
          /\ e.name = "Advanced" => e.state = e.step
          /\ e.name = "Settled" => (e.phase = "SETTLED" => e.state # 0)

LEMMA HistoryGrows ==
    ASSUME NEW c, IsHistory(c), NEW e, Follows(c, e)
    PROVE  IsHistory(Append(c, e)) /\ Extends(c, Append(c, e))
<1>. DEFINE d == Append(c, e)
            new == Len(c) + 1
<1>1. c \in Seq(Events) /\ e \in Events
    BY DEF IsHistory, Follows
<1>2. /\ d \in Seq(Events) /\ Len(d) = new /\ Len(c) \in Nat
      /\ DOMAIN c = 1..Len(c) /\ DOMAIN d = 1..new
      /\ \A i \in DOMAIN c : d[i] = c[i]
      /\ d[new] = e
    BY <1>1, AppendProperties, LenProperties
<1>. HIDE DEF d
<1>3. Extends(c, d)
    BY <1>2 DEF Extends
<1>4. DOMAIN d = DOMAIN c \cup {new} /\ new \notin DOMAIN c
    BY <1>2
<1>5. OpenedIn(d) = OpenedIn(c) \cup (IF e.name = "Opened" THEN {e.session} ELSE {})
    <2>1. CASE e.name = "Opened"
        <3>1. OpenedIn(d) = OpenedIn(c) \cup {e.session}
            BY <1>2, <1>4, <2>1 DEF OpenedIn
        <3>. QED BY <2>1, <3>1
    <2>2. CASE e.name # "Opened"
        <3>1. OpenedIn(d) = OpenedIn(c)
            BY <1>2, <1>4, <2>2 DEF OpenedIn
        <3>. QED BY <2>2, <3>1
    <2>. QED BY <2>1, <2>2
<1>6. \E n \in 0..Len(d) : OpenedIn(d) = 1..n
    <2>1. CASE e.name = "Opened"
        <3>1. PICK n \in 0..Len(c) : OpenedIn(c) = 1..n /\ e.session = n + 1
            BY <2>1 DEF Follows
        <3>2. OpenedIn(d) = 1..(n + 1) /\ n + 1 \in 0..Len(d)
            BY <1>2, <1>5, <2>1, <3>1
        <3>. QED BY <3>2
    <2>2. CASE e.name # "Opened"
        <3>1. PICK n \in 0..Len(c) : OpenedIn(c) = 1..n
            BY DEF IsHistory
        <3>2. OpenedIn(d) = 1..n /\ n \in 0..Len(d)
            BY <1>2, <1>5, <2>2, <3>1
        <3>. QED BY <3>2
    <2>. QED BY <2>1, <2>2
<1>7. \A i \in DOMAIN c : c[i].session \in OpenedIn(c)
    BY DEF IsHistory
<1>8. e.session \in OpenedIn(d)
    BY <1>5 DEF Follows
<1>9. e.name = "Opened" => e.session \notin OpenedIn(c)
    BY <1>2 DEF Follows
<1>10. ASSUME NEW i \in DOMAIN d
       PROVE  /\ d[i].session \in OpenedIn(d)
              /\ d[i].name = "Advanced" => d[i].state = d[i].step
              /\ d[i].name = "Settled" =>
                    /\ \A j \in DOMAIN d : d[j].session = d[i].session => j <= i
                    /\ d[i].phase = "SETTLED" => d[i].state # 0
    <2>1. CASE i \in DOMAIN c
        <3>1. /\ c[i].session \in OpenedIn(c)
              /\ c[i].name = "Advanced" => c[i].state = c[i].step
              /\ c[i].name = "Settled" =>
                    /\ \A j \in DOMAIN c : c[j].session = c[i].session => j <= i
                    /\ c[i].phase = "SETTLED" => c[i].state # 0
            BY <2>1 DEF IsHistory
        <3>2. c[i].name = "Settled" => e.session # c[i].session
            BY <1>7, <1>9, <2>1 DEF Follows
        <3>. QED BY <1>2, <1>4, <1>5, <2>1, <3>1, <3>2
    <2>2. CASE i = new
        <3>1. \A j \in DOMAIN d : j <= i
            BY <1>2, <2>2
        <3>2. /\ e.name = "Advanced" => e.state = e.step
              /\ e.name = "Settled" => (e.phase = "SETTLED" => e.state # 0)
            BY DEF Follows
        <3>. QED BY <1>2, <1>8, <2>2, <3>1, <3>2
    <2>. QED BY <1>4, <2>1, <2>2
<1>11. IsHistory(d)
    BY <1>2, <1>6, <1>10 DEF IsHistory
<1>. QED BY <1>3, <1>11 DEF d

LEMMA ExtendsTwice ==
    ASSUME NEW a, NEW b, Extends(a, b), NEW c, Extends(b, c) PROVE Extends(a, c)
BY DEF Extends

\* What a step of the game or of the host contract may be.
LEMMA OutcomeFacts ==
    ASSUME HostSnapshotAssumption, NEW s \in Nat, NEW n \in Nat, NEW w \in Nat,
           NEW e \in StepOutcomes(s, n + 1, w)
                     \cup {Settled(s, n, "CANCELLED", p, 0) : p \in Payouts}
                     \cup {Settled(s, n, "FORFEITED", p, 0) : p \in Payouts}
    PROVE  /\ e \in Events /\ e.session = s /\ e.name # "Opened"
           /\ e.name = "Advanced" => e.state = e.step
           /\ e.name = "Settled" => (e.phase = "SETTLED" => e.state # 0)
<1>1. ASSUME NEW phase \in Waiting, e = Advanced(s, n + 1, phase, w)
      PROVE  /\ e \in Events /\ e.session = s /\ e.name # "Opened"
             /\ e.name # "Settled" /\ e.state = e.step
    BY <1>1 DEF Advanced, Events
<1>2. ASSUME NEW m \in Nat, NEW phase \in Terminal, NEW p \in Nat, NEW v \in Nat,
             e = Settled(s, m, phase, p, v), phase = "SETTLED" => m # 0
      PROVE  /\ e \in Events /\ e.session = s /\ e.name # "Opened" /\ e.name # "Advanced"
             /\ e.phase = "SETTLED" => e.state # 0
    BY <1>2 DEF Settled, Events
<1>3. \A p \in Payouts : p \in Nat
    BY DEF HostSnapshotAssumption
<1>4. \/ \E phase \in Waiting : e = Advanced(s, n + 1, phase, w)
      \/ \E p \in Payouts : e = Settled(s, n + 1, "SETTLED", p, w)
      \/ \E p \in Payouts : e = Settled(s, n, "CANCELLED", p, 0)
      \/ \E p \in Payouts : e = Settled(s, n, "FORFEITED", p, 0)
    BY DEF StepOutcomes
<1>5. CASE \E phase \in Waiting : e = Advanced(s, n + 1, phase, w)
    BY <1>1, <1>5
<1>6. CASE \E p \in Payouts : e = Settled(s, n + 1, "SETTLED", p, w)
    <2>1. PICK p \in Payouts : e = Settled(s, n + 1, "SETTLED", p, w)
        BY <1>6
    <2>2. n + 1 \in Nat /\ n + 1 # 0 /\ p \in Nat /\ "SETTLED" \in Terminal
        BY <1>3 DEF Terminal
    <2>. QED BY <1>2, <2>1, <2>2
<1>7. CASE \E p \in Payouts : e = Settled(s, n, "CANCELLED", p, 0)
    <2>1. PICK p \in Payouts : e = Settled(s, n, "CANCELLED", p, 0)
        BY <1>7
    <2>2. 0 \in Nat /\ p \in Nat /\ "CANCELLED" \in Terminal
        BY <1>3 DEF Terminal
    <2>. QED BY <1>2, <2>1, <2>2
<1>8. CASE \E p \in Payouts : e = Settled(s, n, "FORFEITED", p, 0)
    <2>1. PICK p \in Payouts : e = Settled(s, n, "FORFEITED", p, 0)
        BY <1>8
    <2>2. 0 \in Nat /\ p \in Nat /\ "FORFEITED" \in Terminal
        BY <1>3 DEF Terminal
    <2>. QED BY <1>2, <2>1, <2>2
<1>. QED BY <1>4, <1>5, <1>6, <1>7, <1>8

LEMMA LandGrows ==
    ASSUME HostSnapshotAssumption, IsHistory(chain), NEW r \in Requests, Land(r)
    PROVE  /\ IsHistory(chain') /\ Extends(chain, chain')
           /\ \E e \in Events :
                 /\ e.name # "Opened"
                 /\ chain' = Append(Append(chain, Opened(Cardinality(OpenedIds) + 1, r)), e)
<1>. DEFINE s == Cardinality(OpenedIds) + 1
<1>1. PICK n \in 0..Len(chain) : OpenedIn(chain) = 1..n
    BY DEF IsHistory
<1>2. chain \in Seq(Events) /\ n \in Nat
    BY LenProperties, <1>1 DEF IsHistory
<1>3. s = n + 1 /\ s \in Nat
    <2>1. Cardinality(1..n) = n
        BY <1>2, FS_Interval
    <2>. QED BY <1>1, <1>2, <2>1 DEF OpenedIds
<1>4. PICK e \in StepOutcomes(s, 1, 0) : chain' = chain \o <<Opened(s, r), e>>
    BY DEF Land
<1>. HIDE DEF s
<1>5. /\ e \in Events /\ e.session = s /\ e.name # "Opened"
      /\ e.name = "Advanced" => e.state = e.step
      /\ e.name = "Settled" => (e.phase = "SETTLED" => e.state # 0)
    <2>1. 0 \in Nat /\ 0 + 1 = 1
        OBVIOUS
    <2>. QED BY <1>3, <1>4, <2>1, OutcomeFacts
<1>. DEFINE o == Opened(s, r)
            middle == Append(chain, o)
<1>6. /\ o \in Events /\ o.session = s /\ o.name = "Opened"
    BY <1>3 DEF Opened, Events, Requests
<1>7. chain' = Append(middle, e)
    <2>. HIDE DEF o
    <2>. QED BY <1>2, <1>4, <1>5, <1>6 DEF o
<1>. HIDE DEF o
<1>8. IsHistory(middle) /\ Extends(chain, middle)
    <2>1. Follows(chain, o)
        BY <1>1, <1>3, <1>6 DEF Follows
    <2>. QED BY <2>1, HistoryGrows
<1>9. s \in OpenedIn(middle)
    <2>1. /\ DOMAIN middle = 1..(Len(chain) + 1) /\ middle[Len(chain) + 1] = o
        BY <1>2, <1>6, AppendProperties, LenProperties
    <2>2. Len(chain) + 1 \in DOMAIN middle
        BY <1>2, <2>1, LenProperties
    <2>. HIDE DEF middle
    <2>. QED BY <1>6, <2>1, <2>2 DEF OpenedIn
<1>10. \A i \in DOMAIN middle : middle[i].session = s => middle[i].name # "Settled"
    <2>1. /\ DOMAIN middle = 1..(Len(chain) + 1) /\ middle[Len(chain) + 1] = o
          /\ DOMAIN chain = 1..Len(chain) /\ Len(chain) \in Nat
          /\ \A i \in DOMAIN chain : middle[i] = chain[i]
        BY <1>2, <1>6, AppendProperties, LenProperties
    <2>. HIDE DEF middle
    <2>2. \A i \in DOMAIN chain : chain[i].session \in 1..n
        BY <1>1 DEF IsHistory
    <2>3. \A i \in DOMAIN chain : middle[i].session # s
        BY <1>2, <1>3, <2>1, <2>2
    <2>. QED BY <1>6, <2>1, <2>3
<1>11. IsHistory(Append(middle, e)) /\ Extends(middle, Append(middle, e))
    <2>1. Follows(middle, e)
        BY <1>5, <1>9, <1>10 DEF Follows
    <2>. QED BY <1>8, <2>1, HistoryGrows
<1>12. chain' = Append(Append(chain, Opened(Cardinality(OpenedIds) + 1, r)), e)
    BY <1>7 DEF o, s
<1>. QED BY <1>5, <1>7, <1>8, <1>11, <1>12, ExtendsTwice

LEMMA StepGrows ==
    ASSUME HostSnapshotAssumption, IsHistory(chain), NEW s \in Ids, Step(s)
    PROVE  /\ IsHistory(chain') /\ Extends(chain, chain')
           /\ \E e \in Events : e.name # "Opened" /\ e.session = s /\ chain' = Append(chain, e)
<1>. DEFINE Latest(i) == i \in EventsOf(s) /\ \A j \in EventsOf(s) : j <= i
            i == CHOOSE i \in EventsOf(s) : \A j \in EventsOf(s) : j <= i
            n == LastStep(s)
<1>1. chain \in Seq(Events) /\ DOMAIN chain = 1..Len(chain) /\ Len(chain) \in Nat
    BY LenProperties DEF IsHistory
<1>2. s \in OpenedIn(chain) /\ Last(s).name # "Settled"
    BY DEF Step, Live, OpenedIds
<1>3. \E k \in EventsOf(s) : \A j \in EventsOf(s) : j <= k
    <2>1. EventsOf(s) \in SUBSET Nat /\ EventsOf(s) # {}
          /\ \A j \in EventsOf(s) : j <= Len(chain)
        BY <1>1, <1>2 DEF EventsOf, OpenedIn
    <2>. QED BY <1>1, <2>1, MaximumExists
<1>4. Latest(i)
    BY <1>3
<1>5. Last(s) = chain[i]
    BY DEF Last
<1>. HIDE DEF i
<1>6. i \in DOMAIN chain /\ i \in Nat /\ chain[i].session = s /\ chain[i].name # "Settled"
    BY <1>1, <1>2, <1>4, <1>5 DEF EventsOf
<1>7. \A j \in DOMAIN chain : chain[j].session = s => chain[j].name # "Settled"
    <2>1. ASSUME NEW j \in DOMAIN chain, chain[j].session = s, chain[j].name = "Settled"
          PROVE  FALSE
        <3>1. i <= j
            BY <1>6, <2>1 DEF IsHistory
        <3>2. j <= i
            BY <1>4, <2>1 DEF EventsOf
        <3>3. j \in Nat
            BY <1>1, <2>1
        <3>. QED BY <1>6, <2>1, <3>1, <3>2, <3>3
    <2>. QED BY <2>1
<1>8. n \in Nat
    BY <1>5, <1>6, EventFacts DEF LastStep
<1>9. s \in Nat
    BY DEF Ids
<1>10. PICK w \in Nat : \E e \in StepOutcomes(s, n + 1, w)
                              \cup {Settled(s, n, "CANCELLED", p, 0) : p \in Payouts}
                              \cup {Settled(s, n, "FORFEITED", p, 0) : p \in Payouts} :
                           chain' = Append(chain, e)
    <2>1. CASE Last(s).phase = "WAITING_RANDOMNESS"
        <3>1. \E e \in StepOutcomes(s, n + 1, n)
                        \cup {Settled(s, n, "CANCELLED", p, 0) : p \in Payouts} :
                  chain' = Append(chain, e)
            BY <2>1 DEF Step
        <3>. QED BY <1>8, <3>1
    <2>2. CASE Last(s).phase # "WAITING_RANDOMNESS"
        <3>1. \E e \in StepOutcomes(s, n + 1, 0)
                        \cup {Settled(s, n, "FORFEITED", p, 0) : p \in Payouts} :
                  chain' = Append(chain, e)
            BY <2>2 DEF Step
        <3>. QED BY <3>1
    <2>. QED BY <2>1, <2>2
<1>11. PICK e \in StepOutcomes(s, n + 1, w)
                    \cup {Settled(s, n, "CANCELLED", p, 0) : p \in Payouts}
                    \cup {Settled(s, n, "FORFEITED", p, 0) : p \in Payouts} :
              chain' = Append(chain, e)
    BY <1>10
<1>. HIDE DEF n
<1>12. /\ e \in Events /\ e.session = s /\ e.name # "Opened"
       /\ e.name = "Advanced" => e.state = e.step
       /\ e.name = "Settled" => (e.phase = "SETTLED" => e.state # 0)
    BY <1>8, <1>9, <1>10, <1>11, OutcomeFacts, SMTT(30)
<1>13. Follows(chain, e)
    BY <1>2, <1>7, <1>12 DEF Follows
<1>. QED BY <1>11, <1>12, <1>13, HistoryGrows

-----------------------------------------------------------------------------
(***************************************************************************)
(* What the layers hold and what is shown tells of the chain.              *)
(***************************************************************************)

LayersTell ==
    /\ rows \in [Ids -> Rows \cup {None}] /\ patches \in [Ids -> Patches \cup {None}]
    /\ \A s \in Ids : /\ rows[s] # None => RowTells(chain, s, rows[s])
                      /\ patches[s] # None => PatchTells(chain, s, patches[s])

ShownIsKept ==
    \A s \in Ids : Kept(chain, s, publishedSettledItems[s], publishedOpenItems[s], Item(s))

ViewInv == IsHistory(chain) /\ LayersTell /\ ShownIsKept

LEMMA KeptStays ==
    ASSUME NEW c, NEW d, Extends(c, d), NEW s, NEW settled, NEW open, NEW item,
           Kept(c, s, settled, open, item)
    PROVE  Kept(d, s, settled, open, item)
BY TellsStays DEF Kept

LEMMA ViewInit ==
    ASSUME HostSnapshotAssumption, Init
    PROVE  ViewInv
<1>1. IsHistory(chain)
    BY DEF Init, HostSnapshotAssumption
<1>2. LayersTell
    BY DEF Init, LayersTell, NoRows
<1>3. ShownIsKept
    <2>1. \A s \in Ids : /\ publishedSettledItems[s] = None /\ publishedOpenItems[s] = None
                         /\ Item(s) = None
        BY DEF Init, NoRows, Item
    <2>. QED BY <2>1 DEF ShownIsKept, Kept
<1>. QED BY <1>1, <1>2, <1>3 DEF ViewInv

\* A step of the chain.
LEMMA ChainKeeps ==
    ASSUME ViewInv, IsHistory(chain'), Extends(chain, chain'),
           UNCHANGED <<rows, patches, shownVars>>
    PROVE  ViewInv'
<1>1. LayersTell'
    <2>1. LayersTell
        BY DEF ViewInv
    <2>. QED BY <2>1, TellsStays DEF LayersTell
<1>2. ShownIsKept'
    <2>1. ASSUME NEW s \in Ids
          PROVE  Kept(chain', s, publishedSettledItems[s], publishedOpenItems[s], Item(s))
        BY KeptStays DEF ViewInv, ShownIsKept
    <2>. QED BY <2>1 DEF ShownIsKept, shownVars, Item
<1>. QED BY <1>1, <1>2 DEF ViewInv

LEMMA IndexDeliverKeeps ==
    ASSUME ViewInv, NEW i \in DOMAIN chain, IndexDeliver(i)
    PROVE  ViewInv'
<1>. DEFINE e == chain[i]
            row == IF rows[e.session] = None THEN InitialRow ELSE rows[e.session]
<1>1. /\ UNCHANGED <<chain, patches, publishedSettledItems, publishedOpenItems, published>>
      /\ rows' = [rows EXCEPT ![e.session] = Evolve(IF @ = None THEN InitialRow ELSE @, e)]
    BY DEF IndexDeliver, shownVars
<1>2. \A s \in Ids : rows'[s] = IF s = e.session THEN Evolve(row, e) ELSE rows[s]
    BY <1>1 DEF ViewInv, LayersTell
<1>3. e.session \in Ids => RowTells(chain, e.session, Evolve(row, e))
    <2>1. ASSUME e.session \in Ids PROVE RowTells(chain, e.session, row)
        BY <2>1, InitialRowTells DEF ViewInv, LayersTell
    <2>. HIDE DEF row
    <2>. QED BY <2>1, EvolveTells DEF ViewInv
<1>. HIDE DEF row
<1>4. \A s \in Ids : rows'[s] # None => RowTells(chain, s, rows'[s])
    BY <1>2, <1>3 DEF ViewInv, LayersTell
<1>5. rows' \in [Ids -> Rows \cup {None}]
    <2>1. DOMAIN rows' = Ids /\ rows' = [s \in Ids |-> rows'[s]]
        BY <1>1 DEF ViewInv, LayersTell
    <2>2. \A s \in Ids : rows'[s] \in Rows \cup {None}
        BY <1>4 DEF RowTells
    <2>. QED BY <2>1, <2>2
<1>. QED BY <1>1, <1>4, <1>5 DEF ViewInv, LayersTell, ShownIsKept, Item

LEMMA FlashDeliverKeeps ==
    ASSUME ViewInv, NEW i \in DOMAIN chain, FlashDeliver(i)
    PROVE  ViewInv'
<1>. DEFINE e == chain[i]
            new == ApplyFlashblockEvent(patches[e.session], e)
<1>1. /\ UNCHANGED <<chain, rows, publishedSettledItems, publishedOpenItems, published>>
      /\ patches' = [patches EXCEPT ![e.session] = ApplyFlashblockEvent(@, e)]
    BY DEF FlashDeliver, shownVars
<1>2. \A s \in Ids : patches'[s] = IF s = e.session THEN new ELSE patches[s]
    BY <1>1 DEF ViewInv, LayersTell
<1>3. e.session \in Ids => PatchTells(chain, e.session, new)
    BY ApplyTells DEF ViewInv, LayersTell
<1>. HIDE DEF new
<1>4. \A s \in Ids : patches'[s] # None => PatchTells(chain, s, patches'[s])
    BY <1>2, <1>3 DEF ViewInv, LayersTell
<1>5. patches' \in [Ids -> Patches \cup {None}]
    <2>1. DOMAIN patches' = Ids /\ patches' = [s \in Ids |-> patches'[s]]
        BY <1>1 DEF ViewInv, LayersTell
    <2>2. \A s \in Ids : patches'[s] \in Patches \cup {None}
        BY <1>4 DEF PatchTells
    <2>. QED BY <2>1, <2>2
<1>. QED BY <1>1, <1>4, <1>5 DEF ViewInv, LayersTell, ShownIsKept, Item

LEMMA PruneKeeps ==
    ASSUME ViewInv, PruneEffect
    PROVE  ViewInv'
<1>1. /\ UNCHANGED <<chain, rows, publishedSettledItems, publishedOpenItems, published>>
      /\ patches' = [s \in Ids |->
            IF patches[s] # None /\ sessionRows[s] # None /\ CaughtUp(sessionRows[s], patches[s])
            THEN None ELSE patches[s]]
    BY DEF PruneEffect, shownVars, feedVars
<1>2. \A s \in Ids : patches'[s] \in {None, patches[s]}
    BY <1>1
<1>3. patches' \in [Ids -> Patches \cup {None}]
    <2>1. DOMAIN patches' = Ids /\ patches' = [s \in Ids |-> patches'[s]]
        BY <1>1
    <2>. QED BY <1>2, <2>1 DEF ViewInv, LayersTell
<1>. QED BY <1>1, <1>2, <1>3 DEF ViewInv, LayersTell, ShownIsKept, Item

\* The rows of a render, and what its layers give for a session.
RenderRows == IF walletReady THEN ListByPlayerAndGame ELSE NoRows
Layered(s) == MergedItem(RenderRows, s)

\* What a render makes of a session: nothing is lost, and a result stays.
RenderKeeps(s) ==
    /\ Kept(chain, s, publishedSettledItems'[s], publishedOpenItems'[s], Item(s)')
    /\ publishedSettledItems[s] # None \/ publishedOpenItems[s] # None => Item(s)' # None
    /\ publishedSettledItems[s] # None =>
          Item(s)'.settled /\ SameResult(publishedSettledItems[s], Item(s)')
    /\ Item(s)' = IF Layered(s) # None /\ (Layered(s).settled \/ publishedSettledItems[s] = None)
                  THEN Layered(s)
                  ELSE IF publishedSettledItems[s] # None THEN publishedSettledItems[s]
                  ELSE publishedOpenItems[s]

LEMMA LayeredTells ==
    ASSUME ViewInv, NEW s \in Ids
    PROVE  /\ ItemIs(chain, s, RenderRows[s], Layered(s))
           /\ RenderRows[s] # None =>
                 RenderRows[s] = rows[s] /\ RowTells(chain, s, RenderRows[s])
<1>1. RenderRows[s] # None => RenderRows[s] = rows[s]
    BY DEF RenderRows, ListByPlayerAndGame, NoRows
<1>2. RenderRows[s] # None => RowTells(chain, s, RenderRows[s])
    BY <1>1 DEF ViewInv, LayersTell
<1>3. patches[s] # None => PatchTells(chain, s, patches[s])
    BY DEF ViewInv, LayersTell
<1>. HIDE DEF RenderRows
<1>4. ItemIs(chain, s, RenderRows[s], Layered(s))
    BY <1>2, <1>3, MergedItemTells DEF Layered, ViewInv
<1>. QED BY <1>1, <1>2, <1>4

LEMMA RenderFacts ==
    ASSUME ViewInv, Render, NEW s \in Ids
    PROVE  RenderKeeps(s)
<1>. DEFINE item == Layered(s)
            row == RenderRows[s]
            new == Reconciled(item, row, publishedSettledItems[s], publishedOpenItems[s])
<1>1. /\ publishedSettledItems'[s] = new.settled /\ publishedOpenItems'[s] = new.open
      /\ Item(s)' = new.item
    BY DEF Render, Item, RenderRows, Layered
<1>2. /\ row # None => RowTells(chain, s, row)
      /\ ItemIs(chain, s, row, item)
    BY LayeredTells
<1>3. IsHistory(chain)
    BY DEF ViewInv
<1>4. Kept(chain, s, publishedSettledItems[s], publishedOpenItems[s], Item(s))
    BY DEF ViewInv, ShownIsKept
<1>. HIDE DEF item, row
<1>5. /\ Kept(chain, s, new.settled, new.open, new.item)
      /\ publishedSettledItems[s] # None \/ publishedOpenItems[s] # None => new.item # None
      /\ publishedSettledItems[s] # None =>
            new.item.settled /\ SameResult(publishedSettledItems[s], new.item)
      /\ new.item = IF item # None /\ (item.settled \/ publishedSettledItems[s] = None)
                    THEN item
                    ELSE IF publishedSettledItems[s] # None THEN publishedSettledItems[s]
                    ELSE publishedOpenItems[s]
    BY <1>2, <1>3, <1>4, ReconciledKeeps
<1>. HIDE DEF new
<1>6. /\ Kept(chain, s, publishedSettledItems'[s], publishedOpenItems'[s], Item(s)')
      /\ publishedSettledItems[s] # None \/ publishedOpenItems[s] # None => Item(s)' # None
    BY <1>1, <1>5
<1>7. publishedSettledItems[s] # None =>
            Item(s)'.settled /\ SameResult(publishedSettledItems[s], Item(s)')
    BY <1>1, <1>5
<1>8. Item(s)' = IF item # None /\ (item.settled \/ publishedSettledItems[s] = None)
                THEN item
                ELSE IF publishedSettledItems[s] # None THEN publishedSettledItems[s]
                ELSE publishedOpenItems[s]
    BY <1>1, <1>5
<1>. QED BY <1>6, <1>7, <1>8 DEF RenderKeeps, item

LEMMA RenderKeepsInv ==
    ASSUME ViewInv, Render
    PROVE  ViewInv'
<1>1. UNCHANGED <<chain, rows, patches>>
    BY DEF Render, feedVars
<1>2. \A s \in Ids :
          Kept(chain, s, publishedSettledItems'[s], publishedOpenItems'[s], Item(s)')
    BY RenderFacts DEF RenderKeeps
<1>3. ShownIsKept'
    BY <1>1, <1>2 DEF ShownIsKept
<1>. QED BY <1>1, <1>3 DEF ViewInv, LayersTell

\* Only a render changes what is shown and kept.
LEMMA OnlyRenders ==
    ASSUME [Next]_vars
    PROVE  Render \/ UNCHANGED <<publishedSettledItems, publishedOpenItems, published>>
BY DEF Next, Land, Bet, Accept, Receipt, Fail, Step, FlashDeliver, IndexDeliver, PruneEffect,
       SetWallet, shownVars, vars

LEMMA ViewNext ==
    ASSUME HostSnapshotAssumption, ViewInv, [Next]_vars
    PROVE  ViewInv'
<1>0. IsHistory(chain)
    BY DEF ViewInv
<1>1. ASSUME UNCHANGED <<chain, rows, patches, shownVars>> PROVE ViewInv'
    BY <1>1 DEF ViewInv, LayersTell, ShownIsKept, Item, shownVars
<1>2. CASE \E r \in Requests : Land(r)
    <2>1. PICK r \in Requests : Land(r)
        BY <1>2
    <2>2. IsHistory(chain') /\ Extends(chain, chain')
        BY <1>0, <2>1, LandGrows
    <2>3. UNCHANGED <<rows, patches, shownVars>>
        BY <2>1 DEF Land, feedVars
    <2>. QED BY <2>2, <2>3, ChainKeeps
<1>3. CASE \E s \in Ids : Step(s)
    <2>1. PICK s \in Ids : Step(s)
        BY <1>3
    <2>2. IsHistory(chain') /\ Extends(chain, chain')
        BY <1>0, <2>1, StepGrows
    <2>3. UNCHANGED <<rows, patches, shownVars>>
        BY <2>1 DEF Step, feedVars
    <2>. QED BY <2>2, <2>3, ChainKeeps
<1>4. CASE \E r \in Requests : Bet(r) \/ Accept(r) \/ Receipt(r) \/ Fail(r)
    <2>1. UNCHANGED <<chain, rows, patches, shownVars>>
        BY <1>4 DEF Bet, Accept, Receipt, Fail, feedVars
    <2>. QED BY <1>1, <2>1
<1>5. CASE \E i \in DOMAIN chain : FlashDeliver(i)
    BY <1>5, FlashDeliverKeeps
<1>6. CASE \E i \in DOMAIN chain : IndexDeliver(i)
    BY <1>6, IndexDeliverKeeps
<1>7. CASE Render
    BY <1>7, RenderKeepsInv
<1>8. CASE PruneEffect
    BY <1>8, PruneKeeps
<1>9. CASE SetWallet
    <2>1. UNCHANGED <<chain, rows, patches, shownVars>>
        BY <1>9 DEF SetWallet, feedVars
    <2>. QED BY <1>1, <2>1
<1>10. CASE UNCHANGED vars
    <2>1. UNCHANGED <<chain, rows, patches, shownVars>>
        BY <1>10 DEF vars, shownVars
    <2>. QED BY <1>1, <2>1
<1>. QED BY <1>2, <1>3, <1>4, <1>5, <1>6, <1>7, <1>8, <1>9, <1>10 DEF Next

-----------------------------------------------------------------------------
LEMMA ViewInvGivesShown == ASSUME ViewInv PROVE ShownAsOnChain
<1>. SUFFICES ASSUME NEW s \in Ids, Item(s) # None
              PROVE  IF Item(s).settled
                     THEN \E i \in SettlementOf(s) :
                             /\ Item(s).phase = chain[i].phase
                             /\ Item(s).payout = chain[i].payout
                             /\ Item(s).state = chain[i].state
                     ELSE /\ Item(s).payout = None
                          /\ Item(s).state # 0 =>
                                \E i \in EventsOf(s) : /\ chain[i].name = "Advanced"
                                                       /\ chain[i].state = Item(s).state
                                                       /\ chain[i].phase = Item(s).phase
    BY DEF ShownAsOnChain
<1>1. ItemTells(chain, s, Item(s))
    BY DEF ViewInv, ShownIsKept, Kept
<1>2. CASE Item(s).settled
    <2>1. SettlementTold(chain, s, Item(s))
        BY <1>1, <1>2 DEF ItemTells
    <2>2. \E i \in SettlementOf(s) : /\ Item(s).phase = chain[i].phase
                                     /\ Item(s).payout = chain[i].payout
                                     /\ Item(s).state = chain[i].state
        BY <2>1 DEF SettlementTold, SettlementOf, EventsOf
    <2>. QED BY <1>2, <2>2
<1>3. CASE ~Item(s).settled
    <2>1. Item(s).payout = None
        BY <1>1, <1>3 DEF ItemTells
    <2>2. ASSUME Item(s).state # 0
          PROVE  \E i \in EventsOf(s) : /\ chain[i].name = "Advanced"
                                        /\ chain[i].state = Item(s).state
                                        /\ chain[i].phase = Item(s).phase
        <3>1. StepTold(chain, s, Item(s))
            BY <1>1, <1>3, <2>2 DEF ItemTells
        <3>. QED BY <3>1 DEF StepTold, EventsOf
    <2>. QED BY <1>3, <2>1, <2>2
<1>. QED BY <1>2, <1>3

LEMMA ViewInvKeepsListed ==
    ASSUME ViewInv, [Next]_vars, NEW s \in Ids, Item(s) # None
    PROVE  /\ Item(s)' # None
           /\ Item(s).settled => Item(s)'.settled /\ SameResult(Item(s), Item(s)')
<1>1. CASE Render
    <2>1. RenderKeeps(s)
        BY <1>1, RenderFacts
    <2>2. Kept(chain, s, publishedSettledItems[s], publishedOpenItems[s], Item(s))
        BY DEF ViewInv, ShownIsKept
    <2>3. Item(s).settled => Item(s) = publishedSettledItems[s]
        BY <2>2 DEF Kept
    <2>. QED BY <2>1, <2>2, <2>3 DEF RenderKeeps, Kept
<1>2. CASE UNCHANGED <<publishedSettledItems, publishedOpenItems, published>>
    BY <1>2 DEF Item, SameResult
<1>. QED BY <1>1, <1>2, OnlyRenders

\* What a game is shown of a round is what some step of the chain has left, in
\* one piece (useHostSnapshot, mergeCasinoSessionItems).
THEOREM ViewSafety ==
    ASSUME HostSnapshotAssumption PROVE Spec => []ShownAsOnChain
<1>1. Init => ViewInv
    BY ViewInit
<1>2. ViewInv /\ [Next]_vars => ViewInv'
    BY ViewNext
<1>3. ViewInv => ShownAsOnChain
    BY ViewInvGivesShown
<1>. QED BY <1>1, <1>2, <1>3, PTL DEF Spec

\* A published result never regresses (reconcileMonotonicSessionItems).
THEOREM ResultSafety ==
    ASSUME HostSnapshotAssumption PROVE Spec => ResultNeverRegresses
<1>1. Init => ViewInv
    BY ViewInit
<1>2. ViewInv /\ [Next]_vars => ViewInv'
    BY ViewNext
<1>3. ViewInv /\ [Next]_vars =>
          \A s \in Ids : Item(s) # None /\ Item(s).settled =>
             /\ Item(s)' # None /\ Item(s)'.settled
             /\ Item(s)'.phase = Item(s).phase /\ Item(s)'.payout = Item(s).payout
             /\ Item(s)'.state = Item(s).state
    BY ViewInvKeepsListed DEF SameResult
<1>. QED BY <1>1, <1>2, <1>3, PTL DEF Spec, ResultNeverRegresses

\* A round that was shown stays in the list (reconcileMonotonicSessionItems).
THEOREM ListSafety ==
    ASSUME HostSnapshotAssumption PROVE Spec => RoundStaysListed
<1>1. Init => ViewInv
    BY ViewInit
<1>2. ViewInv /\ [Next]_vars => ViewInv'
    BY ViewNext
<1>3. ViewInv /\ [Next]_vars => \A s \in Ids : Item(s) # None => Item(s)' # None
    BY ViewInvKeepsListed
<1>. QED BY <1>1, <1>2, <1>3, PTL DEF Spec, RoundStaysListed

-----------------------------------------------------------------------------
(***************************************************************************)
(* The row of a bet, from its sending to the round it opens.               *)
(***************************************************************************)

OpensIn(c) == {i \in DOMAIN c : c[i].name = "Opened"}
OpensAs(c, r, s) == \E i \in OpensIn(c) : c[i].request = r /\ c[i].session = s
SeenOpen(c, seen, r) == \E i \in OpensIn(c) : i \in seen /\ c[i].request = r

\* A bet is in play when its turn has come, and lands at most then.
TurnsTaken ==
    /\ setting \in Settings
    /\ bets \in [Requests -> {"idle", "sending", "accepted", "done", "failed"}]
    /\ \A r \in Requests :
          /\ bets[r] # "idle" => r \in setting.bets
          /\ bets[r] \in {"accepted", "done", "failed"} \/ Landed(r) => Turn(r)
          /\ bets[r] = "done" => Landed(r)

\* The bets' opens follow the opens of earlier pages, in the order of the bets.
OpensFollow ==
    /\ \A i, j \in OpensIn(chain) :
          i < j /\ chain[i].request \in Requests
          => chain[j].request \in Requests /\ chain[i].request < chain[j].request
    /\ \E m \in 0..MaxBets :
          /\ m # 0 => Landed(m)
          /\ Cardinality(OpenedIds) + (MaxBets - m) <= MaxId
    /\ flashSeen \subseteq DOMAIN chain
    /\ \A i \in OpensIn(chain) \ flashSeen : chain[i].request \in Requests
    /\ setting.inOrder => \A i \in flashSeen : \A j \in 1..(i - 1) : j \in flashSeen

\* What the host keeps of opens is true.
EntriesTell ==
    /\ optimisticSessions \subseteq [request : Requests, session : Nat]
    /\ \A o \in optimisticSessions :
          /\ bets[o.request] # "idle"
          /\ o.session # Pending => OpensAs(chain, o.request, o.session)
    /\ \A c \in confirmedOpens : OpensAs(chain, c.request, c.session)
    /\ recentFlashblockOpens \in Seq([request : Nat, session : Nat])
    /\ \A j \in DOMAIN recentFlashblockOpens :
          OpensAs(chain, recentFlashblockOpens[j].request, recentFlashblockOpens[j].session)
    /\ pendingOpenTransactions \in Seq(Requests)
    /\ \A j \in DOMAIN pendingOpenTransactions :
          bets[pendingOpenTransactions[j]] \notin {"idle", "sending"}

\* An open that the flashblock channel has delivered is not lost while its bet
\* is in play, and one to come is looked for.
InPlay(r) ==
    /\ bets[r] = "sending" /\ SeenOpen(chain, flashSeen, r) => RecentOpens(r) # {}
    /\ bets[r] = "accepted" =>
          \/ \E c \in confirmedOpens : c.request = r
          \/ /\ ~SeenOpen(chain, flashSeen, r)
             /\ \E j \in DOMAIN pendingOpenTransactions : pendingOpenTransactions[j] = r

\* The round of the bet is indexed and shown.
Held(r) == \E s \in Ids : OpensAs(chain, r, s) /\ Item(s) # None /\ rows[s] # None

HasRow(r) == bets[r] \notin {"idle", "failed"} =>
                (\E o \in optimisticSessions : o.request = r) \/ Held(r)

RowsShown ==
    /\ \A s \in Ids : sessionRows[s] # None => Item(s) # None /\ rows[s] # None
    /\ \A r \in published.pending : r \in Requests /\ bets[r] # "idle"

BetInv ==
    /\ TurnsTaken /\ OpensFollow /\ EntriesTell /\ RowsShown
    /\ \A r \in Requests : InPlay(r) /\ HasRow(r)

\* Channels with fixed lags deliver in order; or there is one bet.
InOrderOrOneBet == \A x \in Settings : x.inOrder \/ \E r \in Requests : x.bets \subseteq {r}

-----------------------------------------------------------------------------
LEMMA BoundedFacts ==
    ASSUME NEW S, NEW seq \in Seq(S), NEW x \in S, HostSnapshotAssumption, setting \in Settings
    PROVE  /\ Bounded(seq, x) \in Seq(S)
           /\ \E j \in DOMAIN Bounded(seq, x) : Bounded(seq, x)[j] = x
           /\ \A j \in DOMAIN Bounded(seq, x) :
                 Bounded(seq, x)[j] = x \/ \E i \in DOMAIN seq : Bounded(seq, x)[j] = seq[i]
<1>. DEFINE kept == IF Len(seq) >= setting.openLimit THEN Tail(seq) ELSE seq
            new == Append(kept, x)
<1>1. new = Bounded(seq, x)
    BY DEF Bounded
<1>2. setting.openLimit \in Nat \ {0} /\ Len(seq) \in Nat
    BY LenProperties DEF HostSnapshotAssumption
<1>3. /\ kept \in Seq(S)
      /\ \A j \in 1..Len(kept) : \E i \in DOMAIN seq : kept[j] = seq[i]
    <2>1. CASE Len(seq) >= setting.openLimit
        <3>1. seq # <<>> /\ kept = Tail(seq)
            BY <1>2, <2>1
        <3>2. /\ Tail(seq) \in Seq(S) /\ Len(Tail(seq)) = Len(seq) - 1
              /\ \A j \in 1..Len(Tail(seq)) : Tail(seq)[j] = seq[j + 1]
            BY <3>1, HeadTailProperties
        <3>3. \A j \in 1..(Len(seq) - 1) : j + 1 \in DOMAIN seq
            BY <1>2, LenProperties
        <3>. QED BY <3>1, <3>2, <3>3
    <2>2. CASE ~(Len(seq) >= setting.openLimit)
        BY <2>2, LenProperties
    <2>. QED BY <2>1, <2>2
<1>. HIDE DEF kept
<1>4. /\ new \in Seq(S) /\ Len(new) = Len(kept) + 1 /\ Len(kept) \in Nat
      /\ \A j \in 1..Len(kept) : new[j] = kept[j]
      /\ new[Len(kept) + 1] = x /\ DOMAIN new = 1..(Len(kept) + 1)
    BY <1>3, AppendProperties, LenProperties
<1>. HIDE DEF new
<1>5. \A j \in DOMAIN new : j = Len(kept) + 1 \/ j \in 1..Len(kept)
    BY <1>4
<1>6. Len(kept) + 1 \in DOMAIN new
    BY <1>4
<1>. QED BY <1>1, <1>3, <1>4, <1>5, <1>6

\* Nothing goes, or the entry at one place does.
LEMMA WithoutIs ==
    ASSUME NEW S, NEW seq \in Seq(S), NEW x
    PROVE  /\ Without(seq, x) \in Seq(S)
           /\ \/ Without(seq, x) = seq /\ \A i \in DOMAIN seq : seq[i] # x
              \/ \E k \in 1..Len(seq) :
                    /\ seq[k] = x /\ DOMAIN Without(seq, x) = 1..(Len(seq) - 1)
                    /\ \A i \in 1..(Len(seq) - 1) :
                          Without(seq, x)[i] = IF i < k THEN seq[i] ELSE seq[i + 1]
<1>. DEFINE new == Without(seq, x)
<1>1. DOMAIN seq = 1..Len(seq) /\ Len(seq) \in Nat /\ \A j \in DOMAIN seq : seq[j] \in S
    BY LenProperties, ElementOfSeq
<1>2. CASE \A i \in DOMAIN seq : seq[i] # x
    BY <1>2 DEF Without
<1>3. CASE \E i \in DOMAIN seq : seq[i] = x
    <2>. DEFINE k == CHOOSE j \in DOMAIN seq : seq[j] = x
                before == SubSeq(seq, 1, k - 1)
                after == SubSeq(seq, k + 1, Len(seq))
    <2>1. k \in DOMAIN seq /\ seq[k] = x
        BY <1>3
    <2>2. new = before \o after
        BY <1>3 DEF Without
    <2>. HIDE DEF k, new
    <2>3. k \in 1..Len(seq)
        BY <1>1, <2>1
    <2>4. /\ before \in Seq(S) /\ Len(before) = k - 1
          /\ \A i \in 1..(k - 1) : before[i] = seq[i]
        <3>1. \A i \in 1..(k - 1) : seq[i] \in S
            BY <1>1, <2>3
        <3>. HIDE DEF before
        <3>2. 1 \in Int /\ k - 1 \in Int
            BY <1>1, <2>3
        <3>3. /\ SubSeq(seq, 1, k - 1) \in Seq(S)
              /\ Len(SubSeq(seq, 1, k - 1)) = IF 1 <= k - 1 THEN k - 1 - 1 + 1 ELSE 0
              /\ \A i \in 1..(k - 1 - 1 + 1) : SubSeq(seq, 1, k - 1)[i] = seq[1 + i - 1]
            BY <3>1, <3>2, SubSeqProperties
        <3>. QED BY <1>1, <2>3, <3>3 DEF before
    <2>5. /\ after \in Seq(S) /\ Len(after) = Len(seq) - k
          /\ \A i \in 1..(Len(seq) - k) : after[i] = seq[k + i]
        <3>1. \A i \in (k + 1)..Len(seq) : seq[i] \in S
            BY <1>1, <2>3
        <3>2. k + 1 \in Int /\ Len(seq) \in Int
            BY <1>1, <2>3
        <3>. HIDE DEF after
        <3>3. /\ SubSeq(seq, k + 1, Len(seq)) \in Seq(S)
              /\ Len(SubSeq(seq, k + 1, Len(seq))) =
                    IF k + 1 <= Len(seq) THEN Len(seq) - (k + 1) + 1 ELSE 0
              /\ \A i \in 1..(Len(seq) - (k + 1) + 1) :
                    SubSeq(seq, k + 1, Len(seq))[i] = seq[k + 1 + i - 1]
            BY <3>1, <3>2, SubSeqProperties
        <3>4. /\ Len(seq) - (k + 1) + 1 = Len(seq) - k
              /\ (IF k + 1 <= Len(seq) THEN Len(seq) - (k + 1) + 1 ELSE 0) = Len(seq) - k
              /\ \A i \in 1..(Len(seq) - k) : k + 1 + i - 1 = k + i
            <4>1. ASSUME NEW n \in Nat, NEW m \in 1..n
                  PROVE  /\ n - (m + 1) + 1 = n - m
                         /\ (IF m + 1 <= n THEN n - (m + 1) + 1 ELSE 0) = n - m
                         /\ \A i \in 1..(n - m) : m + 1 + i - 1 = m + i
                <5>1. n - (m + 1) + 1 = n - m /\ m <= n
                    OBVIOUS
                <5>2. CASE m = n
                    BY <5>1, <5>2
                <5>3. CASE m + 1 <= n
                    BY <5>1, <5>3
                <5>. QED BY <5>1, <5>2, <5>3
            <4>. QED BY <1>1, <2>3, <4>1
        <3>. QED BY <3>3, <3>4 DEF after
    <2>. HIDE DEF before, after
    <2>6. /\ new \in Seq(S) /\ DOMAIN new = 1..(Len(seq) - 1)
          /\ \A i \in 1..(Len(seq) - 1) : new[i] = IF i <= k - 1 THEN before[i] ELSE after[i - (k - 1)]
        <3>1. /\ before \o after \in Seq(S)
              /\ Len(before \o after) = Len(before) + Len(after)
              /\ \A i \in 1..(Len(before) + Len(after)) :
                    (before \o after)[i] = IF i <= Len(before) THEN before[i]
                                           ELSE after[i - Len(before)]
            BY <2>4, <2>5, ConcatProperties
        <3>2. k - 1 + (Len(seq) - k) = Len(seq) - 1
            BY <1>1, <2>3
        <3>3. DOMAIN new = 1..Len(new)
            BY <2>2, <3>1, LenProperties
        <3>. QED BY <2>2, <2>4, <2>5, <3>1, <3>2, <3>3
    <2>7. \A i \in 1..(Len(seq) - 1) : new[i] = IF i < k THEN seq[i] ELSE seq[i + 1]
        <3>. SUFFICES ASSUME NEW i \in 1..(Len(seq) - 1)
                      PROVE  new[i] = IF i < k THEN seq[i] ELSE seq[i + 1]
            OBVIOUS
        <3>1. CASE i < k
            <4>1. i \in 1..(k - 1) /\ i <= k - 1
                BY <1>1, <2>3, <3>1
            <4>. QED BY <2>4, <2>6, <3>1, <4>1
        <3>2. CASE ~(i < k)
            <4>1. i - (k - 1) \in 1..(Len(seq) - k) /\ k + (i - (k - 1)) = i + 1 /\ ~(i <= k - 1)
                BY <1>1, <2>3, <3>2
            <4>. QED BY <2>5, <2>6, <3>2, <4>1
        <3>. QED BY <3>1, <3>2
    <2>. QED BY <2>1, <2>3, <2>6, <2>7 DEF new
<1>. QED BY <1>2, <1>3

LEMMA WithoutFacts ==
    ASSUME NEW S, NEW seq \in Seq(S), NEW x
    PROVE  /\ Without(seq, x) \in Seq(S)
           /\ \A j \in DOMAIN Without(seq, x) : \E i \in DOMAIN seq : Without(seq, x)[j] = seq[i]
<1>. DEFINE new == Without(seq, x)
<1>1. DOMAIN seq = 1..Len(seq) /\ Len(seq) \in Nat /\ new \in Seq(S)
    BY LenProperties, WithoutIs
<1>2. CASE new = seq
    BY <1>1, <1>2
<1>3. ASSUME NEW k \in 1..Len(seq), DOMAIN new = 1..(Len(seq) - 1),
             \A i \in 1..(Len(seq) - 1) : new[i] = IF i < k THEN seq[i] ELSE seq[i + 1]
      PROVE  \A j \in DOMAIN new : \E i \in DOMAIN seq : new[j] = seq[i]
    <2>. HIDE DEF new
    <2>. SUFFICES ASSUME NEW j \in 1..(Len(seq) - 1) PROVE \E i \in DOMAIN seq : new[j] = seq[i]
        BY <1>3
    <2>1. j \in DOMAIN seq /\ j + 1 \in DOMAIN seq
        BY <1>1
    <2>. QED BY <1>3, <2>1
<1>4. \/ new = seq
      \/ \E k \in 1..Len(seq) :
            /\ DOMAIN new = 1..(Len(seq) - 1)
            /\ \A i \in 1..(Len(seq) - 1) : new[i] = IF i < k THEN seq[i] ELSE seq[i + 1]
    BY WithoutIs
<1>5. \A j \in DOMAIN new : \E i \in DOMAIN seq : new[j] = seq[i]
    <2>. HIDE DEF new
    <2>. QED BY <1>2, <1>3, <1>4
<1>. QED BY <1>1, <1>5

LEMMA WithoutKeeps ==
    ASSUME NEW S, NEW seq \in Seq(S), NEW x, NEW i \in DOMAIN seq, seq[i] # x
    PROVE  \E j \in DOMAIN Without(seq, x) : Without(seq, x)[j] = seq[i]
<1>. DEFINE new == Without(seq, x)
<1>1. DOMAIN seq = 1..Len(seq) /\ Len(seq) \in Nat /\ i \in 1..Len(seq)
    BY LenProperties
<1>2. CASE new = seq
    BY <1>2
<1>3. ASSUME NEW k \in 1..Len(seq), seq[k] = x, DOMAIN new = 1..(Len(seq) - 1),
             \A j \in 1..(Len(seq) - 1) : new[j] = IF j < k THEN seq[j] ELSE seq[j + 1]
      PROVE  \E j \in DOMAIN new : new[j] = seq[i]
    <2>. HIDE DEF new
    <2>1. CASE i < k
        <3>1. i \in 1..(Len(seq) - 1)
            BY <1>1, <2>1
        <3>. QED BY <1>3, <2>1, <3>1
    <2>2. CASE i > k
        <3>1. i - 1 \in 1..(Len(seq) - 1) /\ ~(i - 1 < k) /\ i - 1 + 1 = i
            BY <1>1, <2>2
        <3>. QED BY <1>3, <3>1
    <2>3. i < k \/ i > k
        BY <1>1, <1>3
    <2>. QED BY <2>1, <2>2, <2>3
<1>. QED BY <1>2, <1>3, WithoutIs

LEMMA ConfirmedFacts ==
    ASSUME optimisticSessions \subseteq [request : Requests, session : Nat],
           NEW r \in Requests, NEW s \in Nat
    PROVE  /\ Confirmed(r, s) \subseteq [request : Requests, session : Nat]
           /\ \A o \in Confirmed(r, s) :
                 \/ o \in optimisticSessions /\ o.request # r
                 \/ /\ o = [request |-> r, session |-> s]
                    /\ \E p \in optimisticSessions : p.request = r
           /\ \A p \in optimisticSessions : \E o \in Confirmed(r, s) : o.request = p.request
           /\ (\E p \in optimisticSessions : p.request = r) =>
                 [request |-> r, session |-> s] \in Confirmed(r, s)
<1>1. \A o \in optimisticSessions :
          o.request = r => [o EXCEPT !.session = s] = [request |-> r, session |-> s]
    OBVIOUS
<1>2. Confirmed(r, s) = {IF o.request = r THEN [request |-> r, session |-> s] ELSE o :
                            o \in optimisticSessions}
    BY <1>1 DEF Confirmed
<1>. QED BY <1>2

-----------------------------------------------------------------------------
\* The opens of a chain that grows

LEMMA AppendOpens ==
    ASSUME NEW c \in Seq(Events), NEW e \in Events
    PROVE  /\ OpensIn(Append(c, e)) =
                 OpensIn(c) \cup (IF e.name = "Opened" THEN {Len(c) + 1} ELSE {})
           /\ Append(c, e) \in Seq(Events) /\ Len(Append(c, e)) = Len(c) + 1
           /\ Append(c, e)[Len(c) + 1] = e
           /\ \A i \in DOMAIN c : Append(c, e)[i] = c[i]
<1>. DEFINE d == Append(c, e)
<1>1. /\ d \in Seq(Events) /\ Len(d) = Len(c) + 1 /\ Len(c) \in Nat
      /\ DOMAIN c = 1..Len(c) /\ DOMAIN d = 1..(Len(c) + 1)
      /\ \A i \in DOMAIN c : d[i] = c[i]
      /\ d[Len(c) + 1] = e
    BY AppendProperties, LenProperties
<1>. HIDE DEF d
<1>2. DOMAIN d = DOMAIN c \cup {Len(c) + 1}
    BY <1>1
<1>3. OpensIn(d) = OpensIn(c) \cup (IF e.name = "Opened" THEN {Len(c) + 1} ELSE {})
    <2>1. CASE e.name = "Opened"
        <3>1. OpensIn(d) = OpensIn(c) \cup {Len(c) + 1}
            BY <1>1, <1>2, <2>1 DEF OpensIn
        <3>. QED BY <2>1, <3>1
    <2>2. CASE e.name # "Opened"
        <3>1. OpensIn(d) = OpensIn(c)
            BY <1>1, <1>2, <2>2 DEF OpensIn
        <3>. QED BY <2>2, <3>1
    <2>. QED BY <2>1, <2>2
<1>. QED BY <1>1, <1>3 DEF d

\* The chain may get one new open, at its end.
SameOpens(c, d) == /\ OpensIn(d) = OpensIn(c) /\ Extends(c, d)
NewOpen(c, d, s, r) ==
    /\ Extends(c, d)
    /\ \E k \in Nat : /\ OpensIn(d) = OpensIn(c) \cup {k}
                      /\ \A i \in DOMAIN c : i \in Nat /\ i < k
                      /\ k \in DOMAIN d /\ d[k].session = s /\ d[k].request = r

LEMMA StepOpens ==
    ASSUME HostSnapshotAssumption, IsHistory(chain), NEW s \in Ids, Step(s)
    PROVE  SameOpens(chain, chain')
<1>1. chain \in Seq(Events)
    BY DEF IsHistory
<1>2. Extends(chain, chain')
    BY StepGrows
<1>3. PICK e \in Events : e.name # "Opened" /\ chain' = Append(chain, e)
    BY StepGrows
<1>4. OpensIn(chain') = OpensIn(chain)
    <2>1. OpensIn(chain') = OpensIn(chain) \cup (IF e.name = "Opened" THEN {Len(chain) + 1} ELSE {})
        BY <1>1, <1>3, AppendOpens
    <2>. QED BY <1>3, <2>1
<1>. QED BY <1>2, <1>4 DEF SameOpens

LEMMA LandOpens ==
    ASSUME HostSnapshotAssumption, IsHistory(chain), NEW r \in Requests, Land(r)
    PROVE  NewOpen(chain, chain', Cardinality(OpenedIds) + 1, r)
<1>. DEFINE s == Cardinality(OpenedIds) + 1
            o == Opened(s, r)
            middle == Append(chain, o)
            k == Len(chain) + 1
<1>1. chain \in Seq(Events) /\ DOMAIN chain = 1..Len(chain) /\ Len(chain) \in Nat
    BY LenProperties DEF IsHistory
<1>2. PICK e \in Events : e.name # "Opened" /\ chain' = Append(middle, e)
    BY LandGrows
<1>3. s \in Nat
    <2>1. PICK n \in 0..Len(chain) : OpenedIn(chain) = 1..n
        BY DEF IsHistory
    <2>2. n \in Nat
        BY <1>1, <2>1
    <2>3. Cardinality(1..n) = n
        BY <2>2, FS_Interval
    <2>. QED BY <2>1, <2>2, <2>3 DEF OpenedIds
<1>4. Extends(chain, chain')
    BY LandGrows
<1>. HIDE DEF s
<1>5. o \in Events /\ o.name = "Opened" /\ o.session = s /\ o.request = r
    BY <1>3 DEF Opened, Events, Requests
<1>. HIDE DEF o
<1>6. /\ OpensIn(middle) = OpensIn(chain) \cup {k} /\ middle \in Seq(Events)
      /\ Len(middle) = k /\ middle[k] = o
    BY <1>1, <1>5, AppendOpens
<1>. HIDE DEF middle
<1>7. /\ OpensIn(chain') = OpensIn(middle) /\ \A i \in DOMAIN middle : chain'[i] = middle[i]
      /\ chain' \in Seq(Events) /\ Len(chain') = k + 1
    BY <1>2, <1>6, AppendOpens
<1>8. k \in DOMAIN middle /\ k \in DOMAIN chain'
    BY <1>1, <1>6, <1>7, LenProperties
<1>9. \A i \in DOMAIN chain : i \in Nat /\ i < k
    BY <1>1
<1>10. k \in Nat
    BY <1>1
<1>11. OpensIn(chain') = OpensIn(chain) \cup {k}
    BY <1>6, <1>7
<1>12. chain'[k].session = s /\ chain'[k].request = r
    BY <1>5, <1>6, <1>7, <1>8
<1>. HIDE DEF k
<1>. QED BY <1>4, <1>8, <1>9, <1>10, <1>11, <1>12 DEF NewOpen, s

LEMMA LandedIsOpen ==
    ASSUME NEW r PROVE Landed(r) <=> \E i \in OpensIn(chain) : chain[i].request = r
BY DEF Landed, OpensIn

\* A bet opens one session.
LEMMA OneOpen ==
    ASSUME IsHistory(chain), OpensFollow, NEW r \in Requests,
           NEW i \in OpensIn(chain), chain[i].request = r,
           NEW j \in OpensIn(chain), chain[j].request = r
    PROVE  i = j
<1>1. i \in Nat /\ j \in Nat
    BY LenProperties DEF IsHistory, OpensIn
<1>2. ~(i < j) /\ ~(j < i)
    <2>1. r \in Nat
        BY DEF Requests
    <2>. QED BY <2>1 DEF OpensFollow
<1>. QED BY <1>1, <1>2

LEMMA OpenSession ==
    ASSUME IsHistory(chain), OpensFollow, NEW r \in Requests
    PROVE  /\ Landed(r) => OpensAs(chain, r, SessionOf(r)) /\ SessionOf(r) \in Nat
           /\ \A s : OpensAs(chain, r, s) => s = SessionOf(r) /\ Landed(r)
<1>1. ASSUME Landed(r)
      PROVE  \E i \in OpensIn(chain) : chain[i].request = r /\ SessionOf(r) = chain[i].session
    BY <1>1 DEF Landed, OpensIn, SessionOf
<1>2. ASSUME Landed(r) PROVE OpensAs(chain, r, SessionOf(r)) /\ SessionOf(r) \in Nat
    BY <1>1, <1>2, EventFacts DEF OpensAs, OpensIn
<1>3. ASSUME NEW s, OpensAs(chain, r, s) PROVE s = SessionOf(r) /\ Landed(r)
    <2>1. PICK i \in OpensIn(chain) : chain[i].request = r /\ chain[i].session = s
        BY <1>3 DEF OpensAs
    <2>2. Landed(r)
        BY <2>1, LandedIsOpen
    <2>. QED BY <1>1, <2>1, <2>2, OneOpen
<1>. QED BY <1>2, <1>3

\* Every session of a bet has an id that the page counts up to.
LEMMA OpenedInIds ==
    ASSUME HostSnapshotAssumption, IsHistory(chain), OpensFollow, NEW r, NEW s, OpensAs(chain, r, s)
    PROVE  s \in Ids
<1>1. PICK n \in 0..Len(chain) : OpenedIn(chain) = 1..n
    BY DEF IsHistory
<1>2. n \in Nat /\ Cardinality(OpenedIds) = n
    <2>1. n \in Nat
        BY <1>1, LenProperties DEF IsHistory
    <2>2. Cardinality(1..n) = n
        BY <2>1, FS_Interval
    <2>. QED BY <1>1, <2>1, <2>2 DEF OpenedIds
<1>3. n <= MaxId
    <2>1. PICK m \in 0..MaxBets : Cardinality(OpenedIds) + (MaxBets - m) <= MaxId
        BY DEF OpensFollow
    <2>. QED BY <1>2, <2>1 DEF HostSnapshotAssumption
<1>4. s \in 1..n
    BY <1>1 DEF OpensAs, OpensIn, OpenedIn
<1>. QED BY <1>2, <1>3, <1>4 DEF Ids, HostSnapshotAssumption

-----------------------------------------------------------------------------
(***************************************************************************)
(* The bets take turns.                                                    *)
(***************************************************************************)

Places(r) == bets[r] = "idle" /\ bets'[r] = "sending" /\ r \in setting.bets
Answered(r) == /\ Turn(r) /\ bets[r] \in {"sending", "accepted"}
               /\ bets'[r] \in {"accepted", "done", "failed"}
               /\ bets'[r] = "done" => Landed(r)

BetsMove ==
    /\ setting' = setting
    /\ bets' \in [Requests -> {"idle", "sending", "accepted", "done", "failed"}]
    /\ \A r \in Requests : bets'[r] = bets[r] \/ Places(r) \/ Answered(r)
    /\ \A r \in Requests : /\ Landed(r) => Landed(r)'
                           /\ Landed(r)' => Landed(r) \/ Turn(r)

LEMMA LandedStays ==
    ASSUME chain' = chain \/ SameOpens(chain, chain')
    PROVE  \A r : Landed(r)' <=> Landed(r)
<1>1. CASE chain' = chain
    BY <1>1 DEF Landed
<1>2. CASE SameOpens(chain, chain')
    BY <1>2 DEF SameOpens, Extends, Landed, OpensIn
<1>. QED BY <1>1, <1>2

LEMMA BetsMoveOn ==
    ASSUME HostSnapshotAssumption, IsHistory(chain), TurnsTaken, [Next]_vars
    PROVE  BetsMove
<1>0. bets \in [Requests -> {"idle", "sending", "accepted", "done", "failed"}]
    BY DEF TurnsTaken
<1>1. ASSUME UNCHANGED <<setting, bets>>, chain' = chain \/ SameOpens(chain, chain')
      PROVE  BetsMove
    BY <1>0, <1>1, LandedStays DEF BetsMove
<1>2. ASSUME NEW r \in Requests, NEW x \in {"idle", "sending", "accepted", "done", "failed"},
             UNCHANGED <<setting, chain>>, bets' = [bets EXCEPT ![r] = x], Places(r) \/ Answered(r)
      PROVE  BetsMove
    BY <1>0, <1>2, LandedStays DEF BetsMove
<1>3. ASSUME NEW r \in Requests, Land(r) PROVE BetsMove
    <2>1. NewOpen(chain, chain', Cardinality(OpenedIds) + 1, r)
        BY <1>3, LandOpens
    <2>2. \A q \in Requests : /\ Landed(q) => Landed(q)'
                              /\ Landed(q)' => Landed(q) \/ q = r
        <3>1. \A q \in Requests : Landed(q)' <=> \E i \in OpensIn(chain') : chain'[i].request = q
            BY DEF Landed, OpensIn
        <3>. QED BY <2>1, <3>1, LandedIsOpen DEF NewOpen, Extends, OpensIn
    <2>3. Turn(r) /\ UNCHANGED <<setting, bets>>
        BY <1>3 DEF Land, sendVars, walletVars
    <2>. QED BY <1>0, <2>2, <2>3 DEF BetsMove
<1>4. ASSUME NEW s \in Ids, Step(s) PROVE BetsMove
    BY <1>1, <1>4, StepOpens DEF Step, sendVars, walletVars
<1>5. ASSUME NEW r \in Requests, Bet(r) PROVE BetsMove
    <2>1. Places(r)
        BY <1>0, <1>5 DEF Bet, Places
    <2>. QED BY <1>2, <1>5, <2>1 DEF Bet, walletVars
<1>6. ASSUME NEW r \in Requests, Accept(r) PROVE BetsMove
    <2>1. Answered(r)
        BY <1>0, <1>6 DEF Accept, Answered
    <2>. QED BY <1>2, <1>6, <2>1 DEF Accept, walletVars
<1>7. ASSUME NEW r \in Requests, Receipt(r) PROVE BetsMove
    <2>1. Answered(r)
        BY <1>0, <1>7 DEF Receipt, Answered, TurnsTaken
    <2>. QED BY <1>2, <1>7, <2>1 DEF Receipt, walletVars
<1>8. ASSUME NEW r \in Requests, Fail(r) PROVE BetsMove
    <2>1. Answered(r)
        BY <1>0, <1>8 DEF Fail, Answered
    <2>. QED BY <1>2, <1>8, <2>1 DEF Fail, walletVars
<1>9. CASE (\E i \in DOMAIN chain : FlashDeliver(i) \/ IndexDeliver(i))
               \/ Render \/ PruneEffect \/ SetWallet \/ UNCHANGED vars
    BY <1>1, <1>9
       DEF FlashDeliver, IndexDeliver, Render, PruneEffect, SetWallet, vars, sendVars, walletVars
<1>. QED BY <1>3, <1>4, <1>5, <1>6, <1>7, <1>8, <1>9 DEF Next

LEMMA TurnsNext ==
    ASSUME HostSnapshotAssumption, TurnsTaken, BetsMove
    PROVE  TurnsTaken'
<1>1. ASSUME NEW r \in Requests, Turn(r) PROVE Turn(r)'
    <2>1. bets'[r] # "idle"
        BY <1>1 DEF Turn, BetsMove, Places, Answered
    <2>2. ASSUME NEW q \in setting.bets, q < r PROVE bets'[q] \in {"done", "failed"}
        <3>1. bets[q] \in {"done", "failed"}
            BY <1>1, <2>2 DEF Turn
        <3>2. q \in Requests
            BY <2>2 DEF TurnsTaken, HostSnapshotAssumption
        <3>. QED BY <3>1, <3>2 DEF BetsMove, Places, Answered
    <2>. QED BY <2>1, <2>2 DEF Turn, BetsMove
<1>2. ASSUME NEW r \in Requests
      PROVE  /\ bets'[r] # "idle" => r \in setting.bets
             /\ bets'[r] \in {"accepted", "done", "failed"} \/ Landed(r)' => Turn(r)
             /\ bets'[r] = "done" => Landed(r)'
    BY DEF TurnsTaken, BetsMove, Places, Answered, Turn
<1>3. setting' = setting /\ bets' \in [Requests -> {"idle", "sending", "accepted", "done", "failed"}]
    BY DEF BetsMove
<1>. QED BY <1>1, <1>2, <1>3 DEF TurnsTaken

-----------------------------------------------------------------------------
\* The opens follow each other.

LEMMA OpensAfterLand ==
    ASSUME HostSnapshotAssumption, IsHistory(chain), TurnsTaken, OpensFollow,
           NEW r \in Requests, Land(r)
    PROVE  OpensFollow'
<1>. DEFINE s == Cardinality(OpenedIds) + 1
<1>0. UNCHANGED <<flashSeen, setting>>
    BY DEF Land, feedVars, walletVars
<1>1. PICK k \in Nat : /\ OpensIn(chain') = OpensIn(chain) \cup {k}
                       /\ \A i \in DOMAIN chain : i \in Nat /\ i < k
                       /\ k \in DOMAIN chain' /\ chain'[k].session = s /\ chain'[k].request = r
    BY LandOpens DEF NewOpen
<1>2. Extends(chain, chain') /\ IsHistory(chain')
    BY LandGrows
<1>3. \A q \in r..MaxBets : ~Landed(q)
    BY DEF Land
<1>4. \A i \in OpensIn(chain) : /\ i \in DOMAIN chain /\ chain'[i] = chain[i] /\ i < k
                                /\ chain[i].request \in Requests => chain[i].request < r
    <2>1. \A i \in OpensIn(chain) : chain[i].request \in Requests => chain[i].request < r
        <3>. SUFFICES ASSUME NEW i \in OpensIn(chain), chain[i].request \in Requests
                      PROVE  chain[i].request < r
            OBVIOUS
        <3>1. Landed(chain[i].request)
            BY LandedIsOpen
        <3>2. chain[i].request \notin r..MaxBets
            BY <1>3, <3>1
        <3>. QED BY <3>2 DEF Requests, HostSnapshotAssumption
    <2>. QED BY <1>1, <1>2, <2>1 DEF Extends, OpensIn
<1>5. ASSUME NEW i \in OpensIn(chain'), NEW j \in OpensIn(chain'), i < j,
             chain'[i].request \in Requests
      PROVE  chain'[j].request \in Requests /\ chain'[i].request < chain'[j].request
    <2>1. CASE j = k
        <3>1. i # k
            BY <1>1, <1>5, <2>1
        <3>. QED BY <1>1, <1>4, <1>5, <2>1, <3>1
    <2>2. CASE j # k
        <3>1. j \in OpensIn(chain)
            BY <1>1, <2>2
        <3>2. i # k
            BY <1>1, <1>4, <1>5, <3>1
        <3>. QED BY <1>1, <1>4, <1>5, <3>1, <3>2 DEF OpensFollow
    <2>. QED BY <2>1, <2>2
<1>6. PICK m \in 0..MaxBets : /\ m # 0 => Landed(m)
                              /\ Cardinality(OpenedIds) + (MaxBets - m) <= MaxId
    BY DEF OpensFollow
<1>7. m < r
    <2>1. r \in 1..MaxBets /\ MaxBets \in Nat
        BY DEF Requests, HostSnapshotAssumption
    <2>2. m \notin r..MaxBets
        BY <1>3, <1>6, <2>1
    <2>. QED BY <1>6, <2>1, <2>2
<1>8. Cardinality(OpenedIds') = Cardinality(OpenedIds) + 1 /\ Cardinality(OpenedIds) \in Nat
    <2>1. PICK n \in 0..Len(chain) : OpenedIn(chain) = 1..n
        BY DEF IsHistory
    <2>2. n \in Nat
        BY <2>1, LenProperties DEF IsHistory
    <2>3. Cardinality(1..n) = n /\ Cardinality(1..(n + 1)) = n + 1
        <3>1. n + 1 \in Nat /\ 1..n = 1..n
            BY <2>2
        <3>2. Cardinality(1..n) = n
            BY <2>2, FS_Interval
        <3>3. Cardinality(1..(n + 1)) = n + 1
            BY <2>2, <3>1, FS_Interval
        <3>. QED BY <3>2, <3>3
    <2>4. OpenedIn(chain') = {chain'[i].session : i \in OpensIn(chain')}
        BY DEF OpenedIn, OpensIn
    <2>5. OpenedIn(chain) = {chain[i].session : i \in OpensIn(chain)}
        BY DEF OpenedIn, OpensIn
    <2>6. OpenedIn(chain') = OpenedIn(chain) \cup {s}
        BY <1>1, <1>4, <2>4, <2>5
    <2>7. OpenedIn(chain') = 1..(n + 1)
        BY <2>1, <2>2, <2>3, <2>6 DEF OpenedIds
    <2>. QED BY <2>1, <2>2, <2>3, <2>7 DEF OpenedIds
<1>9. \E x \in 0..MaxBets : /\ x # 0 => Landed(x)'
                            /\ Cardinality(OpenedIds') + (MaxBets - x) <= MaxId
    <2>1. Landed(r)'
        BY <1>1 DEF Landed, OpensIn
    <2>2. r \in 0..MaxBets /\ MaxBets \in Nat /\ MaxId \in Nat /\ r \in Nat
        BY DEF Requests, HostSnapshotAssumption
    <2>3. Cardinality(OpenedIds') + (MaxBets - r) <= MaxId
        BY <1>6, <1>7, <1>8, <2>2
    <2>. QED BY <2>1, <2>2, <2>3
<1>10. flashSeen \subseteq DOMAIN chain'
    BY <1>2 DEF OpensFollow, Extends
<1>11. \A i \in OpensIn(chain') \ flashSeen : chain'[i].request \in Requests
    BY <1>1, <1>4 DEF OpensFollow
<1>12. setting.inOrder => \A i \in flashSeen : \A j \in 1..(i - 1) : j \in flashSeen
    BY DEF OpensFollow
<1>. QED BY <1>0, <1>5, <1>9, <1>10, <1>11, <1>12 DEF OpensFollow

LEMMA OpensNext ==
    ASSUME HostSnapshotAssumption, IsHistory(chain), TurnsTaken, OpensFollow, [Next]_vars
    PROVE  OpensFollow'
<1>1. CASE \E r \in Requests : Land(r)
    BY <1>1, OpensAfterLand
<1>2. CASE \E s \in Ids : Step(s)
    <2>1. PICK s \in Ids : Step(s)
        BY <1>2
    <2>2. SameOpens(chain, chain')
        BY <2>1, StepOpens
    <2>3. \A i \in OpensIn(chain) : chain'[i] = chain[i]
        BY <2>2 DEF SameOpens, Extends, OpensIn
    <2>4. OpenedIds' = OpenedIds
        <3>1. OpenedIn(chain') = {chain'[i].session : i \in OpensIn(chain')}
            BY DEF OpenedIn, OpensIn
        <3>2. OpenedIn(chain) = {chain[i].session : i \in OpensIn(chain)}
            BY DEF OpenedIn, OpensIn
        <3>. QED BY <2>2, <2>3, <3>1, <3>2 DEF OpenedIds, SameOpens
    <2>5. \A q : Landed(q)' <=> Landed(q)
        BY <2>2, LandedStays
    <2>6. UNCHANGED <<flashSeen, setting>>
        BY <2>1 DEF Step, feedVars, walletVars
    <2>7. flashSeen \subseteq DOMAIN chain'
        BY <2>2 DEF SameOpens, Extends, OpensFollow
    <2>8. \E m \in 0..MaxBets : /\ m # 0 => Landed(m)'
                                /\ Cardinality(OpenedIds') + (MaxBets - m) <= MaxId
        BY <2>4, <2>5 DEF OpensFollow
    <2>9. /\ \A i, j \in OpensIn(chain') :
                i < j /\ chain'[i].request \in Requests
                => chain'[j].request \in Requests /\ chain'[i].request < chain'[j].request
          /\ \A i \in OpensIn(chain') \ flashSeen : chain'[i].request \in Requests
          /\ setting.inOrder => \A i \in flashSeen : \A j \in 1..(i - 1) : j \in flashSeen
        BY <2>2, <2>3 DEF OpensFollow, SameOpens
    <2>. QED BY <2>6, <2>7, <2>8, <2>9 DEF OpensFollow
<1>3. CASE \E i \in DOMAIN chain : FlashDeliver(i)
    <2>1. PICK i \in DOMAIN chain : FlashDeliver(i)
        BY <1>3
    <2>2. UNCHANGED <<chain, setting>> /\ flashSeen' = flashSeen \cup {i} /\ i \in Undelivered(flashSeen)
        BY <2>1 DEF FlashDeliver, walletVars
    <2>3. setting.inOrder => \A k \in flashSeen' : \A j \in 1..(k - 1) : j \in flashSeen'
        BY <2>2 DEF OpensFollow, Undelivered
    <2>. QED BY <2>2, <2>3 DEF OpensFollow, OpensIn, Landed, OpenedIds
<1>4. CASE UNCHANGED <<chain, flashSeen, setting>>
    BY <1>4 DEF OpensFollow, OpensIn, Landed, OpenedIds
<1>5. CASE \/ \E r \in Requests : Bet(r) \/ Accept(r) \/ Receipt(r) \/ Fail(r)
           \/ \E i \in DOMAIN chain : IndexDeliver(i)
           \/ Render \/ PruneEffect \/ SetWallet \/ UNCHANGED vars
    <2>1. UNCHANGED <<chain, flashSeen, setting>>
        BY <1>5 DEF Bet, Accept, Receipt, Fail, IndexDeliver, Render, PruneEffect, SetWallet,
                    feedVars, walletVars, vars
    <2>. QED BY <1>4, <2>1
<1>. QED BY <1>1, <1>2, <1>3, <1>5 DEF Next

-----------------------------------------------------------------------------
(***************************************************************************)
(* What the host keeps of opens.                                           *)
(***************************************************************************)

LEMMA ChainExtends ==
    ASSUME HostSnapshotAssumption, IsHistory(chain), [Next]_vars
    PROVE  Extends(chain, chain')
<1>1. CASE \E r \in Requests : Land(r)
    BY <1>1, LandGrows
<1>2. CASE \E s \in Ids : Step(s)
    BY <1>2, StepGrows
<1>3. CASE UNCHANGED chain
    BY <1>3 DEF Extends
<1>. QED BY <1>1, <1>2, <1>3 DEF Next, Bet, Accept, Receipt, Fail, FlashDeliver, IndexDeliver,
                                Render, PruneEffect, SetWallet, vars, chainVars

LEMMA OpenStays ==
    ASSUME NEW c, NEW d, Extends(c, d), NEW r, NEW s, OpensAs(c, r, s)
    PROVE  OpensAs(d, r, s)
BY DEF Extends, OpensAs, OpensIn

LEMMA OpenIsNatural ==
    ASSUME IsHistory(chain), NEW r, NEW s, OpensAs(chain, r, s)
    PROVE  s \in Nat
BY EventFacts DEF OpensAs, OpensIn

\* The entries for opens tell of the chain, whatever becomes of bets and chain.
LEMMA EntriesKept ==
    ASSUME EntriesTell, BetsMove, Extends(chain, chain')
    PROVE  /\ \A o \in optimisticSessions :
                 /\ o.request \in Requests /\ bets'[o.request] # "idle"
                 /\ o.session # Pending => OpensAs(chain', o.request, o.session)
           /\ \A c \in confirmedOpens : OpensAs(chain', c.request, c.session)
           /\ \A j \in DOMAIN recentFlashblockOpens :
                 OpensAs(chain', recentFlashblockOpens[j].request, recentFlashblockOpens[j].session)
           /\ \A j \in DOMAIN pendingOpenTransactions :
                 bets'[pendingOpenTransactions[j]] \notin {"idle", "sending"}
<1>1. \A r \in Requests : /\ bets[r] # "idle" => bets'[r] # "idle"
                          /\ bets[r] \notin {"idle", "sending"} => bets'[r] \notin {"idle", "sending"}
    BY DEF BetsMove, Places, Answered
<1>2. \A o \in optimisticSessions :
         /\ o.request \in Requests /\ bets'[o.request] # "idle"
         /\ o.session # Pending => OpensAs(chain', o.request, o.session)
    BY <1>1, OpenStays DEF EntriesTell
<1>3. \A c \in confirmedOpens : OpensAs(chain', c.request, c.session)
    BY OpenStays DEF EntriesTell
<1>4. \A j \in DOMAIN recentFlashblockOpens :
         OpensAs(chain', recentFlashblockOpens[j].request, recentFlashblockOpens[j].session)
    BY OpenStays DEF EntriesTell
<1>5. \A j \in DOMAIN pendingOpenTransactions : pendingOpenTransactions[j] \in Requests
    BY LenProperties, ElementOfSeq DEF EntriesTell
<1>6. \A j \in DOMAIN pendingOpenTransactions :
         bets'[pendingOpenTransactions[j]] \notin {"idle", "sending"}
    BY <1>1, <1>5 DEF EntriesTell
<1>. QED BY <1>2, <1>3, <1>4, <1>6

\* What an action may leave of the entries.
PendingRight(opens) ==
    /\ opens \in Seq(Requests)
    /\ \A j \in DOMAIN opens : bets'[opens[j]] \notin {"idle", "sending"}
RecentRight(opens) ==
    /\ opens \in Seq([request : Nat, session : Nat])
    /\ \A j \in DOMAIN opens : OpensAs(chain', opens[j].request, opens[j].session)
RowsRight(opens) ==
    /\ opens \subseteq [request : Requests, session : Nat]
    /\ \A o \in opens : /\ bets'[o.request] # "idle"
                        /\ o.session # Pending => OpensAs(chain', o.request, o.session)
ConfirmedRight(opens) == \A c \in opens : OpensAs(chain', c.request, c.session)

LEMMA EntriesRight ==
    ASSUME EntriesTell, BetsMove, Extends(chain, chain')
    PROVE  /\ PendingRight(pendingOpenTransactions) /\ RecentRight(recentFlashblockOpens)
           /\ RowsRight(optimisticSessions) /\ ConfirmedRight(confirmedOpens)
BY EntriesKept DEF PendingRight, RecentRight, RowsRight, ConfirmedRight, EntriesTell

LEMMA RightIsTold ==
    ASSUME PendingRight(pendingOpenTransactions'), RecentRight(recentFlashblockOpens'),
           RowsRight(optimisticSessions'), ConfirmedRight(confirmedOpens')
    PROVE  EntriesTell'
BY DEF PendingRight, RecentRight, RowsRight, ConfirmedRight, EntriesTell

LEMMA ConfirmedRows ==
    ASSUME RowsRight(optimisticSessions), NEW r \in Requests, NEW s \in Nat, OpensAs(chain', r, s)
    PROVE  RowsRight(Confirmed(r, s))
<1>1. optimisticSessions \subseteq [request : Requests, session : Nat]
    BY DEF RowsRight
<1>2. /\ Confirmed(r, s) \subseteq [request : Requests, session : Nat]
      /\ \A o \in Confirmed(r, s) :
            \/ o \in optimisticSessions
            \/ /\ o = [request |-> r, session |-> s]
               /\ \E p \in optimisticSessions : p.request = r
    BY <1>1, ConfirmedFacts
<1>3. \A o \in optimisticSessions : o.request = r => bets'[r] # "idle"
    BY DEF RowsRight
<1>. QED BY <1>2, <1>3 DEF RowsRight

LEMMA BetEntries ==
    ASSUME EntriesTell, TurnsTaken, BetsMove, NEW r \in Requests, Bet(r)
    PROVE  EntriesTell'
<1>1. /\ UNCHANGED <<chain, pendingOpenTransactions, recentFlashblockOpens, confirmedOpens>>
      /\ bets' = [bets EXCEPT ![r] = "sending"]
    BY DEF Bet
<1>2. Extends(chain, chain')
    BY <1>1 DEF Extends
<1>3. RowsRight(optimisticSessions')
    <2>1. bets'[r] # "idle"
        BY <1>1 DEF TurnsTaken
    <2>2. \A o \in optimisticSessions' :
              o \in optimisticSessions \/ o = [request |-> r, session |-> Pending]
        BY DEF Bet
    <2>3. [request |-> r, session |-> Pending] \in [request : Requests, session : Nat]
        BY DEF Pending
    <2>4. RowsRight(optimisticSessions)
        BY <1>2, EntriesRight
    <2>. QED BY <2>1, <2>2, <2>3, <2>4 DEF RowsRight
<1>. QED BY <1>1, <1>2, <1>3, EntriesRight, RightIsTold

LEMMA AcceptEntries ==
    ASSUME HostSnapshotAssumption, EntriesTell, TurnsTaken, BetsMove, NEW r \in Requests, Accept(r)
    PROVE  EntriesTell'
<1>1. UNCHANGED chain /\ bets' = [bets EXCEPT ![r] = "accepted"] /\ bets'[r] = "accepted"
    BY DEF Accept, TurnsTaken
<1>2. Extends(chain, chain')
    BY <1>1 DEF Extends
<1>3. /\ PendingRight(pendingOpenTransactions) /\ RecentRight(recentFlashblockOpens)
      /\ RowsRight(optimisticSessions) /\ ConfirmedRight(confirmedOpens)
    BY <1>2, EntriesRight
<1>4. CASE /\ pendingOpenTransactions' = Bounded(pendingOpenTransactions, r)
           /\ UNCHANGED <<recentFlashblockOpens, confirmedOpens, optimisticSessions>>
    <2>1. PendingRight(Bounded(pendingOpenTransactions, r))
        <3>1. pendingOpenTransactions \in Seq(Requests) /\ setting \in Settings
            BY DEF EntriesTell, TurnsTaken
        <3>2. /\ Bounded(pendingOpenTransactions, r) \in Seq(Requests)
              /\ \A j \in DOMAIN Bounded(pendingOpenTransactions, r) :
                    \/ Bounded(pendingOpenTransactions, r)[j] = r
                    \/ \E i \in DOMAIN pendingOpenTransactions :
                          Bounded(pendingOpenTransactions, r)[j] = pendingOpenTransactions[i]
            BY <3>1, BoundedFacts
        <3>. QED BY <1>1, <1>3, <3>2 DEF PendingRight
    <2>. QED BY <1>3, <1>4, <2>1, RightIsTold
<1>5. CASE \E seen \in RecentOpens(r) :
             /\ recentFlashblockOpens' = Without(recentFlashblockOpens, seen)
             /\ confirmedOpens' = confirmedOpens \cup {seen}
             /\ optimisticSessions' = Confirmed(r, seen.session)
             /\ UNCHANGED pendingOpenTransactions
    <2>1. PICK seen \in RecentOpens(r) :
             /\ recentFlashblockOpens' = Without(recentFlashblockOpens, seen)
             /\ confirmedOpens' = confirmedOpens \cup {seen}
             /\ optimisticSessions' = Confirmed(r, seen.session)
             /\ UNCHANGED pendingOpenTransactions
        BY <1>5
    <2>2. PICK k \in DOMAIN recentFlashblockOpens :
             seen = recentFlashblockOpens[k] /\ seen.request = r
        BY <2>1 DEF RecentOpens
    <2>3. seen \in [request : Nat, session : Nat]
        <3>1. recentFlashblockOpens \in Seq([request : Nat, session : Nat])
            BY DEF EntriesTell
        <3>2. k \in 1..Len(recentFlashblockOpens)
            BY <2>2, <3>1, LenProperties
        <3>. QED BY <2>2, <3>1, <3>2, ElementOfSeq
    <2>4. OpensAs(chain', seen.request, seen.session) /\ seen.session \in Nat
        BY <1>3, <2>2, <2>3 DEF RecentRight
    <2>5. RowsRight(Confirmed(r, seen.session))
        BY <1>3, <2>2, <2>4, ConfirmedRows
    <2>6. RecentRight(Without(recentFlashblockOpens, seen))
        <3>1. recentFlashblockOpens \in Seq([request : Nat, session : Nat])
            BY DEF EntriesTell
        <3>2. /\ Without(recentFlashblockOpens, seen) \in Seq([request : Nat, session : Nat])
              /\ \A j \in DOMAIN Without(recentFlashblockOpens, seen) :
                    \E i \in DOMAIN recentFlashblockOpens :
                       Without(recentFlashblockOpens, seen)[j] = recentFlashblockOpens[i]
            BY <3>1, WithoutFacts
        <3>. QED BY <1>3, <3>2 DEF RecentRight
    <2>7. ConfirmedRight(confirmedOpens \cup {seen})
        BY <1>3, <2>4 DEF ConfirmedRight
    <2>. QED BY <1>3, <2>1, <2>5, <2>6, <2>7, RightIsTold
<1>. QED BY <1>4, <1>5 DEF Accept

LEMMA ReceiptEntries ==
    ASSUME HostSnapshotAssumption, IsHistory(chain), OpensFollow, EntriesTell, BetsMove,
           NEW r \in Requests, Receipt(r)
    PROVE  EntriesTell'
<1>1. /\ UNCHANGED <<chain, recentFlashblockOpens>> /\ Landed(r)
      /\ pendingOpenTransactions' = Without(pendingOpenTransactions, r)
      /\ optimisticSessions' = Confirmed(r, SessionOf(r))
      /\ confirmedOpens' = {c \in confirmedOpens : c.request # r}
    BY DEF Receipt
<1>2. Extends(chain, chain')
    BY <1>1 DEF Extends
<1>3. /\ PendingRight(pendingOpenTransactions) /\ RecentRight(recentFlashblockOpens)
      /\ RowsRight(optimisticSessions) /\ ConfirmedRight(confirmedOpens)
    BY <1>2, EntriesRight
<1>4. OpensAs(chain', r, SessionOf(r)) /\ SessionOf(r) \in Nat
    BY <1>1, OpenSession
<1>5. RowsRight(Confirmed(r, SessionOf(r)))
    BY <1>3, <1>4, ConfirmedRows
<1>6. PendingRight(Without(pendingOpenTransactions, r))
    <2>1. pendingOpenTransactions \in Seq(Requests)
        BY DEF EntriesTell
    <2>2. /\ Without(pendingOpenTransactions, r) \in Seq(Requests)
          /\ \A j \in DOMAIN Without(pendingOpenTransactions, r) :
                \E i \in DOMAIN pendingOpenTransactions :
                   Without(pendingOpenTransactions, r)[j] = pendingOpenTransactions[i]
        BY <2>1, WithoutFacts
    <2>. QED BY <1>3, <2>2 DEF PendingRight
<1>7. ConfirmedRight(confirmedOpens')
    BY <1>1, <1>3 DEF ConfirmedRight
<1>. QED BY <1>1, <1>3, <1>5, <1>6, <1>7, RightIsTold

LEMMA FailEntries ==
    ASSUME IsHistory(chain), EntriesTell, BetsMove, NEW r \in Requests, Fail(r)
    PROVE  EntriesTell'
<1>1. /\ UNCHANGED <<chain, recentFlashblockOpens, pendingOpenTransactions>>
      /\ confirmedOpens' = {c \in confirmedOpens : c.request # r}
    BY DEF Fail
<1>2. Extends(chain, chain')
    BY <1>1 DEF Extends
<1>3. /\ PendingRight(pendingOpenTransactions) /\ RecentRight(recentFlashblockOpens)
      /\ RowsRight(optimisticSessions) /\ ConfirmedRight(confirmedOpens)
    BY <1>2, EntriesRight
<1>4. RowsRight(optimisticSessions')
    <2>1. CASE \E c \in confirmedOpens :
                  c.request = r /\ optimisticSessions' = Confirmed(r, c.session)
        <3>1. PICK c \in confirmedOpens :
                  c.request = r /\ optimisticSessions' = Confirmed(r, c.session)
            BY <2>1
        <3>2. OpensAs(chain, r, c.session) /\ OpensAs(chain', r, c.session)
            BY <1>1, <3>1 DEF EntriesTell
        <3>3. c.session \in Nat
            BY <3>2, OpenIsNatural
        <3>. QED BY <1>3, <3>1, <3>2, <3>3, ConfirmedRows
    <2>2. CASE optimisticSessions' = {o \in optimisticSessions : o.request # r}
        BY <1>3, <2>2 DEF RowsRight
    <2>. QED BY <2>1, <2>2 DEF Fail
<1>5. ConfirmedRight(confirmedOpens')
    BY <1>1, <1>3 DEF ConfirmedRight
<1>. QED BY <1>1, <1>3, <1>4, <1>5, RightIsTold

LEMMA FlashEntries ==
    ASSUME HostSnapshotAssumption, IsHistory(chain), EntriesTell, TurnsTaken, BetsMove,
           NEW i \in DOMAIN chain, FlashDeliver(i)
    PROVE  EntriesTell'
<1>. DEFINE e == chain[i]
            x == [request |-> e.request, session |-> e.session]
<1>1. UNCHANGED chain
    BY DEF FlashDeliver
<1>2. Extends(chain, chain')
    BY <1>1 DEF Extends
<1>3. /\ PendingRight(pendingOpenTransactions) /\ RecentRight(recentFlashblockOpens)
      /\ RowsRight(optimisticSessions) /\ ConfirmedRight(confirmedOpens)
    BY <1>2, EntriesRight
<1>4. CASE e.name # "Opened"
    <2>1. UNCHANGED <<pendingOpenTransactions, confirmedOpens, optimisticSessions,
                      recentFlashblockOpens>>
        BY <1>4 DEF FlashDeliver
    <2>. QED BY <1>3, <2>1, RightIsTold
<1>5. CASE e.name = "Opened"
    <2>1. NoteOpen(e)
        BY <1>5 DEF FlashDeliver
    <2>2. e.request \in Nat /\ e.session \in Nat
        BY <1>5, EventFacts DEF Events
    <2>3. OpensAs(chain', e.request, e.session)
        BY <1>1, <1>5 DEF OpensAs, OpensIn
    <2>4. CASE \E j \in DOMAIN pendingOpenTransactions : pendingOpenTransactions[j] = e.request
        <3>1. /\ pendingOpenTransactions' = Without(pendingOpenTransactions, e.request)
              /\ confirmedOpens' = confirmedOpens \cup {x}
              /\ optimisticSessions' = Confirmed(e.request, e.session)
              /\ UNCHANGED recentFlashblockOpens
            BY <2>1, <2>4 DEF NoteOpen
        <3>2. pendingOpenTransactions \in Seq(Requests) /\ e.request \in Requests
            BY <2>4, LenProperties, ElementOfSeq DEF EntriesTell
        <3>3. PendingRight(Without(pendingOpenTransactions, e.request))
            <4>1. /\ Without(pendingOpenTransactions, e.request) \in Seq(Requests)
                  /\ \A j \in DOMAIN Without(pendingOpenTransactions, e.request) :
                        \E k \in DOMAIN pendingOpenTransactions :
                           Without(pendingOpenTransactions, e.request)[j] = pendingOpenTransactions[k]
                BY <3>2, WithoutFacts
            <4>. QED BY <1>3, <4>1 DEF PendingRight
        <3>4. RowsRight(Confirmed(e.request, e.session))
            BY <1>3, <2>2, <2>3, <3>2, ConfirmedRows
        <3>5. ConfirmedRight(confirmedOpens \cup {x})
            BY <1>3, <2>3 DEF ConfirmedRight
        <3>. QED BY <1>3, <3>1, <3>3, <3>4, <3>5, RightIsTold
    <2>5. CASE ~\E j \in DOMAIN pendingOpenTransactions : pendingOpenTransactions[j] = e.request
        <3>1. /\ recentFlashblockOpens' = Bounded(recentFlashblockOpens, x)
              /\ UNCHANGED <<pendingOpenTransactions, confirmedOpens, optimisticSessions>>
            BY <2>1, <2>5 DEF NoteOpen
        <3>2. /\ recentFlashblockOpens \in Seq([request : Nat, session : Nat])
              /\ setting \in Settings
            BY DEF EntriesTell, TurnsTaken
        <3>3. /\ x \in [request : Nat, session : Nat]
              /\ x.request = e.request /\ x.session = e.session
            BY <2>2
        <3>. HIDE DEF x
        <3>4. RecentRight(Bounded(recentFlashblockOpens, x))
            <4>1. /\ Bounded(recentFlashblockOpens, x) \in Seq([request : Nat, session : Nat])
                  /\ \A j \in DOMAIN Bounded(recentFlashblockOpens, x) :
                        \/ Bounded(recentFlashblockOpens, x)[j] = x
                        \/ \E k \in DOMAIN recentFlashblockOpens :
                              Bounded(recentFlashblockOpens, x)[j] = recentFlashblockOpens[k]
                <5>. DEFINE S == [request : Nat, session : Nat]
                <5>1. recentFlashblockOpens \in Seq(S) /\ x \in S /\ setting \in Settings
                    BY <3>2, <3>3
                <5>. HIDE DEF S
                <5>2. /\ Bounded(recentFlashblockOpens, x) \in Seq(S)
                      /\ \A j \in DOMAIN Bounded(recentFlashblockOpens, x) :
                            \/ Bounded(recentFlashblockOpens, x)[j] = x
                            \/ \E k \in DOMAIN recentFlashblockOpens :
                                  Bounded(recentFlashblockOpens, x)[j] = recentFlashblockOpens[k]
                    BY <5>1, BoundedFacts
                <5>. QED BY <5>2 DEF S
            <4>. QED BY <1>3, <2>3, <3>3, <4>1 DEF RecentRight
        <3>. QED BY <1>3, <3>1, <3>4, RightIsTold
    <2>. QED BY <2>4, <2>5
<1>. QED BY <1>4, <1>5

LEMMA EntriesNext ==
    ASSUME HostSnapshotAssumption, IsHistory(chain), TurnsTaken, OpensFollow, EntriesTell,
           BetsMove, [Next]_vars
    PROVE  EntriesTell'
<1>1. CASE \E r \in Requests : Bet(r) \/ Accept(r) \/ Receipt(r) \/ Fail(r)
    BY <1>1, BetEntries, AcceptEntries, ReceiptEntries, FailEntries
<1>2. CASE \E i \in DOMAIN chain : FlashDeliver(i)
    BY <1>2, FlashEntries
<1>3. CASE \/ \E r \in Requests : Land(r)
           \/ \E s \in Ids : Step(s)
           \/ \E i \in DOMAIN chain : IndexDeliver(i)
           \/ Render \/ PruneEffect \/ SetWallet \/ UNCHANGED vars
    <2>1. UNCHANGED <<optimisticSessions, confirmedOpens, pendingOpenTransactions,
                      recentFlashblockOpens>>
        BY <1>3 DEF Land, Step, IndexDeliver, Render, PruneEffect, SetWallet, sendVars, vars
    <2>2. /\ PendingRight(pendingOpenTransactions) /\ RecentRight(recentFlashblockOpens)
          /\ RowsRight(optimisticSessions) /\ ConfirmedRight(confirmedOpens)
        BY ChainExtends, EntriesRight
    <2>. QED BY <2>1, <2>2, RightIsTold
<1>. QED BY <1>1, <1>2, <1>3 DEF Next

-----------------------------------------------------------------------------
(***************************************************************************)
(* An open is not lost while its bet is in play.                           *)
(***************************************************************************)

LEMMA SeenOpenStays ==
    ASSUME OpensFollow, Extends(chain, chain'), IsHistory(chain')
    PROVE  \A r : SeenOpen(chain', flashSeen, r) <=> SeenOpen(chain, flashSeen, r)
BY DEF OpensFollow, Extends, SeenOpen, OpensIn

\* No two bets are answered in the same turn.
LEMMA OneTurn ==
    ASSUME HostSnapshotAssumption, TurnsTaken, NEW r \in Requests, NEW q \in Requests,
           Turn(r), Turn(q), bets[r] \notin {"done", "failed"}, bets[q] \notin {"done", "failed"}
    PROVE  r = q
<1>1. r \in setting.bets /\ q \in setting.bets /\ r \in Nat /\ q \in Nat
    BY DEF Turn, TurnsTaken, Requests
<1>. QED BY <1>1 DEF Turn

LEMMA InPlaySame ==
    ASSUME NEW q \in Requests, InPlay(q), bets'[q] = bets[q],
           SeenOpen(chain', flashSeen', q) <=> SeenOpen(chain, flashSeen, q),
           UNCHANGED <<recentFlashblockOpens, confirmedOpens, pendingOpenTransactions>>
    PROVE  InPlay(q)'
BY DEF InPlay, RecentOpens

LEMMA BetInPlay ==
    ASSUME TurnsTaken, OpensFollow, NEW r \in Requests, Bet(r), NEW q \in Requests, InPlay(q)
    PROVE  InPlay(q)'
<1>1. /\ UNCHANGED <<chain, flashSeen, recentFlashblockOpens, confirmedOpens, pendingOpenTransactions>>
      /\ bets[r] = "idle" /\ bets' = [bets EXCEPT ![r] = "sending"]
    BY DEF Bet, feedVars
<1>2. CASE q # r
    BY <1>1, <1>2, InPlaySame DEF TurnsTaken
<1>3. CASE q = r
    <2>1. ~Landed(r) /\ bets'[r] = "sending"
        BY <1>1 DEF TurnsTaken, Turn
    <2>2. ~SeenOpen(chain, flashSeen, r)
        BY <2>1, LandedIsOpen DEF SeenOpen
    <2>. QED BY <1>1, <1>3, <2>1, <2>2 DEF InPlay
<1>. QED BY <1>2, <1>3

LEMMA AcceptInPlay ==
    ASSUME HostSnapshotAssumption, TurnsTaken, EntriesTell, NEW r \in Requests, Accept(r),
           NEW q \in Requests, InPlay(q)
    PROVE  InPlay(q)'
<1>1. /\ UNCHANGED <<chain, flashSeen>> /\ Turn(r)
      /\ bets[r] = "sending" /\ bets' = [bets EXCEPT ![r] = "accepted"]
    BY DEF Accept, feedVars
<1>2. CASE /\ RecentOpens(r) = {}
           /\ pendingOpenTransactions' = Bounded(pendingOpenTransactions, r)
           /\ UNCHANGED <<recentFlashblockOpens, confirmedOpens>>
    <2>1. CASE q # r
        <3>1. bets[q] # "accepted"
            BY <1>1, <2>1, OneTurn DEF TurnsTaken
        <3>2. bets'[q] = bets[q]
            BY <1>1, <2>1 DEF TurnsTaken
        <3>. QED BY <1>1, <1>2, <3>1, <3>2 DEF InPlay, RecentOpens
    <2>2. CASE q = r
        <3>1. ~SeenOpen(chain, flashSeen, r)
            BY <1>1, <1>2, <2>2 DEF InPlay
        <3>2. \E j \in DOMAIN pendingOpenTransactions' : pendingOpenTransactions'[j] = r
            <4>1. pendingOpenTransactions \in Seq(Requests) /\ setting \in Settings
                BY DEF EntriesTell, TurnsTaken
            <4>2. \E j \in DOMAIN Bounded(pendingOpenTransactions, r) :
                     Bounded(pendingOpenTransactions, r)[j] = r
                BY <4>1, BoundedFacts
            <4>. QED BY <1>2, <4>2
        <3>3. bets'[r] = "accepted"
            BY <1>1 DEF TurnsTaken
        <3>. QED BY <1>1, <2>2, <3>1, <3>2, <3>3 DEF InPlay
    <2>. QED BY <2>1, <2>2
<1>3. CASE \E seen \in RecentOpens(r) :
             /\ recentFlashblockOpens' = Without(recentFlashblockOpens, seen)
             /\ confirmedOpens' = confirmedOpens \cup {seen}
             /\ UNCHANGED pendingOpenTransactions
    <2>1. PICK seen \in RecentOpens(r) :
             /\ recentFlashblockOpens' = Without(recentFlashblockOpens, seen)
             /\ confirmedOpens' = confirmedOpens \cup {seen}
             /\ UNCHANGED pendingOpenTransactions
        BY <1>3
    <2>2. seen.request = r
        BY <2>1 DEF RecentOpens
    <2>3. CASE q # r
        <3>1. bets'[q] = bets[q]
            BY <1>1, <2>3 DEF TurnsTaken
        <3>2. ASSUME RecentOpens(q) # {} PROVE RecentOpens(q)' # {}
            <4>1. PICK i \in DOMAIN recentFlashblockOpens : recentFlashblockOpens[i].request = q
                BY <3>2 DEF RecentOpens
            <4>2. recentFlashblockOpens[i] # seen
                BY <2>2, <2>3, <4>1
            <4>3. PICK j \in DOMAIN Without(recentFlashblockOpens, seen) :
                     Without(recentFlashblockOpens, seen)[j] = recentFlashblockOpens[i]
                <5>. DEFINE S == [request : Nat, session : Nat]
                <5>1. recentFlashblockOpens \in Seq(S)
                    BY DEF EntriesTell
                <5>. HIDE DEF S
                <5>. QED BY <4>1, <4>2, <5>1, WithoutKeeps
            <4>. QED BY <2>1, <4>1, <4>3 DEF RecentOpens
        <3>. QED BY <1>1, <2>1, <3>1, <3>2 DEF InPlay
    <2>4. CASE q = r
        <3>1. bets'[r] = "accepted"
            BY <1>1 DEF TurnsTaken
        <3>. QED BY <2>1, <2>2, <2>4, <3>1 DEF InPlay
    <2>. QED BY <2>3, <2>4
<1>. QED BY <1>2, <1>3 DEF Accept

LEMMA EndInPlay ==
    ASSUME TurnsTaken, EntriesTell, NEW r \in Requests, Receipt(r) \/ Fail(r),
           NEW q \in Requests, InPlay(q)
    PROVE  InPlay(q)'
<1>1. /\ UNCHANGED <<chain, flashSeen, recentFlashblockOpens>>
      /\ \E x \in {"done", "failed"} : bets' = [bets EXCEPT ![r] = x]
      /\ confirmedOpens' = {c \in confirmedOpens : c.request # r}
    BY DEF Receipt, Fail, feedVars
<1>2. CASE q # r
    <2>1. bets'[q] = bets[q]
        BY <1>1, <1>2 DEF TurnsTaken
    <2>2. ASSUME \E j \in DOMAIN pendingOpenTransactions : pendingOpenTransactions[j] = q
          PROVE  \E j \in DOMAIN pendingOpenTransactions' : pendingOpenTransactions'[j] = q
        <3>1. CASE Receipt(r)
            <4>1. pendingOpenTransactions \in Seq(Requests)
                BY DEF EntriesTell
            <4>2. \E j \in DOMAIN Without(pendingOpenTransactions, r) :
                     Without(pendingOpenTransactions, r)[j] = q
                BY <1>2, <2>2, <4>1, WithoutKeeps
            <4>. QED BY <3>1, <4>2 DEF Receipt
        <3>2. CASE Fail(r)
            BY <2>2, <3>2 DEF Fail
        <3>. QED BY <3>1, <3>2
    <2>. QED BY <1>1, <1>2, <2>1, <2>2 DEF InPlay, RecentOpens
<1>3. CASE q = r
    <2>1. bets'[r] \in {"done", "failed"}
        BY <1>1 DEF TurnsTaken
    <2>. QED BY <1>3, <2>1 DEF InPlay
<1>. QED BY <1>2, <1>3

\* While a bet waits for its hash, no other bet's open makes its own one go.
LEMMA NoOpenOvertakes ==
    ASSUME HostSnapshotAssumption, InOrderOrOneBet, IsHistory(chain), TurnsTaken, OpensFollow,
           NEW i \in OpensIn(chain), i \in Undelivered(flashSeen),
           NEW q \in Requests, SeenOpen(chain, flashSeen, q), bets[q] \notin {"done", "failed"}
    PROVE  FALSE
<1>. DEFINE p == chain[i].request
<1>1. PICK j \in OpensIn(chain) : j \in flashSeen /\ chain[j].request = q
    BY DEF SeenOpen
<1>2. i \notin flashSeen /\ i # j
    BY <1>1 DEF Undelivered
<1>3. p \in Requests /\ Landed(p) /\ Landed(q)
    BY <1>1, <1>2, LandedIsOpen DEF OpensFollow
<1>4. /\ bets[p] # "idle" /\ bets[q] # "idle" /\ Turn(p) /\ Turn(q)
      /\ p \in setting.bets /\ q \in setting.bets
    BY <1>3 DEF TurnsTaken, Turn
<1>5. p # q
    BY <1>1, <1>2, OneOpen
<1>6. setting.inOrder
    BY <1>4, <1>5 DEF InOrderOrOneBet, TurnsTaken
<1>7. i \in Nat /\ j \in Nat /\ i > 0 /\ j > 0
    BY LenProperties DEF IsHistory, OpensIn
<1>8. ~(i < j)
    BY <1>1, <1>2, <1>6, <1>7 DEF OpensFollow
<1>9. q < p
    <2>1. j < i
        BY <1>2, <1>7, <1>8
    <2>. QED BY <1>1, <2>1 DEF OpensFollow
<1>. QED BY <1>4, <1>9 DEF Turn

LEMMA FlashInPlay ==
    ASSUME HostSnapshotAssumption, InOrderOrOneBet, IsHistory(chain), TurnsTaken, OpensFollow,
           EntriesTell, NEW i \in DOMAIN chain, FlashDeliver(i), NEW q \in Requests, InPlay(q)
    PROVE  InPlay(q)'
<1>. DEFINE e == chain[i]
            p == e.request
            x == [request |-> e.request, session |-> e.session]
<1>1. UNCHANGED <<chain, bets>> /\ flashSeen' = flashSeen \cup {i} /\ i \in Undelivered(flashSeen)
    BY DEF FlashDeliver
<1>2. CASE e.name # "Opened"
    <2>1. UNCHANGED <<pendingOpenTransactions, confirmedOpens, recentFlashblockOpens>>
        BY <1>2 DEF FlashDeliver
    <2>2. SeenOpen(chain', flashSeen', q) <=> SeenOpen(chain, flashSeen, q)
        BY <1>1, <1>2 DEF SeenOpen, OpensIn
    <2>. QED BY <1>1, <2>1, <2>2, InPlaySame
<1>3. CASE e.name = "Opened"
    <2>1. NoteOpen(e) /\ i \in OpensIn(chain)
        BY <1>3 DEF FlashDeliver, OpensIn
    <2>2. SeenOpen(chain', flashSeen', q) <=> SeenOpen(chain, flashSeen, q) \/ p = q
        BY <1>1, <2>1 DEF SeenOpen
    <2>3. CASE \E j \in DOMAIN pendingOpenTransactions : pendingOpenTransactions[j] = p
        <3>1. /\ pendingOpenTransactions' = Without(pendingOpenTransactions, p)
              /\ confirmedOpens' = confirmedOpens \cup {x}
              /\ UNCHANGED recentFlashblockOpens
            BY <2>1, <2>3 DEF NoteOpen
        <3>2. CASE q = p
            <4>1. bets[q] # "sending"
                BY <2>3, <3>2 DEF EntriesTell
            <4>2. \E c \in confirmedOpens' : c.request = q
                <5>1. x \in confirmedOpens' /\ x.request = q
                    BY <3>1, <3>2
                <5>. HIDE DEF x
                <5>. QED BY <5>1
            <4>. QED BY <1>1, <4>1, <4>2 DEF InPlay
        <3>3. CASE q # p
            <4>1. ASSUME \E j \in DOMAIN pendingOpenTransactions : pendingOpenTransactions[j] = q
                  PROVE  \E j \in DOMAIN pendingOpenTransactions' : pendingOpenTransactions'[j] = q
                <5>1. pendingOpenTransactions \in Seq(Requests)
                    BY DEF EntriesTell
                <5>. HIDE DEF p
                <5>2. PICK k \in DOMAIN pendingOpenTransactions : pendingOpenTransactions[k] = q
                    BY <4>1
                <5>3. \E j \in DOMAIN Without(pendingOpenTransactions, p) :
                         Without(pendingOpenTransactions, p)[j] = q
                    BY <3>3, <5>1, <5>2, WithoutKeeps
                <5>. QED BY <3>1, <5>3
            <4>. QED BY <1>1, <2>2, <3>1, <3>3, <4>1 DEF InPlay, RecentOpens
        <3>. QED BY <3>2, <3>3
    <2>4. CASE ~\E j \in DOMAIN pendingOpenTransactions : pendingOpenTransactions[j] = p
        <3>1. /\ recentFlashblockOpens' = Bounded(recentFlashblockOpens, x)
              /\ UNCHANGED <<pendingOpenTransactions, confirmedOpens>>
            BY <2>1, <2>4 DEF NoteOpen
        <3>2. ASSUME bets[q] = "sending", SeenOpen(chain', flashSeen', q)
              PROVE  RecentOpens(q)' # {}
            <4>1. p = q
                BY <2>1, <2>2, <1>1, <3>2, NoOpenOvertakes
            <4>2. \E j \in DOMAIN Bounded(recentFlashblockOpens, x) :
                     Bounded(recentFlashblockOpens, x)[j] = x
                <5>. DEFINE S == [request : Nat, session : Nat]
                <5>1. e.request \in Nat /\ e.session \in Nat
                    BY <1>3, EventFacts DEF Events
                <5>2. recentFlashblockOpens \in Seq(S) /\ x \in S /\ setting \in Settings
                    BY <5>1 DEF EntriesTell, TurnsTaken
                <5>. HIDE DEF S, x
                <5>. QED BY <5>2, BoundedFacts
            <4>3. x.request = q
                BY <4>1
            <4>. HIDE DEF x
            <4>. QED BY <3>1, <4>2, <4>3 DEF RecentOpens
        <3>. QED BY <1>1, <2>2, <2>4, <3>1, <3>2 DEF InPlay
    <2>. QED BY <2>3, <2>4
<1>. QED BY <1>2, <1>3

LEMMA InPlayNext ==
    ASSUME HostSnapshotAssumption, InOrderOrOneBet, IsHistory(chain), TurnsTaken, OpensFollow,
           EntriesTell, [Next]_vars, NEW q \in Requests, InPlay(q)
    PROVE  InPlay(q)'
<1>1. CASE \E r \in Requests : Bet(r) \/ Accept(r) \/ Receipt(r) \/ Fail(r)
    BY <1>1, BetInPlay, AcceptInPlay, EndInPlay
<1>2. CASE \E i \in DOMAIN chain : FlashDeliver(i)
    BY <1>2, FlashInPlay
<1>3. CASE \/ \E r \in Requests : Land(r)
           \/ \E s \in Ids : Step(s)
    <2>1. Extends(chain, chain') /\ IsHistory(chain')
        BY <1>3, LandGrows, StepGrows
    <2>2. UNCHANGED <<bets, flashSeen, confirmedOpens, pendingOpenTransactions, recentFlashblockOpens>>
        BY <1>3 DEF Land, Step, sendVars, feedVars
    <2>3. SeenOpen(chain', flashSeen', q) <=> SeenOpen(chain, flashSeen, q)
        BY <2>1, <2>2, SeenOpenStays
    <2>. QED BY <2>2, <2>3, InPlaySame
<1>4. CASE \/ \E i \in DOMAIN chain : IndexDeliver(i)
           \/ Render \/ PruneEffect \/ SetWallet \/ UNCHANGED vars
    <2>1. UNCHANGED <<chain, bets, flashSeen, confirmedOpens, pendingOpenTransactions,
                      recentFlashblockOpens>>
        BY <1>4 DEF IndexDeliver, Render, PruneEffect, SetWallet, sendVars, feedVars, vars
    <2>. QED BY <2>1, InPlaySame
<1>. QED BY <1>1, <1>2, <1>3, <1>4 DEF Next

-----------------------------------------------------------------------------
(***************************************************************************)
(* The rows shown.                                                         *)
(***************************************************************************)

LEMMA RowsStay ==
    ASSUME HostSnapshotAssumption, ViewInv, [Next]_vars, NEW s \in Ids, rows[s] # None
    PROVE  rows'[s] # None
<1>1. CASE \E i \in DOMAIN chain : IndexDeliver(i)
    <2>1. PICK i \in DOMAIN chain : IndexDeliver(i)
        BY <1>1
    <2>. DEFINE e == chain[i]
    <2>2. /\ rows' = [rows EXCEPT ![e.session] = Evolve(IF @ = None THEN InitialRow ELSE @, e)]
          /\ rows \in [Ids -> Rows \cup {None}]
        BY <2>1 DEF IndexDeliver, ViewInv, LayersTell
    <2>3. CASE e.session = s
        <3>1. rows'[s] = Evolve(rows[s], e)
            BY <2>2, <2>3
        <3>2. RowTells(chain, s, rows[s]) /\ IsHistory(chain)
            BY DEF ViewInv, LayersTell
        <3>3. RowTells(chain, s, Evolve(rows[s], e))
            BY <2>3, <3>2, EvolveTells
        <3>. QED BY <3>1, <3>3, NoneAssumption DEF RowTells
    <2>4. CASE e.session # s
        BY <2>2, <2>4
    <2>. QED BY <2>3, <2>4
<1>2. CASE UNCHANGED rows
    BY <1>2
<1>. QED BY <1>1, <1>2 DEF Next, Land, Step, Bet, Accept, Receipt, Fail, FlashDeliver,
                           Render, PruneEffect, SetWallet, feedVars, vars

LEMMA HeldStays ==
    ASSUME HostSnapshotAssumption, ViewInv, [Next]_vars, NEW r, Held(r)
    PROVE  Held(r)'
<1>1. PICK s \in Ids : OpensAs(chain, r, s) /\ Item(s) # None /\ rows[s] # None
    BY DEF Held
<1>2. OpensAs(chain', r, s)
    BY <1>1, ChainExtends, OpenStays DEF ViewInv
<1>3. Item(s)' # None /\ rows'[s] # None
    BY <1>1, ViewInvKeepsListed, RowsStay
<1>. QED BY <1>2, <1>3 DEF Held

\* The row of a bet goes only when its session is listed and shown.
LEMMA HasRowNext ==
    ASSUME HostSnapshotAssumption, ViewInv, TurnsTaken, OpensFollow, EntriesTell, RowsShown,
           [Next]_vars, NEW q \in Requests, HasRow(q)
    PROVE  HasRow(q)'
<1>0. optimisticSessions \subseteq [request : Requests, session : Nat] /\ IsHistory(chain)
    BY DEF EntriesTell, ViewInv
<1>1. Held(q) => Held(q)'
    BY HeldStays
<1>2. ASSUME bets'[q] = bets[q],
             \A o \in optimisticSessions : \E p \in optimisticSessions' : p.request = o.request
      PROVE  HasRow(q)'
    BY <1>1, <1>2 DEF HasRow
<1>3. ASSUME NEW r \in Requests, Bet(r) PROVE HasRow(q)'
    <2>1. /\ bets' = [bets EXCEPT ![r] = "sending"]
          /\ optimisticSessions' =
                {o \in optimisticSessions : o.session = Pending \/ sessionRows[o.session] = None}
                \cup {[request |-> r, session |-> Pending]}
        BY <1>3 DEF Bet
    <2>2. CASE q = r
        <3>1. [request |-> r, session |-> Pending] \in optimisticSessions'
            BY <2>1
        <3>2. [request |-> r, session |-> Pending].request = q
            BY <2>2
        <3>3. \E o \in optimisticSessions' : o.request = q
            BY <3>1, <3>2
        <3>. QED BY <3>3 DEF HasRow
    <2>3. CASE q # r
        <3>1. bets'[q] = bets[q]
            BY <2>1, <2>3 DEF TurnsTaken
        <3>2. ASSUME NEW o \in optimisticSessions, o.request = q, o \notin optimisticSessions'
              PROVE  Held(q)
            <4>1. o.session # Pending /\ sessionRows[o.session] # None
                BY <2>1, <3>2
            <4>2. OpensAs(chain, q, o.session)
                BY <3>2, <4>1 DEF EntriesTell
            <4>3. o.session \in Ids
                BY <1>0, <4>2, OpenedInIds
            <4>. QED BY <4>1, <4>2, <4>3 DEF RowsShown, Held
        <3>. QED BY <1>1, <3>1, <3>2 DEF HasRow
    <2>. QED BY <2>2, <2>3
<1>4. ASSUME NEW r \in Requests, NEW s \in Nat, optimisticSessions' = Confirmed(r, s)
      PROVE  \A o \in optimisticSessions : \E p \in optimisticSessions' : p.request = o.request
    <2>1. \A o \in optimisticSessions : \E p \in Confirmed(r, s) : p.request = o.request
        BY <1>0, ConfirmedFacts
    <2>. QED BY <1>4, <2>1
<1>5. ASSUME \A o \in optimisticSessions : \E p \in optimisticSessions' : p.request = o.request,
             NEW r \in Requests, Accept(r) \/ Receipt(r)
      PROVE  HasRow(q)'
    <2>1. bets'[q] = bets[q] \/ (q = r /\ bets[q] \in {"sending", "accepted"})
        BY <1>5 DEF Accept, Receipt, TurnsTaken
    <2>. QED BY <1>1, <1>5, <2>1 DEF HasRow
<1>6. ASSUME NEW r \in Requests, Accept(r) PROVE HasRow(q)'
    <2>1. CASE UNCHANGED optimisticSessions
        BY <1>5, <1>6, <2>1
    <2>2. CASE \E seen \in RecentOpens(r) : optimisticSessions' = Confirmed(r, seen.session)
        <3>1. PICK seen \in RecentOpens(r) : optimisticSessions' = Confirmed(r, seen.session)
            BY <2>2
        <3>2. seen.session \in Nat
            BY <1>0, <3>1, OpenIsNatural DEF RecentOpens, EntriesTell
        <3>. QED BY <1>4, <1>5, <1>6, <3>1, <3>2
    <2>. QED BY <1>6, <2>1, <2>2 DEF Accept
<1>7. ASSUME NEW r \in Requests, Receipt(r) PROVE HasRow(q)'
    <2>1. SessionOf(r) \in Nat /\ optimisticSessions' = Confirmed(r, SessionOf(r))
        BY <1>0, <1>7, OpenSession DEF Receipt
    <2>. QED BY <1>4, <1>5, <1>7, <2>1
<1>8. ASSUME NEW r \in Requests, Fail(r) PROVE HasRow(q)'
    <2>1. bets' = [bets EXCEPT ![r] = "failed"]
        BY <1>8 DEF Fail
    <2>2. CASE q = r
        BY <2>1, <2>2 DEF HasRow, TurnsTaken
    <2>3. CASE q # r
        <3>1. bets'[q] = bets[q]
            BY <2>1, <2>3 DEF TurnsTaken
        <3>2. CASE optimisticSessions' = {o \in optimisticSessions : o.request # r}
            BY <1>1, <2>3, <3>1, <3>2 DEF HasRow
        <3>3. CASE \E c \in confirmedOpens : optimisticSessions' = Confirmed(r, c.session)
            <4>1. PICK c \in confirmedOpens : optimisticSessions' = Confirmed(r, c.session)
                BY <3>3
            <4>2. c.session \in Nat
                BY <1>0, OpenIsNatural DEF EntriesTell
            <4>. QED BY <1>2, <1>4, <3>1, <4>1, <4>2
        <3>. QED BY <1>8, <3>2, <3>3 DEF Fail
    <2>. QED BY <2>2, <2>3
<1>9. ASSUME NEW i \in DOMAIN chain, FlashDeliver(i) PROVE HasRow(q)'
    <2>1. UNCHANGED bets
        BY <1>9 DEF FlashDeliver
    <2>2. CASE UNCHANGED optimisticSessions
        BY <1>2, <2>1, <2>2
    <2>3. CASE chain[i].name = "Opened" /\ optimisticSessions' # optimisticSessions
        <3>1. /\ optimisticSessions' = Confirmed(chain[i].request, chain[i].session)
              /\ \E j \in DOMAIN pendingOpenTransactions :
                    pendingOpenTransactions[j] = chain[i].request
            BY <1>9, <2>3 DEF FlashDeliver, NoteOpen
        <3>2. chain[i].request \in Requests
            BY <3>1, LenProperties, ElementOfSeq DEF EntriesTell
        <3>3. chain[i].session \in Nat
            BY <1>0, EventFacts
        <3>. QED BY <1>2, <1>4, <2>1, <3>1, <3>2, <3>3
    <2>. QED BY <1>9, <2>2, <2>3 DEF FlashDeliver
<1>10. CASE \/ \E r \in Requests : Land(r)
            \/ \E s \in Ids : Step(s)
            \/ \E i \in DOMAIN chain : IndexDeliver(i)
            \/ Render \/ PruneEffect \/ SetWallet \/ UNCHANGED vars
    <2>1. UNCHANGED <<bets, optimisticSessions>>
        BY <1>10 DEF Land, Step, IndexDeliver, Render, PruneEffect, SetWallet, sendVars, vars
    <2>. QED BY <1>2, <2>1
<1>. QED BY <1>3, <1>6, <1>7, <1>8, <1>9, <1>10 DEF Next

\* A session that has a row, of the store or of the host, is shown.
LEMMA RenderShows ==
    ASSUME ViewInv, Render, NEW s \in Ids,
           RenderRows[s] # None \/ \E o \in optimisticSessions : o.session = s
    PROVE  Item(s)' # None
<1>1. ItemIs(chain, s, RenderRows[s], Layered(s))
    BY LayeredTells
<1>2. Layered(s) # None
    <2>1. CASE RenderRows[s] # None
        BY <1>1, <2>1 DEF ItemIs
    <2>2. CASE RenderRows[s] = None
        <3>1. Layered(s) = MergeIntoItem(OptimisticItem, patches[s])
            BY <2>2 DEF Layered, MergedItem
        <3>2. patches[s] = None \/ PatchTells(chain, s, patches[s])
            BY DEF ViewInv, LayersTell
        <3>3. ItemTells(chain, s, MergeIntoItem(OptimisticItem, patches[s]))
            BY <3>2, OptimisticTells DEF ViewInv
        <3>. QED BY <3>1, <3>3, NoneAssumption DEF ItemTells
    <2>. QED BY <2>1, <2>2
<1>3. RenderKeeps(s)
    BY RenderFacts
<1>. QED BY <1>2, <1>3 DEF RenderKeeps

LEMMA RowsShownNext ==
    ASSUME HostSnapshotAssumption, ViewInv, EntriesTell, RowsShown, BetsMove, [Next]_vars
    PROVE  RowsShown'
<1>1. \A r \in Requests : bets[r] # "idle" => bets'[r] # "idle"
    BY DEF BetsMove, Places, Answered
<1>2. CASE Render
    <2>1. sessionRows' = RenderRows
        BY <1>2 DEF Render, RenderRows
    <2>2. ASSUME NEW s \in Ids, RenderRows[s] # None PROVE Item(s)' # None /\ rows'[s] # None
        <3>1. rows[s] # None
            BY <2>2, LayeredTells
        <3>. QED BY <1>2, <2>2, <3>1, RenderShows, RowsStay
    <2>3. published'.pending = {o.request : o \in {p \in optimisticSessions : p.session = Pending}}
        BY <1>2 DEF Render
    <2>4. \A r \in published'.pending : r \in Requests /\ bets[r] # "idle"
        BY <2>3 DEF EntriesTell
    <2>. QED BY <1>1, <2>1, <2>2, <2>4 DEF RowsShown
<1>3. CASE UNCHANGED <<sessionRows, published>>
    <2>1. \A s \in Ids : sessionRows'[s] # None => Item(s)' # None /\ rows'[s] # None
        BY <1>3, RowsStay DEF RowsShown, Item
    <2>2. \A r \in published'.pending : r \in Requests /\ bets'[r] # "idle"
        BY <1>1, <1>3 DEF RowsShown
    <2>. QED BY <2>1, <2>2 DEF RowsShown
<1>. QED BY <1>2, <1>3 DEF Next, Land, Step, Bet, Accept, Receipt, Fail, FlashDeliver,
                IndexDeliver, PruneEffect, SetWallet, shownVars, vars

-----------------------------------------------------------------------------
LEMMA BetInit ==
    ASSUME HostSnapshotAssumption, Init
    PROVE  BetInv
<1>0. setting \in Settings /\ setting.history \in Histories
    BY DEF Init, HostSnapshotAssumption
<1>1. /\ chain \in Histories /\ setting \in Settings /\ flashSeen = DOMAIN chain
      /\ bets = [r \in Requests |-> "idle"] /\ published = [pending |-> {}, item |-> NoRows]
      /\ optimisticSessions = {} /\ confirmedOpens = {} /\ sessionRows = NoRows
      /\ pendingOpenTransactions = <<>> /\ recentFlashblockOpens = <<>>
    BY <1>0 DEF Init
<1>2. /\ IsHistory(chain) /\ Cardinality(OpenedIn(chain)) + MaxBets <= MaxId
      /\ \A i \in OpensIn(chain) : chain[i].request = 0
    BY <1>1 DEF HostSnapshotAssumption, OpensIn
<1>3. \A r \in Requests : ~Landed(r)
    BY <1>2, LandedIsOpen DEF Requests
<1>4. TurnsTaken
    BY <1>1, <1>3 DEF TurnsTaken
<1>5. OpensFollow
    <2>1. 0 \in 0..MaxBets /\ Cardinality(OpenedIds) + (MaxBets - 0) <= MaxId
        BY <1>2 DEF OpenedIds, HostSnapshotAssumption
    <2>2. \E m \in 0..MaxBets : /\ m # 0 => Landed(m)
                                /\ Cardinality(OpenedIds) + (MaxBets - m) <= MaxId
        BY <2>1
    <2>3. \A i \in OpensIn(chain) : chain[i].request \notin Requests
        BY <1>2 DEF Requests
    <2>4. \A i \in flashSeen : \A j \in 1..(i - 1) : j \in flashSeen
        <3>1. DOMAIN chain = 1..Len(chain) /\ Len(chain) \in Nat
            BY <1>2, LenProperties DEF IsHistory
        <3>. QED BY <1>1, <3>1
    <2>. QED BY <1>1, <2>2, <2>3, <2>4 DEF OpensFollow, OpensIn
<1>6. EntriesTell
    BY <1>1 DEF EntriesTell
<1>7. RowsShown
    BY <1>1 DEF RowsShown, NoRows
<1>8. \A r \in Requests : InPlay(r) /\ HasRow(r)
    BY <1>1 DEF InPlay, HasRow
<1>. QED BY <1>4, <1>5, <1>6, <1>7, <1>8 DEF BetInv

LEMMA BetNext ==
    ASSUME HostSnapshotAssumption, InOrderOrOneBet, ViewInv, BetInv, [Next]_vars
    PROVE  BetInv'
<1>1. IsHistory(chain) /\ TurnsTaken /\ OpensFollow /\ EntriesTell /\ RowsShown
    BY DEF ViewInv, BetInv
<1>2. BetsMove
    BY <1>1, BetsMoveOn
<1>3. TurnsTaken' /\ OpensFollow' /\ EntriesTell' /\ RowsShown'
    BY <1>1, <1>2, TurnsNext, OpensNext, EntriesNext, RowsShownNext
<1>4. \A r \in Requests : InPlay(r)' /\ HasRow(r)'
    BY <1>1, InPlayNext, HasRowNext DEF BetInv
<1>. QED BY <1>3, <1>4 DEF BetInv

\* A bet that has come back is shown by every render.
LEMMA RenderedBet ==
    ASSUME HostSnapshotAssumption, ViewInv, BetInv, Render, NEW r \in Requests,
           bets[r] = "done" \/ r \in published.pending, bets[r] # "failed"
    PROVE  r \in published'.pending \/ (Landed(r) /\ published'.item[SessionOf(r)] # None)
<1>0. IsHistory(chain) /\ OpensFollow /\ EntriesTell
    BY DEF ViewInv, BetInv
<1>1. bets[r] \notin {"idle", "failed"}
    BY DEF BetInv, RowsShown
<1>2. CASE \E o \in optimisticSessions : o.request = r
    <2>1. PICK o \in optimisticSessions : o.request = r
        BY <1>2
    <2>2. CASE o.session = Pending
        BY <2>1, <2>2 DEF Render
    <2>3. CASE o.session # Pending
        <3>1. OpensAs(chain, r, o.session)
            BY <1>0, <2>1, <2>3 DEF EntriesTell
        <3>2. o.session \in Ids /\ o.session = SessionOf(r) /\ Landed(r)
            BY <1>0, <3>1, OpenedInIds, OpenSession
        <3>. QED BY <2>1, <3>2, RenderShows DEF Item
    <2>. QED BY <2>2, <2>3
<1>3. CASE Held(r)
    <2>1. PICK s \in Ids : OpensAs(chain, r, s) /\ Item(s) # None
        BY <1>3 DEF Held
    <2>2. s = SessionOf(r) /\ Landed(r)
        BY <1>0, <2>1, OpenSession
    <2>3. [Next]_vars
        BY DEF Next
    <2>4. Item(s)' # None
        BY <2>1, <2>3, ViewInvKeepsListed
    <2>. QED BY <2>2, <2>4 DEF Item
<1>. QED BY <1>1, <1>2, <1>3 DEF BetInv, HasRow

\* A bet whose open was delivered keeps its row when its sending fails.
LEMMA FailedBet ==
    ASSUME HostSnapshotAssumption, ViewInv, BetInv, [Next]_vars, NEW r \in Requests,
           bets[r] = "accepted", bets'[r] = "failed", SeenOpen(chain, flashSeen, r)
    PROVE  \/ [request |-> r, session |-> SessionOf(r)] \in optimisticSessions'
           \/ rows[SessionOf(r)] # None
<1>0. IsHistory(chain) /\ OpensFollow /\ EntriesTell /\ TurnsTaken
    BY DEF ViewInv, BetInv
<1>1. Fail(r)
    <2>1. bets \in [Requests -> {"idle", "sending", "accepted", "done", "failed"}]
        BY <1>0 DEF TurnsTaken
    <2>2. ASSUME NEW q \in Requests, Bet(q) \/ Accept(q) \/ Receipt(q) PROVE FALSE
        <3>1. \E x \in {"sending", "accepted", "done"} : bets' = [bets EXCEPT ![q] = x]
            BY <2>2 DEF Bet, Accept, Receipt
        <3>. QED BY <2>1, <3>1
    <2>3. ASSUME NEW q \in Requests, Fail(q) PROVE q = r
        BY <2>1, <2>3 DEF Fail
    <2>4. bets' # bets
        OBVIOUS
    <2>5. \E q \in Requests : Bet(q) \/ Accept(q) \/ Receipt(q) \/ Fail(q)
        BY <2>4 DEF Next, Land, Step, FlashDeliver, IndexDeliver, Render, PruneEffect, SetWallet,
                    sendVars, vars
    <2>. QED BY <2>2, <2>3, <2>5
<1>2. \E c \in confirmedOpens : c.request = r
    BY DEF BetInv, InPlay
<1>3. PICK c \in confirmedOpens : c.request = r /\ optimisticSessions' = Confirmed(r, c.session)
    BY <1>1, <1>2 DEF Fail
<1>4. OpensAs(chain, r, c.session)
    BY <1>0, <1>3 DEF EntriesTell
<1>5. c.session = SessionOf(r) /\ c.session \in Nat
    BY <1>0, <1>4, OpenSession, OpenIsNatural
<1>6. CASE \E o \in optimisticSessions : o.request = r
    BY <1>0, <1>3, <1>5, <1>6, ConfirmedFacts DEF EntriesTell
<1>7. CASE Held(r)
    BY <1>0, <1>7, OpenSession DEF Held
<1>. QED BY <1>6, <1>7 DEF BetInv, HasRow

\* The live round never vanishes from the published snapshot, and a proven open
\* keeps its row when its send is reported as failed (useGameHost), where the
\* channels deliver in order or there is one bet.
THEOREM BetSafety ==
    ASSUME HostSnapshotAssumption, InOrderOrOneBet PROVE Spec => BetStaysVisible
<1>1. Init => ViewInv /\ BetInv
    BY ViewInit, BetInit
<1>2. ViewInv /\ BetInv /\ [Next]_vars => ViewInv' /\ BetInv'
    BY ViewNext, BetNext
<1>. DEFINE Visible == \A r \in Requests :
          /\ (bets[r] = "done" \/ r \in published.pending) /\ bets[r] # "failed" /\ Render
             => r \in published'.pending \/ (Landed(r) /\ published'.item[SessionOf(r)] # None)
          /\ /\ bets[r] = "accepted" /\ bets'[r] = "failed" /\ Landed(r)
             /\ \E i \in flashSeen : chain[i].name = "Opened" /\ chain[i].request = r
             => \/ [request |-> r, session |-> SessionOf(r)] \in optimisticSessions'
                \/ rows[SessionOf(r)] # None
<1>3. ViewInv /\ BetInv /\ [Next]_vars => Visible
    <2>. SUFFICES ASSUME ViewInv, BetInv, [Next]_vars, NEW r \in Requests
                  PROVE  /\ (bets[r] = "done" \/ r \in published.pending) /\ bets[r] # "failed" /\ Render
                            => r \in published'.pending \/ (Landed(r) /\ published'.item[SessionOf(r)] # None)
                         /\ /\ bets[r] = "accepted" /\ bets'[r] = "failed" /\ Landed(r)
                            /\ \E i \in flashSeen : chain[i].name = "Opened" /\ chain[i].request = r
                            => \/ [request |-> r, session |-> SessionOf(r)] \in optimisticSessions'
                               \/ rows[SessionOf(r)] # None
        OBVIOUS
    <2>1. (bets[r] = "done" \/ r \in published.pending) /\ bets[r] # "failed" /\ Render
             => r \in published'.pending \/ (Landed(r) /\ published'.item[SessionOf(r)] # None)
        BY RenderedBet
    <2>2. (\E i \in flashSeen : chain[i].name = "Opened" /\ chain[i].request = r)
             => SeenOpen(chain, flashSeen, r)
        BY DEF BetInv, OpensFollow, SeenOpen, OpensIn
    <2>3. /\ bets[r] = "accepted" /\ bets'[r] = "failed" /\ Landed(r)
          /\ \E i \in flashSeen : chain[i].name = "Opened" /\ chain[i].request = r
          => \/ [request |-> r, session |-> SessionOf(r)] \in optimisticSessions'
             \/ rows[SessionOf(r)] # None
        BY <2>2, FailedBet
    <2>. QED BY <2>1, <2>3
<1>. QED BY <1>1, <1>2, <1>3, PTL DEF Spec, BetStaysVisible
-----------------------------------------------------------------------------
(***************************************************************************)
(* What is shown of a bet's round only moves forward.                      *)
(***************************************************************************)

LEMMA RecordFacts ==
    ASSUME NEW c, IsRecord(c), NEW i \in DOMAIN c
    PROVE  /\ c[i] \in Events /\ c[i].session \in Nat
           /\ c[i].name \in {"Opened", "Advanced", "Settled"}
           /\ c[i].name = "Advanced" =>
                /\ c[i].step \in Nat \ {0} /\ c[i].state = c[i].step
                /\ c[i].phase \in Waiting /\ c[i].word \in Nat /\ c[i].asks \in BOOLEAN
           /\ c[i].name = "Settled" =>
                /\ c[i].state \in Nat /\ c[i].phase \in Terminal
                /\ c[i].payout \in Nat /\ c[i].word \in Nat
                /\ c[i].phase = "SETTLED" => c[i].state # 0
<1>1. c \in Seq(Events)
    BY DEF IsRecord
<1>2. c[i] \in Events
    BY <1>1, LenProperties, ElementOfSeq
<1>. QED BY <1>2 DEF Events, IsRecord

\* What the chain tells up to its k-th event.
SettledAt(c, k) == k > 1 /\ c[k].name = "Settled"
StateAt(c, k) == IF k > 1 THEN c[k].state ELSE 0
PhaseAt(c, k) == IF k > 1 THEN c[k].phase ELSE "NONE"
StepAt(c, k) == IF k <= 1 THEN 0 ELSE IF c[k].name = "Settled" THEN k - 2 ELSE k - 1

\* The row after g events, and the patch after f of them, which is undefined
\* while the row has them all.
RowAt(c, g, row) ==
    /\ row \in Rows /\ (row.opened <=> g > 0)
    /\ (row.settled <=> SettledAt(c, g)) /\ row.phase = PhaseAt(c, g)
    /\ row.state = StateAt(c, g) /\ row.step = StepAt(c, g)
    /\ \A q \in row.requests : q.word # 0 => q.word = q.nonce /\ q.word <= g - 2
    /\ \A k \in 2..g : c[k].word # 0 => Recorded(row, c[k].word)

PatchAt(c, f, patch) ==
    /\ patch \in Patches
    /\ (patch.settled <=> SettledAt(c, f)) /\ patch.phase = PhaseAt(c, f)
    /\ patch.state = StateAt(c, f)
    /\ ~patch.settled => /\ patch.step = StepAt(c, f)
                         /\ patch.phase = "WAITING_RANDOMNESS" => patch.requestNonce = f - 1
    /\ patch.fulfilledNonce # 0 => patch.word = patch.fulfilledNonce /\ patch.word <= f - 2
    /\ patch.fulfilledNonce = 0 /\ patch.word # 0 => patch.settled /\ patch.word = c[f].word

Base(row) == IF row = None THEN InitialRow ELSE row

LayersAt(c, f, g, row, patch) ==
    /\ f \in 0..Len(c) /\ g \in 0..Len(c)
    /\ (row = None <=> g = 0) /\ RowAt(c, g, Base(row))
    /\ patch = None => f <= g
    /\ patch # None => f > 0 /\ PatchAt(c, f, patch)

\* A word that came alone, with a settlement, is the next one of the row.
WordsAt(f, g, patch) ==
    patch # None /\ patch.fulfilledNonce = 0 /\ patch.word # 0 => f - 1 <= g

\* The words that an item of the two may show: the latest of them is shown.
Heard(row, patch) ==
    {0} \cup {q.nonce : q \in {p \in row.requests : p.word # 0}}
        \cup {w \in {patch.word} :
                 patch # None /\ (patch.fulfilledNonce # 0 \/ \A q \in row.requests : q.word = 0)}

\* The item of a row and a patch; optimistic: there is an entry for it.
Blend(row, patch, optimistic) ==
    IF row = None
    THEN IF optimistic THEN MergeIntoItem(OptimisticItem, patch) ELSE None
    ELSE IF optimistic /\ Projected(row, patch).phase = "NONE" THEN OptimisticItem
    ELSE Projected(row, patch)

\* x is no step back from y; again: another bet was placed beside it; here: it is
\* a round of this page's bets.
Ahead(x, y, again, here) ==
    /\ x.state >= y.state /\ (here => x.word >= y.word)
    /\ x.phase = "NONE" => y.phase = "NONE" \/ again
    /\ y.settled => x.settled

-----------------------------------------------------------------------------
\* The chain of one session

LEMMA ChainAt ==
    ASSUME NEW c, IsRecord(c), OneSession(c), NEW k \in 0..Len(c)
    PROVE  /\ Len(c) \in Nat /\ k \in Nat
           /\ StateAt(c, k) \in Nat /\ StepAt(c, k) \in Nat /\ PhaseAt(c, k) \in Phases
           /\ k <= 1 => /\ ~SettledAt(c, k) /\ StateAt(c, k) = 0 /\ StepAt(c, k) = 0
                        /\ PhaseAt(c, k) = "NONE"
           /\ k > 1 => k \in DOMAIN c \ {1} /\ PhaseAt(c, k) # "NONE"
           /\ SettledAt(c, k) => /\ k = Len(c) /\ k > 1 /\ c[k].name = "Settled"
                                 /\ PhaseAt(c, k) \in Terminal /\ StepAt(c, k) = k - 2
                                 /\ StateAt(c, k) \in {k - 1, k - 2}
           /\ ~SettledAt(c, k) /\ k > 1 =>
                 /\ c[k].name = "Advanced" /\ PhaseAt(c, k) \in Waiting
                 /\ StepAt(c, k) = k - 1 /\ StateAt(c, k) = k - 1
<1>1. Len(c) \in Nat /\ DOMAIN c = 1..Len(c) /\ k \in Nat
    BY LenProperties DEF IsRecord
<1>2. CASE k <= 1
    <2>1. ~(k > 1)
        BY <1>1, <1>2
    <2>2. /\ ~SettledAt(c, k) /\ StateAt(c, k) = 0 /\ StepAt(c, k) = 0
          /\ PhaseAt(c, k) = "NONE"
        BY <1>2, <2>1 DEF SettledAt, StateAt, StepAt, PhaseAt
    <2>3. PhaseAt(c, k) \in Phases /\ StateAt(c, k) \in Nat /\ StepAt(c, k) \in Nat
        BY <2>2, PhaseFacts
    <2>. QED BY <1>1, <2>1, <2>2, <2>3, Zenon
<1>3. CASE k > 1
    <2>1. k \in DOMAIN c \ {1}
        BY <1>1, <1>3
    <2>2. /\ c[k].name # "Opened"
          /\ c[k].name = "Advanced" => c[k].step = k - 1
          /\ c[k].name = "Settled" => k = Len(c) /\ c[k].state \in {k - 1, k - 2}
        BY <2>1 DEF OneSession
    <2>3. /\ c[k].name \in {"Opened", "Advanced", "Settled"}
          /\ c[k].name = "Advanced" => c[k].state = c[k].step /\ c[k].phase \in Waiting
          /\ c[k].name = "Settled" => c[k].state \in Nat /\ c[k].phase \in Terminal
        BY <2>1, RecordFacts
    <2>a. StateAt(c, k) = c[k].state /\ PhaseAt(c, k) = c[k].phase /\ ~(k <= 1)
        BY <1>1, <1>3 DEF StateAt, PhaseAt
    <2>4. CASE c[k].name = "Advanced"
        <3>1. ~SettledAt(c, k) /\ StepAt(c, k) = k - 1
            BY <1>1, <1>3, <2>a, <2>4 DEF SettledAt, StepAt
        <3>2. c[k].phase \in Phases /\ c[k].phase # "NONE" /\ c[k].phase \in Waiting
            BY <2>3, <2>4, PhaseFacts
        <3>. QED BY <1>1, <1>3, <2>1, <2>2, <2>3, <2>4, <2>a, <3>1, <3>2
    <2>5. CASE c[k].name = "Settled"
        <3>1. SettledAt(c, k) /\ StepAt(c, k) = k - 2 /\ k - 2 \in Nat
            BY <1>1, <1>3, <2>a, <2>5 DEF SettledAt, StepAt
        <3>2. c[k].phase \in Phases /\ c[k].phase # "NONE" /\ c[k].phase \in Terminal
            BY <2>3, <2>5, PhaseFacts
        <3>3. /\ k = Len(c) /\ k > 1 /\ ~(k <= 1) /\ k \in Nat /\ Len(c) \in Nat
              /\ StateAt(c, k) = c[k].state /\ PhaseAt(c, k) = c[k].phase
              /\ c[k].state \in Nat /\ c[k].state \in {k - 1, k - 2}
              /\ c[k].phase \in Phases /\ c[k].phase # "NONE" /\ c[k].phase \in Terminal
            BY <1>1, <1>3, <2>2, <2>3, <2>5, <2>a, <3>2
        <3>. QED BY <2>1, <2>5, <3>1, <3>3
    <2>. QED BY <2>2, <2>3, <2>4, <2>5
<1>4. k <= 1 \/ k > 1
    BY <1>1
<1>. QED BY <1>2, <1>3, <1>4

\* The further along the chain, the more it tells.
LEMMA ChainOnward ==
    ASSUME NEW c, IsRecord(c), OneSession(c), NEW k \in 0..Len(c), NEW m \in 0..Len(c), k <= m
    PROVE  /\ StateAt(c, k) <= StateAt(c, m) /\ StepAt(c, k) <= StepAt(c, m)
           /\ SettledAt(c, k) => m = k
           /\ PhaseAt(c, m) = "NONE" => PhaseAt(c, k) = "NONE"
<1>1. Len(c) \in Nat /\ k \in Nat /\ m \in Nat
    BY ChainAt
<1>2. SettledAt(c, k) => m = k
    BY <1>1, ChainAt
<1>3. PhaseAt(c, m) = "NONE" => PhaseAt(c, k) = "NONE"
    <2>1. PhaseAt(c, m) = "NONE" => m <= 1
        BY <1>1, ChainAt
    <2>2. k <= 1 => PhaseAt(c, k) = "NONE"
        BY ChainAt
    <2>. QED BY <1>1, <2>1, <2>2
<1>4. CASE k = m
    <2>1. StateAt(c, k) \in Nat /\ StepAt(c, k) \in Nat
        BY ChainAt
    <2>. QED BY <1>2, <1>3, <1>4, <2>1
<1>5. CASE k < m
    <2>1. ~SettledAt(c, k)
        BY <1>1, <1>2, <1>5
    <2>2. /\ StateAt(c, k) = IF k <= 1 THEN 0 ELSE k - 1
          /\ StepAt(c, k) = IF k <= 1 THEN 0 ELSE k - 1
        BY <1>1, <2>1, ChainAt
    <2>3. /\ StateAt(c, m) \in Nat /\ StepAt(c, m) \in Nat
          /\ m > 1 => StateAt(c, m) \in {m - 1, m - 2} /\ StepAt(c, m) \in {m - 1, m - 2}
        BY <1>1, ChainAt
    <2>. QED BY <1>1, <1>2, <1>3, <1>5, <2>2, <2>3
<1>. QED BY <1>1, <1>4, <1>5

\* A longer chain tells the same up to there.
LEMMA ChainSame ==
    ASSUME NEW c, IsRecord(c), NEW d, Extends(c, d), NEW k \in 0..Len(c)
    PROVE  /\ SettledAt(d, k) <=> SettledAt(c, k)
           /\ StateAt(d, k) = StateAt(c, k) /\ StepAt(d, k) = StepAt(c, k)
           /\ PhaseAt(d, k) = PhaseAt(c, k)
           /\ k > 1 => d[k] = c[k]
<1>1. Len(c) \in Nat /\ DOMAIN c = 1..Len(c) /\ k \in Nat
    BY LenProperties DEF IsRecord
<1>2. k > 1 => k \in DOMAIN c /\ d[k] = c[k]
    BY <1>1 DEF Extends
<1>. QED BY <1>1, <1>2 DEF SettledAt, StateAt, StepAt, PhaseAt

\* Nothing is told of it yet.
LEMMA LayersAtFirst ==
    ASSUME NEW c, Len(c) \in Nat
    PROVE  LayersAt(c, 0, 0, None, None)
<1>1. InitialRow \in Rows
    BY InitialRowTells DEF RowTells
<1>2. RowAt(c, 0, InitialRow)
    BY <1>1 DEF RowAt, SettledAt, PhaseAt, StateAt, StepAt, InitialRow
<1>. QED BY <1>2 DEF LayersAt, Base

LEMMA LayersStay ==
    ASSUME NEW c, IsRecord(c), NEW d, IsRecord(d), Extends(c, d), NEW f, NEW g, NEW row, NEW patch,
           LayersAt(c, f, g, row, patch)
    PROVE  LayersAt(d, f, g, row, patch)
<1>1. /\ Len(c) \in Nat /\ Len(d) \in Nat /\ DOMAIN c = 1..Len(c) /\ DOMAIN d = 1..Len(d)
      /\ f \in 0..Len(c) /\ g \in 0..Len(c)
    BY LenProperties DEF IsRecord, LayersAt
<1>2. Len(c) <= Len(d)
    BY <1>1 DEF Extends
<1>3. RowAt(d, g, Base(row))
    <2>1. RowAt(c, g, Base(row))
        BY DEF LayersAt
    <2>2. \A k \in 2..g : d[k] = c[k]
        BY <1>1 DEF Extends
    <2>. QED BY <1>1, <2>1, <2>2, ChainSame DEF RowAt
<1>4. patch # None => PatchAt(d, f, patch)
    <2>. SUFFICES ASSUME patch # None PROVE PatchAt(d, f, patch)
        OBVIOUS
    <2>1. PatchAt(c, f, patch) /\ f > 0
        BY DEF LayersAt
    <2>2. d[f] = c[f]
        BY <1>1, <2>1 DEF Extends
    <2>. QED BY <1>1, <2>1, <2>2, ChainSame DEF PatchAt
<1>. QED BY <1>1, <1>2, <1>3, <1>4 DEF LayersAt

-----------------------------------------------------------------------------
\* A row and a patch with one more event

LEMMA FulfilledKeeps ==
    ASSUME NEW R \in SUBSET RandomnessRequests, NEW n \in Nat, NEW w \in Nat
    PROVE  /\ \A q \in R : q.word # 0 => q \in Fulfilled(R, n, w)
           /\ \A q \in Fulfilled(R, n, w) : q.word # 0 => q \in R \/ (q.nonce = n /\ q.word = w)
           /\ w # 0 => \E q \in Fulfilled(R, n, w) : q.nonce = n /\ q.word # 0
<1>. DEFINE e == [nonce |-> n, word |-> w]
<1>1. e.nonce = n /\ e.word = w
    OBVIOUS
<1>. HIDE DEF e
<1>2. Fulfilled(R, n, w) = IF w = 0 THEN R ELSE Upsert(R, e)
    BY DEF Fulfilled, e
<1>. QED BY <1>1, <1>2 DEF Upsert

LEMMA AskedKeeps ==
    ASSUME NEW R \in SUBSET RandomnessRequests, NEW n \in Nat
    PROVE  LET new == Upsert(R, [nonce |-> n, word |-> 0])
           IN  /\ \A q \in R : q.word # 0 => q \in new
               /\ \A q \in new : q.word # 0 => q \in R
<1>. DEFINE e == [nonce |-> n, word |-> 0]
<1>1. e.nonce = n /\ e.word = 0
    OBVIOUS
<1>. HIDE DEF e
<1>2. /\ \A q \in R : q.word # 0 => q \in Upsert(R, e)
      /\ \A q \in Upsert(R, e) : q.word # 0 => q \in R
    BY <1>1 DEF Upsert
<1>. QED BY <1>2 DEF e

LEMMA EvolveAt ==
    ASSUME NEW c, IsRecord(c), OneSession(c), NEW g \in 0..Len(c), g < Len(c),
           NEW row, RowAt(c, g, row),
           NEW d, IsHistory(d), NEW j \in DOMAIN d, d[j] = c[g + 1], RowTells(d, d[j].session, row)
    PROVE  /\ RowAt(c, g + 1, Evolve(row, c[g + 1]))
           /\ \A q \in row.requests : q.word # 0 => q \in Evolve(row, c[g + 1]).requests
<1>. DEFINE k == g + 1
            e == c[k]
            new == Evolve(row, e)
            Words(R) == /\ \A q \in row.requests : q.word # 0 => q \in R
                        /\ \A q \in R : q.word # 0 => q.word = q.nonce /\ q.word <= k - 2
                        /\ g > 0 /\ e.word # 0 => \E q \in R : q.nonce = e.word /\ q.word # 0
<1>0. /\ Len(c) \in Nat /\ DOMAIN c = 1..Len(c) /\ g \in Nat /\ k \in Nat /\ k \in DOMAIN c
      /\ k \in 0..Len(c)
    BY LenProperties DEF IsRecord
<1>1. /\ row \in Rows /\ row.requests \in SUBSET RandomnessRequests
      /\ \A q \in row.requests : q.word \in Nat /\ q.nonce \in Nat
    BY DEF RowAt, Rows, RandomnessRequests
<1>2. new \in Rows
    <2>1. RowTells(d, d[j].session, Evolve(row, d[j]))
        BY EvolveTells
    <2>. QED BY <2>1 DEF RowTells
<1>3. /\ ~SettledAt(c, g) /\ ~row.settled /\ row.step = IF g = 0 THEN 0 ELSE g - 1
    <2>1. ~SettledAt(c, g)
        BY <1>0, ChainAt
    <2>2. StepAt(c, g) = IF g = 0 THEN 0 ELSE g - 1
        <3>1. CASE g <= 1
            BY <1>0, <3>1, ChainAt
        <3>2. CASE g > 1
            BY <1>0, <2>1, <3>2, ChainAt
        <3>. QED BY <1>0, <3>1, <3>2
    <2>. QED BY <2>1, <2>2 DEF RowAt
<1>4. \A q \in row.requests : q.word # 0 => q.word = q.nonce /\ q.word <= k - 2
    <2>. SUFFICES ASSUME NEW q \in row.requests, q.word # 0
                  PROVE  q.word = q.nonce /\ q.word <= k - 2
        OBVIOUS
    <2>1. q.word = q.nonce /\ q.word <= g - 2 /\ q.word \in Nat
        BY <1>1 DEF RowAt
    <2>. QED BY <1>0, <2>1
<1>5. ASSUME Words(new.requests), new.opened, g > 0 => (new.settled <=> e.name = "Settled"),
             g = 0 => ~new.settled,
             new.phase = PhaseAt(c, k), new.state = StateAt(c, k), new.step = StepAt(c, k)
      PROVE  /\ RowAt(c, k, new)
             /\ \A q \in row.requests : q.word # 0 => q \in new.requests
    <2>. HIDE DEF new
    <2>1. SettledAt(c, k) <=> g > 0 /\ e.name = "Settled"
        BY <1>0 DEF SettledAt
    <2>2. new.settled <=> SettledAt(c, k)
        BY <1>0, <1>5, <2>1
    <2>3. \A i \in 2..k : c[i].word # 0 => Recorded(new, c[i].word)
        <3>. SUFFICES ASSUME NEW i \in 2..k, c[i].word # 0 PROVE Recorded(new, c[i].word)
            OBVIOUS
        <3>1. CASE i = k
            BY <1>0, <1>5, <3>1 DEF Recorded
        <3>2. CASE i # k
            <4>1. i \in 2..g
                BY <1>0, <3>2
            <4>2. Recorded(row, c[i].word)
                BY <4>1 DEF RowAt
            <4>. QED BY <1>5, <4>2 DEF Recorded
        <3>. QED BY <3>1, <3>2
    <2>4. k > 0
        BY <1>0
    <2>5. \A q \in row.requests : q.word # 0 => q \in new.requests
        BY <1>5
    <2>6. \A q \in new.requests : q.word # 0 => q.word = q.nonce /\ q.word <= k - 2
        BY <1>5
    <2>7. RowAt(c, k, new)
        BY <1>2, <1>5, <2>2, <2>3, <2>4, <2>6 DEF RowAt
    <2>. QED BY <2>5, <2>7
<1>6. CASE g = 0
    <2>1. k = 1 /\ c # <<>>
        BY <1>0, <1>6
    <2>2. e.name = "Opened"
        BY <2>1 DEF OneSession
    <2>3. new = [row EXCEPT !.opened = TRUE]
        BY <2>2 DEF Evolve, EvolveOpened
    <2>4. /\ new.opened /\ new.settled = row.settled /\ new.phase = row.phase
          /\ new.state = row.state /\ new.step = row.step /\ new.requests = row.requests
        BY <1>1, <2>3 DEF Rows
    <2>5. /\ row.phase = PhaseAt(c, k) /\ row.state = StateAt(c, k) /\ row.step = StepAt(c, k)
        BY <1>0, <1>6, <2>1 DEF RowAt, PhaseAt, StateAt, StepAt
    <2>6. Words(new.requests)
        BY <1>4, <1>6, <2>4
    <2>. QED BY <1>3, <1>5, <1>6, <2>4, <2>5, <2>6
<1>7. CASE g > 0
    <2>0. k > 1 /\ k \in DOMAIN c \ {1}
        BY <1>0, <1>7
    <2>1. /\ e.name # "Opened" /\ e.word \in {0, g - 1} /\ g - 1 \in Nat /\ e.word \in Nat
          /\ e.name = "Advanced" => e.step = g /\ e.asks \in BOOLEAN
          /\ e.name \in {"Advanced", "Settled"}
        BY <1>0, <1>7, <2>0, RecordFacts DEF OneSession
    <2>2. row.step = g - 1
        BY <1>0, <1>3, <1>7
    <2>. DEFINE done == Fulfilled(row.requests, g - 1, e.word)
    <2>3. Words(done) /\ done \in SUBSET RandomnessRequests
        <3>1. /\ \A q \in row.requests : q.word # 0 => q \in done
              /\ \A q \in done : q.word # 0 => q \in row.requests \/ (q.nonce = g - 1 /\ q.word = e.word)
              /\ e.word # 0 => \E q \in done : q.nonce = g - 1 /\ q.word # 0
            BY <1>1, <2>1, FulfilledKeeps
        <3>2. \A r \in row.requests : r.nonce <= g - 1
            BY <2>2 DEF RowTells
        <3>3. done \in SUBSET RandomnessRequests
            <4>1. g - 1 <= g - 1 /\ g - 1 \in Nat
                BY <2>1
            <4>2. Fulfilled(row.requests, g - 1, e.word) \in SUBSET RandomnessRequests
                BY <1>1, <2>1, <3>2, <4>1, RequestsKept
            <4>. QED BY <4>2
        <3>. HIDE DEF done
        <3>4. \A q \in done : q.word # 0 => q.word = q.nonce /\ q.word <= k - 2
            BY <1>0, <1>4, <2>1, <3>1
        <3>. QED BY <2>1, <3>1, <3>3, <3>4
    <2>4. CASE e.name = "Advanced"
        <3>. DEFINE asked == IF e.asks THEN Upsert(done, [nonce |-> g, word |-> 0]) ELSE done
        <3>1. ~(row.settled \/ e.step <= row.step)
            BY <1>0, <1>3, <2>1, <2>2, <2>4
        <3>2. new = [row EXCEPT !.step = g, !.phase = e.phase, !.state = e.state, !.requests = asked]
            BY <2>1, <2>4, <3>1 DEF Evolve, EvolveAdvanced
        <3>. HIDE DEF done
        <3>3. Words(asked)
            <4>1. CASE e.asks
                <5>1. /\ \A q \in done : q.word # 0 => q \in Upsert(done, [nonce |-> g, word |-> 0])
                      /\ \A q \in Upsert(done, [nonce |-> g, word |-> 0]) : q.word # 0 => q \in done
                    BY <1>0, <2>3, AskedKeeps
                <5>2. asked = Upsert(done, [nonce |-> g, word |-> 0])
                    BY <4>1
                <5>. HIDE DEF asked
                <5>. QED BY <2>3, <5>1, <5>2
            <4>2. CASE ~e.asks
                BY <2>3, <4>2
            <4>. QED BY <4>1, <4>2
        <3>. HIDE DEF asked
        <3>4. /\ new.opened = row.opened /\ new.settled = row.settled /\ new.phase = e.phase
              /\ new.state = e.state /\ new.step = g /\ new.requests = asked
            BY <1>1, <3>2 DEF Rows
        <3>5. /\ e.phase = PhaseAt(c, k) /\ e.state = StateAt(c, k) /\ g = StepAt(c, k)
            BY <1>0, <2>0, <2>4 DEF PhaseAt, StateAt, StepAt
        <3>6. row.opened
            BY <1>7 DEF RowAt
        <3>. HIDE DEF new
        <3>7. Words(new.requests)
            BY <3>3, <3>4
        <3>8. new.opened /\ (g > 0 => (new.settled <=> e.name = "Settled")) /\ (g = 0 => ~new.settled)
            BY <1>3, <2>4, <3>4, <3>6
        <3>9. /\ new.phase = PhaseAt(c, k) /\ new.state = StateAt(c, k)
              /\ new.step = StepAt(c, k)
            BY <3>4, <3>5
        <3>. HIDE DEF Words, e, k
        <3>10. /\ RowAt(c, k, new)
               /\ \A q \in row.requests : q.word # 0 => q \in new.requests
            BY <1>5, <3>7, <3>8, <3>9
        <3>. QED BY <3>10 DEF k, new, e
    <2>5. CASE e.name = "Settled"
        <3>1. new = [row EXCEPT !.settled = TRUE, !.phase = e.phase, !.payout = e.payout,
                                !.state = e.state, !.requests = done]
            BY <2>2, <2>5 DEF Evolve, EvolveSettled
        <3>. HIDE DEF done
        <3>2. /\ new.opened = row.opened /\ new.settled /\ new.phase = e.phase
              /\ new.state = e.state /\ new.step = g - 1 /\ new.requests = done
            BY <1>1, <2>2, <3>1 DEF Rows
        <3>3. /\ e.phase = PhaseAt(c, k) /\ e.state = StateAt(c, k) /\ g - 1 = StepAt(c, k)
            BY <1>0, <2>0, <2>5 DEF PhaseAt, StateAt, StepAt
        <3>4. row.opened
            BY <1>7 DEF RowAt
        <3>. HIDE DEF new
        <3>5. Words(new.requests)
            BY <2>3, <3>2
        <3>6. new.opened /\ (g > 0 => (new.settled <=> e.name = "Settled")) /\ (g = 0 => ~new.settled)
            BY <1>7, <2>5, <3>2, <3>4
        <3>7. /\ new.phase = PhaseAt(c, k) /\ new.state = StateAt(c, k)
              /\ new.step = StepAt(c, k)
            BY <3>2, <3>3
        <3>. HIDE DEF Words, e, k
        <3>8. /\ RowAt(c, k, new)
              /\ \A q \in row.requests : q.word # 0 => q \in new.requests
            BY <1>5, <3>5, <3>6, <3>7
        <3>. QED BY <3>8 DEF k, new, e
    <2>. QED BY <2>1, <2>4, <2>5
<1>. QED BY <1>0, <1>6, <1>7

LEMMA FulfillmentSets ==
    ASSUME NEW patch \in Patches, NEW n \in Nat, NEW w \in Nat
    PROVE  LET new == WithFulfillment(patch, n, w)
           IN  /\ new \in Patches /\ new.settled = patch.settled /\ new.phase = patch.phase
               /\ new.state = patch.state /\ new.step = patch.step
               /\ new.requestNonce = patch.requestNonce
               /\ w # 0 => new.word = w /\ (n # 0 => new.fulfilledNonce = n)
               /\ w = 0 => new.word = patch.word
               /\ w = 0 \/ n = 0 => new.fulfilledNonce = patch.fulfilledNonce
<1>1. CASE w = 0
    BY <1>1 DEF WithFulfillment
<1>2. CASE w # 0 /\ n = 0
    BY <1>2 DEF WithFulfillment, Patches
<1>3. CASE w # 0 /\ n # 0
    BY <1>3 DEF WithFulfillment, Patches
<1>. QED BY <1>1, <1>2, <1>3

LEMMA ApplyAt ==
    ASSUME NEW c, IsRecord(c), OneSession(c), NEW f \in 0..Len(c), f < Len(c),
           NEW patch, patch # None => f > 0 /\ PatchAt(c, f, patch)
    PROVE  LET new == ApplyFlashblockEvent(patch, c[f + 1])
           IN  /\ PatchAt(c, f + 1, new)
               /\ new.fulfilledNonce = 0 /\ new.word # 0 => patch = None
               /\ patch # None => /\ patch.fulfilledNonce = 0 => patch.word = 0
                                  /\ patch.fulfilledNonce # 0 =>
                                        new.fulfilledNonce # 0 /\ patch.word <= new.word
<1>. DEFINE k == f + 1
            e == c[k]
            p == IF patch = None THEN EmptyPatch ELSE patch
            new == ApplyFlashblockEvent(patch, e)
            Good(x) == /\ PatchAt(c, k, x)
                       /\ x.fulfilledNonce = 0 /\ x.word # 0 => patch = None
                       /\ patch # None => /\ patch.fulfilledNonce = 0 => patch.word = 0
                                          /\ patch.fulfilledNonce # 0 =>
                                                x.fulfilledNonce # 0 /\ patch.word <= x.word
<1>. SUFFICES Good(new)
    OBVIOUS
<1>0. /\ Len(c) \in Nat /\ DOMAIN c = 1..Len(c) /\ f \in Nat /\ k \in Nat /\ k \in DOMAIN c
      /\ k \in 0..Len(c)
    BY LenProperties DEF IsRecord
<1>1. /\ e.name = "Opened" => new = p
      /\ e.name = "Advanced" => new = PatchAdvanced(p, e)
      /\ e.name = "Settled" => new = PatchSettled(p, e)
    BY DEF ApplyFlashblockEvent
<1>2. p \in Patches
    BY EmptyPatchTells DEF PatchAt, PatchTells
<1>3. ~SettledAt(c, f)
    BY <1>0, ChainAt
<1>4. /\ ~p.settled /\ p.fulfilledNonce \in Nat /\ p.word \in Nat /\ p.requestNonce \in Nat
      /\ p.step \in Nat
      /\ p.fulfilledNonce = 0 => p.word = 0
      /\ p.fulfilledNonce # 0 => p.word = p.fulfilledNonce /\ p.word <= f - 2
    <2>1. CASE patch = None
        BY <2>1 DEF EmptyPatch
    <2>2. CASE patch # None
        BY <1>2, <1>3, <2>2 DEF PatchAt, Patches
    <2>. QED BY <2>1, <2>2
<1>5. CASE f = 0
    <2>1. k = 1 /\ c # <<>> /\ patch = None
        BY <1>0, <1>5
    <2>2. e.name = "Opened"
        BY <2>1 DEF OneSession
    <2>3. new = EmptyPatch
        BY <1>1, <2>1, <2>2
    <2>4. PatchAt(c, 1, EmptyPatch)
        <3>1. EmptyPatch \in Patches
            BY EmptyPatchTells DEF PatchTells
        <3>. QED BY <3>1 DEF PatchAt, EmptyPatch, SettledAt, PhaseAt, StateAt, StepAt
    <2>5. EmptyPatch.word = 0
        BY DEF EmptyPatch
    <2>. QED BY <2>1, <2>3, <2>4, <2>5
<1>6. CASE f > 0
    <2>0. k > 1 /\ k \in DOMAIN c \ {1} /\ k - 2 \in Nat /\ f - 1 \in Nat /\ f - 1 = k - 2
        BY <1>0, <1>6
    <2>1. /\ e.name # "Opened" /\ e.word \in {0, f - 1} /\ e.word \in Nat
          /\ e.name = "Advanced" => e.step = f /\ e.asks = (e.phase = "WAITING_RANDOMNESS")
          /\ e.word # 0 => c[f].phase = "WAITING_RANDOMNESS" /\ f > 1
          /\ e.name \in {"Advanced", "Settled"}
          /\ e.state \in Nat /\ e.phase \in Phases /\ e.phase # "NONE"
          /\ e.name = "Settled" => e.payout \in Nat
        <3>1. /\ e.name # "Opened" /\ e.word \in {0, k - 2}
              /\ e.word # 0 => c[k - 1].phase = "WAITING_RANDOMNESS"
              /\ e.name = "Advanced" => e.step = k - 1 /\ e.asks = (e.phase = "WAITING_RANDOMNESS")
            BY <2>0 DEF OneSession
        <3>2. k - 1 = f
            BY <1>0
        <3>3. e.name \in {"Opened", "Advanced", "Settled"}
            BY <1>0, RecordFacts
        <3>4. /\ e.name = "Settled" => e.payout \in Nat /\ e.state \in Nat /\ e.phase \in Terminal
              /\ e.name = "Advanced" => e.state = e.step /\ e.phase \in Waiting
            BY <1>0, RecordFacts
        <3>5. e.name = "Advanced" => e.state \in Nat
            BY <1>0, <3>1, <3>2, <3>4
        <3>6. e.phase \in Phases /\ e.phase # "NONE"
            BY <3>1, <3>3, <3>4, PhaseFacts
        <3>7. e.word \in Nat /\ (e.word # 0 => f > 1)
            BY <1>0, <1>6, <2>0, <3>1
        <3>. QED BY <2>0, <3>1, <3>2, <3>3, <3>4, <3>5, <3>6, <3>7
    <2>2. p.step <= f - 1
        <3>1. CASE patch = None
            BY <2>0, <3>1 DEF EmptyPatch
        <3>2. CASE patch # None
            <4>1. p.step = StepAt(c, f)
                BY <1>4, <3>2 DEF PatchAt
            <4>2. StepAt(c, f) <= f - 1
                <5>1. CASE f <= 1
                    BY <1>0, <1>6, <5>1, ChainAt
                <5>2. CASE f > 1
                    BY <1>0, <1>3, <5>2, ChainAt
                <5>. QED BY <1>0, <5>1, <5>2
            <4>. QED BY <4>1, <4>2
        <3>. QED BY <3>1, <3>2
    <2>3. e.phase = PhaseAt(c, k) /\ e.state = StateAt(c, k)
        BY <2>0 DEF PhaseAt, StateAt
    <2>4. CASE e.name = "Advanced"
        <3>. DEFINE asked == IF e.asks THEN e.step ELSE p.requestNonce
                    next == [p EXCEPT !.step = e.step, !.phase = e.phase, !.state = e.state,
                                      !.requestNonce = asked]
                    x == WithFulfillment(next, f - 1, e.word)
        <3>1. ~(p.settled \/ e.step <= p.step)
            BY <1>0, <1>4, <2>1, <2>2, <2>4
        <3>2. new = x
            BY <1>1, <2>1, <2>4, <3>1 DEF PatchAdvanced
        <3>a. asked \in Nat /\ (e.phase = "WAITING_RANDOMNESS" => asked = f)
            BY <1>0, <1>4, <2>1, <2>4
        <3>. HIDE DEF asked
        <3>3. /\ next \in Patches /\ next.settled = p.settled /\ next.phase = e.phase
              /\ next.state = e.state /\ next.step = f
              /\ next.phase = "WAITING_RANDOMNESS" => next.requestNonce = f
              /\ next.fulfilledNonce = p.fulfilledNonce /\ next.word = p.word
            BY <1>0, <1>2, <1>4, <2>1, <2>4, <3>a DEF Patches
        <3>. HIDE DEF next
        <3>b. /\ x \in Patches /\ x.settled = next.settled /\ x.phase = next.phase
              /\ x.state = next.state /\ x.step = next.step
              /\ x.requestNonce = next.requestNonce
              /\ e.word # 0 => x.word = e.word /\ (f - 1 # 0 => x.fulfilledNonce = f - 1)
              /\ e.word = 0 => x.word = next.word
              /\ e.word = 0 \/ f - 1 = 0 => x.fulfilledNonce = next.fulfilledNonce
            <4>. HIDE DEF e
            <4>1. next \in Patches /\ f - 1 \in Nat /\ e.word \in Nat
                BY <2>0, <2>1, <3>3
            <4>. QED BY <4>1, FulfillmentSets
        <3>. HIDE DEF x, new
        <3>4. /\ new \in Patches /\ new.settled = next.settled /\ new.phase = next.phase
              /\ new.state = next.state /\ new.step = next.step
              /\ new.requestNonce = next.requestNonce
              /\ e.word # 0 => new.word = e.word /\ (f - 1 # 0 => new.fulfilledNonce = f - 1)
              /\ e.word = 0 => new.word = next.word
              /\ e.word = 0 \/ f - 1 = 0 => new.fulfilledNonce = next.fulfilledNonce
            BY <3>2, <3>b
        <3>5. ~SettledAt(c, k) /\ StepAt(c, k) = f
            BY <1>0, <2>0, <2>4 DEF SettledAt, StepAt
        <3>6. CASE e.word = 0
            <4>1. new.fulfilledNonce = p.fulfilledNonce /\ new.word = p.word
                BY <3>3, <3>4, <3>6
            <4>2. PatchAt(c, k, new)
                BY <1>0, <1>4, <2>3, <3>3, <3>4, <3>5, <4>1 DEF PatchAt
            <4>. QED BY <1>4, <4>1, <4>2
        <3>7. CASE e.word # 0
            <4>1. new.fulfilledNonce = f - 1 /\ new.word = f - 1 /\ f - 1 # 0
                BY <1>0, <2>1, <3>4, <3>7
            <4>2. PatchAt(c, k, new)
                BY <1>0, <1>4, <2>0, <2>3, <3>3, <3>4, <3>5, <4>1 DEF PatchAt
            <4>3. p.fulfilledNonce # 0 => p.word <= new.word
                BY <1>0, <1>4, <4>1
            <4>. QED BY <1>4, <4>1, <4>2, <4>3
        <3>. QED BY <3>6, <3>7
    <2>5. CASE e.name = "Settled"
        <3>. DEFINE next == [p EXCEPT !.settled = TRUE, !.phase = e.phase,
                                      !.payout = e.payout, !.state = e.state]
                    nonce == IF p.requestNonce # 0 THEN p.requestNonce ELSE p.step
                    x == WithFulfillment(next, nonce, e.word)
        <3>1. new = x
            BY <1>1, <1>4, <2>5 DEF PatchSettled
        <3>2. /\ next \in Patches /\ next.settled = TRUE /\ next.phase = e.phase
              /\ next.state = e.state
              /\ next.fulfilledNonce = p.fulfilledNonce /\ next.word = p.word
            BY <1>2, <2>1, <2>5 DEF Patches
        <3>3. nonce \in Nat /\ (e.word # 0 => nonce = IF patch = None THEN 0 ELSE f - 1)
            <4>1. CASE patch = None
                BY <4>1 DEF EmptyPatch
            <4>2. CASE patch # None
                <5>1. ASSUME e.word # 0 PROVE p.requestNonce = f - 1 /\ f - 1 # 0
                    <6>1. p.phase = "WAITING_RANDOMNESS"
                        BY <1>0, <2>1, <4>2, <5>1 DEF PatchAt, PhaseAt
                    <6>. QED BY <1>0, <1>4, <2>1, <4>2, <5>1, <6>1 DEF PatchAt
                <5>. QED BY <1>4, <4>2, <5>1
            <4>. QED BY <4>1, <4>2
        <3>. HIDE DEF next, nonce
        <3>a. /\ x \in Patches /\ x.settled = next.settled /\ x.phase = next.phase
              /\ x.state = next.state
              /\ e.word # 0 => x.word = e.word /\ (nonce # 0 => x.fulfilledNonce = nonce)
              /\ e.word = 0 => x.word = next.word
              /\ e.word = 0 \/ nonce = 0 => x.fulfilledNonce = next.fulfilledNonce
            <4>. HIDE DEF e
            <4>1. next \in Patches /\ nonce \in Nat /\ e.word \in Nat
                BY <2>1, <3>2, <3>3
            <4>. QED BY <4>1, FulfillmentSets
        <3>. HIDE DEF x, new
        <3>4. /\ new \in Patches /\ new.settled = next.settled /\ new.phase = next.phase
              /\ new.state = next.state
              /\ e.word # 0 => new.word = e.word /\ (nonce # 0 => new.fulfilledNonce = nonce)
              /\ e.word = 0 => new.word = next.word
              /\ e.word = 0 \/ nonce = 0 => new.fulfilledNonce = next.fulfilledNonce
            BY <3>1, <3>a
        <3>5. SettledAt(c, k)
            BY <2>0, <2>5 DEF SettledAt
        <3>6. CASE e.word = 0
            <4>1. new.fulfilledNonce = p.fulfilledNonce /\ new.word = p.word
                BY <3>2, <3>4, <3>6
            <4>2. PatchAt(c, k, new)
                BY <1>0, <1>4, <2>3, <3>2, <3>4, <3>5, <4>1 DEF PatchAt
            <4>. QED BY <1>4, <4>1, <4>2
        <3>7. CASE e.word # 0 /\ patch # None
            <4>1. new.fulfilledNonce = f - 1 /\ new.word = f - 1 /\ f - 1 # 0
                BY <1>0, <2>1, <3>3, <3>4, <3>7
            <4>2. PatchAt(c, k, new)
                BY <1>0, <1>4, <2>0, <2>3, <3>2, <3>4, <3>5, <4>1 DEF PatchAt
            <4>3. p.fulfilledNonce # 0 => p.word <= new.word
                BY <1>0, <1>4, <4>1
            <4>. QED BY <1>4, <4>1, <4>2, <4>3
        <3>8. CASE e.word # 0 /\ patch = None
            <4>1. new.fulfilledNonce = 0 /\ new.word = e.word
                BY <3>2, <3>3, <3>4, <3>8 DEF EmptyPatch
            <4>2. PatchAt(c, k, new)
                BY <1>0, <2>3, <3>2, <3>4, <3>5, <4>1 DEF PatchAt
            <4>. QED BY <3>8, <4>2
        <3>. QED BY <3>6, <3>7, <3>8
    <2>. QED BY <2>1, <2>4, <2>5
<1>. QED BY <1>0, <1>5, <1>6

-----------------------------------------------------------------------------
\* What a row and a patch are merged into

\* How far the two have come together.
Furthest(f, g) == IF f <= g THEN g ELSE f

\* The requests of the row with those of the patch.
RequestsAre(R, row, patch) ==
    /\ \A q \in row.requests : q.word # 0 => q \in R
    /\ \A q \in R : q.word # 0 =>
          \/ q \in row.requests
          \/ /\ patch # None /\ patch.fulfilledNonce # 0
             /\ q.nonce = patch.fulfilledNonce /\ q.word = patch.word
    /\ patch # None /\ patch.fulfilledNonce # 0 =>
          \E q \in R : q.nonce = patch.fulfilledNonce /\ q.word # 0

MergedAt(c, m, row, patch, merged) ==
    /\ merged.settled \in BOOLEAN /\ (merged.settled <=> SettledAt(c, m))
    /\ merged.phase = PhaseAt(c, m) /\ merged.state = StateAt(c, m)
    /\ RequestsAre(merged.requests, row, patch)

LEMMA MergeAt ==
    ASSUME NEW c, IsRecord(c), OneSession(c), NEW f, NEW g, NEW row, NEW patch,
           row # None, LayersAt(c, f, g, row, patch)
    PROVE  MergedAt(c, Furthest(f, g), row, patch, MergeIntoRow(row, patch))
<1>. DEFINE m == Furthest(f, g)
<1>0. /\ Len(c) \in Nat /\ f \in Nat /\ g \in Nat /\ g > 0 /\ f \in 0..Len(c) /\ g \in 0..Len(c)
      /\ m \in 0..Len(c) /\ RowAt(c, g, row)
    BY LenProperties DEF IsRecord, LayersAt, Furthest, Base
<1>1. /\ row \in Rows /\ row.requests \in SUBSET RandomnessRequests /\ row.settled \in BOOLEAN
      /\ (row.settled <=> SettledAt(c, g)) /\ row.phase = PhaseAt(c, g)
      /\ row.state = StateAt(c, g) /\ row.step = StepAt(c, g) /\ row.step \in Nat
    BY <1>0 DEF RowAt, Rows
<1>2. RowIsTerminal(row) <=> row.settled
    <2>1. CASE SettledAt(c, g)
        BY <1>1, <2>1 DEF RowIsTerminal
    <2>2. CASE ~SettledAt(c, g)
        <3>1. PhaseAt(c, g) \notin Terminal
            BY <1>0, <2>2, ChainAt, PhaseFacts
        <3>. QED BY <1>1, <3>1 DEF RowIsTerminal
    <2>. QED BY <2>1, <2>2
<1>3. CASE patch = None
    <2>1. MergeIntoRow(row, patch) = row /\ m = g
        BY <1>3 DEF MergeIntoRow, LayersAt, Furthest
    <2>. QED BY <1>1, <1>3, <2>1 DEF MergedAt, RequestsAre
<1>4. CASE patch # None
    <2>0. /\ PatchAt(c, f, patch) /\ patch \in Patches /\ patch.settled \in BOOLEAN
          /\ patch.step \in Nat /\ patch.fulfilledNonce \in Nat /\ patch.word \in Nat /\ f > 0
          /\ (patch.settled <=> SettledAt(c, f)) /\ patch.phase = PhaseAt(c, f)
          /\ patch.state = StateAt(c, f)
          /\ patch.fulfilledNonce # 0 => patch.word = patch.fulfilledNonce
          /\ patch.phase \in Phases /\ patch.state \in Nat /\ patch.payout \in Nat \cup {None}
        BY <1>4 DEF LayersAt, PatchAt, Patches
    <2>. DEFINE stepped == IF row.settled \/ patch.step <= row.step THEN row
                           ELSE [row EXCEPT !.step = patch.step, !.phase = patch.phase,
                                            !.state = patch.state]
                ended == IF row.settled \/ ~patch.settled THEN stepped
                         ELSE [stepped EXCEPT !.settled = TRUE, !.phase = patch.phase,
                                              !.payout = patch.payout,
                                              !.state = patch.state]
                merged == IF patch.fulfilledNonce = 0 \/ Recorded(row, patch.fulfilledNonce)
                          THEN ended
                          ELSE [ended EXCEPT !.requests =
                                  Fulfilled(@, patch.fulfilledNonce, patch.word)]
    <2>1. MergeIntoRow(row, patch) = merged
        BY <1>2, <1>4 DEF MergeIntoRow
    <2>2. /\ stepped \in Rows /\ stepped.settled = row.settled /\ stepped.requests = row.requests
          /\ row.settled \/ patch.step <= row.step =>
                stepped.phase = row.phase /\ stepped.state = row.state
          /\ ~(row.settled \/ patch.step <= row.step) =>
                stepped.phase = patch.phase /\ stepped.state = patch.state
        <3>1. CASE row.settled \/ patch.step <= row.step
            BY <1>1, <3>1
        <3>2. CASE ~(row.settled \/ patch.step <= row.step)
            <4>. DEFINE new == [row EXCEPT !.step = patch.step, !.phase = patch.phase,
                                           !.state = patch.state]
            <4>1. /\ new \in Rows /\ new.settled = row.settled /\ new.requests = row.requests
                  /\ new.phase = patch.phase /\ new.state = patch.state
                BY <1>1, <2>0 DEF Rows
            <4>2. stepped = new
                BY <3>2
            <4>. HIDE DEF new, stepped
            <4>. QED BY <3>2, <4>1, <4>2
        <3>. QED BY <3>1, <3>2
    <2>. HIDE DEF stepped
    <2>3. /\ ended \in Rows /\ ended.requests = row.requests
          /\ row.settled \/ ~patch.settled =>
                /\ ended.settled = row.settled /\ ended.phase = stepped.phase
                /\ ended.state = stepped.state
          /\ ~(row.settled \/ ~patch.settled) =>
                /\ ended.settled = TRUE /\ ended.phase = patch.phase
                /\ ended.state = patch.state
        <3>1. CASE row.settled \/ ~patch.settled
            BY <2>2, <3>1
        <3>2. CASE ~(row.settled \/ ~patch.settled)
            <4>. DEFINE new == [stepped EXCEPT !.settled = TRUE, !.phase = patch.phase,
                                               !.payout = patch.payout, !.state = patch.state]
            <4>1. /\ new \in Rows /\ new.settled = TRUE /\ new.requests = row.requests
                  /\ new.phase = patch.phase /\ new.state = patch.state
                BY <2>0, <2>2 DEF Rows
            <4>2. ended = new
                BY <3>2
            <4>. HIDE DEF new, ended
            <4>. QED BY <3>2, <4>1, <4>2
        <3>. QED BY <3>1, <3>2
    <2>. HIDE DEF ended
    <2>4. /\ merged.settled = ended.settled /\ merged.phase = ended.phase
          /\ merged.state = ended.state /\ RequestsAre(merged.requests, row, patch)
        <3>1. CASE patch.fulfilledNonce = 0 \/ Recorded(row, patch.fulfilledNonce)
            <4>1. merged = ended
                BY <3>1
            <4>2. RequestsAre(row.requests, row, patch)
                BY <3>1 DEF RequestsAre, Recorded
            <4>. HIDE DEF merged
            <4>. QED BY <2>3, <4>1, <4>2
        <3>2. CASE ~(patch.fulfilledNonce = 0 \/ Recorded(row, patch.fulfilledNonce))
            <4>. DEFINE done == Fulfilled(row.requests, patch.fulfilledNonce, patch.word)
                        new == [ended EXCEPT !.requests = done]
            <4>1. merged = new
                BY <2>3, <3>2
            <4>2. RequestsAre(done, row, patch)
                <5>1. /\ \A q \in row.requests : q.word # 0 => q \in done
                      /\ \A q \in done : q.word # 0 =>
                            \/ q \in row.requests
                            \/ q.nonce = patch.fulfilledNonce /\ q.word = patch.word
                      /\ patch.word # 0 =>
                            \E q \in done : q.nonce = patch.fulfilledNonce /\ q.word # 0
                    BY <1>1, <2>0, FulfilledKeeps
                <5>2. patch.word # 0
                    BY <2>0, <3>2
                <5>. HIDE DEF done
                <5>. QED BY <1>4, <3>2, <5>1, <5>2 DEF RequestsAre
            <4>. HIDE DEF done
            <4>3. /\ new.settled = ended.settled /\ new.phase = ended.phase
                  /\ new.state = ended.state /\ new.requests = done
                BY <2>3 DEF Rows
            <4>. HIDE DEF new, merged
            <4>. QED BY <4>1, <4>2, <4>3
        <3>. QED BY <3>1, <3>2
    <2>. HIDE DEF merged
    <2>5. CASE row.settled
        <3>1. SettledAt(c, g) /\ g = Len(c)
            BY <1>0, <1>1, <2>5, ChainAt
        <3>2. m = g
            BY <1>0, <3>1 DEF Furthest
        <3>3. ended.settled = row.settled /\ ended.phase = row.phase /\ ended.state = row.state
            BY <2>2, <2>3, <2>5
        <3>. HIDE DEF m
        <3>4. MergedAt(c, m, row, patch, merged)
            BY <1>1, <2>4, <3>2, <3>3 DEF MergedAt
        <3>. QED BY <2>1, <3>4 DEF m
    <2>6. CASE ~row.settled /\ patch.settled
        <3>1. SettledAt(c, f) /\ f = Len(c)
            BY <1>0, <2>0, <2>6, ChainAt
        <3>2. m = f
            <4>1. f = g => row.settled
                BY <1>1, <3>1
            <4>. QED BY <1>0, <2>6, <3>1, <4>1 DEF Furthest
        <3>3. ended.settled = TRUE /\ ended.phase = patch.phase /\ ended.state = patch.state
            BY <2>3, <2>6
        <3>. HIDE DEF m
        <3>4. MergedAt(c, m, row, patch, merged)
            BY <2>0, <2>4, <3>1, <3>2, <3>3 DEF MergedAt
        <3>. QED BY <2>1, <3>4 DEF m
    <2>7. CASE ~row.settled /\ ~patch.settled
        <3>1. ~SettledAt(c, f) /\ ~SettledAt(c, g)
            BY <1>1, <2>0, <2>7
        <3>2. row.step = g - 1
            <4>1. StepAt(c, g) = g - 1
                <5>1. CASE g <= 1
                    BY <1>0, <5>1, ChainAt
                <5>2. CASE g > 1
                    BY <1>0, <3>1, <5>2, ChainAt
                <5>. QED BY <1>0, <5>1, <5>2
            <4>. QED BY <1>1, <4>1
        <3>3. patch.step = f - 1
            <4>1. StepAt(c, f) = f - 1
                <5>1. CASE f <= 1
                    BY <1>0, <2>0, <5>1, ChainAt
                <5>2. CASE f > 1
                    BY <1>0, <3>1, <5>2, ChainAt
                <5>. QED BY <1>0, <5>1, <5>2
            <4>. QED BY <1>4, <2>0, <2>7, <4>1 DEF PatchAt
        <3>4. patch.step <= row.step <=> f <= g
            BY <1>0, <3>2, <3>3
        <3>5. ended.settled = row.settled /\ ended.phase = PhaseAt(c, m) /\ ended.state = StateAt(c, m)
            <4>1. CASE f <= g
                BY <1>1, <2>2, <2>3, <2>7, <3>4, <4>1 DEF Furthest
            <4>2. CASE ~(f <= g)
                BY <2>0, <2>2, <2>3, <2>7, <3>4, <4>2 DEF Furthest
            <4>. QED BY <4>1, <4>2
        <3>6. ~SettledAt(c, m)
            BY <3>1 DEF Furthest
        <3>. HIDE DEF m
        <3>7. MergedAt(c, m, row, patch, merged)
            BY <1>1, <2>4, <2>7, <3>5, <3>6 DEF MergedAt
        <3>. QED BY <2>1, <3>7 DEF m
    <2>. QED BY <1>1, <2>0, <2>5, <2>6, <2>7
<1>. QED BY <1>3, <1>4

\* w is the latest of the words heard.
LatestHeard(w, row, patch) == w \in Heard(row, patch) /\ \A h \in Heard(row, patch) : h <= w

LEMMA HeardFacts ==
    ASSUME NEW c, NEW f, NEW g, NEW row, NEW patch, LayersAt(c, f, g, row, patch)
    PROVE  /\ Heard(Base(row), patch) \subseteq Nat
           /\ Base(row).requests \in SUBSET RandomnessRequests
           /\ \A q \in Base(row).requests : q.word # 0 => q.word = q.nonce /\ q.word <= g - 2
           /\ patch # None => /\ patch.word \in Nat /\ patch.fulfilledNonce \in Nat
                              /\ patch.fulfilledNonce # 0 => patch.word = patch.fulfilledNonce
<1>1. RowAt(c, g, Base(row)) /\ Base(row) \in Rows
    BY DEF LayersAt, RowAt
<1>2. patch # None => PatchAt(c, f, patch) /\ patch \in Patches
    BY DEF LayersAt, PatchAt
<1>3. /\ patch # None => patch.word \in Nat /\ patch.fulfilledNonce \in Nat
      /\ Base(row).requests \in SUBSET RandomnessRequests
      /\ \A q \in Base(row).requests : q.nonce \in Nat /\ q.word \in Nat
    BY <1>1, <1>2 DEF Patches, Rows, RandomnessRequests
<1>4. Heard(Base(row), patch) \subseteq Nat
    BY <1>3 DEF Heard
<1>. QED BY <1>1, <1>2, <1>3, <1>4 DEF RowAt, PatchAt

LEMMA LatestWordAt ==
    ASSUME NEW c, NEW f, NEW g, NEW row, NEW patch, row # None, LayersAt(c, f, g, row, patch),
           NEW merged, RequestsAre(merged.requests, row, patch),
           merged.requests \in SUBSET RandomnessRequests,
           \E n \in Nat : \A q \in merged.requests : q.nonce <= n
    PROVE  LatestHeard(LatestWord(merged, patch), row, patch)
<1>. DEFINE done == {q \in merged.requests : q.word # 0}
            v == LatestWord(merged, patch)
<1>0. /\ Base(row) = row /\ Heard(row, patch) \subseteq Nat
      /\ row.requests \in SUBSET RandomnessRequests
      /\ \A q \in row.requests : q.word # 0 => q.word = q.nonce
      /\ patch # None => /\ patch.word \in Nat /\ patch.fulfilledNonce \in Nat
                         /\ patch.fulfilledNonce # 0 => patch.word = patch.fulfilledNonce
    <2>1. Base(row) = row
        BY DEF Base
    <2>. QED BY <2>1, HeardFacts
<1>1. CASE done = {}
    <2>1. v = IF patch = None THEN 0 ELSE patch.word
        BY <1>1 DEF LatestWord
    <2>2. /\ \A q \in row.requests : q.word = 0
          /\ patch # None => patch.fulfilledNonce = 0
        BY <1>1 DEF RequestsAre
    <2>3. \A h : h \in Heard(row, patch) <=> h = 0 \/ (patch # None /\ h = patch.word)
        BY <2>2 DEF Heard
    <2>. HIDE DEF v
    <2>4. ASSUME patch = None PROVE LatestHeard(v, row, patch)
        BY <2>1, <2>3, <2>4 DEF LatestHeard
    <2>5. ASSUME patch # None PROVE LatestHeard(v, row, patch)
        BY <1>0, <2>1, <2>3, <2>5 DEF LatestHeard
    <2>. QED BY <2>4, <2>5 DEF v
<1>2. CASE done # {}
    <2>1. v = (CHOOSE r \in done : \A q \in done : q.nonce <= r.nonce).word
        BY <1>2 DEF LatestWord
    <2>2. PICK n \in Nat : \A q \in merged.requests : q.nonce <= n
        OBVIOUS
    <2>3. done \in SUBSET RandomnessRequests /\ \A q \in done : q.nonce <= n
        BY <2>2
    <2>4. \A q : q \in done <=> q \in merged.requests /\ q.word # 0
        OBVIOUS
    <2>. HIDE DEF done, v
    <2>5. \E r \in done : \A q \in done : q.nonce <= r.nonce
        BY <1>2, <2>3, LatestExists
    <2>6. PICK r \in done : v = r.word /\ \A q \in done : q.nonce <= r.nonce
        BY <2>1, <2>5
    <2>7. /\ r.word = r.nonce /\ r.nonce \in Nat /\ r.word # 0
          /\ \/ r \in row.requests
             \/ patch # None /\ patch.fulfilledNonce # 0 /\ r.word = patch.word
        <3>1. \/ r \in row.requests
              \/ /\ patch # None /\ patch.fulfilledNonce # 0
                 /\ r.nonce = patch.fulfilledNonce /\ r.word = patch.word
            BY <2>4 DEF RequestsAre
        <3>2. r.nonce \in Nat /\ r.word # 0
            BY <2>3, <2>4 DEF RandomnessRequests
        <3>. QED BY <1>0, <3>1, <3>2
    <2>8. v \in Heard(row, patch)
        <3>1. CASE r \in row.requests
            BY <2>6, <2>7, <3>1 DEF Heard
        <3>2. CASE patch # None /\ patch.fulfilledNonce # 0 /\ r.word = patch.word
            BY <2>6, <3>2 DEF Heard
        <3>. QED BY <2>7, <3>1, <3>2
    <2>9. ASSUME NEW h \in Heard(row, patch) PROVE h <= v
        <3>0. v = r.nonce /\ v \in Nat
            BY <2>6, <2>7
        <3>1. CASE h = 0
            BY <3>0, <3>1
        <3>2. CASE \E q \in row.requests : q.word # 0 /\ h = q.nonce
            <4>1. PICK q \in row.requests : q.word # 0 /\ h = q.nonce
                BY <3>2
            <4>2. q \in done
                BY <2>4, <4>1 DEF RequestsAre
            <4>. QED BY <2>6, <3>0, <4>1, <4>2
        <3>3. CASE patch # None /\ h = patch.word /\ patch.fulfilledNonce # 0
            <4>1. PICK q \in merged.requests : q.nonce = patch.fulfilledNonce /\ q.word # 0
                BY <3>3 DEF RequestsAre
            <4>2. q \in done /\ q.nonce = h
                BY <1>0, <2>4, <3>3, <4>1
            <4>. QED BY <2>6, <3>0, <4>2
        <3>4. CASE patch # None /\ patch.fulfilledNonce = 0 /\ \A q \in row.requests : q.word = 0
            BY <2>7, <3>4
        <3>. QED BY <3>1, <3>2, <3>3, <3>4 DEF Heard
    <2>. QED BY <2>8, <2>9 DEF LatestHeard, v
<1>. QED BY <1>1, <1>2

\* What is shown at a point of the chain.
ShownAt(c, m, optimistic, row, patch, item) ==
    /\ item.state = StateAt(c, m) /\ (item.settled <=> SettledAt(c, m))
    /\ item.phase = "NONE" <=> PhaseAt(c, m) = "NONE" /\ ~optimistic
    /\ LatestHeard(item.word, Base(row), patch)

LEMMA EarlyWords ==
    ASSUME NEW c, IsRecord(c), OneSession(c), NEW f, NEW g, NEW row, NEW patch,
           LayersAt(c, f, g, row, patch), f <= 1, g <= 1
    PROVE  LatestHeard(0, Base(row), patch)
<1>0. f \in 0..Len(c) /\ g \in 0..Len(c) /\ f \in Nat /\ g \in Nat
    BY LenProperties DEF LayersAt, IsRecord
<1>1. \A q \in Base(row).requests : q.word = 0
    <2>. SUFFICES ASSUME NEW q \in Base(row).requests, q.word # 0 PROVE FALSE
        OBVIOUS
    <2>1. q.word <= g - 2 /\ q \in RandomnessRequests
        BY HeardFacts
    <2>2. q.word \in Nat
        BY <2>1 DEF RandomnessRequests
    <2>. QED BY <1>0, <2>1, <2>2
<1>2. patch # None => patch.word = 0
    <2>. SUFFICES ASSUME patch # None, patch.word # 0 PROVE FALSE
        OBVIOUS
    <2>1. PatchAt(c, f, patch) /\ patch.word \in Nat /\ ~SettledAt(c, f)
        BY <1>0, HeardFacts, ChainAt DEF LayersAt
    <2>2. patch.fulfilledNonce # 0
        BY <2>1 DEF PatchAt
    <2>3. patch.word <= f - 2
        BY <2>1, <2>2 DEF PatchAt
    <2>. QED BY <1>0, <2>1, <2>3
<1>3. \A h \in Heard(Base(row), patch) : h = 0
    BY <1>1, <1>2 DEF Heard
<1>4. 0 \in Heard(Base(row), patch)
    BY DEF Heard
<1>. QED BY <1>3, <1>4 DEF LatestHeard

LEMMA OptimisticAt ==
    ASSUME NEW c, IsRecord(c), OneSession(c), NEW f, NEW g, NEW row, NEW patch,
           LayersAt(c, f, g, row, patch), Furthest(f, g) <= 1
    PROVE  ShownAt(c, Furthest(f, g), TRUE, row, patch, OptimisticItem)
<1>0. f \in 0..Len(c) /\ g \in 0..Len(c) /\ f \in Nat /\ g \in Nat
    BY LenProperties DEF LayersAt, IsRecord
<1>1. f <= 1 /\ g <= 1 /\ Furthest(f, g) \in 0..Len(c)
    BY <1>0 DEF Furthest
<1>2. LatestHeard(0, Base(row), patch)
    BY <1>1, EarlyWords
<1>3. ~SettledAt(c, Furthest(f, g)) /\ StateAt(c, Furthest(f, g)) = 0
    BY <1>1, ChainAt
<1>. QED BY <1>2, <1>3 DEF ShownAt, OptimisticItem

LEMMA NewItemAt ==
    ASSUME NEW c, IsRecord(c), OneSession(c), NEW f, NEW g, NEW patch,
           LayersAt(c, f, g, None, patch)
    PROVE  ShownAt(c, Furthest(f, g), TRUE, None, patch, MergeIntoItem(OptimisticItem, patch))
<1>0. /\ f \in 0..Len(c) /\ f \in Nat /\ g = 0 /\ Furthest(f, g) = f
      /\ patch = None => f = 0
      /\ patch # None => f > 0 /\ PatchAt(c, f, patch)
    BY LenProperties DEF LayersAt, IsRecord, Furthest
<1>1. CASE f <= 1
    <2>1. ShownAt(c, Furthest(f, g), TRUE, None, patch, OptimisticItem)
        BY <1>0, <1>1, OptimisticAt
    <2>2. patch # None => ~patch.settled /\ patch.phase = "NONE"
        BY <1>0, <1>1, ChainAt DEF PatchAt
    <2>. QED BY <2>1, <2>2 DEF MergeIntoItem
<1>2. CASE f > 1
    <2>. DEFINE item == MergeIntoItem(OptimisticItem, patch)
    <2>1. /\ patch # None /\ (patch.settled <=> SettledAt(c, f)) /\ patch.phase = PhaseAt(c, f)
          /\ patch.state = StateAt(c, f) /\ patch.phase # "NONE" /\ patch.word \in Nat
        BY <1>0, <1>2, ChainAt DEF PatchAt, Patches
    <2>2. /\ item.phase = patch.phase /\ (item.settled <=> patch.settled)
          /\ item.state = patch.state /\ item.word = patch.word
        BY <2>1 DEF MergeIntoItem, OptimisticItem
    <2>. HIDE DEF item
    <2>3. \A h : h \in Heard(Base(None), patch) <=> h = 0 \/ h = patch.word
        BY <2>1 DEF Heard, Base, InitialRow
    <2>4. LatestHeard(item.word, Base(None), patch)
        BY <2>1, <2>2, <2>3 DEF LatestHeard
    <2>5. ShownAt(c, f, TRUE, None, patch, item)
        BY <2>1, <2>2, <2>4 DEF ShownAt
    <2>. QED BY <1>0, <2>5 DEF item
<1>3. f <= 1 \/ f > 1
    BY <1>0
<1>. QED BY <1>1, <1>2, <1>3

ProjectedIs(c, m, row, patch) ==
    /\ ShownAt(c, m, FALSE, row, patch, Projected(row, patch))
    /\ Projected(row, patch).phase = PhaseAt(c, m) /\ Projected(row, patch) # None

LEMMA ProjectedAt ==
    ASSUME NEW c, IsRecord(c), OneSession(c), NEW f, NEW g, NEW row, NEW patch,
           row # None, NEW d, IsHistory(d), NEW s, RowTells(d, s, row),
           patch = None \/ PatchTells(d, s, patch),
           LayersAt(c, f, g, row, patch)
    PROVE  ProjectedIs(c, Furthest(f, g), row, patch)
<1>. DEFINE merged == MergeIntoRow(row, patch)
            word == LatestWord(merged, patch)
            m == Furthest(f, g)
            item == [phase |-> merged.phase, settled |-> RowIsTerminal(merged),
                     payout |-> merged.payout, state |-> merged.state, word |-> word]
<1>1. /\ MergedAt(c, m, row, patch, merged)
      /\ merged.requests \in SUBSET RandomnessRequests
      /\ \E n \in Nat : \A q \in merged.requests : q.nonce <= n
    BY MergeAt, MergeTells DEF MergedTells
<1>2. Projected(row, patch) = item
    BY DEF Projected
<1>3. m \in 0..Len(c) /\ Base(row) = row
    BY LenProperties DEF LayersAt, IsRecord, Furthest, Base
<1>. HIDE DEF merged, m
<1>4. LatestHeard(word, row, patch)
    BY <1>1, LatestWordAt DEF MergedAt
<1>. HIDE DEF word
<1>5. RowIsTerminal(merged) <=> merged.settled
    <2>1. CASE SettledAt(c, m)
        BY <1>1, <2>1 DEF RowIsTerminal, MergedAt
    <2>2. CASE ~SettledAt(c, m)
        <3>1. PhaseAt(c, m) \notin Terminal
            BY <1>3, <2>2, ChainAt, PhaseFacts
        <3>. QED BY <1>1, <3>1 DEF RowIsTerminal, MergedAt
    <2>. QED BY <2>1, <2>2
<1>6. /\ item.phase = merged.phase /\ (item.settled <=> merged.settled)
      /\ item.state = merged.state /\ item.word = word
    BY <1>5
<1>7. Projected(row, patch) # None
    <2>1. Projected(row, patch) \in Items
        BY ProjectedTells DEF ItemTells
    <2>. QED BY <2>1, NoneAssumption
<1>. HIDE DEF item
<1>8. ShownAt(c, m, FALSE, row, patch, item)
    BY <1>1, <1>3, <1>4, <1>6 DEF ShownAt, MergedAt
<1>. QED BY <1>1, <1>2, <1>6, <1>7, <1>8 DEF MergedAt, ProjectedIs, m

\* What the layers give: nothing while there is neither a row nor an entry,
\* else the chain as far as the two channels have told.
LEMMA BlendAt ==
    ASSUME NEW c, IsRecord(c), OneSession(c), NEW f, NEW g, NEW row, NEW patch,
           NEW d, IsHistory(d), NEW s,
           row = None \/ RowTells(d, s, row), patch = None \/ PatchTells(d, s, patch),
           LayersAt(c, f, g, row, patch), NEW optimistic \in BOOLEAN
    PROVE  /\ Blend(row, patch, optimistic) # None <=> row # None \/ optimistic
           /\ row # None \/ optimistic =>
                 ShownAt(c, Furthest(f, g), optimistic, row, patch, Blend(row, patch, optimistic))
<1>. DEFINE b == Blend(row, patch, optimistic)
            m == Furthest(f, g)
<1>0. m \in 0..Len(c) /\ m \in Nat
    BY LenProperties DEF LayersAt, IsRecord, Furthest
<1>a. \A x \in Items : x # None
    BY NoneAssumption
<1>b. OptimisticItem # None /\ MergeIntoItem(OptimisticItem, patch) # None
    BY <1>a, OptimisticTells DEF ItemTells
<1>1. CASE row = None /\ ~optimistic
    BY <1>1 DEF Blend
<1>2. CASE row = None /\ optimistic
    <2>1. b = MergeIntoItem(OptimisticItem, patch)
        BY <1>2 DEF Blend
    <2>2. ShownAt(c, m, TRUE, row, patch, b)
        BY <1>2, <2>1, NewItemAt
    <2>. QED BY <1>2, <1>b, <2>1, <2>2
<1>3. CASE row # None
    <2>. DEFINE item == Projected(row, patch)
    <2>0. RowTells(d, s, row)
        BY <1>3
    <2>a. ProjectedIs(c, m, row, patch)
        BY <1>3, <2>0, ProjectedAt
    <2>1. ShownAt(c, m, FALSE, row, patch, item) /\ item.phase = PhaseAt(c, m) /\ item # None
        BY <2>a DEF ProjectedIs
    <2>2. b = IF optimistic /\ item.phase = "NONE" THEN OptimisticItem ELSE item
        BY <1>3 DEF Blend
    <2>. HIDE DEF item, b
    <2>3. CASE optimistic /\ item.phase = "NONE"
        <3>1. m <= 1
            <4>. HIDE DEF m
            <4>1. m > 1 => PhaseAt(c, m) # "NONE"
                BY <1>0, ChainAt
            <4>. QED BY <1>0, <2>1, <2>3, <4>1
        <3>2. ShownAt(c, m, TRUE, row, patch, OptimisticItem)
            BY <3>1, OptimisticAt
        <3>. QED BY <1>3, <1>b, <2>2, <2>3, <3>2 DEF b
    <2>4. CASE ~(optimistic /\ item.phase = "NONE")
        <3>. HIDE DEF m
        <3>1. b = item
            BY <2>2, <2>4
        <3>2. ShownAt(c, m, optimistic, row, patch, b)
            BY <2>1, <2>4, <3>1 DEF ShownAt
        <3>. QED BY <1>3, <2>1, <3>1, <3>2 DEF b, m
    <2>. QED BY <2>3, <2>4
<1>. QED BY <1>1, <1>2, <1>3

\* What was heard is heard, or something later.
HeardOn(row, patch, nextRow, nextPatch) ==
    \A h \in Heard(Base(row), patch) : \E k \in Heard(Base(nextRow), nextPatch) : h <= k

\* The more the layers have heard, the further is what they give.
LEMMA ShownAhead ==
    ASSUME NEW c, IsRecord(c), OneSession(c), NEW m, NEW optimistic, NEW row, NEW patch, NEW item,
           ShownAt(c, m, optimistic, row, patch, item),
           NEW n, NEW still, NEW nextRow, NEW nextPatch, NEW next,
           ShownAt(c, n, still, nextRow, nextPatch, next),
           NEW here, here => HeardOn(row, patch, nextRow, nextPatch),
           NEW again, optimistic => still \/ again,
           m \in 0..Len(c) /\ n \in 0..Len(c) /\ m <= n,
           Heard(Base(row), patch) \subseteq Nat /\ Heard(Base(nextRow), nextPatch) \subseteq Nat
    PROVE  Ahead(next, item, again, here)
<1>1. /\ StateAt(c, m) <= StateAt(c, n) /\ (SettledAt(c, m) => n = m)
      /\ PhaseAt(c, n) = "NONE" => PhaseAt(c, m) = "NONE"
    BY ChainOnward
<1>2. here => item.word <= next.word
    <2>. SUFFICES ASSUME here PROVE item.word <= next.word
        OBVIOUS
    <2>1. /\ item.word \in Heard(Base(row), patch)
          /\ next.word \in Heard(Base(nextRow), nextPatch)
          /\ \A k \in Heard(Base(nextRow), nextPatch) : k <= next.word
        BY DEF ShownAt, LatestHeard
    <2>2. PICK k \in Heard(Base(nextRow), nextPatch) : item.word <= k
        BY <2>1 DEF HeardOn
    <2>3. k \in Nat /\ k <= next.word /\ item.word \in Nat /\ next.word \in Nat
        BY <2>1
    <2>. QED BY <2>2, <2>3
<1>3. StateAt(c, m) \in Nat /\ StateAt(c, n) \in Nat
    BY ChainAt
<1>4. item.word \in Nat /\ next.word \in Nat
    BY DEF ShownAt, LatestHeard
<1>5. next.state >= item.state /\ (here => next.word >= item.word)
    BY <1>1, <1>2, <1>3, <1>4 DEF ShownAt
<1>6. next.phase = "NONE" => item.phase = "NONE" \/ again
    BY <1>1 DEF ShownAt
<1>7. item.settled => next.settled
    BY <1>1 DEF ShownAt
<1>. QED BY <1>5, <1>6, <1>7 DEF Ahead

-----------------------------------------------------------------------------
\* What the layers have heard, with one more event or one patch less.

\* An older state of the row.
Behind(old, row) ==
    /\ row # None /\ old.step \in Nat /\ old.step <= row.step
    /\ RowIsTerminal(old) => row.settled
    /\ \A n : Recorded(old, n) => Recorded(row, n)

LEMMA IndexAt ==
    ASSUME NEW c, IsRecord(c), OneSession(c), NEW f, NEW g, NEW row, NEW patch,
           LayersAt(c, f, g, row, patch), g < Len(c),
           NEW d, IsHistory(d), NEW j \in DOMAIN d, d[j] = c[g + 1],
           RowTells(d, d[j].session, Base(row))
    PROVE  LET new == Evolve(Base(row), c[g + 1])
           IN  /\ LayersAt(c, f, g + 1, new, patch)
               /\ WordsAt(f, g, patch) => /\ WordsAt(f, g + 1, patch)
                                          /\ HeardOn(row, patch, new, patch)
               /\ row # None => Behind(row, new)
               /\ \A old : Behind(old, row) => Behind(old, new)
<1>. DEFINE was == Base(row)
            new == Evolve(was, c[g + 1])
            Good(x) == /\ LayersAt(c, f, g + 1, x, patch)
                       /\ WordsAt(f, g, patch) => /\ WordsAt(f, g + 1, patch)
                                                  /\ HeardOn(row, patch, x, patch)
                       /\ row # None => Behind(row, x)
                       /\ \A old : Behind(old, row) => Behind(old, x)
<1>. SUFFICES Good(new)
    OBVIOUS
<1>0. /\ Len(c) \in Nat /\ f \in 0..Len(c) /\ g \in 0..Len(c) /\ f \in Nat /\ g \in Nat
      /\ g + 1 \in 0..Len(c) /\ RowAt(c, g, was)
    BY LenProperties DEF LayersAt, IsRecord
<1>1. /\ RowAt(c, g + 1, new)
      /\ \A q \in was.requests : q.word # 0 => q \in new.requests
    BY <1>0, EvolveAt
<1>. HIDE DEF new, was
<1>2. new # None /\ Base(new) = new /\ new \in Rows
    BY <1>1, NoneAssumption DEF RowAt, Base
<1>3. LayersAt(c, f, g + 1, new, patch)
    BY <1>0, <1>1, <1>2 DEF LayersAt
<1>4. Heard(was, patch) \subseteq Nat
    BY HeardFacts DEF was
<1>5. ASSUME WordsAt(f, g, patch) PROVE HeardOn(row, patch, new, patch)
    <2>. SUFFICES ASSUME NEW h \in Heard(was, patch)
                  PROVE  \E k \in Heard(new, patch) : h <= k
        BY <1>2 DEF HeardOn, was
    <2>0. h \in Nat /\ h <= h
        BY <1>4
    <2>1. CASE h = 0
        BY <2>0, <2>1 DEF Heard
    <2>2. CASE \E q \in was.requests : q.word # 0 /\ h = q.nonce
        <3>1. h \in Heard(new, patch)
            BY <1>1, <2>2 DEF Heard
        <3>. QED BY <2>0, <3>1
    <2>3. CASE patch # None /\ h = patch.word /\ patch.fulfilledNonce # 0
        <3>1. h \in Heard(new, patch)
            BY <2>3 DEF Heard
        <3>. QED BY <2>0, <3>1
    <2>4. CASE patch # None /\ h = patch.word /\ patch.fulfilledNonce = 0 /\ h # 0
        <3>1. /\ patch.settled /\ h = c[f].word /\ SettledAt(c, f) /\ f - 1 <= g
            BY <1>5, <2>4 DEF LayersAt, WordsAt, PatchAt
        <3>2. f = Len(c) /\ f > 1
            BY <1>0, <3>1, ChainAt
        <3>3. g + 1 = f /\ f \in 2..(g + 1)
            BY <1>0, <3>1, <3>2
        <3>4. Recorded(new, h)
            BY <1>1, <2>4, <3>1, <3>3 DEF RowAt
        <3>5. h \in Heard(new, patch)
            BY <3>4 DEF Heard, Recorded
        <3>. QED BY <2>0, <3>5
    <2>5. \/ h = 0
          \/ \E q \in was.requests : q.word # 0 /\ h = q.nonce
          \/ patch # None /\ h = patch.word
        BY DEF Heard
    <2>. QED BY <2>1, <2>2, <2>3, <2>4, <2>5
<1>6. /\ was.step \in Nat /\ was.step <= new.step /\ (was.settled => new.settled)
      /\ new.step \in Nat
      /\ \A n : Recorded(was, n) => Recorded(new, n)
    <2>1. g <= g + 1 /\ g # g + 1
        BY <1>0
    <2>2. StepAt(c, g) <= StepAt(c, g + 1) /\ (SettledAt(c, g) => g + 1 = g)
        BY <1>0, <2>1, ChainOnward
    <2>3. was.step \in Nat /\ new.step \in Nat
        BY <1>0, <1>2 DEF RowAt, Rows
    <2>4. \A n : Recorded(was, n) => Recorded(new, n)
        BY <1>1 DEF Recorded
    <2>. QED BY <1>0, <1>1, <2>1, <2>2, <2>3, <2>4 DEF RowAt
<1>7. row # None => was = row
    BY DEF was, Base
<1>8. RowIsTerminal(was) => was.settled
    <2>1. SettledAt(c, g) \/ PhaseAt(c, g) \notin Terminal
        BY <1>0, ChainAt, PhaseFacts
    <2>. QED BY <1>0, <2>1 DEF RowAt, RowIsTerminal
<1>9. row # None => Behind(row, new)
    BY <1>2, <1>6, <1>7, <1>8 DEF Behind
<1>10. ASSUME NEW old, Behind(old, row) PROVE Behind(old, new)
    <2>1. was = row /\ old.step \in Nat /\ old.step <= was.step
        BY <1>7, <1>10 DEF Behind
    <2>2. old.step <= new.step
        BY <1>6, <2>1
    <2>. QED BY <1>2, <1>6, <1>10, <2>1, <2>2 DEF Behind
<1>11. WordsAt(f, g, patch) => WordsAt(f, g + 1, patch)
    BY <1>0 DEF WordsAt
<1>. QED BY <1>3, <1>5, <1>9, <1>10, <1>11

LEMMA FlashAt ==
    ASSUME NEW c, IsRecord(c), OneSession(c), NEW f, NEW g, NEW row, NEW patch,
           LayersAt(c, f, g, row, patch), NEW n \in 0..Len(c), n < Len(c), patch # None => n = f
    PROVE  LET new == ApplyFlashblockEvent(patch, c[n + 1])
           IN  /\ LayersAt(c, n + 1, g, row, new) /\ HeardOn(row, patch, row, new)
               /\ n = f => WordsAt(n + 1, g, new)
<1>. DEFINE new == ApplyFlashblockEvent(patch, c[n + 1])
            Good(x) == /\ LayersAt(c, n + 1, g, row, x) /\ HeardOn(row, patch, row, x)
                       /\ n = f => WordsAt(n + 1, g, x)
<1>. SUFFICES Good(new)
    OBVIOUS
<1>0. /\ Len(c) \in Nat /\ f \in 0..Len(c) /\ g \in 0..Len(c) /\ f \in Nat /\ g \in Nat
      /\ n \in Nat /\ n + 1 \in 0..Len(c) /\ n + 1 > 0
      /\ patch # None => n > 0 /\ PatchAt(c, n, patch)
    BY LenProperties DEF LayersAt, IsRecord
<1>1. /\ PatchAt(c, n + 1, new)
      /\ new.fulfilledNonce = 0 /\ new.word # 0 => patch = None
      /\ patch # None => /\ patch.fulfilledNonce = 0 => patch.word = 0
                         /\ patch.fulfilledNonce # 0 =>
                               new.fulfilledNonce # 0 /\ patch.word <= new.word
    BY <1>0, ApplyAt
<1>. HIDE DEF new
<1>2. new # None
    BY <1>1, NoneAssumption DEF PatchAt
<1>3. LayersAt(c, n + 1, g, row, new)
    BY <1>0, <1>1, <1>2 DEF LayersAt
<1>4. Heard(Base(row), patch) \subseteq Nat
    BY HeardFacts
<1>5. ASSUME NEW h \in Heard(Base(row), patch)
      PROVE  \E k \in Heard(Base(row), new) : h <= k
    <2>. DEFINE was == Base(row)
    <2>. HIDE DEF was
    <2>0. h \in Heard(was, patch) /\ h \in Nat /\ h <= h
        BY <1>4 DEF was
    <2>1. CASE h = 0
        BY <2>0, <2>1 DEF Heard
    <2>2. CASE \E q \in was.requests : q.word # 0 /\ h = q.nonce
        <3>1. h \in Heard(was, new)
            BY <2>2 DEF Heard
        <3>. QED BY <2>0, <3>1 DEF was
    <2>3. CASE patch # None /\ h = patch.word /\ h # 0
        <3>1. new.fulfilledNonce # 0 /\ h <= new.word
            BY <1>1, <2>3
        <3>2. new.word \in Heard(was, new)
            BY <1>2, <3>1 DEF Heard
        <3>. QED BY <3>1, <3>2 DEF was
    <2>4. \/ h = 0
          \/ \E q \in was.requests : q.word # 0 /\ h = q.nonce
          \/ patch # None /\ h = patch.word
        BY <2>0 DEF Heard
    <2>. QED BY <2>1, <2>2, <2>3, <2>4
<1>6. n = f => WordsAt(n + 1, g, new)
    <2>1. patch = None => f <= g
        BY DEF LayersAt
    <2>. QED BY <1>0, <1>1, <2>1 DEF WordsAt
<1>. QED BY <1>3, <1>5, <1>6 DEF HeardOn

LEMMA PruneAt ==
    ASSUME NEW c, IsRecord(c), OneSession(c), NEW f, NEW g, NEW row, NEW patch,
           LayersAt(c, f, g, row, patch), patch # None,
           NEW old, Behind(old, row), CaughtUp(old, patch)
    PROVE  LayersAt(c, f, g, row, None) /\ HeardOn(row, patch, row, None)
<1>0. /\ Len(c) \in Nat /\ f \in 0..Len(c) /\ g \in 0..Len(c) /\ f \in Nat /\ g \in Nat
      /\ row # None /\ Base(row) = row /\ RowAt(c, g, row) /\ PatchAt(c, f, patch) /\ g > 0
    BY LenProperties DEF LayersAt, IsRecord, Behind, Base
<1>1. f <= g
    <2>1. CASE patch.settled
        <3>1. SettledAt(c, g)
            BY <1>0, <2>1 DEF CaughtUp, Behind, RowAt
        <3>2. g = Len(c)
            BY <1>0, <3>1, ChainAt
        <3>. QED BY <1>0, <3>2
    <2>2. CASE ~patch.settled
        <3>1. ~SettledAt(c, f) /\ patch.step = StepAt(c, f)
            BY <1>0, <2>2 DEF PatchAt
        <3>2. old.step \in Nat /\ patch.step <= old.step /\ old.step <= StepAt(c, g)
            BY <1>0 DEF CaughtUp, Behind, RowAt
        <3>3. StepAt(c, f) \in Nat /\ StepAt(c, g) \in Nat
            BY <1>0, ChainAt
        <3>4. StepAt(c, f) <= StepAt(c, g)
            BY <3>1, <3>2, <3>3
        <3>5. f > 1 => StepAt(c, f) = f - 1
            BY <1>0, <3>1, ChainAt
        <3>6. StepAt(c, g) <= g - 1
            <4>1. g <= 1 => StepAt(c, g) = 0
                BY <1>0, ChainAt
            <4>2. g > 1 => StepAt(c, g) \in {g - 1, g - 2}
                BY <1>0, ChainAt
            <4>. QED BY <1>0, <4>1, <4>2
        <3>. QED BY <1>0, <3>3, <3>4, <3>5, <3>6
    <2>. QED BY <2>1, <2>2
<1>2. LayersAt(c, f, g, row, None)
    BY <1>0, <1>1 DEF LayersAt
<1>3. Heard(row, patch) \subseteq Nat /\ (patch.fulfilledNonce # 0 => patch.word = patch.fulfilledNonce)
    BY <1>0, HeardFacts
<1>4. ASSUME NEW h \in Heard(row, patch)
      PROVE  \E k \in Heard(row, None) : h <= k
    <2>0. h \in Nat /\ h <= h
        BY <1>3
    <2>1. CASE h = 0
        BY <2>0, <2>1 DEF Heard
    <2>2. CASE \E q \in row.requests : q.word # 0 /\ h = q.nonce
        <3>1. h \in Heard(row, None)
            BY <2>2 DEF Heard
        <3>. QED BY <2>0, <3>1
    <2>3. CASE h = patch.word /\ h # 0
        <3>1. Recorded(row, h)
            <4>1. CASE patch.fulfilledNonce # 0
                BY <1>3, <2>3, <4>1 DEF CaughtUp, Behind
            <4>2. CASE patch.fulfilledNonce = 0
                <5>1. SettledAt(c, f) /\ h = c[f].word
                    BY <1>0, <2>3, <4>2 DEF PatchAt
                <5>2. f \in 2..g
                    BY <1>0, <1>1, <5>1, ChainAt
                <5>. QED BY <1>0, <2>3, <5>1, <5>2 DEF RowAt
            <4>. QED BY <4>1, <4>2
        <3>2. h \in Heard(row, None)
            BY <3>1 DEF Heard, Recorded
        <3>. QED BY <2>0, <3>2
    <2>4. \/ h = 0
          \/ \E q \in row.requests : q.word # 0 /\ h = q.nonce
          \/ h = patch.word
        BY DEF Heard
    <2>. QED BY <2>1, <2>2, <2>3, <2>4
<1>. QED BY <1>0, <1>2, <1>4 DEF HeardOn

-----------------------------------------------------------------------------
-----------------------------------------------------------------------------
(***************************************************************************)
(* A round among the others: where its events are in the chain.            *)
(***************************************************************************)

\* e may come after h.
ComesAfter(h, e) ==
    /\ e \in Events /\ e.name # "Opened" /\ h[Len(h)].name # "Settled"
    /\ e.word \in {0, Len(h) - 1}
    /\ e.word # 0 => h[Len(h)].name = "Advanced" /\ h[Len(h)].phase = "WAITING_RANDOMNESS"
    /\ e.name = "Advanced" => /\ e.step = Len(h) /\ e.state = e.step
                              /\ e.asks = (e.phase = "WAITING_RANDOMNESS")
    /\ e.name = "Settled" => /\ e.state \in {Len(h), Len(h) - 1}
                             /\ e.phase = "SETTLED" => e.state # 0

LEMMA ComesNext ==
    ASSUME NEW h, IsRecord(h), OneSession(h), h # <<>>, NEW e, ComesAfter(h, e)
    PROVE  IsRecord(Append(h, e)) /\ OneSession(Append(h, e)) /\ Extends(h, Append(h, e))
<1>. DEFINE n == Len(h)
            d == Append(h, e)
<1>0. h \in Seq(Events) /\ DOMAIN h = 1..n /\ n \in Nat /\ e \in Events
    BY LenProperties DEF IsRecord, ComesAfter
<1>1. n > 0 /\ n \in DOMAIN h
    BY <1>0, EmptySeq
<1>2. /\ DOMAIN d = 1..(n + 1) /\ Len(d) = n + 1 /\ d[n + 1] = e /\ d \in Seq(Events)
      /\ \A k \in 1..n : d[k] = h[k]
    BY <1>0, AppendProperties, LenProperties
<1>3. /\ e.name # "Opened" /\ h[n].name # "Settled" /\ e.word \in {0, n - 1}
      /\ e.word # 0 => h[n].name = "Advanced" /\ h[n].phase = "WAITING_RANDOMNESS"
      /\ e.name = "Advanced" => /\ e.step = n /\ e.state = e.step
                                /\ e.asks = (e.phase = "WAITING_RANDOMNESS")
      /\ e.name = "Settled" => e.state \in {n, n - 1} /\ (e.phase = "SETTLED" => e.state # 0)
    BY DEF ComesAfter
<1>. HIDE DEF d, n
<1>4. IsRecord(d)
    <2>. SUFFICES ASSUME NEW i \in DOMAIN d
                  PROVE  /\ d[i].name = "Advanced" => d[i].state = d[i].step
                         /\ d[i].name = "Settled" => (d[i].phase = "SETTLED" => d[i].state # 0)
        BY <1>2 DEF IsRecord
    <2>1. CASE i = n + 1
        BY <1>2, <1>3, <2>1
    <2>2. CASE i # n + 1
        <3>1. i \in 1..n
            BY <1>0, <1>2, <2>2
        <3>. QED BY <1>0, <1>2, <3>1 DEF IsRecord
    <2>. QED BY <2>1, <2>2
<1>5. \A k \in DOMAIN h \ {1} : h[k].name # "Settled"
    <2>. SUFFICES ASSUME NEW k \in DOMAIN h \ {1}, h[k].name = "Settled" PROVE FALSE
        OBVIOUS
    <2>1. k = n
        BY DEF OneSession, n
    <2>. QED BY <1>3, <2>1
<1>6. ASSUME NEW k \in DOMAIN d \ {1}
      PROVE  /\ d[k].name # "Opened" /\ d[k].word \in {0, k - 2}
             /\ d[k].word # 0 => /\ d[k - 1].name = "Advanced"
                                 /\ d[k - 1].phase = "WAITING_RANDOMNESS"
             /\ d[k].name = "Advanced" =>
                   d[k].step = k - 1 /\ d[k].asks = (d[k].phase = "WAITING_RANDOMNESS")
             /\ d[k].name = "Settled" => k = Len(d) /\ d[k].state \in {k - 1, k - 2}
    <2>1. CASE k = n + 1
        <3>1. k - 1 = n /\ k - 2 = n - 1 /\ d[k - 1] = h[n]
            BY <1>0, <1>1, <1>2, <2>1
        <3>. QED BY <1>2, <1>3, <2>1, <3>1
    <2>2. CASE k # n + 1
        <3>1. k \in DOMAIN h \ {1} /\ k - 1 \in 1..n /\ k \in 1..n
            BY <1>0, <1>2, <2>2
        <3>2. d[k] = h[k] /\ d[k - 1] = h[k - 1]
            BY <1>2, <3>1
        <3>3. /\ h[k].name # "Opened" /\ h[k].word \in {0, k - 2}
              /\ h[k].word # 0 => /\ h[k - 1].name = "Advanced"
                                  /\ h[k - 1].phase = "WAITING_RANDOMNESS"
              /\ h[k].name = "Advanced" =>
                    h[k].step = k - 1 /\ h[k].asks = (h[k].phase = "WAITING_RANDOMNESS")
            BY <3>1 DEF OneSession
        <3>. QED BY <1>5, <3>1, <3>2, <3>3
    <2>. QED BY <2>1, <2>2
<1>7. d[1].name = "Opened"
    <2>1. 1 \in 1..n
        BY <1>0, <1>1
    <2>. QED BY <1>2, <2>1 DEF OneSession
<1>8. OneSession(d)
    BY <1>6, <1>7 DEF OneSession
<1>9. Extends(h, d)
    BY <1>0, <1>2 DEF Extends
<1>. QED BY <1>4, <1>8, <1>9 DEF d

\* Events of other sessions do not change the round.
LEMMA ProjectsElsewhere ==
    ASSUME NEW c, NEW d, Extends(c, d), NEW s, NEW h, NEW p, Projects(c, s, h, p),
           \A i \in DOMAIN d \ DOMAIN c : d[i].session # s
    PROVE  Projects(d, s, h, p)
<1>1. DOMAIN c \subseteq DOMAIN d /\ \A i \in DOMAIN c : d[i] = c[i]
    BY DEF Extends
<1>2. p \in [DOMAIN h -> DOMAIN c]
    BY DEF Projects
<1>3. p \in [DOMAIN h -> DOMAIN d] /\ \A k \in DOMAIN h : p[k] \in DOMAIN c
    BY <1>1, <1>2
<1>4. \A k \in DOMAIN h : h[k] = d[p[k]] /\ h[k].session = s
    BY <1>1, <1>3 DEF Projects
<1>5. \A i \in DOMAIN d : d[i].session = s => \E k \in DOMAIN h : p[k] = i
    BY <1>1 DEF Projects
<1>. QED BY <1>3, <1>4, <1>5 DEF Projects

\* The round's next event.
LEMMA ProjectsOneMore ==
    ASSUME NEW c \in Seq(Events), NEW s, NEW h, NEW p, Projects(c, s, h, p), h # <<>>,
           NEW e, ComesAfter(h, e), e.session = s
    PROVE  \E q : Projects(Append(c, e), s, Append(h, e), q) /\ \A k \in DOMAIN h : q[k] = p[k]
<1>. DEFINE n == Len(h)
            d == Append(c, e)
            t == Append(h, e)
            q == [k \in DOMAIN t |-> IF k \in DOMAIN h THEN p[k] ELSE Len(c) + 1]
<1>0. /\ h \in Seq(Events) /\ DOMAIN h = 1..n /\ n \in Nat /\ e \in Events
      /\ DOMAIN c = 1..Len(c) /\ Len(c) \in Nat
    BY LenProperties DEF IsRecord, ComesAfter, Projects
<1>1. /\ DOMAIN t = 1..(n + 1) /\ t[n + 1] = e
      /\ \A k \in 1..n : t[k] = h[k]
    BY <1>0, AppendProperties, LenProperties
<1>2. /\ DOMAIN d = 1..(Len(c) + 1) /\ d[Len(c) + 1] = e
      /\ \A k \in DOMAIN c : d[k] = c[k]
    BY <1>0, AppendProperties, LenProperties
<1>3. IsRecord(t) /\ OneSession(t)
    BY ComesNext DEF Projects
<1>4. /\ p \in [DOMAIN h -> DOMAIN c]
      /\ \A k \in DOMAIN h : h[k] = c[p[k]] /\ h[k].session = s /\ p[k] \in DOMAIN c
      /\ \A j, k \in DOMAIN h : j < k => p[j] < p[k]
      /\ \A i \in DOMAIN c : c[i].session = s => \E k \in DOMAIN h : p[k] = i
    BY DEF Projects
<1>. HIDE DEF t, d, n
<1>5. /\ \A k \in DOMAIN h : q[k] = p[k] /\ k \in DOMAIN t
      /\ q[n + 1] = Len(c) + 1 /\ n + 1 \in DOMAIN t
      /\ \A k \in DOMAIN t : k \in DOMAIN h \/ k = n + 1
      /\ DOMAIN q = DOMAIN t
    BY <1>0, <1>1
<1>6. q \in [DOMAIN t -> DOMAIN d]
    <2>1. \A k \in DOMAIN t : (IF k \in DOMAIN h THEN p[k] ELSE Len(c) + 1) \in DOMAIN d
        BY <1>0, <1>2, <1>4
    <2>. QED BY <2>1
<1>. HIDE DEF q
<1>7. ASSUME NEW k \in DOMAIN t PROVE t[k] = d[q[k]] /\ t[k].session = s
    <2>1. CASE k \in DOMAIN h
        BY <1>0, <1>1, <1>2, <1>4, <1>5, <2>1
    <2>2. CASE k = n + 1
        BY <1>1, <1>2, <1>5, <2>2
    <2>. QED BY <1>5, <2>1, <2>2
<1>8. ASSUME NEW j \in DOMAIN t, NEW k \in DOMAIN t, j < k PROVE q[j] < q[k]
    <2>1. j \in DOMAIN h
        BY <1>0, <1>1, <1>8
    <2>2. CASE k \in DOMAIN h
        BY <1>4, <1>5, <1>8, <2>1, <2>2
    <2>3. CASE k = n + 1
        <3>1. p[j] \in 1..Len(c)
            BY <1>0, <1>4, <2>1
        <3>2. p[j] < Len(c) + 1
            BY <1>0, <3>1
        <3>. QED BY <1>5, <2>1, <2>3, <3>2
    <2>. QED BY <1>5, <2>2, <2>3
<1>9. ASSUME NEW i \in DOMAIN d, d[i].session = s PROVE \E k \in DOMAIN t : q[k] = i
    <2>1. CASE i \in DOMAIN c
        <3>1. PICK k \in DOMAIN h : p[k] = i
            BY <1>2, <1>4, <1>9, <2>1
        <3>. QED BY <1>5, <3>1
    <2>2. CASE i = Len(c) + 1
        BY <1>5, <2>2
    <2>3. i \in DOMAIN c \/ i = Len(c) + 1
        BY <1>0, <1>2
    <2>. QED BY <2>1, <2>2, <2>3
<1>10. Projects(d, s, t, q)
    BY <1>3, <1>6, <1>7, <1>8, <1>9 DEF Projects
<1>. QED BY <1>5, <1>10 DEF d, t

\* The session's last event is the record's.
LEMMA LastOfRound ==
    ASSUME IsHistory(chain), NEW s, NEW h, NEW p, Projects(chain, s, h, p), h # <<>>
    PROVE  Last(s) = h[Len(h)]
<1>. DEFINE n == Len(h)
            Latest(i) == i \in EventsOf(s) /\ \A j \in EventsOf(s) : j <= i
            i == CHOOSE i \in EventsOf(s) : \A j \in EventsOf(s) : j <= i
<1>0. /\ DOMAIN h = 1..n /\ n \in Nat /\ n \in DOMAIN h
      /\ DOMAIN chain = 1..Len(chain) /\ Len(chain) \in Nat
    <2>1. h \in Seq(Events) /\ chain \in Seq(Events)
        BY DEF Projects, IsRecord, IsHistory
    <2>. QED BY <2>1, LenProperties, EmptySeq
<1>1. /\ \A k \in DOMAIN h : h[k] = chain[p[k]] /\ h[k].session = s /\ p[k] \in DOMAIN chain
      /\ \A j, k \in DOMAIN h : j < k => p[j] < p[k]
      /\ \A j \in DOMAIN chain : chain[j].session = s => \E k \in DOMAIN h : p[k] = j
    BY DEF Projects
<1>2. Latest(p[n])
    <2>1. p[n] \in EventsOf(s)
        BY <1>0, <1>1 DEF EventsOf
    <2>2. ASSUME NEW j \in EventsOf(s) PROVE j <= p[n]
        <3>1. PICK k \in DOMAIN h : p[k] = j
            BY <1>1 DEF EventsOf
        <3>2. CASE k = n
            <4>1. p[n] \in Nat
                BY <1>0, <1>1
            <4>. QED BY <3>1, <3>2, <4>1
        <3>3. CASE k # n
            <4>1. k < n
                BY <1>0, <3>3
            <4>2. p[k] < p[n]
                BY <1>0, <1>1, <4>1
            <4>3. p[k] \in Nat /\ p[n] \in Nat
                BY <1>0, <1>1
            <4>. QED BY <3>1, <4>2, <4>3
        <3>. QED BY <3>2, <3>3
    <2>. QED BY <2>1, <2>2
<1>3. Latest(i)
    BY <1>2
<1>. HIDE DEF i, n
<1>4. i = p[n]
    <2>1. i <= p[n] /\ p[n] <= i
        BY <1>2, <1>3
    <2>2. i \in Nat /\ p[n] \in Nat
        BY <1>0, <1>2, <1>3 DEF EventsOf
    <2>. QED BY <2>1, <2>2
<1>5. Last(s) = chain[i]
    BY DEF Last, i
<1>. QED BY <1>0, <1>1, <1>4, <1>5 DEF n

\* What the first step of a session leaves in the log.
LEMMA FirstOutcome ==
    ASSUME HostSnapshotAssumption, NEW s \in Nat, NEW e \in StepOutcomes(s, 1, 0)
    PROVE  e \in Events /\ e.session = s /\ e.name # "Opened"
<1>1. CASE \E phase \in Waiting : e = Advanced(s, 1, phase, 0)
    BY <1>1 DEF Advanced, Events
<1>2. CASE \E p \in Payouts : e = Settled(s, 1, "SETTLED", p, 0)
    <2>1. PICK p \in Payouts : e = Settled(s, 1, "SETTLED", p, 0)
        BY <1>2
    <2>2. p \in Nat /\ "SETTLED" \in Terminal
        BY <2>1 DEF HostSnapshotAssumption, Terminal
    <2>. QED BY <2>1, <2>2 DEF Settled, Events
<1>. QED BY <1>1, <1>2 DEF StepOutcomes

\* A bet lands: its session has its first two events.
LEMMA RoundLands ==
    ASSUME HostSnapshotAssumption, IsHistory(chain), NEW r \in Requests, Land(r),
           NEW s, s = Cardinality(OpenedIds) + 1
    PROVE  /\ s \notin OpenedIds /\ s \in Nat
           /\ DOMAIN chain' = DOMAIN chain \cup {Len(chain) + 1, Len(chain) + 2}
           /\ \A i \in {Len(chain) + 1, Len(chain) + 2} : chain'[i].session = s /\ i \notin DOMAIN chain
           /\ \E h, p : /\ Projects(chain', s, h, p) /\ DOMAIN h = {1, 2} /\ Len(h) = 2
                        /\ \A k \in DOMAIN h : p[k] \notin DOMAIN chain
<1>. DEFINE m == Len(chain)
<1>0. chain \in Seq(Events) /\ DOMAIN chain = 1..m /\ m \in Nat
    BY LenProperties DEF IsHistory
<1>1. s \notin OpenedIds /\ s \in Nat
    <2>1. PICK n \in 0..Len(chain) : OpenedIn(chain) = 1..n
        BY DEF IsHistory
    <2>2. Cardinality(1..n) = n
        BY <1>0, <2>1, FS_Interval
    <2>. QED BY <1>0, <2>1, <2>2 DEF OpenedIds
<1>2. PICK e \in StepOutcomes(s, 1, 0) : chain' = chain \o <<Opened(s, r), e>>
    BY DEF Land
<1>. DEFINE o == Opened(s, r)
            h == <<o, e>>
            p == <<m + 1, m + 2>>
<1>3. /\ e \in Events /\ e.session = s /\ e.name # "Opened" /\ e.word = 0
      /\ e.name = "Advanced" => /\ e.step = 1 /\ e.state = e.step
                                /\ e.asks = (e.phase = "WAITING_RANDOMNESS")
      /\ e.name = "Settled" => e.state = 1
    <2>1. e \in Events /\ e.session = s /\ e.name # "Opened"
        BY <1>1, <1>2, FirstOutcome
    <2>. QED BY <2>1 DEF StepOutcomes, Advanced, Settled
<1>4. o \in Events /\ o.name = "Opened" /\ o.session = s
    BY <1>1 DEF Opened, Events, Requests
<1>. HIDE DEF o, m
<1>5. /\ h \in Seq(Events) /\ DOMAIN h = {1, 2} /\ Len(h) = 2 /\ h[1] = o /\ h[2] = e
    <2>1. DOMAIN h = 1..2 /\ Len(h) = 2 /\ h[1] = o /\ h[2] = e /\ 1..2 = {1, 2}
        BY <1>3, <1>4
    <2>2. h \in Seq(Events)
        BY <1>3, <1>4
    <2>. QED BY <2>1, <2>2
<1>6. /\ DOMAIN chain' = 1..(m + 2) /\ chain'[m + 1] = o /\ chain'[m + 2] = e
      /\ \A i \in DOMAIN chain : chain'[i] = chain[i]
    <2>1. chain' = chain \o h
        BY <1>2 DEF o
    <2>. HIDE DEF h
    <2>2. /\ Len(chain') = m + 2 /\ \A i \in 1..(m + 2) :
                chain'[i] = IF i <= m THEN chain[i] ELSE h[i - m]
          /\ chain' \in Seq(Events)
        <3>1. chain \in Seq(Events) /\ h \in Seq(Events) /\ Len(chain) = m /\ Len(h) = 2
            BY <1>0, <1>5 DEF m
        <3>2. /\ chain \o h \in Seq(Events) /\ Len(chain \o h) = Len(chain) + Len(h)
              /\ \A i \in 1..(Len(chain) + Len(h)) : (chain \o h)[i] =
                        IF i <= Len(chain) THEN chain[i] ELSE h[i - Len(chain)]
            BY <3>1, ConcatProperties, Zenon
        <3>. QED BY <2>1, <3>1, <3>2
    <2>3. m + 1 - m = 1 /\ m + 2 - m = 2 /\ m + 1 \in 1..(m + 2) /\ m + 2 \in 1..(m + 2)
          /\ ~(m + 1 <= m) /\ ~(m + 2 <= m) /\ \A i \in 1..m : i <= m /\ i \in 1..(m + 2)
        BY <1>0
    <2>4. DOMAIN chain' = 1..(m + 2)
        BY <2>2, LenProperties
    <2>. QED BY <1>0, <1>5, <2>2, <2>3, <2>4
<1>7. /\ DOMAIN p = {1, 2} /\ p[1] = m + 1 /\ p[2] = m + 2
      /\ p \in [{1, 2} -> DOMAIN chain']
    <2>1. m + 1 \in DOMAIN chain' /\ m + 2 \in DOMAIN chain'
        BY <1>0, <1>6
    <2>2. DOMAIN p = {1, 2} /\ p[1] = m + 1 /\ p[2] = m + 2
        <3>1. DOMAIN p = 1..2 /\ 1..2 = {1, 2} /\ p[1] = m + 1 /\ p[2] = m + 2
            OBVIOUS
        <3>. QED BY <3>1
    <2>3. p = [k \in {1, 2} |-> p[k]]
        BY <2>2
    <2>. QED BY <2>1, <2>2, <2>3
<1>. HIDE DEF h, p
<1>8. IsRecord(h)
    BY <1>3, <1>4, <1>5 DEF IsRecord
<1>9. OneSession(h)
    BY <1>3, <1>4, <1>5 DEF OneSession
<1>10. m + 1 \notin DOMAIN chain /\ m + 2 \notin DOMAIN chain /\ m + 1 < m + 2
    BY <1>0
<1>11. DOMAIN chain' = DOMAIN chain \cup {m + 1, m + 2}
    BY <1>0, <1>6
<1>12. \A i \in DOMAIN chain : chain'[i].session # s
    BY <1>1, <1>6 DEF OpenedIds, IsHistory
<1>13. Projects(chain', s, h, p)
    <2>1. \A k \in DOMAIN h : h[k] = chain'[p[k]] /\ h[k].session = s
        BY <1>3, <1>4, <1>5, <1>6, <1>7
    <2>2. \A j, k \in DOMAIN h : j < k => p[j] < p[k]
        BY <1>5, <1>7, <1>10
    <2>3. \A i \in DOMAIN chain' : chain'[i].session = s => \E k \in DOMAIN h : p[k] = i
        BY <1>5, <1>7, <1>11, <1>12
    <2>. QED BY <1>5, <1>7, <1>8, <1>9, <2>1, <2>2, <2>3 DEF Projects
<1>14. /\ chain'[m + 1].session = s /\ chain'[m + 2].session = s
       /\ \A k \in DOMAIN h : p[k] \notin DOMAIN chain
    BY <1>3, <1>4, <1>5, <1>6, <1>7, <1>10
<1>. QED BY <1>1, <1>5, <1>10, <1>11, <1>13, <1>14 DEF m

\* The round goes on: the record of its session has one event more.
LEMMA RoundSteps ==
    ASSUME HostSnapshotAssumption, IsHistory(chain), NEW s \in Ids, Step(s),
           NEW h, NEW p, Projects(chain, s, h, p)
    PROVE  \E d, q : /\ Projects(chain', s, d, q) /\ Extends(h, d)
                     /\ \A k \in DOMAIN h : q[k] = p[k]
                     /\ \A k \in DOMAIN d \ DOMAIN h : q[k] \notin DOMAIN chain
<1>. DEFINE n == Len(h)
<1>0. /\ h \in Seq(Events) /\ DOMAIN h = 1..n /\ n \in Nat /\ IsRecord(h) /\ OneSession(h)
      /\ chain \in Seq(Events) /\ DOMAIN chain = 1..Len(chain) /\ Len(chain) \in Nat
    BY LenProperties DEF IsHistory, Projects, IsRecord
<1>1. h # <<>>
    <2>1. PICK i \in DOMAIN chain : chain[i].session = s
        BY DEF Step, Live, OpenedIds, OpenedIn
    <2>2. PICK k \in DOMAIN h : p[k] = i
        BY <2>1 DEF Projects
    <2>. QED BY <2>2, <1>0
<1>2. Last(s) = h[n] /\ n > 0 /\ n \in DOMAIN h /\ h[n].name # "Settled"
    <2>1. Last(s) = h[n]
        BY <1>1, LastOfRound
    <2>. QED BY <1>0, <1>1, <2>1, EmptySeq DEF Step, Live
<1>. DEFINE w == IF h[n].phase = "WAITING_RANDOMNESS" THEN LastStep(s) ELSE 0
<1>3. LastStep(s) = n - 1 /\ (LastStep(s) # 0 => h[n].name = "Advanced")
    <2>1. CASE n = 1
        <3>1. h[n].name = "Opened"
            BY <1>0, <1>1, <2>1 DEF OneSession
        <3>. QED BY <1>2, <2>1, <3>1 DEF LastStep
    <2>2. CASE n # 1
        <3>1. h[n].name # "Opened" /\ (h[n].name = "Advanced" => h[n].step = n - 1)
            BY <1>0, <1>2, <2>2 DEF OneSession
        <3>2. h[n].name = "Advanced"
            BY <1>0, <1>2, <3>1, RecordFacts
        <3>. QED BY <1>2, <3>1, <3>2 DEF LastStep
    <2>. QED BY <2>1, <2>2
<1>4. PICK e : /\ chain' = Append(chain, e)
               /\ \/ e \in StepOutcomes(s, n, w)
                  \/ \E x \in Payouts : \/ e = Settled(s, n - 1, "CANCELLED", x, 0)
                                        \/ e = Settled(s, n - 1, "FORFEITED", x, 0)
    <2>1. n = n - 1 + 1
        BY <1>0
    <2>. HIDE DEF n
    <2>. QED BY <1>1, <1>2, <1>3, <2>1 DEF Step
<1>5. /\ w \in {0, n - 1}
      /\ w # 0 => h[n].name = "Advanced" /\ h[n].phase = "WAITING_RANDOMNESS"
    BY <1>3
<1>6. w \in Nat /\ n - 1 \in Nat
    BY <1>0, <1>2, <1>5
<1>. HIDE DEF w, n
<1>7. /\ e \in Events /\ e.session = s /\ e.name # "Opened"
      /\ e.name = "Advanced" => e.state = e.step
      /\ e.name = "Settled" => (e.phase = "SETTLED" => e.state # 0)
    <2>1. s \in Nat /\ n - 1 + 1 = n
        BY <1>0 DEF Ids
    <2>2. e \in StepOutcomes(s, n - 1 + 1, w)
                \cup {Settled(s, n - 1, "CANCELLED", x, 0) : x \in Payouts}
                \cup {Settled(s, n - 1, "FORFEITED", x, 0) : x \in Payouts}
        BY <1>4, <2>1
    <2>. QED BY <1>6, <2>1, <2>2, OutcomeFacts
<1>8. /\ e.word \in {0, w}
      /\ e.name = "Advanced" => e.step = n /\ e.asks = (e.phase = "WAITING_RANDOMNESS")
      /\ e.name = "Settled" => e.state \in {n, n - 1}
    <2>1. CASE e \in StepOutcomes(s, n, w)
        BY <2>1 DEF StepOutcomes, Advanced, Settled
    <2>2. CASE \E x \in Payouts : \/ e = Settled(s, n - 1, "CANCELLED", x, 0)
                                  \/ e = Settled(s, n - 1, "FORFEITED", x, 0)
        BY <2>2 DEF Settled
    <2>. QED BY <1>4, <2>1, <2>2
<1>9. ComesAfter(h, e)
    BY <1>2, <1>5, <1>7, <1>8 DEF ComesAfter, n
<1>. DEFINE d == Append(h, e)
<1>10. PICK q : Projects(Append(chain, e), s, d, q) /\ \A k \in DOMAIN h : q[k] = p[k]
    BY <1>0, <1>1, <1>7, <1>9, ProjectsOneMore
<1>11. Extends(h, d)
    BY <1>0, <1>1, <1>9, ComesNext
<1>12. DOMAIN d = 1..(n + 1)
    BY <1>0, <1>7, AppendProperties, LenProperties DEF n
<1>. HIDE DEF d
<1>13. ASSUME NEW k \in DOMAIN d \ DOMAIN h PROVE q[k] \notin DOMAIN chain
    <2>1. k = n + 1 /\ n \in DOMAIN d /\ k \in DOMAIN d /\ n < k /\ n \in DOMAIN h
        BY <1>0, <1>2, <1>12
    <2>2. \A j \in DOMAIN h : q[j] < q[k]
        <3>1. \A j \in DOMAIN h : j \in DOMAIN d /\ j < k
            BY <1>0, <1>12, <2>1
        <3>. QED BY <1>10, <2>1, <3>1 DEF Projects
    <2>3. d[k].session = s /\ d[k] = Append(chain, e)[q[k]] /\ q[k] \in DOMAIN Append(chain, e)
        BY <1>10, <2>1 DEF Projects
    <2>. SUFFICES ASSUME q[k] \in DOMAIN chain PROVE FALSE
        OBVIOUS
    <2>4. Append(chain, e)[q[k]] = chain[q[k]]
        BY <1>0, <1>7, AppendProperties, LenProperties
    <2>5. chain[q[k]].session = s
        BY <2>3, <2>4
    <2>6. PICK j \in DOMAIN h : p[j] = q[k]
        BY <2>5 DEF Projects
    <2>7. q[j] = q[k] /\ q[j] < q[k] /\ q[k] \in Nat
        BY <1>0, <1>10, <2>2, <2>6
    <2>. QED BY <2>7
<1>. QED BY <1>4, <1>10, <1>11, <1>13

-----------------------------------------------------------------------------
(***************************************************************************)
(* The invariant: what is shown of a round is never ahead of what the      *)
(* layers would give now.                                                  *)
(***************************************************************************)

Optimistic(s) == \E o \in optimisticSessions : o.session = s
Now(s) == Blend(rows[s], patches[s], Optimistic(s))

\* Of the session's events the page found the first b, which the flashblock
\* channel never delivers; that channel has delivered the others up to the f-th,
\* the indexed one the first g, and row and patch are what they make.
Told(s, h, p, b, f, g) ==
    /\ b \in 0..Len(h) /\ (f # 0 => b < f)
    /\ \A k \in DOMAIN h : /\ p[k] \in flashSeen <=> k <= Furthest(b, f)
                           /\ p[k] \in indexSeen <=> k <= g
    /\ LayersAt(h, f, g, rows[s], patches[s])
    /\ OpenedHere(s) => b = 0 /\ WordsAt(f, g, patches[s])

Round(s, h, p, b, f, g) == Projects(chain, s, h, p) /\ Told(s, h, p, b, f, g)
RoundTold(s) == \E h, p, b, f, g : Round(s, h, p, b, f, g)

OnScreen(s) ==
    /\ RoundTold(s)
    /\ sessionRows[s] # None => Behind(sessionRows[s], rows[s])
    /\ Item(s) # None => Now(s) # None /\ Ahead(Now(s), Item(s), BetAgain, OpenedHere(s))

\* Nothing is known of a session that has not been opened.
Unknown(s) == s \notin OpenedIds => /\ rows[s] = None /\ patches[s] = None
                                    /\ sessionRows[s] = None /\ Item(s) = None

\* The entry of an opened session is not lost if its bet is reported as failed.
EntriesConfirmed ==
    \A o \in optimisticSessions :
        o.session # Pending /\ bets[o.request] \in {"sending", "accepted"} =>
            \E c \in confirmedOpens : c.request = o.request

StepInv ==
    /\ (setting.toggles = 0 => walletReady = TRUE) /\ toggles \in Nat
    /\ indexSeen \subseteq DOMAIN chain
    /\ EntriesConfirmed
    /\ \A s \in Ids : Unknown(s) /\ (s \in OpenedIds /\ KeepsItsRow(s) => OnScreen(s))

\* What is known of the bets, whatever the order of delivery.
BetsTell == TurnsTaken /\ OpensFollow /\ EntriesTell

-----------------------------------------------------------------------------
\* No action takes what the layers give a step back.

LayersOf(d, s, row, patch) == /\ row = None \/ RowTells(d, s, row)
                              /\ patch = None \/ PatchTells(d, s, patch)

LEMMA BlendOn ==
    ASSUME NEW c, IsRecord(c), OneSession(c), NEW s,
           NEW f, NEW g, NEW row, NEW patch, LayersAt(c, f, g, row, patch),
           NEW d, IsHistory(d), LayersOf(d, s, row, patch), NEW optimistic \in BOOLEAN,
           NEW nextF, NEW nextG, NEW nextRow, NEW nextPatch,
           LayersAt(c, nextF, nextG, nextRow, nextPatch),
           NEW nextD, IsHistory(nextD), LayersOf(nextD, s, nextRow, nextPatch),
           NEW still \in BOOLEAN, NEW again, NEW here,
           f <= nextF, g <= nextG, here => HeardOn(row, patch, nextRow, nextPatch),
           optimistic => still \/ (again /\ nextRow # None),
           Blend(row, patch, optimistic) # None
    PROVE  /\ Blend(nextRow, nextPatch, still) # None
           /\ Ahead(Blend(nextRow, nextPatch, still), Blend(row, patch, optimistic), again, here)
<1>. DEFINE item == Blend(row, patch, optimistic)
            next == Blend(nextRow, nextPatch, still)
            m == Furthest(f, g)
            n == Furthest(nextF, nextG)
<1>0. /\ f \in 0..Len(c) /\ g \in 0..Len(c) /\ nextF \in 0..Len(c)
      /\ nextG \in 0..Len(c) /\ Len(c) \in Nat
      /\ (row = None <=> g = 0) /\ (nextRow = None <=> nextG = 0)
    BY LenProperties DEF LayersAt, IsRecord
<1>1. m \in 0..Len(c) /\ n \in 0..Len(c) /\ m <= n
    BY <1>0 DEF Furthest
<1>2. item # None <=> row # None \/ optimistic
    BY BlendAt DEF LayersOf
<1>3. row # None \/ optimistic => ShownAt(c, m, optimistic, row, patch, item)
    BY BlendAt DEF LayersOf
<1>4. next # None <=> nextRow # None \/ still
    BY BlendAt DEF LayersOf
<1>5. nextRow # None \/ still => ShownAt(c, n, still, nextRow, nextPatch, next)
    BY BlendAt DEF LayersOf
<1>6. row # None => nextRow # None
    BY <1>0
<1>7. Heard(Base(row), patch) \subseteq Nat /\ Heard(Base(nextRow), nextPatch) \subseteq Nat
    BY HeardFacts
<1>. HIDE DEF item, next, m, n
<1>8. /\ ShownAt(c, m, optimistic, row, patch, item)
      /\ ShownAt(c, n, still, nextRow, nextPatch, next) /\ next # None
    BY <1>2, <1>3, <1>4, <1>5, <1>6 DEF item
<1>a. optimistic => still \/ again
    OBVIOUS
<1>10. Ahead(next, item, again, here)
    BY <1>1, <1>7, <1>8, <1>a, ShownAhead, ZenonT(30)
<1>. QED BY <1>8, <1>10 DEF next, item

LEMMA HeardSame ==
    ASSUME NEW row, NEW patch, Heard(Base(row), patch) \subseteq Nat
    PROVE  HeardOn(row, patch, row, patch)
<1>1. \A h \in Heard(Base(row), patch) : h <= h
    OBVIOUS
<1>. QED BY <1>1 DEF HeardOn

\* The round moves on, and what the layers give of it with it.
MovesOn(s) ==
    /\ RoundTold(s)'
    /\ \A old : Behind(old, rows[s]) => Behind(old, rows'[s])
    /\ Now(s) # None => Now(s)' # None /\ Ahead(Now(s)', Now(s), BetAgain', OpenedHere(s))

\* An entry stays, or it goes after its session was indexed.
EntryStays(s) == Optimistic(s) => Optimistic(s)' \/ (BetAgain' /\ rows'[s] # None)

LEMMA LayersNow ==
    ASSUME ViewInv, NEW s \in Ids
    PROVE  /\ IsHistory(chain) /\ LayersOf(chain, s, rows[s], patches[s])
           /\ RowTells(chain, s, Base(rows[s]))
<1>1. RowTells(chain, s, InitialRow)
    BY InitialRowTells
<1>. QED BY <1>1 DEF ViewInv, LayersTell, LayersOf, Base

LEMMA Moved ==
    ASSUME ViewInv, ViewInv', NEW s \in Ids, EntryStays(s),
           NEW h, NEW p, NEW b, NEW f, NEW g, Round(s, h, p, b, f, g),
           NEW d, NEW q, NEW m, NEW n, Round(s, d, q, b, m, n)', Extends(h, d), f <= m, g <= n,
           OpenedHere(s) => HeardOn(rows[s], patches[s], rows'[s], patches'[s]),
           \A old : Behind(old, rows[s]) => Behind(old, rows'[s])
    PROVE  MovesOn(s)
<1>. DEFINE row == rows[s]
            patch == patches[s]
            nextRow == rows'[s]
            nextPatch == patches'[s]
            c == chain'
            optimistic == Optimistic(s)
            still == Optimistic(s)'
            again == BetAgain'
            here == OpenedHere(s)
<1>0. /\ IsHistory(chain) /\ LayersOf(chain, s, row, patch)
      /\ IsRecord(h) /\ IsRecord(d) /\ OneSession(d)
      /\ LayersAt(h, f, g, row, patch) /\ LayersAt(d, m, n, nextRow, nextPatch)
    BY LayersNow DEF Round, Told, Projects
<1>1. IsHistory(c) /\ LayersOf(c, s, nextRow, nextPatch)
    BY DEF ViewInv, LayersTell, LayersOf
<1>2. LayersAt(d, f, g, row, patch)
    BY <1>0, LayersStay
<1>3. /\ Now(s) = Blend(row, patch, optimistic) /\ Now(s)' = Blend(nextRow, nextPatch, still)
      /\ optimistic \in BOOLEAN /\ still \in BOOLEAN
      /\ here => HeardOn(row, patch, nextRow, nextPatch)
      /\ optimistic => still \/ (again /\ nextRow # None)
    BY DEF Now, Optimistic, EntryStays
<1>4. ASSUME Now(s) # None PROVE Now(s)' # None /\ Ahead(Now(s)', Now(s), BetAgain', here)
    <2>. HIDE DEF row, patch, nextRow, nextPatch, c, optimistic, still, again, here
    <2>1. Blend(row, patch, optimistic) # None
        BY <1>3, <1>4
    <2>2. /\ Blend(nextRow, nextPatch, still) # None
          /\ Ahead(Blend(nextRow, nextPatch, still), Blend(row, patch, optimistic), again, here)
        BY <1>0, <1>1, <1>2, <1>3, <2>1, BlendOn
    <2>. QED BY <1>3, <2>2 DEF again
<1>5. RoundTold(s)'
    BY DEF RoundTold
<1>. QED BY <1>4, <1>5 DEF MovesOn, here

\* The order of delivery: the next event of the session, or one of another.
LEMMA NextInLine ==
    ASSUME IsHistory(chain), setting.inOrder, NEW s, NEW h, NEW p, Projects(chain, s, h, p),
           NEW seen, NEW n \in 0..Len(h), \A k \in DOMAIN h : p[k] \in seen <=> k <= n,
           NEW i \in Undelivered(seen), chain[i].session = s
    PROVE  /\ n < Len(h) /\ h[n + 1] = chain[i]
           /\ \A k \in DOMAIN h : p[k] \in seen \cup {i} <=> k <= n + 1
<1>0. /\ DOMAIN h = 1..Len(h) /\ Len(h) \in Nat /\ DOMAIN chain = 1..Len(chain)
      /\ Len(chain) \in Nat
    BY LenProperties DEF Projects, IsRecord, IsHistory
<1>1. /\ i \in DOMAIN chain /\ i \notin seen /\ \A j \in 1..(i - 1) : j \in seen
    BY DEF Undelivered
<1>2. /\ \A k \in DOMAIN h : h[k] = chain[p[k]] /\ p[k] \in DOMAIN chain
      /\ \A j, k \in DOMAIN h : j < k => p[j] < p[k]
    BY DEF Projects
<1>3. PICK k \in DOMAIN h : p[k] = i
    BY <1>1 DEF Projects
<1>4. k > n /\ k \in Nat
    <2>1. ~(k <= n)
        BY <1>1, <1>3
    <2>. QED BY <1>0, <2>1
<1>5. ~(k > n + 1)
    <2>. SUFFICES ASSUME k > n + 1 PROVE FALSE
        OBVIOUS
    <2>1. n + 1 \in DOMAIN h /\ n + 1 < k
        BY <1>0, <1>4
    <2>2. p[n + 1] < i
        BY <1>2, <1>3, <2>1
    <2>3. p[n + 1] \in 1..(i - 1)
        <3>1. p[n + 1] \in 1..Len(chain) /\ i \in 1..Len(chain)
            BY <1>0, <1>1, <1>2, <2>1
        <3>. QED BY <1>0, <2>2, <3>1
    <2>4. n + 1 <= n
        BY <1>1, <2>1, <2>3
    <2>. QED BY <2>4
<1>6. k = n + 1
    BY <1>4, <1>5
<1>7. ASSUME NEW j \in DOMAIN h PROVE p[j] \in seen \cup {i} <=> j <= n + 1
    <2>1. CASE j = n + 1
        BY <1>3, <1>6, <2>1
    <2>2. CASE j # n + 1
        <3>1. p[j] # i
            <4>1. j < k \/ k < j
                BY <1>0, <1>6, <2>2
            <4>2. p[j] < p[k] \/ p[k] < p[j]
                BY <1>2, <4>1
            <4>3. p[j] \in Nat /\ p[k] \in Nat
                BY <1>0, <1>2
            <4>. QED BY <1>3, <4>2, <4>3
        <3>2. j <= n <=> j <= n + 1
            BY <1>0, <2>2
        <3>. QED BY <3>1, <3>2
    <2>. QED BY <2>1, <2>2
<1>. QED BY <1>0, <1>2, <1>3, <1>6, <1>7

LEMMA OtherInLine ==
    ASSUME NEW s, NEW h, NEW p, Projects(chain, s, h, p), NEW seen, NEW i, chain[i].session # s
    PROVE  \A k \in DOMAIN h : p[k] \in seen \cup {i} <=> p[k] \in seen
BY DEF Projects

\* An action that delivers nothing of the session and leaves its layers alone.
LEMMA NothingDelivered ==
    ASSUME ViewInv, ViewInv', NEW s \in Ids, EntryStays(s),
           NEW h, NEW p, NEW b, NEW f, NEW g, Round(s, h, p, b, f, g),
           NEW d, NEW q, Projects(chain', s, d, q), Extends(h, d),
           \A k \in DOMAIN h : q[k] = p[k],
           \A k \in DOMAIN d \ DOMAIN h : q[k] \notin flashSeen' /\ q[k] \notin indexSeen',
           \A k \in DOMAIN h : /\ p[k] \in flashSeen' <=> p[k] \in flashSeen
                               /\ p[k] \in indexSeen' <=> p[k] \in indexSeen,
           rows'[s] = rows[s], patches'[s] = patches[s], OpenedHere(s)' => OpenedHere(s)
    PROVE  MovesOn(s)
<1>. DEFINE row == rows[s]
            patch == patches[s]
<1>0. /\ IsRecord(h) /\ IsRecord(d) /\ LayersAt(h, f, g, row, patch)
      /\ \A k \in DOMAIN h : /\ p[k] \in flashSeen <=> k <= Furthest(b, f)
                             /\ p[k] \in indexSeen <=> k <= g
      /\ b \in 0..Len(h) /\ (f # 0 => b < f)
      /\ OpenedHere(s) => b = 0 /\ WordsAt(f, g, patch)
    BY DEF Round, Told, Projects
<1>1. /\ DOMAIN h = 1..Len(h) /\ Len(h) \in Nat /\ DOMAIN d = 1..Len(d) /\ Len(d) \in Nat
      /\ f \in 0..Len(h) /\ g \in 0..Len(h) /\ Furthest(b, f) \in 0..Len(h)
      /\ b \in 0..Len(d)
    <2>1. /\ DOMAIN h = 1..Len(h) /\ Len(h) \in Nat /\ DOMAIN d = 1..Len(d) /\ Len(d) \in Nat
          /\ f \in 0..Len(h) /\ g \in 0..Len(h)
        BY <1>0, LenProperties DEF IsRecord, LayersAt
    <2>2. Furthest(b, f) \in 0..Len(h)
        BY <1>0, <2>1 DEF Furthest
    <2>3. Len(h) <= Len(d)
        BY <2>1 DEF Extends
    <2>. QED BY <1>0, <2>1, <2>2, <2>3
<1>2. LayersAt(d, f, g, row, patch)
    BY <1>0, LayersStay
<1>3. HeardOn(row, patch, row, patch) /\ f <= f /\ g <= g
    BY <1>0, <1>1, HeardFacts, HeardSame
<1>4. ASSUME NEW k \in DOMAIN d
      PROVE  (q[k] \in flashSeen' <=> k <= Furthest(b, f)) /\ (q[k] \in indexSeen' <=> k <= g)
    <2>1. CASE k \in DOMAIN h
        BY <1>0, <2>1
    <2>2. CASE k \notin DOMAIN h
        <3>1. ~(k <= Furthest(b, f)) /\ ~(k <= g)
            BY <1>1, <2>2
        <3>. QED BY <2>2, <3>1
    <2>. QED BY <2>1, <2>2
<1>5. Round(s, d, q, b, f, g)'
    <2>1. OpenedHere(s)' => b = 0 /\ WordsAt(f, g, patches'[s])
        BY <1>0
    <2>2. LayersAt(d, f, g, rows'[s], patches'[s])
        BY <1>2
    <2>. QED BY <1>0, <1>1, <1>4, <2>1, <2>2 DEF Round, Told
<1>6. /\ HeardOn(rows[s], patches[s], rows'[s], patches'[s])
      /\ \A old : Behind(old, rows[s]) => Behind(old, rows'[s])
    BY <1>3
<1>. QED BY <1>3, <1>5, <1>6, Moved

LEMMA IndexMoves ==
    ASSUME ViewInv, ViewInv', NEW s \in Ids, setting.inOrder, EntryStays(s),
           NEW h, NEW p, NEW b, NEW f, NEW g, Round(s, h, p, b, f, g),
           NEW i \in DOMAIN chain, IndexDeliver(i), chain[i].session = s
    PROVE  MovesOn(s)
<1>. DEFINE new == Evolve(Base(rows[s]), chain[i])
<1>0. /\ IsHistory(chain) /\ RowTells(chain, s, Base(rows[s]))
      /\ Projects(chain, s, h, p) /\ IsRecord(h) /\ OneSession(h)
      /\ LayersAt(h, f, g, rows[s], patches[s]) /\ g \in 0..Len(h) /\ f \in 0..Len(h)
      /\ \A k \in DOMAIN h : /\ p[k] \in flashSeen <=> k <= Furthest(b, f)
                             /\ p[k] \in indexSeen <=> k <= g
      /\ b \in 0..Len(h) /\ (f # 0 => b < f)
      /\ OpenedHere(s) => b = 0 /\ WordsAt(f, g, patches[s])
    BY LayersNow DEF Round, Told, Projects, LayersAt
<1>1. /\ g < Len(h) /\ h[g + 1] = chain[i]
      /\ \A k \in DOMAIN h : p[k] \in indexSeen \cup {i} <=> k <= g + 1
    <2>1. i \in Undelivered(indexSeen)
        BY DEF IndexDeliver
    <2>. QED BY <1>0, <2>1, NextInLine
<1>2. /\ UNCHANGED <<chain, flashSeen, patches>> /\ indexSeen' = indexSeen \cup {i}
      /\ rows'[s] = new
    <2>1. rows' = [rows EXCEPT ![s] = Evolve(IF @ = None THEN InitialRow ELSE @, chain[i])]
        BY DEF IndexDeliver
    <2>2. rows \in [Ids -> Rows \cup {None}]
        BY DEF ViewInv, LayersTell
    <2>3. rows'[s] = new
        BY <2>1, <2>2 DEF Base
    <2>. QED BY <2>3 DEF IndexDeliver
<1>3. /\ LayersAt(h, f, g + 1, new, patches[s])
      /\ WordsAt(f, g, patches[s]) => /\ WordsAt(f, g + 1, patches[s])
                                     /\ HeardOn(rows[s], patches[s], new, patches[s])
      /\ \A old : Behind(old, rows[s]) => Behind(old, new)
    <2>1. RowTells(chain, chain[i].session, Base(rows[s])) /\ chain[i] = h[g + 1]
        BY <1>0, <1>1
    <2>. QED BY <1>0, <1>1, <2>1, IndexAt
<1>. HIDE DEF new
<1>4. Round(s, h, p, b, f, g + 1)'
    <2>1. OpenedHere(s)' <=> OpenedHere(s)
        BY <1>2 DEF OpenedHere
    <2>2. OpenedHere(s)' => b = 0 /\ WordsAt(f, g + 1, patches'[s])
        BY <1>0, <1>2, <1>3, <2>1
    <2>3. \A k \in DOMAIN h : /\ p[k] \in flashSeen' <=> k <= Furthest(b, f)
                              /\ p[k] \in indexSeen' <=> k <= g + 1
        BY <1>0, <1>1, <1>2
    <2>4. LayersAt(h, f, g + 1, rows'[s], patches'[s]) /\ Projects(chain', s, h, p)
        BY <1>0, <1>2, <1>3
    <2>5. b \in 0..Len(h) /\ (f # 0 => b < f)
        BY <1>0
    <2>. QED BY <2>2, <2>3, <2>4, <2>5, Zenon DEF Round, Told
<1>5. Extends(h, h) /\ f <= f /\ g <= g + 1
    BY <1>0, LenProperties DEF Extends, IsRecord
<1>6. /\ OpenedHere(s) => HeardOn(rows[s], patches[s], rows'[s], patches'[s])
      /\ \A old : Behind(old, rows[s]) => Behind(old, rows'[s])
    BY <1>0, <1>2, <1>3
<1>. QED BY <1>4, <1>5, <1>6, Moved

LEMMA FlashMoves ==
    ASSUME ViewInv, ViewInv', NEW s \in Ids, setting.inOrder, EntryStays(s),
           NEW h, NEW p, NEW b, NEW f, NEW g, Round(s, h, p, b, f, g),
           NEW i \in DOMAIN chain, FlashDeliver(i), chain[i].session = s
    PROVE  MovesOn(s)
<1>. DEFINE n == Furthest(b, f)
            new == ApplyFlashblockEvent(patches[s], chain[i])
<1>0. /\ IsHistory(chain) /\ Projects(chain, s, h, p) /\ IsRecord(h) /\ OneSession(h)
      /\ LayersAt(h, f, g, rows[s], patches[s]) /\ g \in 0..Len(h) /\ f \in 0..Len(h)
      /\ \A k \in DOMAIN h : /\ p[k] \in flashSeen <=> k <= Furthest(b, f)
                             /\ p[k] \in indexSeen <=> k <= g
      /\ b \in 0..Len(h) /\ (f # 0 => b < f)
      /\ OpenedHere(s) => b = 0 /\ WordsAt(f, g, patches[s])
    BY LayersNow DEF Round, Told, Projects, LayersAt
<1>a. /\ n \in 0..Len(h) /\ b <= n /\ f <= n /\ f \in Nat /\ b \in Nat /\ n \in Nat
      /\ f # 0 \/ b = 0 => n = f
      /\ patches[s] # None => n = f
    <2>1. Len(h) \in Nat
        BY <1>0, LenProperties DEF IsRecord
    <2>2. patches[s] # None => f # 0
        BY <1>0 DEF LayersAt
    <2>. QED BY <1>0, <2>1, <2>2 DEF Furthest
<1>. HIDE DEF n
<1>1. /\ n < Len(h) /\ h[n + 1] = chain[i]
      /\ \A k \in DOMAIN h : p[k] \in flashSeen \cup {i} <=> k <= n + 1
    <2>1. i \in Undelivered(flashSeen) /\ \A k \in DOMAIN h : p[k] \in flashSeen <=> k <= n
        BY <1>0 DEF FlashDeliver, n
    <2>. QED BY <1>0, <1>a, <2>1, NextInLine
<1>2. /\ UNCHANGED <<chain, indexSeen, rows>> /\ flashSeen' = flashSeen \cup {i}
      /\ patches'[s] = new
    <2>1. patches' = [patches EXCEPT ![s] = ApplyFlashblockEvent(@, chain[i])]
        BY DEF FlashDeliver
    <2>2. patches \in [Ids -> Patches \cup {None}]
        BY DEF ViewInv, LayersTell
    <2>3. patches'[s] = new
        BY <2>1, <2>2
    <2>. QED BY <2>3 DEF FlashDeliver
<1>3. /\ LayersAt(h, n + 1, g, rows[s], new) /\ HeardOn(rows[s], patches[s], rows[s], new)
      /\ n = f => WordsAt(n + 1, g, new)
    BY <1>0, <1>a, <1>1, FlashAt
<1>. HIDE DEF new
<1>4. Round(s, h, p, b, n + 1, g)'
    <2>1. OpenedHere(s)' <=> OpenedHere(s)
        BY <1>2 DEF OpenedHere
    <2>2. OpenedHere(s)' => b = 0 /\ WordsAt(n + 1, g, patches'[s])
        BY <1>0, <1>a, <1>2, <1>3, <2>1
    <2>3. Furthest(b, n + 1) = n + 1 /\ b < n + 1
        BY <1>a DEF Furthest
    <2>4. \A k \in DOMAIN h : /\ p[k] \in flashSeen' <=> k <= Furthest(b, n + 1)
                              /\ p[k] \in indexSeen' <=> k <= g
        BY <1>0, <1>1, <1>2, <2>3
    <2>5. LayersAt(h, n + 1, g, rows'[s], patches'[s]) /\ Projects(chain', s, h, p)
        BY <1>0, <1>2, <1>3
    <2>6. b \in 0..Len(h) /\ (n + 1 # 0 => b < n + 1)
        BY <1>0, <2>3
    <2>. QED BY <2>2, <2>4, <2>5, <2>6, Zenon DEF Round, Told
<1>5. Extends(h, h) /\ f <= n + 1 /\ g <= g
    BY <1>0, <1>a, LenProperties DEF Extends, IsRecord
<1>6. /\ HeardOn(rows[s], patches[s], rows'[s], patches'[s])
      /\ \A old : Behind(old, rows[s]) => Behind(old, rows'[s])
    BY <1>2, <1>3
<1>. QED BY <1>4, <1>5, <1>6, Moved

LEMMA PruneMoves ==
    ASSUME ViewInv, ViewInv', NEW s \in Ids, EntryStays(s),
           NEW h, NEW p, NEW b, NEW f, NEW g, Round(s, h, p, b, f, g),
           sessionRows[s] # None => Behind(sessionRows[s], rows[s]), PruneEffect
    PROVE  MovesOn(s)
<1>0. /\ Projects(chain, s, h, p) /\ IsRecord(h) /\ OneSession(h)
      /\ LayersAt(h, f, g, rows[s], patches[s]) /\ g \in 0..Len(h) /\ f \in 0..Len(h)
      /\ \A k \in DOMAIN h : /\ p[k] \in flashSeen <=> k <= Furthest(b, f)
                             /\ p[k] \in indexSeen <=> k <= g
      /\ b \in 0..Len(h) /\ (f # 0 => b < f)
      /\ OpenedHere(s) => b = 0 /\ WordsAt(f, g, patches[s])
    BY DEF Round, Told, Projects, LayersAt
<1>1. /\ UNCHANGED <<chain, flashSeen, indexSeen, rows>>
      /\ patches'[s] = IF /\ patches[s] # None /\ sessionRows[s] # None
                          /\ CaughtUp(sessionRows[s], patches[s])
                       THEN None ELSE patches[s]
    BY DEF PruneEffect, feedVars
<1>2. /\ LayersAt(h, f, g, rows[s], patches'[s])
      /\ HeardOn(rows[s], patches[s], rows[s], patches'[s])
    <2>1. CASE patches'[s] = patches[s]
        <3>1. HeardOn(rows[s], patches[s], rows[s], patches[s])
            BY <1>0, HeardFacts, HeardSame
        <3>. QED BY <1>0, <2>1, <3>1
    <2>2. CASE patches'[s] # patches[s]
        <3>1. /\ patches[s] # None /\ sessionRows[s] # None /\ patches'[s] = None
              /\ CaughtUp(sessionRows[s], patches[s])
            BY <1>1, <2>2
        <3>2. /\ LayersAt(h, f, g, rows[s], None)
              /\ HeardOn(rows[s], patches[s], rows[s], None)
            BY <1>0, <3>1, PruneAt
        <3>. QED BY <3>1, <3>2
    <2>. QED BY <2>1, <2>2
<1>3. Round(s, h, p, b, f, g)'
    <2>1. OpenedHere(s)' <=> OpenedHere(s)
        BY <1>1 DEF OpenedHere
    <2>2. OpenedHere(s)' => b = 0 /\ WordsAt(f, g, patches'[s])
        BY <1>0, <1>1, <2>1 DEF WordsAt
    <2>3. \A k \in DOMAIN h : /\ p[k] \in flashSeen' <=> k <= Furthest(b, f)
                              /\ p[k] \in indexSeen' <=> k <= g
        BY <1>0, <1>1
    <2>4. LayersAt(h, f, g, rows'[s], patches'[s]) /\ Projects(chain', s, h, p)
        BY <1>0, <1>1, <1>2
    <2>5. b \in 0..Len(h) /\ (f # 0 => b < f)
        BY <1>0
    <2>. QED BY <2>2, <2>3, <2>4, <2>5, Zenon DEF Round, Told
<1>4. Extends(h, h) /\ f <= f /\ g <= g
    BY <1>0, LenProperties DEF Extends, IsRecord
<1>5. /\ HeardOn(rows[s], patches[s], rows'[s], patches'[s])
      /\ \A old : Behind(old, rows[s]) => Behind(old, rows'[s])
    BY <1>1, <1>2
<1>. QED BY <1>3, <1>4, <1>5, Moved


-----------------------------------------------------------------------------
(***************************************************************************)
(* The entries of the rounds.                                              *)
(***************************************************************************)

LEMMA EntriesAre ==
    ASSUME EntriesTell
    PROVE  /\ optimisticSessions \subseteq [request : Requests, session : Nat]
           /\ \A o \in optimisticSessions :
                 /\ o.request \in Requests /\ bets[o.request] # "idle"
                 /\ o.session # Pending => OpensAs(chain, o.request, o.session)
BY DEF EntriesTell

\* An entry that has its session keeps it.
LEMMA ConfirmedStays ==
    ASSUME optimisticSessions \subseteq [request : Requests, session : Nat],
           NEW s, NEW o \in optimisticSessions, o.session = s, NEW r, NEW t,
           o.request = r => t = s, optimisticSessions' = Confirmed(r, t)
    PROVE  Optimistic(s)'
<1>1. CASE o.request # r
    <2>1. o \in Confirmed(r, t)
        BY <1>1 DEF Confirmed
    <2>. QED BY <2>1 DEF Optimistic
<1>2. CASE o.request = r
    <2>. DEFINE new == [o EXCEPT !.session = t]
    <2>1. new \in Confirmed(r, t)
        BY <1>2 DEF Confirmed
    <2>2. o \in [request : Requests, session : Nat]
        OBVIOUS
    <2>3. new.session = s
        BY <1>2, <2>2
    <2>. HIDE DEF new
    <2>. QED BY <2>1, <2>3 DEF Optimistic
<1>. QED BY <1>1, <1>2

LEMMA EntryStaysNext ==
    ASSUME HostSnapshotAssumption, IsHistory(chain), BetsTell, EntriesConfirmed, [Next]_vars,
           NEW s \in Ids, sessionRows[s] # None => rows[s] # None
    PROVE  EntryStays(s)
<1>. SUFFICES ASSUME Optimistic(s) PROVE Optimistic(s)' \/ (BetAgain' /\ rows'[s] # None)
    BY DEF EntryStays
<1>0. /\ EntriesTell /\ OpensFollow /\ s # Pending
      /\ bets \in [Requests -> {"idle", "sending", "accepted", "done", "failed"}]
      /\ optimisticSessions \subseteq [request : Requests, session : Nat]
    BY EntriesAre DEF BetsTell, TurnsTaken, Ids, Pending
<1>a. PICK o \in optimisticSessions : o.session = s
    BY DEF Optimistic
<1>b. /\ o.request \in Requests /\ bets[o.request] # "idle"
      /\ OpensAs(chain, o.request, s)
    BY <1>0, <1>a, EntriesAre
<1>c. \A t : OpensAs(chain, o.request, t) => t = s
    BY <1>0, <1>b, OpenSession
<1>1. CASE UNCHANGED optimisticSessions
    BY <1>1, <1>a DEF Optimistic
<1>2. ASSUME NEW r \in Requests, Bet(r)
      PROVE  Optimistic(s)' \/ (BetAgain' /\ rows'[s] # None)
    <2>1. CASE sessionRows[s] = None
        <3>1. o \in optimisticSessions'
            BY <1>2, <1>a, <2>1 DEF Bet
        <3>. QED BY <1>a, <3>1 DEF Optimistic
    <2>2. CASE sessionRows[s] # None
        <3>1. rows'[s] # None
            BY <1>2, <2>2 DEF Bet, feedVars
        <3>2. /\ bets[r] = "idle" /\ bets' = [bets EXCEPT ![r] = "sending"]
            BY <1>2 DEF Bet
        <3>3. o.request # r /\ bets'[r] # "idle" /\ bets'[o.request] # "idle"
            BY <1>0, <1>b, <3>2
        <3>4. o.request < r \/ r < o.request
            BY <1>b, <3>3 DEF Requests, HostSnapshotAssumption
        <3>5. BetAgain'
            BY <1>b, <3>3, <3>4 DEF BetAgain
        <3>. QED BY <3>1, <3>5
    <2>. QED BY <2>1, <2>2
<1>3. ASSUME NEW r \in Requests, Accept(r), ~UNCHANGED optimisticSessions PROVE Optimistic(s)'
    <2>1. PICK seen \in RecentOpens(r) : optimisticSessions' = Confirmed(r, seen.session)
        BY <1>3 DEF Accept
    <2>2. PICK j \in DOMAIN recentFlashblockOpens :
             seen = recentFlashblockOpens[j] /\ seen.request = r
        BY DEF RecentOpens
    <2>3. OpensAs(chain, r, seen.session)
        BY <1>0, <2>2 DEF EntriesTell
    <2>. QED BY <1>0, <1>a, <1>c, <2>1, <2>3, ConfirmedStays
<1>4. ASSUME NEW r \in Requests, Receipt(r) PROVE Optimistic(s)'
    <2>1. optimisticSessions' = Confirmed(r, SessionOf(r)) /\ Landed(r)
        BY <1>4 DEF Receipt
    <2>2. OpensAs(chain, r, SessionOf(r))
        BY <1>0, <2>1, OpenSession
    <2>. QED BY <1>0, <1>a, <1>c, <2>1, <2>2, ConfirmedStays
<1>5. ASSUME NEW r \in Requests, Fail(r) PROVE Optimistic(s)'
    <2>1. CASE \E c \in confirmedOpens :
                  c.request = r /\ optimisticSessions' = Confirmed(r, c.session)
        <3>1. PICK c \in confirmedOpens :
                  c.request = r /\ optimisticSessions' = Confirmed(r, c.session)
            BY <2>1
        <3>2. OpensAs(chain, r, c.session)
            BY <1>0, <3>1 DEF EntriesTell
        <3>. QED BY <1>0, <1>a, <1>c, <3>1, <3>2, ConfirmedStays
    <2>2. CASE /\ \A c \in confirmedOpens : c.request # r
               /\ optimisticSessions' = {x \in optimisticSessions : x.request # r}
        <3>1. bets[r] \in {"sending", "accepted"}
            BY <1>5 DEF Fail
        <3>2. o.request # r
            BY <1>0, <1>a, <2>2, <3>1 DEF EntriesConfirmed
        <3>. QED BY <1>a, <2>2, <3>2 DEF Optimistic
    <2>. QED BY <1>5, <2>1, <2>2 DEF Fail
<1>6. ASSUME NEW i \in DOMAIN chain, FlashDeliver(i), ~UNCHANGED optimisticSessions
      PROVE  Optimistic(s)'
    <2>1. /\ optimisticSessions' = Confirmed(chain[i].request, chain[i].session)
          /\ chain[i].name = "Opened"
        BY <1>6 DEF FlashDeliver, NoteOpen
    <2>2. o.request = chain[i].request => OpensAs(chain, o.request, chain[i].session)
        BY <2>1 DEF OpensAs, OpensIn
    <2>. QED BY <1>0, <1>a, <1>c, <2>1, <2>2, ConfirmedStays
<1>7. CASE \/ \E r \in Requests : Land(r)
           \/ \E t \in Ids : Step(t)
           \/ \E i \in DOMAIN chain : IndexDeliver(i)
           \/ Render \/ PruneEffect \/ SetWallet \/ UNCHANGED vars
    <2>1. UNCHANGED optimisticSessions
        BY <1>7 DEF Land, Step, IndexDeliver, Render, PruneEffect, SetWallet, vars
    <2>. QED BY <1>1, <2>1
<1>. QED BY <1>1, <1>2, <1>3, <1>4, <1>5, <1>6, <1>7 DEF Next

LEMMA BetsTellNext ==
    ASSUME HostSnapshotAssumption, IsHistory(chain), BetsTell, [Next]_vars
    PROVE  BetsTell' /\ BetsMove
<1>1. TurnsTaken /\ OpensFollow /\ EntriesTell
    BY DEF BetsTell
<1>2. BetsMove
    BY <1>1, BetsMoveOn
<1>3. TurnsTaken' /\ OpensFollow' /\ EntriesTell'
    BY <1>1, <1>2, TurnsNext, OpensNext, EntriesNext
<1>. QED BY <1>2, <1>3 DEF BetsTell

LEMMA AgainStays == ASSUME BetsMove, BetAgain PROVE BetAgain'
<1>1. PICK r \in Requests, q \in Requests : r < q /\ bets[r] # "idle" /\ bets[q] # "idle"
    BY DEF BetAgain
<1>2. bets'[r] # "idle" /\ bets'[q] # "idle"
    BY <1>1 DEF BetsMove, Places, Answered
<1>. QED BY <1>1, <1>2 DEF BetAgain

LEMMA ConfirmedElsewhere ==
    ASSUME optimisticSessions \subseteq [request : Requests, session : Nat], NEW r, NEW s,
           NEW o \in Confirmed(r, s), o.request # r
    PROVE  o \in optimisticSessions
<1>1. PICK p \in optimisticSessions :
          o = IF p.request = r THEN [p EXCEPT !.session = s] ELSE p
    BY DEF Confirmed
<1>2. p \in [request : Requests, session : Nat]
    OBVIOUS
<1>3. CASE p.request = r
    <2>1. o = [p EXCEPT !.session = s]
        BY <1>1, <1>3
    <2>2. o.request = p.request
        BY <1>2, <2>1
    <2>. QED BY <1>3, <2>2
<1>. QED BY <1>1, <1>3

LEMMA EntriesConfirmedNext ==
    ASSUME HostSnapshotAssumption, BetsTell, EntriesConfirmed, [Next]_vars
    PROVE  EntriesConfirmed'
<1>0. /\ bets \in [Requests -> {"idle", "sending", "accepted", "done", "failed"}]
      /\ optimisticSessions \subseteq [request : Requests, session : Nat]
      /\ \A o \in optimisticSessions : o.request \in Requests /\ bets[o.request] # "idle"
    BY DEF BetsTell, TurnsTaken, EntriesTell
<1>1. CASE UNCHANGED <<bets, optimisticSessions, confirmedOpens>>
    BY <1>1 DEF EntriesConfirmed
<1>2. ASSUME NEW r \in Requests, NEW x, bets' = [bets EXCEPT ![r] = x], NEW s,
             optimisticSessions' = Confirmed(r, s),
             \A c \in confirmedOpens : c.request # r => c \in confirmedOpens',
             x \in {"done", "failed"} \/ \E c \in confirmedOpens' : c.request = r
      PROVE  EntriesConfirmed'
    <2>. SUFFICES ASSUME NEW o \in optimisticSessions', o.session # Pending,
                         bets'[o.request] \in {"sending", "accepted"}
                  PROVE  \E c \in confirmedOpens' : c.request = o.request
        BY DEF EntriesConfirmed
    <2>1. CASE o.request = r
        BY <1>0, <1>2, <2>1
    <2>2. CASE o.request # r
        <3>1. o \in optimisticSessions
            BY <1>0, <1>2, <2>2, ConfirmedElsewhere
        <3>2. bets[o.request] \in {"sending", "accepted"}
            BY <1>0, <1>2, <2>2, <3>1
        <3>3. PICK c \in confirmedOpens : c.request = o.request
            BY <3>1, <3>2 DEF EntriesConfirmed
        <3>. QED BY <1>2, <2>2, <3>3
    <2>. QED BY <2>1, <2>2
<1>3. ASSUME NEW r \in Requests, Bet(r) PROVE EntriesConfirmed'
    <2>1. /\ bets' = [bets EXCEPT ![r] = "sending"] /\ confirmedOpens' = confirmedOpens
          /\ \A o \in optimisticSessions' : o \in optimisticSessions \/ o.session = Pending
        BY <1>3 DEF Bet
    <2>2. \A o \in optimisticSessions : o.request # r
        BY <1>0, <1>3 DEF Bet
    <2>3. \A o \in optimisticSessions : bets'[o.request] = bets[o.request]
        BY <1>0, <2>1, <2>2
    <2>. QED BY <2>1, <2>3 DEF EntriesConfirmed
<1>4. ASSUME NEW r \in Requests, Accept(r) PROVE EntriesConfirmed'
    <2>0. bets' = [bets EXCEPT ![r] = "accepted"] /\ bets[r] = "sending"
        BY <1>4 DEF Accept
    <2>1. CASE UNCHANGED <<confirmedOpens, optimisticSessions>>
        <3>1. \A o \in optimisticSessions :
                 bets'[o.request] \in {"sending", "accepted"} =>
                 bets[o.request] \in {"sending", "accepted"}
            BY <1>0, <2>0
        <3>. QED BY <2>1, <3>1 DEF EntriesConfirmed
    <2>2. CASE \E seen \in RecentOpens(r) :
                  /\ confirmedOpens' = confirmedOpens \cup {seen}
                  /\ optimisticSessions' = Confirmed(r, seen.session)
        <3>1. PICK seen \in RecentOpens(r) :
                  /\ confirmedOpens' = confirmedOpens \cup {seen}
                  /\ optimisticSessions' = Confirmed(r, seen.session)
            BY <2>2
        <3>2. seen.request = r
            BY DEF RecentOpens
        <3>. QED BY <1>2, <2>0, <3>1, <3>2
    <2>. QED BY <1>4, <2>1, <2>2 DEF Accept
<1>5. ASSUME NEW r \in Requests, Receipt(r) PROVE EntriesConfirmed'
    <2>1. /\ bets' = [bets EXCEPT ![r] = "done"]
          /\ optimisticSessions' = Confirmed(r, SessionOf(r))
          /\ confirmedOpens' = {c \in confirmedOpens : c.request # r}
        BY <1>5 DEF Receipt
    <2>. QED BY <1>2, <2>1
<1>6. ASSUME NEW r \in Requests, Fail(r) PROVE EntriesConfirmed'
    <2>0. /\ bets' = [bets EXCEPT ![r] = "failed"]
          /\ confirmedOpens' = {c \in confirmedOpens : c.request # r}
        BY <1>6 DEF Fail
    <2>1. CASE \E c \in confirmedOpens : optimisticSessions' = Confirmed(r, c.session)
        BY <1>2, <2>0, <2>1
    <2>2. CASE optimisticSessions' = {o \in optimisticSessions : o.request # r}
        <3>1. \A o \in optimisticSessions' : bets'[o.request] = bets[o.request]
            BY <1>0, <2>0, <2>2
        <3>. QED BY <2>0, <2>2, <3>1 DEF EntriesConfirmed
    <2>. QED BY <1>6, <2>1, <2>2 DEF Fail
<1>7. ASSUME NEW i \in DOMAIN chain, FlashDeliver(i) PROVE EntriesConfirmed'
    <2>. DEFINE e == chain[i]
    <2>1. CASE UNCHANGED <<confirmedOpens, optimisticSessions>>
        BY <1>1, <1>7, <2>1 DEF FlashDeliver
    <2>2. CASE /\ confirmedOpens' = confirmedOpens
                       \cup {[request |-> e.request, session |-> e.session]}
               /\ optimisticSessions' = Confirmed(e.request, e.session)
        <3>1. bets' = bets
            BY <1>7 DEF FlashDeliver
        <3>. SUFFICES ASSUME NEW o \in optimisticSessions', o.session # Pending,
                             bets[o.request] \in {"sending", "accepted"}
                      PROVE  \E c \in confirmedOpens' : c.request = o.request
            BY <3>1 DEF EntriesConfirmed
        <3>2. CASE o.request = e.request
            <4>. DEFINE c == [request |-> e.request, session |-> e.session]
            <4>1. c \in confirmedOpens' /\ c.request = e.request
                BY <2>2
            <4>. HIDE DEF c
            <4>. QED BY <3>2, <4>1
        <3>3. CASE o.request # e.request
            <4>1. o \in optimisticSessions
                BY <1>0, <2>2, <3>3, ConfirmedElsewhere
            <4>2. PICK c \in confirmedOpens : c.request = o.request
                BY <4>1 DEF EntriesConfirmed
            <4>. QED BY <2>2, <4>2
        <3>. QED BY <3>2, <3>3
    <2>. QED BY <1>7, <2>1, <2>2 DEF FlashDeliver, NoteOpen
<1>8. CASE \/ \E r \in Requests : Land(r)
           \/ \E s \in Ids : Step(s)
           \/ \E i \in DOMAIN chain : IndexDeliver(i)
           \/ Render \/ PruneEffect \/ SetWallet \/ UNCHANGED vars
    <2>1. UNCHANGED <<bets, optimisticSessions, confirmedOpens>>
        BY <1>8 DEF Land, Step, IndexDeliver, Render, PruneEffect, SetWallet, vars, sendVars
    <2>. QED BY <1>1, <2>1
<1>. QED BY <1>3, <1>4, <1>5, <1>6, <1>7, <1>8 DEF Next

-----------------------------------------------------------------------------
(***************************************************************************)
(* A render shows what the layers give, and every other action leaves      *)
(* alone what is shown.                                                    *)
(***************************************************************************)

LEMMA BlendIsItem ==
    ASSUME NEW c, IsHistory(c), NEW s, NEW row, row = None \/ RowTells(c, s, row),
           NEW patch, patch = None \/ PatchTells(c, s, patch), NEW optimistic \in BOOLEAN,
           Blend(row, patch, optimistic) # None
    PROVE  Blend(row, patch, optimistic) \in Items
<1>1. OptimisticItem \in Items /\ MergeIntoItem(OptimisticItem, patch) \in Items
    BY OptimisticTells DEF ItemTells
<1>2. row # None => Projected(row, patch) \in Items
    <2>1. ASSUME row # None PROVE ItemTells(c, s, Projected(row, patch))
        <3>1. RowTells(c, s, row)
            BY <2>1
        <3>. QED BY <3>1, ProjectedTells
    <2>. QED BY <2>1 DEF ItemTells
<1>. QED BY <1>1, <1>2 DEF Blend

LEMMA ItemsNow ==
    ASSUME ViewInv, ViewInv', NEW s \in Ids
    PROVE  /\ Now(s) # None => Now(s) \in Items
           /\ Now(s)' # None => Now(s)' \in Items
           /\ Item(s) # None => Item(s) \in Items
<1>1. IsHistory(chain) /\ LayersOf(chain, s, rows[s], patches[s]) /\ Optimistic(s) \in BOOLEAN
    BY LayersNow DEF Optimistic
<1>2. Now(s) # None => Now(s) \in Items
    BY <1>1, BlendIsItem DEF Now, LayersOf
<1>3. Now(s)' # None => Now(s)' \in Items
    <2>. DEFINE row == rows'[s]
                patch == patches'[s]
                still == Optimistic(s)'
    <2>1. Now(s)' = Blend(row, patch, still)
        BY DEF Now
    <2>2. /\ row = None \/ RowTells(chain', s, row)
          /\ patch = None \/ PatchTells(chain', s, patch)
          /\ still \in BOOLEAN /\ IsHistory(chain')
        BY DEF ViewInv, LayersTell, Optimistic
    <2>. HIDE DEF row, patch, still
    <2>3. Blend(row, patch, still) # None => Blend(row, patch, still) \in Items
        BY <2>2, BlendIsItem
    <2>. QED BY <2>1, <2>3
<1>4. Item(s) # None => Item(s) \in Items
    BY DEF ViewInv, ShownIsKept, Kept, ItemTells
<1>. QED BY <1>2, <1>3, <1>4

\* The list has room for every row.
LEMMA RenderRow ==
    ASSUME HostSnapshotAssumption, TurnsTaken, Steady, walletReady = TRUE,
           NEW s \in Ids, RoundTold(s)
    PROVE  RenderRows[s] = rows[s]
<1>1. RenderRows = ListByPlayerAndGame
    BY DEF RenderRows
<1>2. CASE rows[s] = None
    BY <1>1, <1>2 DEF ListByPlayerAndGame
<1>3. CASE rows[s] # None
    <2>1. Listed(rows[s])
        <3>1. PICK h, p, b, f, g : Round(s, h, p, b, f, g)
            BY DEF RoundTold
        <3>2. g > 0 /\ RowAt(h, g, rows[s])
            <4>1. LayersAt(h, f, g, rows[s], patches[s])
                BY <3>1 DEF Round, Told
            <4>2. g # 0 /\ g \in 0..Len(h) /\ RowAt(h, g, rows[s]) /\ Len(h) \in Nat
                BY <1>3, <3>1, <4>1, LenProperties DEF LayersAt, Base, Round, Projects, IsRecord
            <4>. QED BY <4>2
        <3>. QED BY <3>2 DEF RowAt, Listed
    <2>. DEFINE S == {t \in ListedIds : Newer(t, s)}
    <2>2. S \subseteq Ids \ {s}
        <3>1. ~Newer(s, s)
            BY DEF Newer, Ids
        <3>. QED BY <3>1 DEF ListedIds
    <2>3. IsFiniteSet(Ids) /\ Cardinality(Ids) = MaxId /\ MaxId \in Nat
        BY FS_Interval DEF Ids, HostSnapshotAssumption
    <2>. HIDE DEF S
    <2>4. IsFiniteSet(Ids \ {s}) /\ Cardinality(Ids \ {s}) = MaxId - 1
        BY <2>3, FS_RemoveElement
    <2>5. Cardinality(S) <= MaxId - 1 /\ Cardinality(S) \in Nat
        BY <2>2, <2>4, FS_Subset, FS_CardinalityType
    <2>6. setting.listLimit \in Nat /\ setting.listLimit >= MaxId
        BY DEF Steady, TurnsTaken, HostSnapshotAssumption
    <2>7. Cardinality(S) < setting.listLimit
        BY <2>3, <2>5, <2>6
    <2>8. s \in ListedIds
        BY <1>3, <2>1 DEF ListedIds
    <2>. QED BY <1>1, <2>7, <2>8 DEF ListByPlayerAndGame, S
<1>. QED BY <1>2, <1>3

LEMMA RenderRound ==
    ASSUME HostSnapshotAssumption, ViewInv, TurnsTaken, Steady, walletReady = TRUE,
           NEW s \in Ids, OnScreen(s), Render
    PROVE  /\ Item(s)' \in {None, Now(s)} /\ (Item(s) # None => Item(s)' = Now(s))
           /\ sessionRows'[s] = rows[s]
<1>0. RenderRows[s] = rows[s]
    BY RenderRow DEF OnScreen
<1>1. Layered(s) = Now(s)
    <2>. HIDE DEF RenderRows
    <2>1. CASE rows[s] = None
        BY <1>0, <2>1 DEF Layered, MergedItem, Now, Blend, Optimistic
    <2>2. CASE rows[s] # None
        BY <1>0, <2>2 DEF Layered, MergedItem, Now, Blend, Optimistic
    <2>. QED BY <2>1, <2>2
<1>2. /\ Item(s)' \in {None, Now(s)} /\ (Item(s) # None => Item(s)' = Now(s))
    <2>1. RenderKeeps(s)
        BY RenderFacts
    <2>2. Item(s)' = IF Now(s) # None /\ (Now(s).settled \/ publishedSettledItems[s] = None)
                     THEN Now(s)
                     ELSE IF publishedSettledItems[s] # None THEN publishedSettledItems[s]
                     ELSE publishedOpenItems[s]
        BY <1>1, <2>1 DEF RenderKeeps
    <2>3. Kept(chain, s, publishedSettledItems[s], publishedOpenItems[s], Item(s))
        BY DEF ViewInv, ShownIsKept
    <2>4. Item(s) # None => Now(s) # None /\ (Item(s).settled => Now(s).settled)
        BY DEF OnScreen, Ahead
    <2>5. CASE Now(s) = None
        <3>1. publishedSettledItems[s] = None /\ publishedOpenItems[s] = None
            BY <2>3, <2>4, <2>5 DEF Kept
        <3>. QED BY <2>2, <2>4, <2>5, <3>1
    <2>6. CASE Now(s) # None
        <3>1. Now(s).settled \/ publishedSettledItems[s] = None
            BY <2>3, <2>4 DEF Kept
        <3>. QED BY <2>2, <2>6, <3>1
    <2>. QED BY <2>5, <2>6
<1>3. sessionRows'[s] = rows[s]
    BY <1>0 DEF Render, RenderRows
<1>. QED BY <1>2, <1>3

\* While the wallet is away a round without an entry is shown from the memos.
LEMMA RenderAway ==
    ASSUME ViewInv, walletReady # TRUE, NEW s \in Ids, ~Optimistic(s), Render
    PROVE  Item(s)' = Item(s) /\ sessionRows'[s] = None
<1>0. RenderRows[s] = None \/ walletReady
    BY DEF RenderRows, NoRows
<1>1. CASE RenderRows[s] = None
    <2>1. Layered(s) = None
        BY <1>1 DEF Layered, MergedItem, Optimistic
    <2>2. RenderKeeps(s)
        BY RenderFacts
    <2>3. Kept(chain, s, publishedSettledItems[s], publishedOpenItems[s], Item(s))
        BY DEF ViewInv, ShownIsKept
    <2>4. Item(s)' = Item(s)
        BY <2>1, <2>2, <2>3 DEF RenderKeeps, Kept
    <2>5. sessionRows'[s] = None
        BY <1>1 DEF Render, RenderRows
    <2>. QED BY <2>4, <2>5
<1>. QED BY <1>0, <1>1

\* Nothing is shown of a session that has not been opened.
LEMMA RenderUnknown ==
    ASSUME ViewInv, EntriesTell, NEW s \in Ids, s \notin OpenedIds, Unknown(s), Render
    PROVE  Item(s)' = None /\ sessionRows'[s] = None
<1>0. rows[s] = None /\ Item(s) = None
    BY DEF Unknown
<1>1. RenderRows[s] = None
    BY <1>0, LayeredTells
<1>2. ASSUME NEW o \in optimisticSessions PROVE o.session # s
    <2>. SUFFICES ASSUME o.session = s PROVE FALSE
        OBVIOUS
    <2>1. OpensAs(chain, o.request, s)
        BY EntriesAre DEF Pending, Ids
    <2>. QED BY <2>1 DEF OpensAs, OpensIn, OpenedIds, OpenedIn
<1>3. Layered(s) = None
    <2>. HIDE DEF RenderRows
    <2>. QED BY <1>1, <1>2 DEF Layered, MergedItem
<1>4. publishedSettledItems[s] = None /\ publishedOpenItems[s] = None
    BY <1>0 DEF ViewInv, ShownIsKept, Kept
<1>5. RenderKeeps(s)
    BY RenderFacts
<1>6. sessionRows'[s] = None
    BY <1>1 DEF Render, RenderRows
<1>. QED BY <1>3, <1>4, <1>5, <1>6 DEF RenderKeeps

LEMMA UnknownNext ==
    ASSUME HostSnapshotAssumption, ViewInv, EntriesTell, [Next]_vars, NEW s \in Ids, Unknown(s)
    PROVE  Unknown(s)'
<1>. SUFFICES ASSUME s \notin OpenedIn(chain')
              PROVE  rows'[s] = None /\ patches'[s] = None /\ sessionRows'[s] = None /\ Item(s)' = None
    BY DEF Unknown, OpenedIds
<1>0. Extends(chain, chain') /\ IsHistory(chain)
    BY ChainExtends DEF ViewInv
<1>1. s \notin OpenedIds
    BY <1>0 DEF Extends, OpenedIn, OpenedIds
<1>2. rows[s] = None /\ patches[s] = None /\ sessionRows[s] = None /\ Item(s) = None
    BY <1>1 DEF Unknown
<1>3. \A i \in DOMAIN chain : chain[i].session # s
    BY <1>0, <1>1 DEF IsHistory, OpenedIds
<1>4. CASE Render
    <2>1. Item(s)' = None /\ sessionRows'[s] = None
        BY <1>1, <1>4, RenderUnknown
    <2>. QED BY <1>2, <1>4, <2>1 DEF Render, feedVars
<1>5. CASE ~Render
    <2>1. UNCHANGED <<sessionRows, published>>
        BY <1>5 DEF Next, Land, Bet, Accept, Receipt, Fail, Step, FlashDeliver, IndexDeliver,
                    PruneEffect, SetWallet, vars, shownVars
    <2>2. rows'[s] = None
        <3>1. CASE \E i \in DOMAIN chain : IndexDeliver(i)
            BY <1>2, <1>3, <3>1 DEF IndexDeliver, ViewInv, LayersTell
        <3>2. CASE UNCHANGED rows
            BY <1>2, <3>2
        <3>. QED BY <1>5, <3>1, <3>2 DEF Next, Land, Bet, Accept, Receipt, Fail, Step, FlashDeliver,
                                    PruneEffect, SetWallet, vars, feedVars
    <2>3. patches'[s] = None
        <3>1. CASE \E i \in DOMAIN chain : FlashDeliver(i)
            BY <1>2, <1>3, <3>1 DEF FlashDeliver, ViewInv, LayersTell
        <3>2. CASE PruneEffect
            BY <1>2, <3>2 DEF PruneEffect
        <3>3. CASE UNCHANGED patches
            BY <1>2, <3>3
        <3>. QED BY <1>5, <3>1, <3>2, <3>3 DEF Next, Land, Bet, Accept, Receipt, Fail, Step,
                                    IndexDeliver, SetWallet, vars
    <2>. QED BY <1>2, <2>1, <2>2, <2>3 DEF Item
<1>. QED BY <1>4, <1>5

-----------------------------------------------------------------------------
(***************************************************************************)
(* Every round is on screen as it should be.                               *)
(***************************************************************************)

\* What the chain has of a round after a step.
RoundGrows(s, h, p, d, q) ==
    /\ Projects(chain', s, d, q) /\ Extends(h, d) /\ \A k \in DOMAIN h : q[k] = p[k]
    /\ \A k \in DOMAIN d \ DOMAIN h : q[k] \notin DOMAIN chain

LEMMA RoundGrowsElsewhere ==
    ASSUME NEW s, NEW h, NEW p, Projects(chain, s, h, p), Extends(chain, chain'),
           \A i \in DOMAIN chain' \ DOMAIN chain : chain'[i].session # s
    PROVE  RoundGrows(s, h, p, h, p)
<1>1. Projects(chain', s, h, p)
    BY ProjectsElsewhere
<1>2. Extends(h, h) /\ \A k \in DOMAIN h : p[k] = p[k]
    BY DEF Extends
<1>3. \A k \in DOMAIN h \ DOMAIN h : p[k] \notin DOMAIN chain
    OBVIOUS
<1>. QED BY <1>1, <1>2, <1>3 DEF RoundGrows

LEMMA RoundGrowsNext ==
    ASSUME HostSnapshotAssumption, IsHistory(chain), [Next]_vars, NEW s \in Ids, s \in OpenedIds,
           NEW h, NEW p, Projects(chain, s, h, p)
    PROVE  \E d, q : RoundGrows(s, h, p, d, q)
<1>0. Extends(chain, chain') /\ chain \in Seq(Events)
    BY ChainExtends DEF IsHistory
<1>1. CASE \E r \in Requests : Land(r)
    <2>1. PICK r \in Requests : Land(r)
        BY <1>1
    <2>2. PICK t : t = Cardinality(OpenedIds) + 1
        OBVIOUS
    <2>3. /\ t \notin OpenedIds
          /\ DOMAIN chain' = DOMAIN chain \cup {Len(chain) + 1, Len(chain) + 2}
          /\ \A i \in {Len(chain) + 1, Len(chain) + 2} : chain'[i].session = t
        BY <2>1, <2>2, RoundLands
    <2>4. \A i \in DOMAIN chain' \ DOMAIN chain : chain'[i].session # s
        BY <2>3
    <2>. QED BY <1>0, <2>4, RoundGrowsElsewhere
<1>2. ASSUME NEW t \in Ids, Step(t) PROVE \E d, q : RoundGrows(s, h, p, d, q)
    <2>1. CASE t = s
        BY <1>2, <2>1, RoundSteps DEF RoundGrows
    <2>2. CASE t # s
        <3>1. PICK e \in Events : e.session = t /\ chain' = Append(chain, e)
            BY <1>2, StepGrows
        <3>2. /\ DOMAIN chain = 1..Len(chain) /\ Len(chain) \in Nat
              /\ DOMAIN chain' = 1..(Len(chain) + 1) /\ chain'[Len(chain) + 1] = e
            BY <1>0, <3>1, AppendProperties, LenProperties
        <3>3. \A i \in DOMAIN chain' \ DOMAIN chain : i = Len(chain) + 1
            BY <3>2
        <3>4. \A i \in DOMAIN chain' \ DOMAIN chain : chain'[i].session # s
            BY <2>2, <3>1, <3>2, <3>3
        <3>. QED BY <1>0, <3>4, RoundGrowsElsewhere
    <2>. QED BY <2>1, <2>2
<1>3. CASE UNCHANGED chain
    <2>1. \A i \in DOMAIN chain' \ DOMAIN chain : chain'[i].session # s
        BY <1>3
    <2>. QED BY <1>0, <2>1, RoundGrowsElsewhere
<1>. QED BY <1>1, <1>2, <1>3
     DEF Next, Bet, Accept, Receipt, Fail, FlashDeliver, IndexDeliver, Render, PruneEffect,
         SetWallet, vars, chainVars

\* A session opens as a bet lands.
LEMMA NewSession ==
    ASSUME HostSnapshotAssumption, IsHistory(chain), [Next]_vars,
           NEW i \in OpensIn(chain'), i \notin OpensIn(chain)
    PROVE  \E r \in Requests : Land(r) /\ chain'[i].session = Cardinality(OpenedIds) + 1
<1>1. ~(chain' = chain \/ SameOpens(chain, chain'))
    BY DEF SameOpens
<1>2. PICK r \in Requests : Land(r)
    <2>1. \A t \in Ids : ~Step(t)
        BY <1>1, StepOpens
    <2>. QED BY <1>1, <2>1 DEF Next, Bet, Accept, Receipt, Fail, FlashDeliver, IndexDeliver,
                               Render, PruneEffect, SetWallet, vars, chainVars
<1>3. NewOpen(chain, chain', Cardinality(OpenedIds) + 1, r)
    BY <1>2, LandOpens
<1>4. PICK k \in Nat : /\ OpensIn(chain') = OpensIn(chain) \cup {k}
                       /\ chain'[k].session = Cardinality(OpenedIds) + 1
    BY <1>3 DEF NewOpen
<1>. QED BY <1>2, <1>4

\* A round found at load does not become one of this page's bets.
LEMMA HereStays ==
    ASSUME HostSnapshotAssumption, IsHistory(chain), [Next]_vars, NEW s, s \in OpenedIds,
           OpenedHere(s)'
    PROVE  OpenedHere(s)
<1>0. Extends(chain, chain')
    BY ChainExtends
<1>1. PICK i \in OpensIn(chain') : chain'[i].session = s /\ chain'[i].request \in Requests
    BY DEF OpenedHere, OpensIn
<1>2. CASE i \in OpensIn(chain)
    BY <1>0, <1>1, <1>2 DEF Extends, OpensIn, OpenedHere
<1>3. CASE i \notin OpensIn(chain)
    <2>1. PICK r \in Requests : Land(r) /\ s = Cardinality(OpenedIds) + 1
        BY <1>1, <1>3, NewSession
    <2>2. s \notin OpenedIds
        BY <2>1, RoundLands
    <2>. QED BY <2>2
<1>. QED BY <1>2, <1>3

\* The round moves on whatever happens.
LEMMA RoundNext ==
    ASSUME HostSnapshotAssumption, ViewInv, ViewInv', BetsTell, StepInv, Steady, [Next]_vars,
           NEW s \in Ids, s \in OpenedIds, KeepsItsRow(s)
    PROVE  MovesOn(s)
<1>0. /\ IsHistory(chain) /\ EntriesConfirmed /\ OnScreen(s) /\ setting.inOrder
      /\ flashSeen \subseteq DOMAIN chain /\ indexSeen \subseteq DOMAIN chain
      /\ (OpenedHere(s)' => OpenedHere(s))
    BY HereStays DEF ViewInv, StepInv, Steady, BetsTell, OpensFollow
<1>1. sessionRows[s] # None => Behind(sessionRows[s], rows[s]) /\ rows[s] # None
    BY <1>0 DEF OnScreen, Behind
<1>2. EntryStays(s)
    BY <1>0, <1>1, EntryStaysNext
<1>3. PICK h, p, b, f, g : Round(s, h, p, b, f, g)
    BY <1>0 DEF OnScreen, RoundTold
<1>4. Projects(chain, s, h, p)
    BY <1>3 DEF Round
<1>5. PICK d, q : RoundGrows(s, h, p, d, q)
    BY <1>0, <1>4, RoundGrowsNext
<1>6. ASSUME \A k \in DOMAIN h : /\ p[k] \in flashSeen' <=> p[k] \in flashSeen
                                 /\ p[k] \in indexSeen' <=> p[k] \in indexSeen,
             rows'[s] = rows[s], patches'[s] = patches[s],
             flashSeen' \subseteq DOMAIN chain, indexSeen' \subseteq DOMAIN chain
      PROVE  MovesOn(s)
    <2>1. /\ Projects(chain', s, d, q) /\ Extends(h, d) /\ \A k \in DOMAIN h : q[k] = p[k]
          /\ \A k \in DOMAIN d \ DOMAIN h : q[k] \notin DOMAIN chain
        BY <1>5 DEF RoundGrows
    <2>2. \A k \in DOMAIN d \ DOMAIN h : q[k] \notin flashSeen' /\ q[k] \notin indexSeen'
        BY <1>6, <2>1
    <2>. QED BY <1>0, <1>2, <1>3, <1>6, <2>1, <2>2, NothingDelivered
<1>7. CASE UNCHANGED <<flashSeen, indexSeen, rows, patches>>
    BY <1>0, <1>6, <1>7
<1>8. ASSUME NEW i \in DOMAIN chain, IndexDeliver(i) PROVE MovesOn(s)
    <2>1. CASE chain[i].session = s
        BY <1>0, <1>2, <1>3, <1>8, <2>1, IndexMoves
    <2>2. CASE chain[i].session # s
        <3>1. /\ UNCHANGED <<flashSeen, patches>> /\ indexSeen' = indexSeen \cup {i}
              /\ rows'[s] = rows[s]
            BY <1>8, <2>2 DEF IndexDeliver, ViewInv, LayersTell
        <3>2. \A k \in DOMAIN h : p[k] \in indexSeen \cup {i} <=> p[k] \in indexSeen
            BY <1>4, <2>2, OtherInLine
        <3>. QED BY <1>0, <1>6, <3>1, <3>2
    <2>. QED BY <2>1, <2>2
<1>9. ASSUME NEW i \in DOMAIN chain, FlashDeliver(i) PROVE MovesOn(s)
    <2>1. CASE chain[i].session = s
        BY <1>0, <1>2, <1>3, <1>9, <2>1, FlashMoves
    <2>2. CASE chain[i].session # s
        <3>1. /\ UNCHANGED <<indexSeen, rows>> /\ flashSeen' = flashSeen \cup {i}
              /\ patches'[s] = patches[s]
            BY <1>9, <2>2 DEF FlashDeliver, ViewInv, LayersTell
        <3>2. \A k \in DOMAIN h : p[k] \in flashSeen \cup {i} <=> p[k] \in flashSeen
            BY <1>4, <2>2, OtherInLine
        <3>. QED BY <1>0, <1>6, <3>1, <3>2
    <2>. QED BY <2>1, <2>2
<1>10. CASE PruneEffect
    BY <1>1, <1>2, <1>3, <1>10, PruneMoves
<1>11. CASE \/ \E r \in Requests : Land(r) \/ Bet(r) \/ Accept(r) \/ Receipt(r) \/ Fail(r)
            \/ \E t \in Ids : Step(t)
            \/ Render \/ SetWallet \/ UNCHANGED vars
    <2>1. UNCHANGED <<flashSeen, indexSeen, rows, patches>>
        BY <1>11 DEF Land, Bet, Accept, Receipt, Fail, Step, Render, SetWallet, vars, feedVars
    <2>. QED BY <1>7, <2>1
<1>. QED BY <1>8, <1>9, <1>10, <1>11 DEF Next

LEMMA AheadTwice ==
    ASSUME NEW x \in Items, NEW y \in Items, NEW z \in Items, NEW before, NEW after,
           NEW here, Ahead(x, y, after, here), Ahead(y, z, before, here), before => after
    PROVE  Ahead(x, z, after, here)
<1>1. /\ x.state \in Nat /\ y.state \in Nat /\ z.state \in Nat
      /\ x.word \in Nat /\ y.word \in Nat /\ z.word \in Nat
    BY DEF Items
<1>2. x.state >= z.state /\ (here => x.word >= z.word)
    BY <1>1 DEF Ahead
<1>. QED BY <1>2 DEF Ahead

LEMMA AheadOfItself == ASSUME NEW x \in Items, NEW again, NEW here PROVE Ahead(x, x, again, here)
BY DEF Items, Ahead

\* A row is not ahead of itself.
LEMMA BehindItself ==
    ASSUME NEW s, RoundTold(s), rows[s] # None
    PROVE  Behind(rows[s], rows[s])
<1>1. PICK h, p, b, f, g : Round(s, h, p, b, f, g)
    BY DEF RoundTold
<1>2. RowAt(h, g, rows[s]) /\ g \in 0..Len(h) /\ IsRecord(h) /\ OneSession(h)
    BY <1>1 DEF Round, Told, Projects, LayersAt, Base
<1>3. SettledAt(h, g) \/ PhaseAt(h, g) \notin Terminal
    BY <1>2, ChainAt, RecordFacts, PhaseFacts DEF SettledAt, PhaseAt
<1>4. rows[s].step \in Nat
    BY <1>2 DEF RowAt, Rows
<1>5. RowIsTerminal(rows[s]) => rows[s].settled
    BY <1>2, <1>3 DEF RowAt, RowIsTerminal
<1>. QED BY <1>4, <1>5 DEF Behind

\* Only of a round without an entry may the wallet go away.
LEMMA NoEntryAway ==
    ASSUME EntriesTell, NEW s \in Ids, KeepsItsRow(s), walletReady # TRUE,
           setting.toggles = 0 => walletReady = TRUE
    PROVE  ~Optimistic(s)
<1>. SUFFICES ASSUME NEW o \in optimisticSessions, o.session = s PROVE OpenedHere(s)
    BY DEF Optimistic, KeepsItsRow
<1>1. o.request \in Requests /\ OpensAs(chain, o.request, s)
    BY EntriesAre DEF Pending, Ids
<1>. QED BY <1>1 DEF OpensAs, OpensIn, OpenedHere

LEMMA OnScreenNext ==
    ASSUME HostSnapshotAssumption, ViewInv, ViewInv', BetsTell, StepInv, Steady, [Next]_vars,
           NEW s \in Ids, s \in OpenedIds, KeepsItsRow(s)
    PROVE  /\ OnScreen(s)'
           /\ Item(s) # None =>
                 Item(s)' # None /\ Ahead(Item(s)', Item(s), BetAgain, OpenedHere(s))
<1>0. /\ OnScreen(s) /\ TurnsTaken /\ RoundTold(s)
      /\ Item(s) # None => Now(s) # None /\ Ahead(Now(s), Item(s), BetAgain, OpenedHere(s))
    BY DEF StepInv, BetsTell, OnScreen
<1>1. MovesOn(s)
    BY RoundNext
<1>2. /\ RoundTold(s)'
      /\ Now(s) # None => Now(s)' # None /\ Ahead(Now(s)', Now(s), BetAgain', OpenedHere(s))
    BY <1>1 DEF MovesOn
<1>3. /\ Now(s) # None => Now(s) \in Items
      /\ Now(s)' # None => Now(s)' \in Items
      /\ Item(s) # None => Item(s) \in Items
    BY ItemsNow
<1>4. (BetAgain => BetAgain') /\ (OpenedHere(s)' => OpenedHere(s))
    BY BetsTellNext, AgainStays, HereStays DEF ViewInv
<1>7. CASE Render /\ walletReady # TRUE
    <2>1. ~Optimistic(s)
        BY <1>7, NoEntryAway DEF StepInv, BetsTell
    <2>2. Item(s)' = Item(s) /\ sessionRows'[s] = None
        BY <1>7, <2>1, RenderAway
    <2>3. rows' = rows /\ Now(s)' = Now(s)
        BY <1>7 DEF Render, feedVars, Now, Optimistic
    <2>4. Item(s)' # None => Now(s)' # None /\ Ahead(Now(s)', Item(s)', BetAgain', OpenedHere(s)')
        BY <1>0, <1>4, <2>2, <2>3 DEF Ahead
    <2>5. OnScreen(s)'
        BY <1>2, <2>2, <2>4 DEF OnScreen
    <2>6. Item(s) # None => Ahead(Item(s), Item(s), BetAgain, OpenedHere(s))
        BY <1>3, AheadOfItself
    <2>. QED BY <2>2, <2>5, <2>6
<1>5. CASE Render /\ walletReady = TRUE
    <2>1. /\ Item(s)' \in {None, Now(s)} /\ (Item(s) # None => Item(s)' = Now(s))
          /\ sessionRows'[s] = rows[s]
        BY <1>0, <1>5, RenderRound
    <2>2. rows' = rows /\ Now(s)' = Now(s)
        BY <1>5 DEF Render, feedVars, Now, Optimistic
    <2>3. Item(s)' # None => Now(s)' # None /\ Ahead(Now(s)', Item(s)', BetAgain', OpenedHere(s)')
        BY <1>3, <2>1, <2>2, AheadOfItself
    <2>4. sessionRows'[s] # None => Behind(sessionRows'[s], rows'[s])
        BY <1>0, <2>1, <2>2, BehindItself
    <2>5. OnScreen(s)'
        BY <1>2, <2>3, <2>4 DEF OnScreen
    <2>. QED BY <1>0, <2>1, <2>5
<1>6. CASE ~Render
    <2>1. UNCHANGED <<published, sessionRows>>
        BY <1>6 DEF Next, Land, Bet, Accept, Receipt, Fail, Step, FlashDeliver, IndexDeliver,
                    PruneEffect, SetWallet, vars, shownVars
    <2>2. Item(s)' = Item(s)
        BY <2>1 DEF Item
    <2>3. ASSUME Item(s) # None
          PROVE  Now(s)' # None /\ Ahead(Now(s)', Item(s), BetAgain', OpenedHere(s))
        BY <1>0, <1>2, <1>3, <1>4, <2>3, AheadTwice
    <2>4. sessionRows'[s] # None => Behind(sessionRows'[s], rows'[s])
        BY <1>0, <1>1, <2>1 DEF OnScreen, MovesOn
    <2>a. Item(s)' # None => Now(s)' # None /\ Ahead(Now(s)', Item(s)', BetAgain', OpenedHere(s)')
        BY <1>4, <2>2, <2>3 DEF Ahead
    <2>5. OnScreen(s)'
        BY <1>2, <2>4, <2>a DEF OnScreen
    <2>6. Item(s) # None => Ahead(Item(s), Item(s), BetAgain, OpenedHere(s))
        BY <1>3, AheadOfItself
    <2>. QED BY <2>2, <2>5, <2>6
<1>. QED BY <1>5, <1>6, <1>7

\* The round of a bet that lands: nothing is known of it yet.
LEMMA OnScreenAtFirst ==
    ASSUME HostSnapshotAssumption, ViewInv, BetsTell, StepInv, [Next]_vars,
           NEW s \in Ids, s \notin OpenedIds, s \in OpenedIds'
    PROVE  OnScreen(s)'
<1>0. /\ IsHistory(chain) /\ Unknown(s)
      /\ flashSeen \subseteq DOMAIN chain /\ indexSeen \subseteq DOMAIN chain
    BY DEF ViewInv, StepInv, BetsTell, OpensFollow
<1>1. PICK i \in OpensIn(chain') : chain'[i].session = s
    BY DEF OpenedIds, OpenedIn, OpensIn
<1>2. i \notin OpensIn(chain)
    <2>1. Extends(chain, chain')
        BY <1>0, ChainExtends
    <2>. QED BY <1>1, <2>1 DEF Extends, OpensIn, OpenedIds, OpenedIn
<1>3. PICK r \in Requests : Land(r) /\ s = Cardinality(OpenedIds) + 1
    BY <1>0, <1>1, <1>2, NewSession
<1>5. /\ s \notin OpenedIds
      /\ \E h, p : /\ Projects(chain', s, h, p) /\ Len(h) = 2
                   /\ \A k \in DOMAIN h : p[k] \notin DOMAIN chain
    BY <1>0, <1>3, RoundLands
<1>6. PICK h, p : /\ Projects(chain', s, h, p) /\ Len(h) = 2
                  /\ \A k \in DOMAIN h : p[k] \notin DOMAIN chain
    BY <1>5
<1>7. /\ UNCHANGED <<flashSeen, indexSeen, rows, patches, sessionRows, published>>
      /\ rows[s] = None /\ patches[s] = None /\ sessionRows[s] = None /\ Item(s) = None
    BY <1>0, <1>3, <1>5 DEF Land, feedVars, shownVars, Unknown
<1>8. LayersAt(h, 0, 0, None, None)
    BY <1>6, LayersAtFirst
<1>9. Furthest(0, 0) = 0 /\ \A k \in DOMAIN h : /\ p[k] \in flashSeen' <=> k <= 0
                                                /\ p[k] \in indexSeen' <=> k <= 0
    <2>1. DOMAIN h = 1..2
        BY <1>6, LenProperties DEF Projects, IsRecord
    <2>. QED BY <1>0, <1>6, <1>7, <2>1 DEF Furthest
<1>10. Round(s, h, p, 0, 0, 0)'
    <2>1. LayersAt(h, 0, 0, rows'[s], patches'[s]) /\ WordsAt(0, 0, patches'[s])
        BY <1>7, <1>8 DEF WordsAt
    <2>2. 0 \in 0..Len(h)
        BY <1>6
    <2>3. (0 # 0 => 0 < 0) /\ (OpenedHere(s)' => 0 = 0 /\ WordsAt(0, 0, patches'[s]))
        BY <2>1
    <2>. QED BY <1>6, <1>9, <2>1, <2>2, <2>3, Zenon DEF Round, Told
<1>11. RoundTold(s)'
    BY <1>10 DEF RoundTold
<1>. QED BY <1>7, <1>11 DEF OnScreen, Item

LEMMA StepNext ==
    ASSUME HostSnapshotAssumption, ViewInv, ViewInv', BetsTell, StepInv, Steady, [Next]_vars
    PROVE  StepInv'
<1>0. IsHistory(chain) /\ Extends(chain, chain') /\ EntriesTell
    BY ChainExtends DEF ViewInv, BetsTell
<1>1. EntriesConfirmed'
    BY EntriesConfirmedNext DEF StepInv
<1>2. (setting'.toggles = 0 => walletReady' = TRUE) /\ toggles' \in Nat /\ setting' = setting
    <2>1. (setting.toggles = 0 => walletReady = TRUE) /\ toggles \in Nat
        BY DEF StepInv
    <2>2. CASE SetWallet
        BY <2>1, <2>2 DEF SetWallet
    <2>3. CASE UNCHANGED walletVars
        BY <2>1, <2>3 DEF walletVars
    <2>. QED BY <2>2, <2>3 DEF Next, Land, Bet, Accept, Receipt, Fail, Step, FlashDeliver,
                               IndexDeliver, Render, PruneEffect, vars, walletVars
<1>3. indexSeen' \subseteq DOMAIN chain'
    <2>1. DOMAIN chain \subseteq DOMAIN chain' /\ indexSeen \subseteq DOMAIN chain
        BY <1>0 DEF Extends, StepInv
    <2>2. CASE \E i \in DOMAIN chain : IndexDeliver(i)
        BY <2>1, <2>2 DEF IndexDeliver
    <2>3. CASE UNCHANGED indexSeen
        BY <2>1, <2>3
    <2>. QED BY <2>2, <2>3 DEF Next, Land, Bet, Accept, Receipt, Fail, Step, FlashDeliver,
                               Render, PruneEffect, SetWallet, vars, feedVars
<1>4. \A s \in Ids : Unknown(s)'
    BY <1>0, UnknownNext DEF StepInv
<1>5. ASSUME NEW s \in Ids, s \in OpenedIds', KeepsItsRow(s)' PROVE OnScreen(s)'
    <2>1. CASE s \in OpenedIds
        <3>1. OpenedHere(s) => OpenedHere(s)'
            BY <1>0 DEF Extends, OpenedHere
        <3>2. KeepsItsRow(s)
            BY <1>2, <1>5, <3>1 DEF KeepsItsRow
        <3>. QED BY <2>1, <3>2, OnScreenNext
    <2>2. CASE s \notin OpenedIds
        BY <1>5, <2>2, OnScreenAtFirst
    <2>. QED BY <2>1, <2>2
<1>. QED BY <1>1, <1>2, <1>3, <1>4, <1>5 DEF StepInv

\* A round found at load: the indexed channel has yet to replay it.
LEMMA OnScreenFound ==
    ASSUME HostSnapshotAssumption, Init, NEW s \in Ids, s \in OpenedIds
    PROVE  OnScreen(s)
<1>1. /\ chain \in Histories /\ flashSeen = DOMAIN chain /\ indexSeen = {}
      /\ rows[s] = None /\ patches[s] = None /\ sessionRows[s] = None /\ Item(s) = None
    BY DEF Init, HostSnapshotAssumption, NoRows, Item
<1>2. IsRound(chain, s) /\ ~OpenedHere(s)
    BY <1>1 DEF HostSnapshotAssumption, OpenedIds, OpenedHere, Requests
<1>3. PICK n \in 1..Len(chain) : \E p \in [1..n -> DOMAIN chain] :
          Projects(chain, s, [k \in 1..n |-> chain[p[k]]], p)
    BY <1>2 DEF IsRound
<1>4. PICK p \in [1..n -> DOMAIN chain] : Projects(chain, s, [k \in 1..n |-> chain[p[k]]], p)
    BY <1>3
<1>. DEFINE h == [k \in 1..n |-> chain[p[k]]]
<1>5. Projects(chain, s, h, p)
    BY <1>4
<1>. HIDE DEF h
<1>6. DOMAIN h = 1..Len(h) /\ Len(h) \in Nat /\ \A k \in DOMAIN h : p[k] \in DOMAIN chain
    BY <1>5, LenProperties DEF Projects, IsRecord
<1>7. LayersAt(h, 0, 0, None, None)
    BY <1>6, LayersAtFirst
<1>8. Furthest(Len(h), 0) = Len(h)
    BY <1>6 DEF Furthest
<1>9. \A k \in DOMAIN h : /\ p[k] \in flashSeen <=> k <= Len(h)
                          /\ p[k] \in indexSeen <=> k <= 0
    BY <1>1, <1>6
<1>10. Round(s, h, p, Len(h), 0, 0)
    BY <1>1, <1>2, <1>5, <1>6, <1>7, <1>8, <1>9 DEF Round, Told
<1>. QED BY <1>1, <1>10 DEF OnScreen, RoundTold

LEMMA StepInit ==
    ASSUME HostSnapshotAssumption, Init
    PROVE  StepInv
<1>1. /\ indexSeen = {} /\ walletReady = TRUE /\ toggles = 0 /\ optimisticSessions = {}
      /\ \A s \in Ids : /\ rows[s] = None /\ patches[s] = None /\ sessionRows[s] = None
                        /\ Item(s) = None
    BY DEF Init, NoRows, Item
<1>2. \A s \in Ids : s \in OpenedIds => OnScreen(s)
    BY OnScreenFound
<1>3. EntriesConfirmed
    BY <1>1 DEF EntriesConfirmed
<1>. QED BY <1>1, <1>2, <1>3 DEF StepInv, Unknown

\* A round that was shown with an id only moves forward, while layers catch up
\* with each other and drop out again (mergeFlashblockPatchIntoRow,
\* pruneFlashblockPatches, mergeCasinoSessionItems), where the lags are fixed and
\* the list has room: for any number of bets and of rounds found at load that go on
\* beside each other, the latter also while the wallet comes and goes; the random
\* word for a round of this page's bets, the phase while one bet is placed.
THEOREM StepSafety ==
    ASSUME HostSnapshotAssumption PROVE Spec => NoStepBack
<1>. DEFINE Inv == ViewInv /\ BetsTell /\ (Steady => StepInv)
<1>1. Init => Inv
    BY ViewInit, BetInit, StepInit DEF BetInv, BetsTell
<1>2. Inv /\ [Next]_vars => Inv'
    <2>. SUFFICES ASSUME Inv, [Next]_vars PROVE Inv'
        OBVIOUS
    <2>1. ViewInv' /\ BetsTell' /\ setting' = setting
        BY ViewNext, BetsTellNext DEF ViewInv, BetsMove
    <2>2. Steady' => Steady
        BY <2>1 DEF Steady
    <2>3. Steady => StepInv'
        BY <2>1, StepNext
    <2>. QED BY <2>1, <2>2, <2>3
<1>3. Inv /\ [Next]_vars =>
          (Steady => \A s \in Ids : KeepsItsRow(s) /\ Item(s) # None =>
             /\ Item(s)' # None
             /\ Item(s)'.state >= Item(s).state
             /\ OpenedHere(s) => Item(s)'.word >= Item(s).word
             /\ Item(s)'.phase = "NONE" => Item(s).phase = "NONE" \/ BetAgain)
    <2>. SUFFICES ASSUME Inv, [Next]_vars, Steady, NEW s \in Ids, KeepsItsRow(s),
                         Item(s) # None
                  PROVE  Item(s)' # None /\ Ahead(Item(s)', Item(s), BetAgain, OpenedHere(s))
        BY DEF Ahead
    <2>2. s \in OpenedIds
        BY DEF StepInv, Unknown
    <2>1. ViewInv'
        BY ViewNext
    <2>. QED BY <2>1, <2>2, OnScreenNext
<1>. HIDE DEF Inv
<1>. QED BY <1>1, <1>2, <1>3, PTL DEF Spec, NoStepBack

-----------------------------------------------------------------------------
(***************************************************************************)
(* The checks of a randomness proof.                                       *)
(***************************************************************************)

-----------------------------------------------------------------------------
\* Arithmetic modulo the order

LEMMA Division ==
    ASSUME NEW a \in Int, NEW d \in Nat \ {0}
    PROVE  /\ a \div d \in Int /\ a % d \in Int
           /\ a = d * (a \div d) + (a % d)
           /\ a % d >= 0 /\ a % d < d
BY SMT

LEMMA RemainderUnique ==
    ASSUME NEW d \in Nat \ {0}, NEW m \in Int, NEW q \in Int,
           NEW r \in Int, NEW t \in Int,
           d * m + r = d * q + t, r >= 0, r < d, t >= 0, t < d
    PROVE  r = t
<1>1. d * (m - q) = t - r
    <2>1. d * (m - q) = d * m - d * q
        BY SMT
    <2>. DEFINE x == d * m
                y == d * q
    <2>2. x \in Int /\ y \in Int /\ x + r = y + t
        BY SMT
    <2>. HIDE DEF x, y
    <2>3. x - y = t - r
        BY <2>2
    <2>. QED BY <2>1, <2>3 DEF x, y
<1>. DEFINE e == m - q
<1>2. e \in Int /\ d * e = t - r
    BY <1>1
<1>. HIDE DEF e
<1>3. ~(e >= 1)
    <2>. SUFFICES ASSUME e >= 1 PROVE FALSE
        OBVIOUS
    <2>1. d * e >= d
        BY <1>2, SMT
    <2>. QED BY <1>2, <2>1
<1>4. ~(e <= -1)
    <2>. SUFFICES ASSUME e <= -1 PROVE FALSE
        OBVIOUS
    <2>1. d * e <= -d
        BY <1>2, SMT
    <2>. QED BY <1>2, <2>1
<1>5. e = 0
    BY <1>2, <1>3, <1>4
<1>6. d * e = 0
    BY <1>5, SMT
<1>. QED BY <1>2, <1>6

\* Multiples of the modulus do not matter.
LEMMA RemainderShift ==
    ASSUME NEW d \in Nat \ {0}, NEW a \in Int, NEW m \in Int
    PROVE  (a + d * m) % d = a % d
<1>. DEFINE b == a + d * m
<1>1. b \in Int
    BY SMT
<1>. DEFINE q == a \div d
            r == a % d
            p == b \div d
            t == b % d
<1>2. q \in Int /\ r \in Int /\ a = d * q + r /\ r >= 0 /\ r < d
    BY Division
<1>3. p \in Int /\ t \in Int /\ b = d * p + t /\ t >= 0 /\ t < d
    BY <1>1, Division
<1>4. b = a + d * m
    OBVIOUS
<1>. HIDE DEF b, q, r, p, t
<1>5. d * (q + m) = d * q + d * m
    BY <1>2, SMT
<1>. DEFINE n == q + m
<1>6. n \in Int
    BY <1>2
<1>7. d * n + r = d * p + t
    <2>. DEFINE x == d * q
                y == d * m
                z == d * n
                w == d * p
    <2>1. x \in Int /\ y \in Int /\ z \in Int /\ w \in Int
        BY <1>2, <1>3, <1>6, SMT
    <2>2. z = x + y /\ a = x + r /\ b = w + t /\ b = a + y
        BY <1>2, <1>3, <1>4, <1>5
    <2>. HIDE DEF x, y, z, w
    <2>3. z + r = w + t
        BY <1>2, <1>3, <2>1, <2>2
    <2>. QED BY <2>3 DEF z, w
<1>. HIDE DEF n
<1>8. r = t
    BY <1>2, <1>3, <1>6, <1>7, RemainderUnique
<1>. QED BY <1>8 DEF b, r, t

-----------------------------------------------------------------------------
\* The verification equations

\* The response and gamma of a proof, and what the verifier gets back from them.
IsResponse(q, k, c, x, s) == s = (k + c * x) % q

IsGamma(q, h, x, gamma) == gamma = (h * x) % q

Recovered(q, k, c, x, h, s, gamma) ==
    /\ (s - c * x) % q = k % q
    /\ (s * h - c * gamma) % q = (h * k) % q

\* s G - c Y is the nonce's point, and s H - c Gamma its multiple at H.
LEMMA CommitmentsRecovered ==
    ASSUME NEW q \in Nat \ {0}, NEW k \in Int, NEW c \in Int, NEW x \in Int, NEW h \in Int,
           NEW s, NEW gamma, IsResponse(q, k, c, x, s), IsGamma(q, h, x, gamma)
    PROVE  Recovered(q, k, c, x, h, s, gamma)
<1>. USE DEF IsResponse, IsGamma, Recovered
<1>. DEFINE i == (k + c * x) \div q
            j == (h * x) \div q
<1>1. k + c * x \in Int /\ h * x \in Int /\ h * k \in Int
    BY SMT
<1>2. i \in Int /\ s \in Int /\ k + c * x = q * i + s
    BY <1>1, Division
<1>3. j \in Int /\ gamma \in Int /\ h * x = q * j + gamma
    BY <1>1, Division
<1>. HIDE DEF i, j
<1>4. (s - c * x) % q = k % q
    <2>. DEFINE y == c * x
                z == q * i
    <2>1. y \in Int /\ z \in Int /\ k + y = z + s
        BY <1>2, SMT
    <2>2. q * (-i) = -z
        BY <1>2, SMT
    <2>. HIDE DEF y, z
    <2>3. s - y = k + q * (-i)
        BY <1>2, <2>1, <2>2
    <2>. DEFINE n == -i
    <2>4. n \in Int /\ s - y = k + q * n
        BY <1>2, <2>3
    <2>. HIDE DEF n
    <2>5. (k + q * n) % q = k % q
        BY <2>4, RemainderShift
    <2>. QED BY <2>4, <2>5 DEF y
<1>5. (s * h - c * gamma) % q = (h * k) % q
    <2>. DEFINE m == c * j - i * h
    <2>1. m \in Int
        BY <1>2, <1>3, SMT
    <2>2. s * h = h * k + c * (h * x) - q * (i * h)
        <3>1. s = (k + c * x) - q * i
            <4>. DEFINE y == k + c * x
                        z == q * i
            <4>1. y \in Int /\ z \in Int /\ y = z + s
                BY <1>1, <1>2, SMT
            <4>. HIDE DEF y, z
            <4>2. s = y - z
                BY <1>2, <4>1
            <4>. QED BY <4>2 DEF y, z
        <3>2. ((k + c * x) - q * i) * h = h * k + c * (h * x) - q * (i * h)
            BY <1>2, SMT
        <3>. QED BY <3>1, <3>2
    <2>3. c * gamma = c * (h * x) - q * (c * j)
        <3>1. gamma = h * x - q * j
            <4>. DEFINE y == h * x
                        z == q * j
            <4>1. y \in Int /\ z \in Int /\ y = z + gamma
                BY <1>1, <1>3, SMT
            <4>. HIDE DEF y, z
            <4>2. gamma = y - z
                BY <1>3, <4>1
            <4>. QED BY <4>2 DEF y, z
        <3>2. c * (h * x - q * j) = c * (h * x) - q * (c * j)
            BY <1>3, SMT
        <3>. QED BY <3>1, <3>2
    <2>4. q * m = q * (c * j) - q * (i * h)
        BY <1>2, <1>3, SMT
    <2>. HIDE DEF m
    <2>5. s * h - c * gamma = h * k + q * m
        <3>. DEFINE a == s * h
                    b == c * gamma
                    e == h * k
                    f == c * (h * x)
                    g == q * (i * h)
                    l == q * (c * j)
                    o == q * m
        <3>1. /\ a \in Int /\ b \in Int /\ e \in Int /\ f \in Int /\ g \in Int /\ l \in Int
              /\ o \in Int
            BY <1>2, <1>3, <2>1, SMT
        <3>2. a = e + f - g /\ b = f - l /\ o = l - g
            BY <2>2, <2>3, <2>4
        <3>. HIDE DEF a, b, e, f, g, l, o
        <3>3. a - b = e + o
            BY <3>1, <3>2
        <3>. QED BY <3>3 DEF a, b, e, o
    <2>. DEFINE n == h * k
    <2>6. n \in Int
        BY <1>1, SMT
    <2>7. s * h - c * gamma = n + q * m
        BY <2>5
    <2>. HIDE DEF n
    <2>8. (n + q * m) % q = n % q
        BY <1>1, <2>1, <2>6, RemainderShift
    <2>9. (s * h - c * gamma) % q = n % q
        BY <2>7, <2>8, Zenon
    <2>. QED BY <2>9 DEF n
<1>. QED BY <1>4, <1>5

-----------------------------------------------------------------------------
\* A proof made with the secret of a key passes the checks under that key,
\* whatever the curve point of the alpha is and whatever the digests are.
THEOREM HonestProofVerifies ==
    ASSUME NEW x \in Points, NEW h \in Points
    PROVE  VerifyAt(PublicKey(x), ProofAt(x, h), h)
<1>. DEFINE k == NonceOf(x, h)
            gamma == (h * x) % Q
            u == k % Q
            v == (h * k) % Q
            c == ChallengeDigest(h, gamma, u, v)
            s == (k + c * x) % Q
            proof == ProofAt(x, h)
<1>1. Q \in Nat \ {0} /\ x \in Int /\ h \in Int /\ x >= 0 /\ x < Q
    BY GroupAssumption DEF Points
<1>2. k \in Points /\ k \in Int
    BY GroupAssumption DEF Points
<1>3. gamma \in Points
    BY GroupAssumption
<1>4. u \in 0..(Q - 1) /\ v \in 0..(Q - 1)
    <2>1. h * k \in Int
        BY <1>1, <1>2, SMT
    <2>. DEFINE n == h * k
    <2>. HIDE DEF k, n
    <2>2. k % Q >= 0 /\ k % Q < Q /\ k % Q \in Int
        BY <1>1, <1>2, Division
    <2>3. n % Q >= 0 /\ n % Q < Q /\ n % Q \in Int
        BY <1>1, <2>1, Division DEF n
    <2>. QED BY <1>1, <2>2, <2>3 DEF n
<1>5. c \in Nat /\ c < C_LIMIT
    BY <1>3, <1>4, GroupAssumption
<1>6. proof.gamma = gamma /\ proof.c = c /\ proof.s = s
    BY DEF ProofAt
<1>7. PublicKey(x) = x
    BY <1>1, SMT DEF PublicKey
<1>. HIDE DEF k, c
<1>8. s \in Int /\ s >= 0 /\ s < Q
    <2>1. k + c * x \in Int
        BY <1>1, <1>2, <1>5, SMT
    <2>. DEFINE n == k + c * x
    <2>. HIDE DEF n
    <2>2. n % Q \in Int /\ n % Q >= 0 /\ n % Q < Q
        BY <1>1, <2>1, Division DEF n
    <2>. QED BY <2>2 DEF n
<1>9. (s - c * x) % Q = u /\ (s * h - c * gamma) % Q = v
    <2>1. c \in Int /\ k \in Int /\ x \in Int /\ h \in Int /\ Q \in Nat \ {0}
        BY <1>1, <1>2, <1>5
    <2>2. IsResponse(Q, k, c, x, s) /\ IsGamma(Q, h, x, gamma)
        BY DEF IsResponse, IsGamma
    <2>. HIDE DEF s, gamma
    <2>3. Recovered(Q, k, c, x, h, s, gamma)
        BY <2>1, <2>2, CommitmentsRecovered
    <2>. QED BY <2>3, Zenon DEF u, v, Recovered
<1>10. ChallengeOf(x, proof, h) = ChallengeDigest(h, gamma, u, v)
    <2>. HIDE DEF u, v, gamma, s, proof
    <2>. QED BY <1>6, <1>9 DEF ChallengeOf
<1>11. ChallengeOf(x, proof, h) = proof.c
    BY <1>6, <1>10 DEF c
<1>. HIDE DEF proof
<1>. QED BY <1>3, <1>5, <1>6, <1>7, <1>8, <1>11 DEF VerifyAt, proof

-----------------------------------------------------------------------------
(***************************************************************************)
(* The answers to a session's requests.                                    *)
(***************************************************************************)

\* The first attempt that is a point gives the point of an alpha.
LEMMA HashIsPoint ==
    ASSUME NEW key, NEW alpha, isFulfillable(key, alpha)
    PROVE  HashToCurve(key, alpha) \in Points
<1>. DEFINE A == Attempts(key, alpha)
            R == OpToRel(<, Nat)
            first == CHOOSE n \in A : \A other \in A : n <= other
<1>1. A \subseteq Nat /\ A # {} /\ \A n \in A : CurveDigest(key, alpha, n) \in Points
    BY GroupAssumption DEF Attempts, isFulfillable
<1>2. IsWellFoundedOn(R, Nat)
    BY NatLessThanWellFounded
<1>3. \A x, y \in Nat : <<y, x>> \in R <=> y < x
    BY Zenon DEF OpToRel
<1>. HIDE DEF A, R
<1>4. PICK n \in A : \A other \in A : ~(<<other, n>> \in R)
    BY <1>1, <1>2, WFMin
<1>5. \A other \in A : n <= other
    <2>. SUFFICES ASSUME NEW other \in A PROVE n <= other
        OBVIOUS
    <2>1. n \in Nat /\ other \in Nat
        BY <1>1
    <2>2. ~(other < n)
        BY <1>3, <1>4, <2>1
    <2>. QED BY <2>1, <2>2
<1>6. first \in A
    BY <1>4, <1>5
<1>7. HashToCurve(key, alpha) = CurveDigest(key, alpha, first)
    BY DEF HashToCurve, A
<1>. QED BY <1>1, <1>6, <1>7

LEMMA HonestVerifies ==
    ASSUME NEW key \in Points, NEW alpha, isFulfillable(key, alpha)
    PROVE  Verify(key, Prove(key, alpha), alpha)
<1>1. PublicKey(key) = key
    <2>1. key \in Int /\ key >= 0 /\ key < Q /\ Q \in Nat \ {0}
        BY GroupAssumption DEF Points
    <2>. QED BY <2>1, SMT DEF PublicKey
<1>2. HashToCurve(key, alpha) \in Points
    BY HashIsPoint
<1>3. VerifyAt(key, ProofAt(key, HashToCurve(key, alpha)), HashToCurve(key, alpha))
    BY <1>1, <1>2, HonestProofVerifies
<1>. QED BY <1>1, <1>3 DEF Verify, Prove

\* The verdict v of a request is right both ways.
RightVerdict(request, v) ==
    /\ v.valid => /\ v.randomness = WordOf(request)
                  /\ request.randomness \in {Absent, WordOf(request)}
                  /\ isFulfillable(request.requestId.request.fulfiller, request.requestId)
    /\ request.honest => v.valid

\* What the two reads have returned is one transaction of the scenario.
ReadsTell(scenario, i) ==
    /\ receipt[i] # Nothing \/ input[i] # Nothing => hash[i] \in DOMAIN scenario.chain
    /\ receipt[i] # Nothing => receipt[i] = <<scenario.chain[hash[i]].logs>>
    /\ input[i] # Nothing =>
         input[i] = <<[call |-> scenario.chain[hash[i]].call,
                       fulfillments |-> scenario.chain[hash[i]].fulfillments]>>
    /\ stage[i] \in {"start", "lookup"} => receipt[i] = Nothing /\ input[i] = Nothing

AnswersTell(i) ==
    /\ fault[i] => stage[i] = "done" /\ ~verdict[i].checked /\ ~verdict[i].valid
    /\ Judged(i) => RightVerdict(requests[i], verdict[i])

OnRequests(f) == DOMAIN f = DOMAIN requests

CheckTypes ==
    /\ OnRequests(stage) /\ OnRequests(hash) /\ OnRequests(receipt) /\ OnRequests(input)
    /\ OnRequests(verdict) /\ OnRequests(fault)

CheckInv(scenario) ==
    /\ requests = scenario.requests /\ transactions \in {scenario.chain, Nothing}
    /\ CheckTypes
    /\ \A i \in DOMAIN requests : ReadsTell(scenario, i) /\ AnswersTell(i)

\* A log that passes the checks holds the word that the assigned node's key
\* determines, and the log of an honest request passes.
LEMMA ChecksAreRight ==
    ASSUME NEW scenario \in Scenarios, VerificationAssumption,
           NEW i \in DOMAIN scenario.requests, NEW h \in DOMAIN scenario.chain,
           NEW n \in LogIndexes(scenario.chain[h].logs, scenario.requests[i].requestId),
           NEW transaction, transaction.call = scenario.chain[h].call,
           transaction.fulfillments = scenario.chain[h].fulfillments
    PROVE  LET request == scenario.requests[i]
               log == scenario.chain[h].logs[n]
               echo == findEchoedRequest(transaction, request.requestId)
           IN  RightVerdict(request,
                   [randomness |-> IF request.randomness = Absent THEN log.randomness
                                   ELSE request.randomness,
                    checked |-> TRUE, valid |-> Passes(Checks(request, log, echo))])
<1>. DEFINE request == scenario.requests[i]
            log == scenario.chain[h].logs[n]
            id == request.requestId
            r == id.request
            echo == findEchoedRequest(transaction, id)
            signer == recoverFulfillmentSigner(id, log.proof, log.signature)
            proven == \E key \in signer : Verify(key, log.proof, id)
            passes == Passes(Checks(request, log, echo))
            v == [randomness |-> IF request.randomness = Absent THEN log.randomness
                                 ELSE request.randomness,
                  checked |-> TRUE, valid |-> passes]
<1>1. n \in 1..Len(scenario.chain[h].logs) /\ log.address = Router /\ log.requestId = id
    BY DEF LogIndexes
<1>2. Unforged(log)
    BY <1>1 DEF VerificationAssumption
<1>3. request.honest => HonestRequest(scenario, request)
    BY DEF VerificationAssumption
<1>4. passes <=> /\ proven
                 /\ DeriveRandomness(log.proof) = log.randomness
                 /\ request.randomness = Absent \/ request.randomness = log.randomness
                 /\ signer # {}
                 /\ \E key \in signer, q \in echo : key = q.fulfiller
    BY DEF Passes, Checks
<1>5. signer = IF log.signature.form = "canonical" /\ log.signature.id = id
                  /\ log.signature.proof = log.proof
               THEN {log.signature.key} ELSE {}
    BY DEF recoverFulfillmentSigner
<1>6. \A q \in echo : computeRequestId(q) = id
    BY DEF findEchoedRequest
<1>7. \A q : computeRequestId(q) = id => q = r
    BY DEF computeRequestId
<1>8. v.valid = passes
      /\ v.randomness = IF request.randomness = Absent THEN log.randomness
                        ELSE request.randomness
    OBVIOUS
<1>9. ASSUME passes
      PROVE  /\ v.randomness = WordOf(request)
             /\ request.randomness \in {Absent, WordOf(request)}
             /\ isFulfillable(r.fulfiller, id)
    <2>1. PICK key \in signer, q \in echo : key = q.fulfiller
        BY <1>4, <1>9
    <2>2. q = r /\ computeRequestId(r) = id /\ key = r.fulfiller
        BY <1>6, <1>7, <2>1
    <2>3. signer = {key}
        BY <1>5, <2>1
    <2>4. Verify(r.fulfiller, log.proof, id)
        BY <1>4, <1>9, <2>2, <2>3
    <2>5. DeriveRandomness(log.proof) = DeriveRandomness(Prove(r.fulfiller, id))
        BY <1>1, <1>2, <2>4 DEF Unforged
    <2>6. WordOf(request) = log.randomness
        BY <1>4, <1>9, <2>2, <2>5 DEF WordOf
    <2>7. isFulfillable(r.fulfiller, id)
        BY <2>4 DEF Verify
    <2>8. request.randomness = Absent \/ request.randomness = log.randomness
        BY <1>4, <1>9
    <2>. HIDE DEF v, request, log
    <2>9. v.randomness = log.randomness
        BY <1>8, <2>8
    <2>. QED BY <2>6, <2>7, <2>8, <2>9
<1>10. ASSUME request.honest PROVE passes
    <2>. DEFINE proof == Prove(r.fulfiller, id)
    <2>1. /\ id = computeRequestId(r)
          /\ r.fulfiller \in Points /\ isFulfillable(r.fulfiller, id)
          /\ request.randomness \in {Absent, DeriveRandomness(proof)}
          /\ HonestAnswer(r, scenario.chain[h], log)
        BY <1>3, <1>10 DEF HonestRequest
    <2>2. /\ log.proof = proof /\ log.randomness = DeriveRandomness(proof)
          /\ log.signature = SignedBy(r.fulfiller, id, proof)
          /\ transaction.call # "other"
          /\ \E k \in 1..Len(transaction.fulfillments) : transaction.fulfillments[k] = r
        BY <2>1 DEF HonestAnswer
    <2>3. Verify(r.fulfiller, proof, id)
        BY <2>1, HonestVerifies
    <2>4. signer = {r.fulfiller}
        <3>1. /\ log.signature.form = "canonical" /\ log.signature.id = id
              /\ log.signature.proof = proof /\ log.signature.key = r.fulfiller
            BY <2>2 DEF SignedBy
        <3>. QED BY <1>5, <2>2, <3>1
    <2>5. r \in echo
        BY <2>1, <2>2 DEF findEchoedRequest
    <2>. HIDE DEF signer, echo, proof
    <2>6. proven
        BY <2>2, <2>3, <2>4
    <2>7. request.randomness = Absent \/ request.randomness = log.randomness
        BY <2>1, <2>2
    <2>8. \E key \in signer, q \in echo : key = q.fulfiller
        BY <2>4, <2>5
    <2>. QED BY <1>4, <2>2, <2>4, <2>6, <2>7, <2>8
<1>. HIDE DEF passes
<1>11. RightVerdict(request, v)
    <2>. HIDE DEF request, v
    <2>. QED BY <1>8, <1>9, <1>10 DEF RightVerdict, id, r
<1>. QED BY <1>11 DEF passes

-----------------------------------------------------------------------------
\* A step that leaves the reads and the answers of a request alone.
LEMMA AnswersStay ==
    ASSUME NEW scenario, CheckInv(scenario), UNCHANGED requests, NEW i \in DOMAIN requests,
           stage'[i] = stage[i], hash'[i] = hash[i], receipt'[i] = receipt[i],
           input'[i] = input[i], verdict'[i] = verdict[i], fault'[i] = fault[i]
    PROVE  ReadsTell(scenario, i)' /\ AnswersTell(i)'
<1>1. ReadsTell(scenario, i) /\ AnswersTell(i)
    BY DEF CheckInv
<1>2. ReadsTell(scenario, i)'
    BY <1>1 DEF ReadsTell
<1>3. AnswersTell(i)'
    BY <1>1 DEF AnswersTell, Judged
<1>. QED BY <1>2, <1>3

\* Giving a request up tells nothing of it.
LEMMA GivenUp ==
    ASSUME NEW scenario, CheckInv(scenario), NEW i \in DOMAIN requests, GiveUp(i),
           UNCHANGED requests
    PROVE  /\ stage'[i] = "done" /\ ~verdict'[i].checked /\ ~verdict'[i].valid
           /\ AnswersTell(i)'
           /\ \A j \in DOMAIN requests : j # i => /\ stage'[j] = stage[j]
                                                  /\ verdict'[j] = verdict[j]
           /\ OnRequests(stage)' /\ OnRequests(verdict)'
<1>1. i \in DOMAIN stage /\ i \in DOMAIN verdict
    BY DEF CheckInv, CheckTypes, OnRequests
<1>2. stage'[i] = "done" /\ verdict'[i] = Unchecked(requests[i])
    BY <1>1 DEF GiveUp
<1>3. ~verdict'[i].checked /\ ~verdict'[i].valid
    BY <1>2 DEF Unchecked
<1>4. AnswersTell(i)'
    BY <1>2, <1>3 DEF AnswersTell, Judged
<1>5. \A j \in DOMAIN requests : j # i => stage'[j] = stage[j] /\ verdict'[j] = verdict[j]
    BY DEF GiveUp, CheckInv, CheckTypes, OnRequests
<1>6. OnRequests(stage)' /\ OnRequests(verdict)'
    BY DEF GiveUp, CheckInv, CheckTypes, OnRequests
<1>. QED BY <1>2, <1>3, <1>4, <1>5, <1>6

\* With both reads in, the answer is right, or the request is given up.
LEMMA JudgedRight ==
    ASSUME NEW scenario \in Scenarios, VerificationAssumption, CheckInv(scenario),
           NEW i \in DOMAIN requests, NEW h \in DOMAIN scenario.chain,
           NEW transaction, transaction.call = scenario.chain[h].call,
           transaction.fulfillments = scenario.chain[h].fulfillments,
           Judge(i, transaction, scenario.chain[h].logs), ~fault[i],
           UNCHANGED <<requests, fault>>
    PROVE  /\ stage'[i] = "done" /\ AnswersTell(i)'
           /\ \A j \in DOMAIN requests : j # i => /\ stage'[j] = stage[j]
                                                  /\ verdict'[j] = verdict[j]
           /\ OnRequests(stage)' /\ OnRequests(verdict)'
<1>. DEFINE request == requests[i]
            logs == scenario.chain[h].logs
            found == findFulfillmentLog(logs, request.requestId)
            echo == findEchoedRequest(transaction, request.requestId)
            Answer(log) == [randomness |-> IF request.randomness = Absent THEN log.randomness
                                           ELSE request.randomness,
                            checked |-> TRUE, valid |-> Passes(Checks(request, log, echo))]
<1>0. requests = scenario.requests /\ i \in DOMAIN scenario.requests
    BY DEF CheckInv
<1>1. CASE found = {}
    <2>1. GiveUp(i)
        BY <1>1 DEF Judge
    <2>. QED BY <2>1, GivenUp
<1>2. CASE found # {}
    <2>1. PICK log \in found : /\ verdict' = [verdict EXCEPT ![i] = Answer(log)]
                               /\ stage' = [stage EXCEPT ![i] = "done"]
        BY <1>2 DEF Judge
    <2>2. PICK n \in LogIndexes(logs, request.requestId) : log = logs[n]
        BY <2>1 DEF findFulfillmentLog
    <2>3. RightVerdict(request, Answer(logs[n]))
        BY <1>0, <2>2, ChecksAreRight
    <2>. HIDE DEF Answer, found, logs
    <2>4. /\ verdict'[i] = Answer(log) /\ stage'[i] = "done"
          /\ \A j \in DOMAIN requests : j # i => /\ stage'[j] = stage[j]
                                                 /\ verdict'[j] = verdict[j]
          /\ OnRequests(stage)' /\ OnRequests(verdict)'
        BY <2>1 DEF CheckInv, CheckTypes, OnRequests
    <2>5. RightVerdict(requests'[i], verdict'[i])
        BY <2>2, <2>3, <2>4
    <2>6. AnswersTell(i)'
        BY <2>5 DEF AnswersTell
    <2>. QED BY <2>4, <2>6
<1>. QED BY <1>1, <1>2

LEMMA BeginKeeps ==
    ASSUME NEW scenario, CheckInv(scenario), NEW i \in DOMAIN requests, Begin(i)
    PROVE  CheckInv(scenario)'
<1>1. /\ stage[i] = "start"
      /\ UNCHANGED <<requests, transactions, routerRead, receipt, input, fault>>
    BY DEF Begin, Working
<1>2. /\ ReadsTell(scenario, i) /\ AnswersTell(i) /\ receipt[i] = Nothing /\ input[i] = Nothing
      /\ ~fault[i]
    BY <1>1 DEF CheckInv, ReadsTell, AnswersTell
<1>3. CASE GiveUp(i) /\ UNCHANGED hash
    <2>1. /\ stage'[i] = "done" /\ AnswersTell(i)'
          /\ \A j \in DOMAIN requests : j # i => /\ stage'[j] = stage[j]
                                                 /\ verdict'[j] = verdict[j]
          /\ OnRequests(stage)' /\ OnRequests(verdict)'
        BY <1>1, <1>3, GivenUp
    <2>2. ReadsTell(scenario, i)'
        BY <1>1, <1>2, <2>1 DEF ReadsTell
    <2>3. \A j \in DOMAIN requests : ReadsTell(scenario, j)' /\ AnswersTell(j)'
        BY <1>1, <1>3, <2>1, <2>2, AnswersStay
    <2>4. CheckTypes'
        BY <1>1, <1>3, <2>1 DEF CheckInv, CheckTypes, OnRequests
    <2>. QED BY <1>1, <2>3, <2>4 DEF CheckInv
<1>4. CASE /\ stage' = [stage EXCEPT ![i] = IF requests[i].hash = Absent THEN "lookup"
                                            ELSE "reads"]
           /\ hash' = [hash EXCEPT ![i] = requests[i].hash]
           /\ UNCHANGED verdict
    <2>1. /\ stage'[i] \in {"lookup", "reads"}
          /\ \A j \in DOMAIN requests : j # i => stage'[j] = stage[j] /\ hash'[j] = hash[j]
          /\ OnRequests(stage)' /\ OnRequests(hash)'
        BY <1>1, <1>4 DEF CheckInv, CheckTypes, OnRequests
    <2>2. ReadsTell(scenario, i)' /\ AnswersTell(i)'
        BY <1>1, <1>2, <2>1 DEF ReadsTell, AnswersTell, Judged
    <2>3. \A j \in DOMAIN requests : ReadsTell(scenario, j)' /\ AnswersTell(j)'
        BY <1>1, <1>4, <2>1, <2>2, AnswersStay
    <2>4. CheckTypes'
        BY <1>1, <1>4, <2>1 DEF CheckInv, CheckTypes, OnRequests
    <2>. QED BY <1>1, <2>3, <2>4 DEF CheckInv
<1>. QED BY <1>3, <1>4 DEF Begin

LEMMA LookupKeeps ==
    ASSUME NEW scenario, CheckInv(scenario), NEW i \in DOMAIN requests, Lookup(i)
    PROVE  CheckInv(scenario)'
<1>1. /\ stage[i] = "lookup"
      /\ UNCHANGED <<requests, transactions, routerRead, receipt, input, fault>>
    BY DEF Lookup, Working
<1>2. /\ ReadsTell(scenario, i) /\ AnswersTell(i) /\ receipt[i] = Nothing /\ input[i] = Nothing
      /\ ~fault[i]
    BY <1>1 DEF CheckInv, ReadsTell, AnswersTell
<1>3. CASE GiveUp(i) /\ UNCHANGED hash
    <2>1. /\ stage'[i] = "done" /\ AnswersTell(i)'
          /\ \A j \in DOMAIN requests : j # i => /\ stage'[j] = stage[j]
                                                 /\ verdict'[j] = verdict[j]
          /\ OnRequests(stage)' /\ OnRequests(verdict)'
        BY <1>1, <1>3, GivenUp
    <2>2. ReadsTell(scenario, i)'
        BY <1>1, <1>2, <2>1 DEF ReadsTell
    <2>3. \A j \in DOMAIN requests : ReadsTell(scenario, j)' /\ AnswersTell(j)'
        BY <1>1, <1>3, <2>1, <2>2, AnswersStay
    <2>4. CheckTypes'
        BY <1>1, <1>3, <2>1 DEF CheckInv, CheckTypes, OnRequests
    <2>. QED BY <1>1, <2>3, <2>4 DEF CheckInv
<1>4. CASE /\ stage' = [stage EXCEPT ![i] = "reads"] /\ UNCHANGED verdict
           /\ \E h : hash' = [hash EXCEPT ![i] = h]
    <2>1. /\ stage'[i] = "reads"
          /\ \A j \in DOMAIN requests : j # i => stage'[j] = stage[j] /\ hash'[j] = hash[j]
          /\ OnRequests(stage)' /\ OnRequests(hash)'
        BY <1>1, <1>4 DEF CheckInv, CheckTypes, OnRequests
    <2>2. ReadsTell(scenario, i)' /\ AnswersTell(i)'
        BY <1>1, <1>2, <2>1 DEF ReadsTell, AnswersTell, Judged
    <2>3. \A j \in DOMAIN requests : ReadsTell(scenario, j)' /\ AnswersTell(j)'
        BY <1>1, <1>4, <2>1, <2>2, AnswersStay
    <2>4. CheckTypes'
        BY <1>1, <1>4, <2>1 DEF CheckInv, CheckTypes, OnRequests
    <2>. QED BY <1>1, <2>3, <2>4 DEF CheckInv
<1>. QED BY <1>3, <1>4 DEF Lookup

\* What is read is a transaction of the scenario: there is none after a restart.
LEMMA ReadIsOnChain ==
    ASSUME NEW scenario, CheckInv(scenario), NEW h \in DOMAIN transactions
    PROVE  transactions = scenario.chain
<1>1. DOMAIN Nothing = {}
    BY DEF Nothing
<1>. QED BY <1>1 DEF CheckInv

LEMMA ReadReceiptKeeps ==
    ASSUME NEW scenario \in Scenarios, VerificationAssumption, CheckInv(scenario),
           NEW i \in DOMAIN requests, ReadReceipt(i)
    PROVE  CheckInv(scenario)'
<1>. DEFINE h == hash[i]
            logs == scenario.chain[h].logs
<1>1. /\ stage[i] = "reads" /\ receipt[i] = Nothing /\ h \in DOMAIN transactions
      /\ receipt' = [receipt EXCEPT ![i] = <<transactions[h].logs>>]
      /\ UNCHANGED <<requests, transactions, routerRead, hash, input, fault>>
    BY DEF ReadReceipt, Working
<1>2. transactions = scenario.chain /\ h \in DOMAIN scenario.chain
    BY <1>1, ReadIsOnChain
<1>3. ReadsTell(scenario, i) /\ AnswersTell(i) /\ ~fault[i]
    BY <1>1 DEF CheckInv, AnswersTell
<1>4. /\ receipt'[i] = <<logs>>
      /\ \A j \in DOMAIN requests : j # i => receipt'[j] = receipt[j]
      /\ OnRequests(receipt)'
    BY <1>1, <1>2 DEF CheckInv, CheckTypes, OnRequests
<1>5. /\ stage'[i] \in {"reads", "done"} /\ AnswersTell(i)'
      /\ \A j \in DOMAIN requests : j # i => /\ stage'[j] = stage[j]
                                             /\ verdict'[j] = verdict[j]
      /\ OnRequests(stage)' /\ OnRequests(verdict)'
    <2>1. CASE input[i] = Nothing
        <3>1. UNCHANGED <<stage, verdict>>
            BY <2>1 DEF ReadReceipt
        <3>2. AnswersTell(i)'
            BY <1>1, <1>3, <3>1 DEF AnswersTell, Judged
        <3>. QED BY <1>1, <3>1, <3>2 DEF CheckInv, CheckTypes, OnRequests
    <2>2. CASE input[i] # Nothing
        <3>. DEFINE transaction == input[i][1]
        <3>1. Judge(i, transaction, logs)
            BY <1>2, <2>2 DEF ReadReceipt
        <3>2. input[i] = <<[call |-> scenario.chain[h].call,
                            fulfillments |-> scenario.chain[h].fulfillments]>>
            BY <1>3, <2>2 DEF ReadsTell
        <3>3. /\ transaction.call = scenario.chain[h].call
              /\ transaction.fulfillments = scenario.chain[h].fulfillments
            BY <3>2
        <3>. HIDE DEF transaction, h
        <3>4. /\ stage'[i] = "done" /\ AnswersTell(i)'
              /\ \A j \in DOMAIN requests : j # i => /\ stage'[j] = stage[j]
                                                     /\ verdict'[j] = verdict[j]
              /\ OnRequests(stage)' /\ OnRequests(verdict)'
            BY <1>1, <1>2, <1>3, <3>1, <3>3, JudgedRight
        <3>. QED BY <3>4
    <2>. QED BY <2>1, <2>2
<1>6. ReadsTell(scenario, i)'
    BY <1>1, <1>2, <1>3, <1>4, <1>5 DEF ReadsTell
<1>7. \A j \in DOMAIN requests : ReadsTell(scenario, j)' /\ AnswersTell(j)'
    BY <1>1, <1>4, <1>5, <1>6, AnswersStay
<1>8. CheckTypes'
    BY <1>1, <1>4, <1>5 DEF CheckInv, CheckTypes, OnRequests
<1>. QED BY <1>1, <1>7, <1>8 DEF CheckInv

LEMMA ReadTransactionKeeps ==
    ASSUME NEW scenario \in Scenarios, VerificationAssumption, CheckInv(scenario),
           NEW i \in DOMAIN requests, ReadTransaction(i)
    PROVE  CheckInv(scenario)'
<1>. DEFINE h == hash[i]
            logs == scenario.chain[h].logs
            transaction == [call |-> scenario.chain[h].call,
                            fulfillments |-> scenario.chain[h].fulfillments]
<1>1. /\ stage[i] = "reads" /\ input[i] = Nothing /\ h \in DOMAIN transactions
      /\ input' = [input EXCEPT ![i] = <<[call |-> transactions[h].call,
                      fulfillments |-> transactions[h].fulfillments]>>]
      /\ UNCHANGED <<requests, transactions, routerRead, hash, receipt, fault>>
    BY DEF ReadTransaction, Working
<1>2. transactions = scenario.chain /\ h \in DOMAIN scenario.chain
    BY <1>1, ReadIsOnChain
<1>3. ReadsTell(scenario, i) /\ AnswersTell(i) /\ ~fault[i]
    BY <1>1 DEF CheckInv, AnswersTell
<1>4. /\ input'[i] = <<transaction>>
      /\ \A j \in DOMAIN requests : j # i => input'[j] = input[j]
      /\ OnRequests(input)'
    BY <1>1, <1>2 DEF CheckInv, CheckTypes, OnRequests
<1>5. /\ stage'[i] \in {"reads", "done"} /\ AnswersTell(i)'
      /\ \A j \in DOMAIN requests : j # i => /\ stage'[j] = stage[j]
                                             /\ verdict'[j] = verdict[j]
      /\ OnRequests(stage)' /\ OnRequests(verdict)'
    <2>1. CASE receipt[i] = Nothing
        <3>1. UNCHANGED <<stage, verdict>>
            BY <2>1 DEF ReadTransaction
        <3>2. AnswersTell(i)'
            BY <1>1, <1>3, <3>1 DEF AnswersTell, Judged
        <3>. QED BY <1>1, <3>1, <3>2 DEF CheckInv, CheckTypes, OnRequests
    <2>2. CASE receipt[i] # Nothing
        <3>1. Judge(i, input'[i][1], receipt[i][1])
            BY <2>2 DEF ReadTransaction
        <3>2. receipt[i][1] = logs /\ input'[i][1] = transaction
            BY <1>3, <1>4, <2>2 DEF ReadsTell
        <3>3. /\ transaction.call = scenario.chain[h].call
              /\ transaction.fulfillments = scenario.chain[h].fulfillments
            OBVIOUS
        <3>. HIDE DEF transaction, h
        <3>4. /\ stage'[i] = "done" /\ AnswersTell(i)'
              /\ \A j \in DOMAIN requests : j # i => /\ stage'[j] = stage[j]
                                                     /\ verdict'[j] = verdict[j]
              /\ OnRequests(stage)' /\ OnRequests(verdict)'
            BY <1>1, <1>2, <1>3, <3>1, <3>2, <3>3, JudgedRight
        <3>. QED BY <3>4
    <2>. QED BY <2>1, <2>2
<1>6. ReadsTell(scenario, i)'
    BY <1>1, <1>2, <1>3, <1>4, <1>5 DEF ReadsTell
<1>7. \A j \in DOMAIN requests : ReadsTell(scenario, j)' /\ AnswersTell(j)'
    BY <1>1, <1>4, <1>5, <1>6, AnswersStay
<1>8. CheckTypes'
    BY <1>1, <1>4, <1>5 DEF CheckInv, CheckTypes, OnRequests
<1>. QED BY <1>1, <1>7, <1>8 DEF CheckInv

LEMMA ReadFailsKeeps ==
    ASSUME NEW scenario, CheckInv(scenario), NEW i \in DOMAIN requests, ReadFails(i)
    PROVE  CheckInv(scenario)'
<1>1. /\ GiveUp(i) /\ fault' = [fault EXCEPT ![i] = TRUE]
      /\ UNCHANGED <<requests, transactions, routerRead, hash, receipt, input>>
    BY DEF ReadFails
<1>2. /\ stage'[i] = "done" /\ AnswersTell(i)'
      /\ \A j \in DOMAIN requests : j # i => /\ stage'[j] = stage[j]
                                             /\ verdict'[j] = verdict[j]
      /\ OnRequests(stage)' /\ OnRequests(verdict)'
    BY <1>1, GivenUp
<1>3. /\ \A j \in DOMAIN requests : j # i => fault'[j] = fault[j]
      /\ OnRequests(fault)'
    BY <1>1 DEF CheckInv, CheckTypes, OnRequests
<1>4. ReadsTell(scenario, i)'
    BY <1>1, <1>2 DEF CheckInv, ReadsTell
<1>5. \A j \in DOMAIN requests : ReadsTell(scenario, j)' /\ AnswersTell(j)'
    BY <1>1, <1>2, <1>3, <1>4, AnswersStay
<1>6. CheckTypes'
    BY <1>1, <1>2, <1>3 DEF CheckInv, CheckTypes, OnRequests
<1>. QED BY <1>1, <1>5, <1>6 DEF CheckInv

LEMMA ChecksInitially ==
    ASSUME VerifyInit
    PROVE  \E scenario \in Scenarios : CheckInv(scenario)
<1>1. PICK scenario \in Scenarios :
          requests = scenario.requests /\ transactions = scenario.chain
    BY DEF VerifyInit
<1>2. CheckTypes
    BY DEF VerifyInit, CheckTypes, OnRequests
<1>3. \A i \in DOMAIN requests : ReadsTell(scenario, i) /\ AnswersTell(i)
    BY DEF VerifyInit, ReadsTell, AnswersTell, Judged
<1>. QED BY <1>1, <1>2, <1>3 DEF CheckInv

LEMMA ChecksStep ==
    ASSUME VerificationAssumption, NEW scenario \in Scenarios, CheckInv(scenario),
           [VerifyNext]_verifyVars
    PROVE  CheckInv(scenario)'
<1>1. ASSUME UNCHANGED <<requests, stage, hash, receipt, input, verdict, fault>>,
             transactions' \in {transactions, Nothing}
      PROVE  CheckInv(scenario)'
    BY <1>1 DEF CheckInv, CheckTypes, OnRequests, ReadsTell, AnswersTell, Judged
<1>2. CASE \E outcome \in {"set", "zero", "failed"} : ReadRouter(outcome)
    BY <1>1, <1>2 DEF ReadRouter
<1>3. CASE \E i \in DOMAIN requests : Proceed(i)
    BY <1>3, BeginKeeps, LookupKeeps, ReadReceiptKeeps, ReadTransactionKeeps, ReadFailsKeeps
       DEF Proceed
<1>4. CASE ChainRestarts
    BY <1>1, <1>4 DEF ChainRestarts, Nothing
<1>5. CASE UNCHANGED verifyVars
    BY <1>1, <1>5 DEF verifyVars
<1>. QED BY <1>2, <1>3, <1>4, <1>5 DEF VerifyNext

\* What the dialog tells of a request's random word is right both ways, or it
\* tells nothing (getRandomnessVerification).
THEOREM VerdictSafety == VerifySpec => []VerdictIsRight
<1>. DEFINE Inv == \E scenario \in Scenarios : CheckInv(scenario)
<1>1. VerifyInit => Inv
    BY ChecksInitially
<1>2. Inv /\ [VerifyNext]_verifyVars => Inv'
    <2>. SUFFICES ASSUME Inv, [VerifyNext]_verifyVars PROVE Inv'
        OBVIOUS
    <2>1. PICK scenario \in Scenarios : CheckInv(scenario)
        OBVIOUS
    <2>2. CheckInv(scenario)'
        BY <2>1, ChecksStep, VerificationAssumption
    <2>. QED BY <2>2
<1>3. Inv => VerdictIsRight
    <2>. SUFFICES ASSUME Inv PROVE VerdictIsRight
        OBVIOUS
    <2>1. \A i \in DOMAIN requests : AnswersTell(i)
        BY DEF CheckInv
    <2>. QED BY <2>1 DEF AnswersTell, RightVerdict, VerdictIsRight, ValidIsGenuine,
                         HonestIsValid, FailureIsNotInvalid, Judged
<1>. QED BY <1>1, <1>2, <1>3, PTL DEF VerifySpec
=============================================================================
