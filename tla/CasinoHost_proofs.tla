-------------------------- MODULE CasinoHost_proofs --------------------------
(***************************************************************************)
(* Proofs about CasinoHost for every set of players and games, every bound *)
(* and every game behaviour.                                               *)
(***************************************************************************)
EXTENDS CasinoHost, SumFacts

-----------------------------------------------------------------------------
(***************************************************************************)
(* Transfers and the sum of all balances.                                  *)
(***************************************************************************)

Total(bal) == SumFunctionOnSet(bal, Accounts)

LEMMA FiniteDomains ==
    /\ IsFiniteSet(Accounts) /\ IsFiniteSet(Ids)
    /\ Host \in Accounts /\ Vault \in Accounts /\ Players \subseteq Accounts
<1>1. IsFiniteSet(Ids)
    BY ConstantsAssumption, FS_Interval DEF Ids
<1>2. IsFiniteSet({Host}) /\ IsFiniteSet({Vault})
    BY FS_Singleton
<1>3. IsFiniteSet({Host} \cup {Vault})
    BY <1>2, FS_Union
<1>4. IsFiniteSet(Players \cup ({Host} \cup {Vault}))
    BY <1>3, ConstantsAssumption, FS_Union
<1>5. Players \cup ({Host} \cup {Vault}) = Accounts
    BY DEF Accounts
<1>. QED BY <1>1, <1>4, <1>5 DEF Accounts

\* A transfer creates and destroys nothing, also from an account to itself.
LEMMA MovedTotal ==
    ASSUME NEW bal \in [Accounts -> Int], NEW from \in Accounts, NEW to \in Accounts,
           NEW amount \in Int
    PROVE  /\ Moved(bal, from, to, amount) \in [Accounts -> Int]
           /\ Total(Moved(bal, from, to, amount)) = Total(bal)
<1>. DEFINE b1 == [bal EXCEPT ![from] = bal[from] - amount]
            b2 == [b1 EXCEPT ![to] = b1[to] + amount]
<1>1. b1 \in [Accounts -> Int] /\ b1[from] = bal[from] - amount
      /\ \A a \in Accounts \ {from} : bal[a] = b1[a]
    OBVIOUS
<1>2. b2 = Moved(bal, from, to, amount)
    BY DEF Moved
<1>. HIDE DEF b1
<1>3. b2 \in [Accounts -> Int] /\ b2[to] = b1[to] + amount
      /\ \A a \in Accounts \ {to} : b1[a] = b2[a]
    BY <1>1
<1>. HIDE DEF b2
<1>4. Integral(bal, Accounts) /\ Integral(b1, Accounts)
    BY <1>1 DEF Integral
<1>5. b1[from] \in Int /\ b2[to] \in Int
    BY <1>1, <1>3
<1>6. Total(b1) = Total(bal) - bal[from] + b1[from]
    BY <1>1, <1>4, <1>5, FiniteDomains, SumUpdate DEF Total
<1>7. Total(b2) = Total(b1) - b1[to] + b2[to]
    BY <1>3, <1>4, <1>5, FiniteDomains, SumUpdate DEF Total
<1>8. Total(bal) \in Int /\ Total(b1) \in Int
    BY <1>4, FiniteDomains, SumType DEF Total
<1>. QED BY <1>1, <1>2, <1>3, <1>6, <1>7, <1>8

-----------------------------------------------------------------------------
(***************************************************************************)
(* What one transaction does to the sessions.                              *)
(***************************************************************************)

\* A settlement keeps balances natural and takes the escrow off the host.
LEMMA SettlementEffect ==
    ASSUME NEW bal \in [Accounts -> Nat], NEW p \in Players,
           NEW s \in Snapshots, NEW payout \in Nat, CanSettle(bal, s, payout)
    PROVE  /\ AfterSettlement(bal, p, s, payout) \in [Accounts -> Nat]
           /\ AfterSettlement(bal, p, s, payout)[Host]
                = bal[Host] - s.escrowedStake
           /\ AfterSettlement(bal, p, s, payout)[Vault]
                = bal[Vault] + s.escrowedStake - payout
           /\ Total(AfterSettlement(bal, p, s, payout)) = Total(bal)
<1> DEFINE e == s.escrowedStake
           fromEscrow == Lesser(payout, e)
           fromVault == payout - fromEscrow
           toVault == e - fromEscrow
           b1 == Moved(bal, Host, p, fromEscrow)
           b2 == Moved(b1, Vault, p, fromVault)
           b3 == Moved(b2, Host, Vault, toVault)
<1>1. /\ e \in Nat /\ p \in Accounts /\ Host \in Accounts /\ Vault \in Accounts
      /\ p # Host /\ p # Vault /\ Host # Vault
    BY ConstantsAssumption DEF Snapshots, Accounts
<1>2. /\ fromEscrow \in Nat /\ fromVault \in Nat /\ toVault \in Nat
      /\ fromEscrow + toVault = e /\ fromEscrow + fromVault = payout
      /\ e <= bal[Host] /\ fromVault <= bal[Vault]
    BY <1>1 DEF CanSettle, Lesser
<1> HIDE DEF e, fromEscrow, fromVault, toVault
<1>3. /\ b1 \in [Accounts -> Nat] /\ b1[Host] = bal[Host] - fromEscrow
      /\ b1[Vault] = bal[Vault]
    BY <1>1, <1>2 DEF Moved
<1>31. Total(b1) = Total(bal)
    BY <1>1, <1>2, MovedTotal
<1> HIDE DEF b1
<1>4. /\ b2 \in [Accounts -> Nat] /\ b2[Host] = bal[Host] - fromEscrow
      /\ b2[Vault] = bal[Vault] - fromVault
    BY <1>1, <1>2, <1>3 DEF Moved
<1>41. Total(b2) = Total(b1)
    BY <1>1, <1>2, <1>3, MovedTotal
<1> HIDE DEF b2
<1>5. b3 \in [Accounts -> Nat] /\ b3[Host] = b2[Host] - toVault
      /\ b3[Vault] = b2[Vault] + toVault
    BY <1>1, <1>2, <1>4 DEF Moved
<1>51. Total(b3) = Total(b2)
    BY <1>1, <1>2, <1>4, MovedTotal
<1>6. b3 = AfterSettlement(bal, p, s, payout)
    BY DEF AfterSettlement, b1, b2, fromEscrow, fromVault, toVault, e
<1>. QED BY <1>1, <1>2, <1>31, <1>4, <1>41, <1>5, <1>51, <1>6 DEF e

\* The game's cash-out quote never yields more than the session may pay.
LEMMA ForfeitPayoutBound ==
    ASSUME NEW s \in Snapshots, NEW q \in Nat
    PROVE  /\ ForfeitPayout(s, q) \in Nat
           /\ ForfeitPayout(s, q) <= s.escrowedStake + s.reservedProfit
<1> DEFINE m == Lesser(q, s.escrowedStake + s.reservedProfit)
<1>1. m \in Nat /\ m <= s.escrowedStake + s.reservedProfit
    BY DEF Snapshots, Lesser
<1>2. s.escrowedStake + s.reservedProfit \in Nat
    BY DEF Snapshots
<1> HIDE DEF m
<1>3. (m * 9000) \div 10000 \in Nat /\ (m * 9000) \div 10000 <= m
    BY <1>1
<1>4. ForfeitPayout(s, q) = (m * 9000) \div 10000
    BY DEF ForfeitPayout, m, BASIS_POINTS, FORFEIT_WINNINGS_CUT_BPS
<1>. QED BY <1>1, <1>2, <1>3, <1>4

\* Session k moves on to snapshot n, under terms t.
Continues(k, n, t) ==
    /\ n \in Snapshots /\ n.sessionId = k
    /\ WithinCaps(n, t)
    /\ sessionCommitments' = [sessionCommitments EXCEPT ![k] = n]
    /\ advanced' = advanced \cup {n}
    /\ settled' = settled
    /\ gain' = [gain EXCEPT ![k] = -n.escrowedStake]
    /\ balanceOf'[Host] = balanceOf[Host] + n.escrowedStake - HeldFor(k)
    /\ balanceOf'[Vault] = balanceOf[Vault]
    /\ Total(balanceOf') = Total(balanceOf)

\* Session k ends, leaving the player with a net outcome of x.
EndsOne(k, x, t) ==
    /\ x \in Int /\ -t.maxEscrowStake <= x /\ x <= t.maxReservedProfit
    /\ sessionCommitments' = [sessionCommitments EXCEPT ![k] = None]
    /\ advanced' = advanced
    /\ \E e \in Settlements : settled' = [settled EXCEPT ![k] = e]
    /\ gain' = [gain EXCEPT ![k] = x]
    /\ balanceOf'[Host] = balanceOf[Host] - HeldFor(k)
    /\ balanceOf'[Vault] = balanceOf[Vault] - x
    /\ Total(balanceOf') = Total(balanceOf)

LEMMA ProcessEffect ==
    ASSUME NEW t \in Terms, NEW s \in Snapshots, NEW r \in StepResults,
           NEW allow \in BOOLEAN, NEW bal \in [Accounts -> Nat],
           NEW alw \in [Players -> Nat], NEW g, g = -s.escrowedStake,
           blockNumber \in Nat,
           bal[Host] = balanceOf[Host] - HeldFor(s.sessionId) + s.escrowedStake,
           bal[Vault] = balanceOf[Vault], Total(bal) = Total(balanceOf),
           HeldFor(s.sessionId) \in Nat, balanceOf[Host] \in Nat,
           ProcessStepResult(t, s, r, allow, bal, alw, g)
    PROVE  /\ balanceOf' \in [Accounts -> Nat]
           /\ allowance' \in [Players -> Nat]
           /\ \/ \E n : Continues(s.sessionId, n, t) /\ n.step = s.step + 1
              \/ \E x : EndsOne(s.sessionId, x, t)
<1> DEFINE k == s.sessionId
           next == Stepped(s, r)
           waiting == [next EXCEPT !.phase = r.nextPhase,
                          !.deadlineBlock = blockNumber + Timeout(r.nextPhase)]
           held == Moved(bal, t.player, Host, r.escrowDelta)
           d == r.escrowDelta
<1>1. /\ d \in Int /\ r.reservedProfitDelta \in Int /\ r.payout \in Nat
      /\ r.nextPhase \in Phases
    BY ConstantsAssumption
<1>2. /\ t.player \in Players /\ t.player \in Accounts /\ Host \in Accounts
      /\ t.player # Host /\ t.player # Vault /\ Vault # Host /\ Vault \in Accounts
      /\ t.maxEscrowStake \in Nat /\ t.maxReservedProfit \in Nat
    BY ConstantsAssumption DEF Terms, Accounts
<1>3. /\ s.escrowedStake \in Nat /\ s.reservedProfit \in Nat /\ s.step \in Nat
      /\ s.sessionId \in Ids /\ k \in Ids
    BY DEF Snapshots
<1>4. /\ EscrowMoves(t.player, s, r, allow, bal, alw)
      /\ WithinCaps(next, t)
      /\ allowance' = IF d > 0 THEN Spent(alw, t.player, d) ELSE alw
      /\ \/ /\ r.nextPhase \in Waiting
            /\ KeepWaiting(waiting, held, g - d)
         \/ /\ r.nextPhase \in Terminal
            /\ FinalizeSession(t.player, next, r.nextPhase, r.payout, held, g - d)
    BY DEF ProcessStepResult
<1>5. /\ next \in Snapshots
      /\ next.sessionId = k /\ next.step = s.step + 1
      /\ next.escrowedStake = s.escrowedStake + d
    <2> DEFINE a == s.escrowedStake + d
               b == s.reservedProfit + r.reservedProfitDelta
               c == s.step + 1
    <2>1. a \in Nat /\ b \in Nat /\ c \in Nat
        BY <1>1, <1>3, <1>4 DEF EscrowMoves
    <2>2. next = [s EXCEPT !.escrowedStake = a, !.reservedProfit = b, !.step = c]
        BY DEF Stepped
    <2> HIDE DEF a, b, c, next
    <2>3. next \in Snapshots /\ next.sessionId = k /\ next.escrowedStake = a
          /\ next.step = c
        BY <2>1, <2>2 DEF Snapshots
    <2>. QED BY <2>3 DEF a, c
<1>6. next.escrowedStake \in Nat /\ next.reservedProfit \in Nat
    BY <1>5 DEF Snapshots
<1>7. /\ held \in [Accounts -> Nat] /\ held[Host] = bal[Host] + d
      /\ held[Vault] = bal[Vault]
    <2>1. CASE d > 0
        BY <2>1, <1>1, <1>2, <1>4 DEF EscrowMoves, CanPull, Moved
    <2>2. CASE d <= 0
        BY <2>2, <1>1, <1>2, <1>4 DEF EscrowMoves, Moved
    <2>. QED BY <2>1, <2>2, <1>1
<1>71. held[Vault] = balanceOf[Vault] /\ Total(held) = Total(balanceOf)
    <2>1. bal \in [Accounts -> Int] /\ t.player \in Accounts /\ Host \in Accounts /\ d \in Int
        BY <1>1, <1>2
    <2>2. Total(held) = Total(bal)
        BY <2>1, MovedTotal, Zenon
    <2>. QED BY <1>7, <2>2
<1>8. allowance' \in [Players -> Nat]
    BY <1>1, <1>2, <1>4 DEF EscrowMoves, CanPull, Spent
<1>9. g - d = -next.escrowedStake
    BY <1>1, <1>3, <1>5
<1>10. held[Host] = balanceOf[Host] - HeldFor(k) + next.escrowedStake
    BY <1>1, <1>3, <1>5, <1>7
<1> HIDE DEF held, next
<1>11. CASE r.nextPhase \in Waiting /\ KeepWaiting(waiting, held, g - d)
    <2>1. Timeout(r.nextPhase) \in Nat
        BY ConstantsAssumption DEF Timeout
    <2>2. /\ waiting \in Snapshots
          /\ waiting.sessionId = k /\ waiting.step = s.step + 1
          /\ waiting.escrowedStake = next.escrowedStake
          /\ waiting.reservedProfit = next.reservedProfit
        BY <2>1, <1>5, <1>11, blockNumber + Timeout(r.nextPhase) \in Nat DEF Snapshots
    <2> HIDE DEF waiting
    <2>3. /\ balanceOf' = held
          /\ gain' = [gain EXCEPT ![k] = -waiting.escrowedStake]
          /\ sessionCommitments' = [sessionCommitments EXCEPT ![k] = waiting]
          /\ advanced' = advanced \cup {waiting}
          /\ settled' = settled
        BY <1>9, <1>11, <2>2 DEF KeepWaiting
    <2>4. WithinCaps(waiting, t)
        BY <1>4, <2>2 DEF WithinCaps
    <2>5. balanceOf'[Host] = balanceOf[Host] + waiting.escrowedStake - HeldFor(k)
        BY <1>6, <1>10, <2>2, <2>3, HeldFor(k) \in Nat DEF Snapshots
    <2>6. Continues(k, waiting, t)
        BY <1>71, <2>2, <2>3, <2>4, <2>5 DEF Continues
    <2>. QED BY <1>7, <1>8, <2>2, <2>3, <2>6
<1>12. CASE /\ r.nextPhase \in Terminal
            /\ FinalizeSession(t.player, next, r.nextPhase, r.payout, held, g - d)
    <2> DEFINE x == g - d + r.payout
               e == [phase |-> r.nextPhase, payout |-> r.payout]
    <2>1. /\ CanSettle(held, next, r.payout)
          /\ balanceOf' = AfterSettlement(held, t.player, next, r.payout)
          /\ sessionCommitments' = [sessionCommitments EXCEPT ![k] = None]
          /\ settled' = [settled EXCEPT ![k] = e]
          /\ gain' = [gain EXCEPT ![k] = x]
          /\ advanced' = advanced
        BY <1>5, <1>12 DEF FinalizeSession
    <2>2. /\ balanceOf' \in [Accounts -> Nat]
          /\ balanceOf'[Host] = held[Host] - next.escrowedStake
          /\ balanceOf'[Vault] = held[Vault] + next.escrowedStake - r.payout
          /\ Total(balanceOf') = Total(held)
        BY <2>1, <1>1, <1>2, <1>5, <1>7, SettlementEffect
    <2>3. e \in Settlements
        BY <1>1, <1>12 DEF Settlements
    <2>4. x \in Int /\ -t.maxEscrowStake <= x /\ x <= t.maxReservedProfit
        BY <1>1, <1>2, <1>4, <1>6, <1>9, <2>1 DEF CanSettle, WithinCaps
    <2>5. balanceOf'[Host] = balanceOf[Host] - HeldFor(k)
        BY <1>6, <1>10, <2>2, HeldFor(k) \in Nat
    <2>51. balanceOf'[Vault] = balanceOf[Vault] - x
        <3>1. held[Vault] \in Nat
            BY <1>2, <1>7
        <3>. QED BY <1>1, <1>6, <1>71, <1>9, <2>2, <3>1
    <2>6. EndsOne(k, x, t)
        BY <1>71, <2>1, <2>2, <2>3, <2>4, <2>5, <2>51 DEF EndsOne
    <2>. QED BY <1>8, <2>2, <2>6
<1>. QED BY <1>4, <1>11, <1>12

-----------------------------------------------------------------------------
(***************************************************************************)
(* The four kinds of step, seen from the sessions.                         *)
(***************************************************************************)

Opens ==
    \E t \in Terms :
        LET k == currentSessionId + 1
        IN  /\ k \in Ids
            /\ currentSessionId' = k
            /\ terms' = [terms EXCEPT ![k] = t]
            /\ UNCHANGED <<donated, totalSupply>>
            /\ \/ \E n : Continues(k, n, t)
               \/ \E x : EndsOne(k, x, t)

Moves ==
    \E k \in Ids :
        /\ sessionCommitments[k] # None
        /\ UNCHANGED <<currentSessionId, terms, donated, totalSupply>>
        /\ \/ \E n : /\ Continues(k, n, terms[k])
                     /\ n.step = sessionCommitments[k].step + 1
           \/ \E x : EndsOne(k, x, terms[k])

EndsTwo(k1, x1, e1, k2, x2, e2) ==
    /\ k1 # k2
    /\ sessionCommitments[k1] # None /\ sessionCommitments[k2] # None
    /\ UNCHANGED <<currentSessionId, terms, donated, advanced, totalSupply>>
    /\ -terms[k1].maxEscrowStake <= x1 /\ x1 <= terms[k1].maxReservedProfit
    /\ -terms[k2].maxEscrowStake <= x2 /\ x2 <= terms[k2].maxReservedProfit
    /\ sessionCommitments' = [sessionCommitments EXCEPT ![k1] = None, ![k2] = None]
    /\ settled' = [settled EXCEPT ![k1] = e1, ![k2] = e2]
    /\ gain' = [gain EXCEPT ![k1] = x1, ![k2] = x2]
    /\ balanceOf'[Host] = balanceOf[Host] - HeldFor(k1) - HeldFor(k2)
    /\ balanceOf'[Vault] = balanceOf[Vault] - x1 - x2
    /\ Total(balanceOf') = Total(balanceOf)

EndsBoth ==
    \E k1, k2 \in Ids, x1, x2 \in Int, e1, e2 \in Settlements :
        EndsTwo(k1, x1, e1, k2, x2, e2)

Rests ==
    /\ UNCHANGED sessionVars
    /\ \A a \in {Host, Vault} :
          \E x \in Nat : /\ balanceOf'[a] = balanceOf[a] + x
                         /\ donated'[a] = donated[a] + x
    /\ Total(balanceOf') - totalSupply' = Total(balanceOf) - totalSupply

\* The variables no session touches keep their types.
TokenTypes ==
    /\ blockNumber' \in Nat
    /\ balanceOf' \in [Accounts -> Nat]
    /\ allowance' \in [Players -> Nat]
    /\ totalSupply' \in Nat
    /\ registered' \subseteq Games
    /\ donated' \in [{Host, Vault} -> Nat]

LEMMA HeldType ==
    ASSUME TypeOK
    PROVE  /\ Held \in [Ids -> Nat]
           /\ \A k \in Ids : HeldFor(k) \in Nat /\ Held[k] = HeldFor(k)
<1>1. \A k \in Ids : HeldFor(k) \in Nat
    BY DEF TypeOK, HeldFor, Snapshots
<1>. QED BY <1>1 DEF Held

\* What an echoed snapshot tells about its session.
LEMMA LoadedFacts ==
    ASSUME TypeOK, SessionsConsistent, NEW s \in advanced, Loaded(s)
    PROVE  /\ s \in Snapshots /\ s.sessionId \in Ids
           /\ sessionCommitments[s.sessionId] = s /\ s # None
           /\ terms[s.sessionId] \in Terms
           /\ terms[s.sessionId].player \in Players
           /\ WithinCaps(s, terms[s.sessionId])
           /\ gain[s.sessionId] = -s.escrowedStake
           /\ HeldFor(s.sessionId) = s.escrowedStake
<1>1. s \in Snapshots /\ s.sessionId \in Ids /\ s # None
    BY ConstantsAssumption DEF TypeOK, Snapshots
<1>2. sessionCommitments[s.sessionId] = s
    BY DEF Loaded
<1>3. s.sessionId <= currentSessionId
    BY <1>1, <1>2 DEF SessionsConsistent
<1>4. /\ terms[s.sessionId] # None
      /\ WithinCaps(s, terms[s.sessionId])
      /\ gain[s.sessionId] = -s.escrowedStake
    BY <1>1, <1>2, <1>3 DEF SessionsConsistent
<1>5. terms[s.sessionId] \in Terms
    BY <1>1, <1>4 DEF TypeOK
<1>. QED BY <1>1, <1>2, <1>4, <1>5 DEF HeldFor, Terms

LEMMA OpenSessionEffect ==
    ASSUME TypeOK, SessionsConsistent,
           NEW p \in Players, NEW game \in Games, NEW wager \in Wagers,
           NEW cap \in Caps, NEW r \in StepResults,
           OpenSession(p, game, wager, cap, r)
    PROVE  TokenTypes /\ Opens
<1> DEFINE id == currentSessionId + 1
           t == [player |-> p, maxEscrowStake |-> cap.maxEscrowStake,
                 maxReservedProfit |-> cap.maxReservedProfit]
           s == [sessionId |-> id, escrowedStake |-> wager, reservedProfit |-> 0,
                 deadlineBlock |-> 0, step |-> 0, phase |-> "WAITING_RANDOMNESS"]
           bal == Moved(balanceOf, p, Host, wager)
           alw == Spent(allowance, p, wager)
<1>1. /\ id \in Ids
      /\ CanPull(balanceOf, allowance, p, wager)
      /\ currentSessionId' = id
      /\ terms' = [terms EXCEPT ![id] = t]
      /\ ProcessStepResult(t, s, r, TRUE, bal, alw, -wager)
      /\ UNCHANGED <<blockNumber, totalSupply, registered, donated>>
    BY DEF OpenSession
<1>2. wager \in Nat /\ t \in Terms /\ s \in Snapshots
    BY <1>1, ConstantsAssumption DEF Terms, Snapshots, Waiting
<1>3. p \in Accounts /\ Host \in Accounts /\ p # Host /\ Vault \in Accounts /\ Vault # p
      /\ Vault # Host
    BY ConstantsAssumption DEF Accounts
<1>4. bal \in [Accounts -> Nat] /\ bal[Host] = balanceOf[Host] + wager
      /\ bal[Vault] = balanceOf[Vault]
    BY <1>1, <1>2, <1>3 DEF TypeOK, CanPull, Moved
<1>41. Total(bal) = Total(balanceOf)
    BY <1>2, <1>3, MovedTotal DEF TypeOK
<1>5. alw \in [Players -> Nat]
    BY <1>1, <1>2 DEF TypeOK, CanPull, Spent
<1>6. HeldFor(s.sessionId) = 0 /\ balanceOf[Host] \in Nat
    <2>1. ~(id <= currentSessionId)
        BY DEF TypeOK
    <2>2. sessionCommitments[id] = None
        BY <1>1, <2>1 DEF SessionsConsistent
    <2>. QED BY <2>2, <1>3 DEF HeldFor, TypeOK
<1>7. /\ s.escrowedStake = wager /\ s.sessionId = id
      /\ bal[Host] = balanceOf[Host] - HeldFor(s.sessionId) + s.escrowedStake
      /\ blockNumber \in Nat
    BY <1>2, <1>4, <1>6 DEF TypeOK
<1> HIDE DEF t, s, bal, alw, id
<1>8. /\ balanceOf' \in [Accounts -> Nat]
      /\ allowance' \in [Players -> Nat]
      /\ \/ \E n : Continues(s.sessionId, n, t) /\ n.step = s.step + 1
         \/ \E x : EndsOne(s.sessionId, x, t)
    <2>1. -wager = -s.escrowedStake BY <1>7
    <2>2. HeldFor(s.sessionId) \in Nat BY <1>6
    <2>. QED BY <1>1, <1>2, <1>4, <1>41, <1>5, <1>6, <1>7, <2>1, <2>2, ProcessEffect
<1>9. Opens
    BY <1>1, <1>2, <1>7, <1>8 DEF Opens, id
<1>. QED BY <1>1, <1>8, <1>9 DEF TokenTypes, TypeOK

\* submitAction and onRandomnessFulfilled share everything but their guards.
LEMMA CallbackEffect ==
    ASSUME TypeOK, SessionsConsistent, NEW s \in advanced, NEW r \in StepResults,
           SubmitAction(s, r) \/ OnRandomnessFulfilled(s, r)
    PROVE  TokenTypes /\ Moves
<1> DEFINE k == s.sessionId
<1>1. PICK allow \in BOOLEAN :
        /\ Loaded(s)
        /\ ProcessStepResult(terms[k], s, r, allow, balanceOf, allowance, gain[k])
        /\ UNCHANGED <<blockNumber, totalSupply, registered, currentSessionId,
                       terms, donated>>
    BY DEF SubmitAction, OnRandomnessFulfilled
<1>2. /\ s \in Snapshots /\ k \in Ids /\ sessionCommitments[k] = s /\ s # None
      /\ terms[k] \in Terms /\ gain[k] = -s.escrowedStake
      /\ HeldFor(k) = s.escrowedStake
    BY <1>1, LoadedFacts
<1>3. /\ balanceOf \in [Accounts -> Nat] /\ allowance \in [Players -> Nat]
      /\ balanceOf[Host] \in Nat /\ HeldFor(k) \in Nat
      /\ balanceOf[Host] = balanceOf[Host] - HeldFor(k) + s.escrowedStake
      /\ blockNumber \in Nat
    BY <1>2 DEF TypeOK, Accounts, Snapshots
<1>4. /\ balanceOf' \in [Accounts -> Nat]
      /\ allowance' \in [Players -> Nat]
      /\ \/ \E n : Continues(k, n, terms[k]) /\ n.step = s.step + 1
         \/ \E x : EndsOne(k, x, terms[k])
    BY <1>1, <1>2, <1>3, ProcessEffect
<1>5. Moves
    BY <1>1, <1>2, <1>4 DEF Moves
<1>. QED BY <1>1, <1>4, <1>5 DEF TokenTypes, TypeOK

\* A settlement straight from the committed snapshot: cancel and forfeit.
LEMMA FinalizeEffect ==
    ASSUME TypeOK, SessionsConsistent, NEW s \in advanced, Loaded(s),
           NEW phase \in Terminal, NEW payout \in Nat,
           FinalizeSession(terms[s.sessionId].player, s, phase, payout, balanceOf,
                           gain[s.sessionId]),
           UNCHANGED <<blockNumber, allowance, totalSupply, registered,
                       currentSessionId, terms, donated>>
    PROVE  TokenTypes /\ Moves
<1> DEFINE k == s.sessionId
           x == gain[k] + payout
           e == [phase |-> phase, payout |-> payout]
<1>1. /\ s \in Snapshots /\ k \in Ids /\ sessionCommitments[k] = s /\ s # None
      /\ terms[k] \in Terms /\ terms[k].player \in Players
      /\ WithinCaps(s, terms[k])
      /\ gain[k] = -s.escrowedStake /\ HeldFor(k) = s.escrowedStake
    BY LoadedFacts
<1>2. /\ CanSettle(balanceOf, s, payout)
      /\ balanceOf' = AfterSettlement(balanceOf, terms[k].player, s, payout)
      /\ sessionCommitments' = [sessionCommitments EXCEPT ![k] = None]
      /\ settled' = [settled EXCEPT ![k] = e]
      /\ gain' = [gain EXCEPT ![k] = x]
      /\ advanced' = advanced
    BY DEF FinalizeSession
<1>3. /\ balanceOf' \in [Accounts -> Nat]
      /\ balanceOf'[Host] = balanceOf[Host] - s.escrowedStake
      /\ balanceOf'[Vault] = balanceOf[Vault] + s.escrowedStake - payout
      /\ Total(balanceOf') = Total(balanceOf)
    BY <1>1, <1>2, SettlementEffect DEF TypeOK
<1>4. e \in Settlements
    BY DEF Settlements
<1>5. x \in Int /\ -terms[k].maxEscrowStake <= x /\ x <= terms[k].maxReservedProfit
    BY <1>1, <1>2 DEF CanSettle, WithinCaps, Snapshots, Terms
<1>51. balanceOf'[Vault] = balanceOf[Vault] - x
    BY <1>1, <1>3, FiniteDomains DEF Snapshots, TypeOK
<1> HIDE DEF x, e, k
<1>6. EndsOne(k, x, terms[k])
    BY <1>1, <1>2, <1>3, <1>4, <1>5, <1>51 DEF EndsOne
<1>. QED BY <1>1, <1>3, <1>6 DEF Moves, TokenTypes, TypeOK

LEMMA CancelEffect ==
    ASSUME TypeOK, SessionsConsistent, NEW s \in advanced, CancelStuckRandomness(s)
    PROVE  TokenTypes /\ Moves
<1>1. Loaded(s) BY DEF CancelStuckRandomness
<1>2. s.escrowedStake \in Nat BY <1>1, LoadedFacts DEF Snapshots
<1>3. "CANCELLED" \in Terminal BY DEF Terminal
<1>. QED BY <1>1, <1>2, <1>3, FinalizeEffect DEF CancelStuckRandomness

LEMMA ForfeitEffect ==
    ASSUME TypeOK, SessionsConsistent, NEW s \in advanced, NEW q \in ForfeitQuotes,
           ForfeitExpiredSession(s, q)
    PROVE  TokenTypes /\ Moves
<1>1. Loaded(s) BY DEF ForfeitExpiredSession, ForfeitDue
<1>2. s \in Snapshots BY <1>1, LoadedFacts
<1>3. q \in Nat BY ConstantsAssumption
<1>4. ForfeitPayout(s, q) \in Nat BY <1>2, <1>3, ForfeitPayoutBound
<1>5. "FORFEITED" \in Terminal BY DEF Terminal
<1>. QED BY <1>1, <1>4, <1>5, FinalizeEffect DEF ForfeitExpiredSession

LEMMA BatchEffect ==
    ASSUME TypeOK, SessionsConsistent, NEW s1 \in advanced, NEW s2 \in advanced,
           NEW q1 \in ForfeitQuotes, NEW q2 \in ForfeitQuotes,
           ForfeitExpiredSessions(s1, q1, s2, q2)
    PROVE  TokenTypes /\ EndsBoth
<1> DEFINE k1 == s1.sessionId
           k2 == s2.sessionId
           pay1 == ForfeitPayout(s1, q1)
           pay2 == ForfeitPayout(s2, q2)
           bal1 == AfterSettlement(balanceOf, terms[k1].player, s1, pay1)
           e1 == [phase |-> "FORFEITED", payout |-> pay1]
           e2 == [phase |-> "FORFEITED", payout |-> pay2]
           x1 == gain[k1] + pay1
           x2 == gain[k2] + pay2
<1>1. /\ Loaded(s1) /\ Loaded(s2) /\ k1 # k2
      /\ CanSettle(balanceOf, s1, pay1) /\ CanSettle(bal1, s2, pay2)
      /\ balanceOf' = AfterSettlement(bal1, terms[k2].player, s2, pay2)
      /\ sessionCommitments' = [sessionCommitments EXCEPT ![k1] = None, ![k2] = None]
      /\ settled' = [settled EXCEPT ![k1] = e1, ![k2] = e2]
      /\ UNCHANGED <<blockNumber, allowance, totalSupply, registered,
                     currentSessionId, terms, advanced, donated>>
    BY DEF ForfeitExpiredSessions, ForfeitDue
<1>2. /\ s1 \in Snapshots /\ k1 \in Ids /\ sessionCommitments[k1] # None
      /\ terms[k1] \in Terms /\ terms[k1].player \in Players
      /\ WithinCaps(s1, terms[k1])
      /\ gain[k1] = -s1.escrowedStake /\ HeldFor(k1) = s1.escrowedStake
    BY <1>1, LoadedFacts
<1>3. /\ s2 \in Snapshots /\ k2 \in Ids /\ sessionCommitments[k2] # None
      /\ terms[k2] \in Terms /\ terms[k2].player \in Players
      /\ WithinCaps(s2, terms[k2])
      /\ gain[k2] = -s2.escrowedStake /\ HeldFor(k2) = s2.escrowedStake
    BY <1>1, LoadedFacts
<1>4. pay1 \in Nat /\ pay2 \in Nat
    BY <1>2, <1>3, ConstantsAssumption, ForfeitPayoutBound
<1>5. gain' = [gain EXCEPT ![k1] = x1, ![k2] = x2]
    <2>1. gain' = [gain EXCEPT ![k1] = @ + pay1, ![k2] = @ + pay2]
        BY DEF ForfeitExpiredSessions
    <2>. QED BY <2>1, <1>1
<1> HIDE DEF pay1, pay2, e1, e2
<1>6. /\ bal1 \in [Accounts -> Nat]
      /\ bal1[Host] = balanceOf[Host] - s1.escrowedStake
      /\ bal1[Vault] = balanceOf[Vault] + s1.escrowedStake - pay1
      /\ Total(bal1) = Total(balanceOf)
    BY <1>1, <1>2, <1>4, SettlementEffect DEF TypeOK
<1> HIDE DEF bal1
<1>7. /\ balanceOf' \in [Accounts -> Nat]
      /\ balanceOf'[Host] = bal1[Host] - s2.escrowedStake
      /\ balanceOf'[Vault] = bal1[Vault] + s2.escrowedStake - pay2
      /\ Total(balanceOf') = Total(bal1)
    BY <1>1, <1>3, <1>4, <1>6, SettlementEffect
<1>8. e1 \in Settlements /\ e2 \in Settlements
    BY <1>4 DEF e1, e2, Settlements, Terminal
<1>9. /\ x1 \in Int /\ -terms[k1].maxEscrowStake <= x1
      /\ x1 <= terms[k1].maxReservedProfit
    BY <1>1, <1>2, <1>4 DEF CanSettle, WithinCaps, Snapshots, Terms
<1>10. /\ x2 \in Int /\ -terms[k2].maxEscrowStake <= x2
       /\ x2 <= terms[k2].maxReservedProfit
    BY <1>1, <1>3, <1>4 DEF CanSettle, WithinCaps, Snapshots, Terms
<1>101. balanceOf'[Vault] = balanceOf[Vault] - x1 - x2
    <2>1. balanceOf[Vault] \in Int /\ s1.escrowedStake \in Int /\ s2.escrowedStake \in Int
        BY <1>2, <1>3, FiniteDomains DEF Snapshots, TypeOK
    <2>. QED BY <1>2, <1>3, <1>4, <1>6, <1>7, <2>1
<1> HIDE DEF x1, x2, k1, k2
<1>11. balanceOf'[Host] = balanceOf[Host] - HeldFor(k1) - HeldFor(k2)
    BY <1>2, <1>3, <1>6, <1>7
<1>12. EndsTwo(k1, x1, e1, k2, x2, e2)
    BY <1>1, <1>2, <1>3, <1>5, <1>8, <1>6, <1>7, <1>9, <1>10, <1>101, <1>11 DEF EndsTwo
<1>13. EndsBoth
    BY <1>2, <1>3, <1>8, <1>9, <1>10, <1>12 DEF EndsBoth
<1>. QED BY <1>1, <1>7, <1>13 DEF TokenTypes, TypeOK

LEMMA RestEffect ==
    ASSUME TypeOK,
           \/ \E game \in Games, named \in BOOLEAN : RegisterGame(game, named)
           \/ \E a \in Accounts, amount \in Grants : Mint(a, amount)
           \/ \E p \in Players, amount \in Approvals \cup {UINT_MAX} : Approve(p, amount)
           \/ \E p \in Players, a \in Accounts, amount \in Grants : Transfer(p, a, amount)
           \/ Mine
           \/ UNCHANGED vars
    PROVE  TokenTypes /\ Rests
<1> USE ConstantsAssumption DEF TokenTypes, TypeOK, tokenVars
<1>0. /\ Host \in Accounts /\ Vault \in Accounts /\ Host # Vault /\ IsFiniteSet(Accounts)
      /\ balanceOf[Host] \in Nat /\ donated[Host] \in Nat
      /\ balanceOf[Vault] \in Nat /\ donated[Vault] \in Nat
      /\ Integral(balanceOf, Accounts) /\ Total(balanceOf) \in Int
    BY FiniteDomains, SumType DEF Integral, Total
\* What a mint or a transfer gives to the two contracts is a donation.
<1>1. ASSUME NEW a \in Accounts, NEW amount \in Nat, donated' = Donation(a, amount),
             \A c \in {Host, Vault} :
                balanceOf'[c] = balanceOf[c] + IF c = a THEN amount ELSE 0
      PROVE  /\ donated' \in [{Host, Vault} -> Nat]
             /\ \A c \in {Host, Vault} :
                   \E x \in Nat : /\ balanceOf'[c] = balanceOf[c] + x
                                  /\ donated'[c] = donated[c] + x
    <2>1. \A c \in {Host, Vault} : donated'[c] = donated[c] + IF c = a THEN amount ELSE 0
        BY <1>0, <1>1 DEF Donation
    <2>2. donated' \in [{Host, Vault} -> Nat]
        BY <1>0, <1>1 DEF Donation
    <2>3. \A c \in {Host, Vault} : (IF c = a THEN amount ELSE 0) \in Nat
        OBVIOUS
    <2>. QED BY <1>1, <2>1, <2>2, <2>3
<1>2. ASSUME UNCHANGED <<sessionVars, balanceOf, totalSupply, donated>>
      PROVE  Rests
    <2>1. \A c \in {Host, Vault} : balanceOf[c] = balanceOf[c] + 0 /\ donated[c] = donated[c] + 0
        BY <1>0
    <2>. QED BY <1>2, <2>1, 0 \in Nat DEF Rests
<1>3. CASE \E game \in Games, named \in BOOLEAN : RegisterGame(game, named)
    <2>1. UNCHANGED <<blockNumber, tokenVars, sessionVars, donated>> /\ registered' \subseteq Games
        BY <1>3 DEF RegisterGame
    <2>. QED BY <2>1, <1>2
<1>4. ASSUME NEW a \in Accounts, NEW amount \in Grants, Mint(a, amount)
      PROVE  TokenTypes /\ Rests
    <2>1. amount \in Nat OBVIOUS
    <2>2. /\ UNCHANGED sessionVars /\ UNCHANGED <<blockNumber, allowance, registered>>
          /\ totalSupply' = totalSupply + amount
          /\ balanceOf' = [balanceOf EXCEPT ![a] = balanceOf[a] + amount]
          /\ donated' = Donation(a, amount)
        BY <1>4 DEF Mint
    <2>3. /\ balanceOf' \in [Accounts -> Nat] /\ totalSupply' \in Nat
          /\ balanceOf'[a] = balanceOf[a] + amount /\ balanceOf[a] \in Nat
          /\ \A c \in Accounts \ {a} : balanceOf[c] = balanceOf'[c]
        BY <2>1, <2>2
    <2>4. \A c \in {Host, Vault} : balanceOf'[c] = balanceOf[c] + IF c = a THEN amount ELSE 0
        BY <2>1, <2>3, <1>0
    <2>5. Total(balanceOf') = Total(balanceOf) - balanceOf[a] + balanceOf'[a]
        <3>1. balanceOf'[a] \in Int
            BY <2>3
        <3>. QED BY <1>0, <2>3, <3>1, SumUpdate DEF Total
    <2>6. Total(balanceOf') - totalSupply' = Total(balanceOf) - totalSupply
        BY <1>0, <2>1, <2>2, <2>3, <2>5
    <2>. QED BY <1>1, <2>1, <2>2, <2>3, <2>4, <2>6 DEF Rests
<1>5. ASSUME NEW p \in Players, NEW amount \in Approvals \cup {UINT_MAX},
             Approve(p, amount)
      PROVE  TokenTypes /\ Rests
    BY <1>2, <1>5 DEF Approve
<1>6. ASSUME NEW p \in Players, NEW a \in Accounts, NEW amount \in Grants,
             Transfer(p, a, amount)
      PROVE  TokenTypes /\ Rests
    <2>1. /\ amount \in Nat /\ amount <= balanceOf[p] /\ balanceOf[p] \in Nat
          /\ p \in Accounts /\ p # Host /\ p # Vault
        BY <1>6, FiniteDomains DEF Transfer
    <2>2. /\ UNCHANGED sessionVars
          /\ UNCHANGED <<blockNumber, allowance, totalSupply, registered>>
          /\ balanceOf' = Moved(balanceOf, p, a, amount)
          /\ donated' = Donation(a, amount)
        BY <1>6 DEF Transfer
    <2>3. balanceOf' \in [Accounts -> Nat]
        BY <2>1, <2>2 DEF Moved
    <2>4. \A c \in {Host, Vault} : balanceOf'[c] = balanceOf[c] + IF c = a THEN amount ELSE 0
        BY <2>1, <2>2, <1>0 DEF Moved
    <2>5. Total(balanceOf') = Total(balanceOf)
        BY <2>1, <2>2, MovedTotal
    <2>. QED BY <1>1, <2>1, <2>2, <2>3, <2>4, <2>5 DEF Rests
<1>7. CASE Mine
    BY <1>2, <1>7 DEF Mine
<1>8. CASE UNCHANGED vars
    BY <1>2, <1>8 DEF vars
<1>. QED BY <1>3, <1>4, <1>5, <1>6, <1>7, <1>8

\* Every step is of one of the four kinds.
LEMMA StepEffect ==
    ASSUME TypeOK, SessionsConsistent, [Next]_vars
    PROVE  /\ TokenTypes
           /\ Opens \/ Moves \/ EndsBoth \/ Rests
BY OpenSessionEffect, CallbackEffect, CancelEffect, ForfeitEffect, BatchEffect,
   RestEffect DEF Next

-----------------------------------------------------------------------------
(***************************************************************************)
(* The inductive invariant.  Types alone are not inductive: a settlement   *)
(* pays the player named in `terms', and takes the escrow recorded in an   *)
(* echoed snapshot, so the step needs to know that the snapshot belongs to *)
(* an open session.  CurrentIsLatest needs that too, and gives the replay  *)
(* protection.                                                             *)
(***************************************************************************)

SessionInv == TypeOK /\ SessionsConsistent /\ CurrentIsLatest

LEMMA InitSessionInv == Init => SessionInv
<1> SUFFICES ASSUME Init PROVE SessionInv
    OBVIOUS
<1>1. Cardinality(Players) \in Nat
    BY ConstantsAssumption, FS_CardinalityType
<1>2. Cardinality(Players) * Purse + Bankroll \in Nat
    BY <1>1, ConstantsAssumption
<1>3. TypeOK
    BY <1>2, ConstantsAssumption DEF Init, TypeOK, Accounts, Ids
<1>4. SessionsConsistent /\ CurrentIsLatest
    BY ConstantsAssumption DEF Init, SessionsConsistent, CurrentIsLatest, Ids
<1>. QED BY <1>3, <1>4 DEF SessionInv

LEMMA TypeStep ==
    ASSUME TypeOK, TokenTypes, Opens \/ Moves \/ EndsBoth \/ Rests
    PROVE  TypeOK'
<1> DEFINE SessionTypes == /\ currentSessionId' \in 0..UINT64_MAX
                           /\ sessionCommitments' \in [Ids -> Snapshots \cup {None}]
                           /\ terms' \in [Ids -> Terms \cup {None}]
                           /\ advanced' \subseteq Snapshots
                           /\ settled' \in [Ids -> Settlements \cup {None}]
                           /\ gain' \in [Ids -> Int]
<1> SUFFICES SessionTypes
    BY DEF TypeOK, TokenTypes
<1> USE DEF TypeOK
<1>1. ASSUME NEW k \in Ids, NEW n, NEW t, Continues(k, n, t)
      PROVE  /\ sessionCommitments' \in [Ids -> Snapshots \cup {None}]
             /\ advanced' \subseteq Snapshots
             /\ settled' \in [Ids -> Settlements \cup {None}]
             /\ gain' \in [Ids -> Int]
    <2>1. n \in Snapshots /\ -n.escrowedStake \in Int
        BY <1>1 DEF Continues, Snapshots
    <2>. QED BY <1>1, <2>1 DEF Continues
<1>2. ASSUME NEW k \in Ids, NEW x, NEW t, EndsOne(k, x, t)
      PROVE  /\ sessionCommitments' \in [Ids -> Snapshots \cup {None}]
             /\ advanced' \subseteq Snapshots
             /\ settled' \in [Ids -> Settlements \cup {None}]
             /\ gain' \in [Ids -> Int]
    BY <1>2 DEF EndsOne
<1>3. CASE Opens
    <2>1. PICK t \in Terms :
             LET k == currentSessionId + 1
             IN  /\ k \in Ids /\ currentSessionId' = k
                 /\ terms' = [terms EXCEPT ![k] = t]
                 /\ (\E n : Continues(k, n, t)) \/ (\E x : EndsOne(k, x, t))
        BY <1>3 DEF Opens
    <2>2. currentSessionId' \in 0..UINT64_MAX
        BY <2>1, ConstantsAssumption DEF Ids
    <2>. QED BY <2>1, <2>2, <1>1, <1>2
<1>4. CASE Moves
    BY <1>4, <1>1, <1>2 DEF Moves
<1>5. CASE EndsBoth
    BY <1>5 DEF EndsBoth, EndsTwo
<1>6. CASE Rests
    BY <1>6 DEF Rests, sessionVars
<1>. QED BY <1>3, <1>4, <1>5, <1>6

LEMMA ConsistentStep ==
    ASSUME TypeOK, SessionsConsistent, Opens \/ Moves \/ EndsBoth \/ Rests
    PROVE  SessionsConsistent'
<1> DEFINE ConsistentAt(j) ==
        LET c == sessionCommitments'[j]
        IN  IF j <= currentSessionId'
            THEN /\ terms'[j] # None
                 /\ c = None <=> settled'[j] # None
                 /\ c # None => /\ c.sessionId = j
                                /\ c \in advanced'
                                /\ WithinCaps(c, terms'[j])
                                /\ gain'[j] = -c.escrowedStake
            ELSE c = None /\ settled'[j] = None /\ terms'[j] = None /\ gain'[j] = 0
           Kept(j) == /\ sessionCommitments'[j] = sessionCommitments[j]
                      /\ settled'[j] = settled[j]
                      /\ terms'[j] = terms[j]
                      /\ gain'[j] = gain[j]
<1> SUFFICES ASSUME NEW j \in Ids PROVE ConsistentAt(j)
    BY DEF SessionsConsistent
<1> USE DEF TypeOK
<1>1. ASSUME Kept(j), advanced \subseteq advanced',
             j <= currentSessionId' <=> j <= currentSessionId
      PROVE  ConsistentAt(j)
    BY <1>1 DEF SessionsConsistent
<1>2. ASSUME NEW n, Continues(j, n, terms'[j]), j <= currentSessionId',
             terms'[j] # None, settled[j] = None
      PROVE  ConsistentAt(j)
    <2>1. n # None /\ n \in Snapshots
        BY <1>2, ConstantsAssumption DEF Continues
    <2>2. sessionCommitments'[j] = n /\ gain'[j] = -n.escrowedStake
        BY <1>2 DEF Continues
    <2>. QED BY <1>2, <2>1, <2>2 DEF Continues
<1>3. ASSUME NEW x, EndsOne(j, x, terms'[j]), j <= currentSessionId', terms'[j] # None
      PROVE  ConsistentAt(j)
    <2>1. sessionCommitments'[j] = None /\ settled'[j] \in Settlements
        BY <1>3 DEF EndsOne
    <2>. QED BY <1>3, <2>1, ConstantsAssumption
<1>4. ASSUME NEW k \in Ids, k # j, NEW t,
             (\E n : Continues(k, n, t)) \/ (\E x : EndsOne(k, x, t))
      PROVE  /\ sessionCommitments'[j] = sessionCommitments[j]
             /\ settled'[j] = settled[j] /\ gain'[j] = gain[j]
             /\ advanced \subseteq advanced'
    BY <1>4 DEF Continues, EndsOne
<1> HIDE DEF ConsistentAt
<1>5. CASE Opens
    <2> DEFINE k == currentSessionId + 1
    <2>1. PICK t \in Terms :
             /\ k \in Ids /\ currentSessionId' = k
             /\ terms' = [terms EXCEPT ![k] = t]
             /\ (\E n : Continues(k, n, t)) \/ (\E x : EndsOne(k, x, t))
        BY <1>5 DEF Opens
    <2>2. CASE j = k
        <3>1. terms'[j] = t /\ t # None /\ j <= currentSessionId'
            BY <2>1, <2>2, ConstantsAssumption DEF Ids
        <3>2. settled[j] = None
            BY <2>1, <2>2 DEF SessionsConsistent, Ids
        <3>. QED BY <2>1, <2>2, <3>1, <3>2, <1>2, <1>3
    <2>3. CASE j # k
        <3>1. terms'[j] = terms[j] BY <2>1, <2>3
        <3>2. j <= currentSessionId' <=> j <= currentSessionId
            BY <2>1, <2>3 DEF Ids
        <3>. QED BY <2>1, <2>3, <3>1, <3>2, <1>1, <1>4
    <2>. QED BY <2>2, <2>3
<1>6. CASE Moves
    <2>1. PICK k \in Ids :
             /\ sessionCommitments[k] # None
             /\ UNCHANGED <<currentSessionId, terms>>
             /\ (\E n : Continues(k, n, terms[k])) \/ (\E x : EndsOne(k, x, terms[k]))
        BY <1>6 DEF Moves
    <2>2. CASE j = k
        <3>1. j <= currentSessionId' /\ terms'[j] # None /\ settled[j] = None
            BY <2>1, <2>2 DEF SessionsConsistent
        <3>. QED BY <2>1, <2>2, <3>1, <1>2, <1>3
    <2>3. CASE j # k
        BY <2>1, <2>3, <1>1, <1>4
    <2>. QED BY <2>2, <2>3
<1>7. CASE EndsBoth
    <2>1. PICK k1 \in Ids, k2 \in Ids, x1 \in Int, x2 \in Int,
               e1 \in Settlements, e2 \in Settlements :
             EndsTwo(k1, x1, e1, k2, x2, e2)
        BY <1>7 DEF EndsBoth
    <2>2. CASE j \in {k1, k2}
        <3>1. j <= currentSessionId' /\ terms'[j] # None
            BY <2>1, <2>2 DEF SessionsConsistent, EndsTwo
        <3>2. sessionCommitments'[j] = None /\ settled'[j] \in {e1, e2}
            BY <2>1, <2>2 DEF EndsTwo
        <3>. QED BY <3>1, <3>2, ConstantsAssumption DEF ConsistentAt
    <2>3. CASE j \notin {k1, k2}
        <3>1. Kept(j) /\ UNCHANGED <<advanced, currentSessionId>>
            BY <2>1, <2>3 DEF EndsTwo
        <3>. QED BY <2>1, <3>1, <1>1
    <2>. QED BY <2>2, <2>3
<1>8. CASE Rests
    BY <1>8, <1>1 DEF Rests, sessionVars
<1>. QED BY <1>5, <1>6, <1>7, <1>8

\* A step never emits a snapshot for a session that has a later one, and never
\* goes back to one that was emitted before.
LEMMA LatestStep ==
    ASSUME SessionInv, TypeOK', Opens \/ Moves \/ EndsBoth \/ Rests
    PROVE  /\ CurrentIsLatest'
           /\ \A s \in advanced : ~Loaded(s) => ~Loaded(s)'
<1> USE DEF SessionInv, TypeOK
<1>1. ASSUME NEW k \in Ids, NEW n, NEW t, Continues(k, n, t),
             k <= currentSessionId', currentSessionId <= currentSessionId',
             \A e \in advanced : e.sessionId = k => e.step < n.step
      PROVE  /\ CurrentIsLatest'
             /\ \A s \in advanced : ~Loaded(s) => ~Loaded(s)'
    <2>1. /\ n \in Snapshots /\ n.sessionId = k /\ n # None
          /\ sessionCommitments'[k] = n
          /\ \A j \in Ids : j # k => sessionCommitments'[j] = sessionCommitments[j]
          /\ advanced' = advanced \cup {n}
        BY <1>1, ConstantsAssumption DEF Continues
    <2>2. ASSUME NEW e \in advanced'
          PROVE  LET c == sessionCommitments'[e.sessionId]
                 IN  /\ e.sessionId <= currentSessionId'
                     /\ c # None => e.step <= c.step /\ (e.step = c.step => e = c)
        <3>1. CASE e = n
            BY <3>1, <2>1, <1>1 DEF Snapshots
        <3>2. CASE e # n
            <4>1. e \in advanced /\ e \in Snapshots /\ e.sessionId \in Ids
                BY <3>2, <2>1 DEF Snapshots
            <4>2. e.sessionId <= currentSessionId'
                BY <4>1, <1>1 DEF CurrentIsLatest, Ids
            <4>3. CASE e.sessionId = k
                BY <4>1, <4>2, <4>3, <2>1, <1>1 DEF Snapshots
            <4>4. CASE e.sessionId # k
                BY <4>1, <4>2, <4>4, <2>1 DEF CurrentIsLatest
            <4>. QED BY <4>3, <4>4
        <3>. QED BY <3>1, <3>2
    <2>3. ASSUME NEW s \in advanced, ~Loaded(s)
          PROVE  ~Loaded(s)'
        <3>1. s \in Snapshots /\ s.sessionId \in Ids
            BY DEF Snapshots
        <3>2. CASE s.sessionId = k
            BY <3>1, <3>2, <2>1, <1>1 DEF Loaded, Snapshots
        <3>3. CASE s.sessionId # k
            BY <3>1, <3>3, <2>1, <2>3 DEF Loaded
        <3>. QED BY <3>2, <3>3
    <2>. QED BY <2>2, <2>3 DEF CurrentIsLatest
<1>2. ASSUME advanced' = advanced, currentSessionId <= currentSessionId',
             \A j \in Ids : sessionCommitments'[j] \in {None, sessionCommitments[j]}
      PROVE  /\ CurrentIsLatest'
             /\ \A s \in advanced : ~Loaded(s) => ~Loaded(s)'
    <2>1. ASSUME NEW e \in advanced
          PROVE  /\ e \in Snapshots /\ e # None /\ e.sessionId \in Ids
                 /\ e.sessionId <= currentSessionId'
                 /\ sessionCommitments'[e.sessionId] \in {None, sessionCommitments[e.sessionId]}
        <3>1. e \in Snapshots /\ e # None
            BY ConstantsAssumption
        <3>2. e.sessionId \in Ids
            BY <3>1 DEF Snapshots
        <3>3. e.sessionId <= currentSessionId'
            BY <3>2, <1>2 DEF CurrentIsLatest, Ids
        <3>. QED BY <3>1, <3>2, <3>3, <1>2
    <2>. QED BY <2>1, <1>2 DEF CurrentIsLatest, Loaded
<1>3. CASE Opens
    <2> DEFINE k == currentSessionId + 1
    <2>1. PICK t \in Terms :
             /\ k \in Ids /\ currentSessionId' = k
             /\ (\E n : Continues(k, n, t)) \/ (\E x : EndsOne(k, x, t))
        BY <1>3 DEF Opens
    <2>2. currentSessionId <= currentSessionId' /\ k <= currentSessionId'
        BY <2>1 DEF Ids
    <2>3. \A e \in advanced : e.sessionId # k
        BY <2>1 DEF CurrentIsLatest, Ids
    <2>4. ASSUME NEW n, Continues(k, n, t)
          PROVE  /\ CurrentIsLatest'
                 /\ \A s \in advanced : ~Loaded(s) => ~Loaded(s)'
        BY <2>1, <2>2, <2>3, <2>4, <1>1
    <2>5. ASSUME NEW x, EndsOne(k, x, t)
          PROVE  /\ CurrentIsLatest'
                 /\ \A s \in advanced : ~Loaded(s) => ~Loaded(s)'
        BY <2>1, <2>2, <2>5, <1>2 DEF EndsOne
    <2>. QED BY <2>1, <2>4, <2>5
<1>4. CASE Moves
    <2>1. PICK k \in Ids :
             /\ sessionCommitments[k] # None
             /\ UNCHANGED <<currentSessionId, terms>>
             /\ \/ \E n : /\ Continues(k, n, terms[k])
                          /\ n.step = sessionCommitments[k].step + 1
                \/ \E x : EndsOne(k, x, terms[k])
        BY <1>4 DEF Moves
    <2>2. /\ currentSessionId <= currentSessionId' /\ k <= currentSessionId'
          /\ sessionCommitments[k] \in Snapshots
        BY <2>1 DEF SessionsConsistent, Ids
    <2>3. \A e \in advanced : e.sessionId = k => e.step <= sessionCommitments[k].step
        BY <2>1 DEF CurrentIsLatest
    <2>4. ASSUME NEW n, Continues(k, n, terms[k]),
                 n.step = sessionCommitments[k].step + 1
          PROVE  /\ CurrentIsLatest'
                 /\ \A s \in advanced : ~Loaded(s) => ~Loaded(s)'
        <3>1. \A e \in advanced : e.sessionId = k => e.step < n.step
            BY <2>2, <2>3, <2>4 DEF Snapshots
        <3>. QED BY <2>2, <2>4, <3>1, <1>1
    <2>5. ASSUME NEW x, EndsOne(k, x, terms[k])
          PROVE  /\ CurrentIsLatest'
                 /\ \A s \in advanced : ~Loaded(s) => ~Loaded(s)'
        BY <2>2, <2>5, <1>2 DEF EndsOne
    <2>. QED BY <2>1, <2>4, <2>5
<1>5. CASE EndsBoth
    BY <1>5, <1>2 DEF EndsBoth, EndsTwo
<1>6. CASE Rests
    BY <1>6, <1>2 DEF Rests, sessionVars
<1>. QED BY <1>3, <1>4, <1>5, <1>6

-----------------------------------------------------------------------------
(***************************************************************************)
(* The books: each kind of step changes the balances of host and vault by  *)
(* what it changes the two sums over all sessions.                         *)
(***************************************************************************)

Books == EscrowBacked /\ HouseBooksBalance

HeldSum == SumFunctionOnSet(Held, Ids)
OutcomeSum == SumFunctionOnSet(Outcomes, Ids)

LEMMA BooksAsSums ==
    ASSUME TypeOK
    PROVE  Books <=> /\ balanceOf[Host] = donated[Host] + HeldSum
                     /\ balanceOf[Vault] = Bankroll + donated[Vault] - OutcomeSum
                     /\ totalSupply = Total(balanceOf)
<1>1. DOMAIN Held = Ids /\ DOMAIN Outcomes = Ids /\ DOMAIN balanceOf = Accounts
    BY DEF Held, Outcomes, TypeOK
<1>. QED BY <1>1 DEF Books, EscrowBacked, HouseBooksBalance, SumFunction, SumFunctionOnSet,
             FoldFunction, HeldSum, OutcomeSum, Total

LEMMA InitBooks == Init => Books
<1>. SUFFICES ASSUME Init PROVE Books
    OBVIOUS
<1>1. TypeOK
    BY InitSessionInv DEF SessionInv
<1>2. \A s \in Ids : Held[s] = 0 /\ Outcomes[s] = 0
    BY DEF Init, Held, HeldFor, Outcomes
<1>3. HeldSum = 0 /\ OutcomeSum = 0
    BY <1>2, FiniteDomains, SumOfZeros DEF HeldSum, OutcomeSum
<1>4. /\ balanceOf[Host] = 0 /\ balanceOf[Vault] = Bankroll
      /\ donated[Host] = 0 /\ donated[Vault] = 0
      /\ \A p \in Players : balanceOf[p] = Purse
      /\ totalSupply = Cardinality(Players) * Purse + Bankroll
    BY ConstantsAssumption DEF Init, Accounts
<1>5. totalSupply = Total(balanceOf)
    <2>1. /\ Integral(balanceOf, Accounts) /\ Integral(balanceOf, Accounts \ {Host})
          /\ IsFiniteSet(Accounts \ {Host}) /\ Vault \in Accounts \ {Host}
        BY <1>1, FiniteDomains, FS_Subset, ConstantsAssumption DEF Integral, TypeOK
    <2>2. (Accounts \ {Host}) \ {Vault} = Players
        BY ConstantsAssumption DEF Accounts
    <2>3. SumFunctionOnSet(balanceOf, Players) = Cardinality(Players) * Purse
        BY <1>4, ConstantsAssumption, SumOfConstant
    <2>4. SumFunctionOnSet(balanceOf, Accounts \ {Host})
            = balanceOf[Vault] + SumFunctionOnSet(balanceOf, Players)
        BY <2>1, <2>2, SumStep
    <2>5. Total(balanceOf) = balanceOf[Host] + SumFunctionOnSet(balanceOf, Accounts \ {Host})
        BY <2>1, FiniteDomains, SumStep DEF Total
    <2>6. Cardinality(Players) * Purse \in Int
        BY ConstantsAssumption, FS_CardinalityType
    <2>. QED BY <1>4, <2>3, <2>4, <2>5, <2>6, ConstantsAssumption
<1>. QED BY <1>1, <1>3, <1>4, <1>5, BooksAsSums, ConstantsAssumption

LEMMA SumTypes ==
    ASSUME TypeOK
    PROVE  /\ Integral(Held, Ids) /\ Integral(Outcomes, Ids)
           /\ \A k \in Ids : /\ Held[k] = HeldFor(k) /\ HeldFor(k) \in Int
                             /\ Outcomes[k] = gain[k] + HeldFor(k) /\ Outcomes[k] \in Int
           /\ HeldSum \in Int /\ OutcomeSum \in Int
<1>1. \A k \in Ids : HeldFor(k) \in Int /\ gain[k] \in Int
    BY DEF TypeOK, HeldFor, Snapshots
<1>2. \A k \in Ids : /\ Held[k] = HeldFor(k) /\ HeldFor(k) \in Int
                     /\ Outcomes[k] = gain[k] + HeldFor(k) /\ Outcomes[k] \in Int
    BY <1>1 DEF Held, Outcomes
<1>3. Integral(Held, Ids) /\ Integral(Outcomes, Ids)
    BY <1>2 DEF Integral
<1>. QED BY <1>2, <1>3, FiniteDomains, SumType DEF HeldSum, OutcomeSum

\* A session that is not settled has not come to anything yet.
LEMMA OpenOutcome ==
    ASSUME TypeOK, SessionsConsistent, NEW k \in Ids, settled[k] = None
    PROVE  Outcomes[k] = 0
<1>1. CASE sessionCommitments[k] = None
    BY <1>1, SumTypes DEF SessionsConsistent, HeldFor
<1>2. CASE sessionCommitments[k] # None
    <2>1. gain[k] = -HeldFor(k)
        BY <1>2 DEF SessionsConsistent, HeldFor
    <2>. QED BY <2>1, SumTypes
<1>. QED BY <1>1, <1>2

\* The sums after a step that moves one session.
LEMMA SumsMove ==
    ASSUME TypeOK, TypeOK', NEW k \in Ids,
           \A j \in Ids \ {k} : /\ sessionCommitments'[j] = sessionCommitments[j]
                                /\ gain'[j] = gain[j]
    PROVE  /\ HeldSum' = HeldSum - Held[k] + Held'[k]
           /\ OutcomeSum' = OutcomeSum - Outcomes[k] + Outcomes'[k]
<1>1. /\ Integral(Held, Ids) /\ Integral(Outcomes, Ids)
      /\ Held'[k] \in Int /\ Outcomes'[k] \in Int
    <2>1. /\ Integral(Held, Ids)' /\ Integral(Outcomes, Ids)'
        BY SumTypes, PTL
    <2>. QED BY <2>1, SumTypes DEF Integral
<1>2. \A j \in Ids \ {k} : Held[j] = Held'[j] /\ Outcomes[j] = Outcomes'[j]
    BY DEF Held, Outcomes, HeldFor
<1>. QED BY <1>1, <1>2, FiniteDomains, SumUpdate DEF HeldSum, OutcomeSum

LEMMA BooksStep ==
    ASSUME TypeOK, TypeOK', SessionsConsistent, Books,
           Opens \/ Moves \/ EndsBoth \/ Rests
    PROVE  Books'
<1>1. /\ balanceOf[Host] \in Int /\ balanceOf[Vault] \in Int /\ donated[Host] \in Int
      /\ donated[Vault] \in Int /\ HeldSum \in Int /\ OutcomeSum \in Int
      /\ Bankroll \in Int
    BY SumTypes, FiniteDomains, ConstantsAssumption DEF TypeOK
<1>2. /\ balanceOf[Host] = donated[Host] + HeldSum
      /\ balanceOf[Vault] = Bankroll + donated[Vault] - OutcomeSum
      /\ totalSupply = Total(balanceOf)
    BY BooksAsSums
<1>. SUFFICES /\ balanceOf'[Host] = donated'[Host] + HeldSum'
              /\ balanceOf'[Vault] = Bankroll + donated'[Vault] - OutcomeSum'
              /\ totalSupply' = Total(balanceOf')
    <2>1. (TypeOK => (Books <=> /\ balanceOf[Host] = donated[Host] + HeldSum
                                /\ balanceOf[Vault] = Bankroll + donated[Vault] - OutcomeSum
                                /\ totalSupply = Total(balanceOf)))'
        BY BooksAsSums, PTL
    <2>. QED BY <2>1 DEF Total
<1>3. ASSUME NEW k \in Ids, NEW n, NEW t, Continues(k, n, t), settled[k] = None,
             UNCHANGED <<donated, totalSupply>>
      PROVE  /\ balanceOf'[Host] = donated'[Host] + HeldSum'
             /\ balanceOf'[Vault] = Bankroll + donated'[Vault] - OutcomeSum'
             /\ totalSupply' = Total(balanceOf')
    <2>1. n \in Snapshots /\ n.escrowedStake \in Int /\ n # None
        BY <1>3, ConstantsAssumption DEF Continues, Snapshots
    <2>2. /\ sessionCommitments' = [sessionCommitments EXCEPT ![k] = n]
          /\ gain' = [gain EXCEPT ![k] = -n.escrowedStake]
        BY <1>3 DEF Continues
    <2>3. Held'[k] = n.escrowedStake /\ Outcomes'[k] = 0
        BY <2>1, <2>2 DEF TypeOK, Held, HeldFor, Outcomes
    <2>4. /\ HeldSum' = HeldSum - Held[k] + Held'[k]
          /\ OutcomeSum' = OutcomeSum - Outcomes[k] + Outcomes'[k]
        BY <2>2, SumsMove DEF TypeOK
    <2>5. Outcomes[k] = 0 /\ Held[k] = HeldFor(k) /\ Held[k] \in Int
        BY <1>3, OpenOutcome, SumTypes
    <2>6. /\ balanceOf'[Host] = balanceOf[Host] + n.escrowedStake - HeldFor(k)
          /\ balanceOf'[Vault] = balanceOf[Vault]
          /\ Total(balanceOf') = Total(balanceOf)
        BY <1>3 DEF Continues
    <2>. QED BY <1>1, <1>2, <1>3, <2>1, <2>3, <2>4, <2>5, <2>6
<1>4. ASSUME NEW k \in Ids, NEW x, NEW t, EndsOne(k, x, t), settled[k] = None,
             UNCHANGED <<donated, totalSupply>>
      PROVE  /\ balanceOf'[Host] = donated'[Host] + HeldSum'
             /\ balanceOf'[Vault] = Bankroll + donated'[Vault] - OutcomeSum'
             /\ totalSupply' = Total(balanceOf')
    <2>1. /\ sessionCommitments' = [sessionCommitments EXCEPT ![k] = None]
          /\ gain' = [gain EXCEPT ![k] = x] /\ x \in Int
        BY <1>4 DEF EndsOne
    <2>2. Held'[k] = 0 /\ Outcomes'[k] = x
        BY <2>1 DEF TypeOK, Held, HeldFor, Outcomes
    <2>3. /\ HeldSum' = HeldSum - Held[k] + Held'[k]
          /\ OutcomeSum' = OutcomeSum - Outcomes[k] + Outcomes'[k]
        BY <2>1, SumsMove DEF TypeOK
    <2>4. Outcomes[k] = 0 /\ Held[k] = HeldFor(k) /\ Held[k] \in Int
        BY <1>4, OpenOutcome, SumTypes
    <2>5. /\ balanceOf'[Host] = balanceOf[Host] - HeldFor(k)
          /\ balanceOf'[Vault] = balanceOf[Vault] - x
          /\ Total(balanceOf') = Total(balanceOf)
        BY <1>4 DEF EndsOne
    <2>. QED BY <1>1, <1>2, <1>4, <2>1, <2>2, <2>3, <2>4, <2>5
<1>5. CASE Opens
    <2>1. PICK t \in Terms :
             LET k == currentSessionId + 1
             IN  /\ k \in Ids /\ UNCHANGED <<donated, totalSupply>>
                 /\ (\E n : Continues(k, n, t)) \/ (\E x : EndsOne(k, x, t))
        BY <1>5 DEF Opens
    <2>2. settled[currentSessionId + 1] = None
        BY <2>1 DEF SessionsConsistent, TypeOK, Ids
    <2>. QED BY <2>1, <2>2, <1>3, <1>4
<1>6. CASE Moves
    <2>1. PICK k \in Ids :
             /\ sessionCommitments[k] # None /\ UNCHANGED <<donated, totalSupply>>
             /\ (\E n : Continues(k, n, terms[k])) \/ (\E x : EndsOne(k, x, terms[k]))
        BY <1>6 DEF Moves
    <2>2. settled[k] = None
        BY <2>1 DEF SessionsConsistent
    <2>. QED BY <2>1, <2>2, <1>3, <1>4
<1>7. CASE EndsBoth
    <2>1. PICK k1 \in Ids, k2 \in Ids, x1 \in Int, x2 \in Int,
               e1 \in Settlements, e2 \in Settlements :
             EndsTwo(k1, x1, e1, k2, x2, e2)
        BY <1>7 DEF EndsBoth
    <2> DEFINE h == [Held EXCEPT ![k1] = 0]
               o == [Outcomes EXCEPT ![k1] = x1]
    <2>2. k1 # k2 /\ settled[k1] = None /\ settled[k2] = None
        BY <2>1 DEF EndsTwo, SessionsConsistent
    <2>3. /\ Outcomes[k1] = 0 /\ Held[k1] = HeldFor(k1) /\ Held[k1] \in Int
          /\ Outcomes[k2] = 0 /\ Held[k2] = HeldFor(k2) /\ Held[k2] \in Int
        BY <2>2, OpenOutcome, SumTypes
    <2>4. /\ Held' = [h EXCEPT ![k2] = 0] /\ Outcomes' = [o EXCEPT ![k2] = x2]
        <3>1. \A j \in Ids : /\ HeldFor(j)' = IF j \in {k1, k2} THEN 0 ELSE HeldFor(j)
                             /\ gain'[j] = IF j = k1 THEN x1 ELSE IF j = k2 THEN x2 ELSE gain[j]
            BY <2>1, <2>2 DEF EndsTwo, HeldFor, TypeOK
        <3>2. \A j \in Ids : /\ Held'[j] = [h EXCEPT ![k2] = 0][j]
                             /\ Outcomes'[j] = [o EXCEPT ![k2] = x2][j]
            <4>1. x1 \in Int /\ x2 \in Int
                OBVIOUS
            <4>2. /\ DOMAIN h = Ids /\ DOMAIN o = Ids
                  /\ \A j \in Ids : h[j] = IF j = k1 THEN 0 ELSE HeldFor(j)
                  /\ \A j \in Ids : o[j] = IF j = k1 THEN x1 ELSE gain[j] + HeldFor(j)
                BY DEF Held, Outcomes
            <4>3. \A j \in Ids : Held'[j] = HeldFor(j)' /\ Outcomes'[j] = gain'[j] + HeldFor(j)'
                BY DEF Held, Outcomes
            <4>. HIDE DEF h, o
            <4>. QED BY <2>2, <3>1, <4>1, <4>2, <4>3
        <3>. QED BY <3>2 DEF Held, Outcomes
    <2>5. /\ Integral(Held, Ids) /\ Integral(Outcomes, Ids) /\ Integral(h, Ids) /\ Integral(o, Ids)
          /\ h[k1] = 0 /\ o[k1] = x1 /\ h[k2] = Held[k2] /\ o[k2] = Outcomes[k2]
          /\ \A j \in Ids \ {k1} : h[j] = Held[j] /\ o[j] = Outcomes[j]
        BY <2>2, SumTypes DEF Integral, Held, Outcomes
    <2>6. /\ Held'[k2] = 0 /\ Outcomes'[k2] = x2
          /\ \A j \in Ids \ {k2} : h[j] = Held'[j] /\ o[j] = Outcomes'[j]
        BY <2>4 DEF Held, Outcomes
    <2> HIDE DEF h, o
    <2>7. /\ SumFunctionOnSet(h, Ids) = HeldSum - Held[k1]
          /\ SumFunctionOnSet(o, Ids) = OutcomeSum + x1
        <3>1. /\ SumFunctionOnSet(h, Ids) = HeldSum - Held[k1] + h[k1]
              /\ SumFunctionOnSet(o, Ids) = OutcomeSum - Outcomes[k1] + o[k1]
            BY <2>5, FiniteDomains, SumUpdate DEF HeldSum, OutcomeSum
        <3>. QED BY <3>1, <2>3, <2>5, <1>1
    <2>8. /\ HeldSum' = HeldSum - Held[k1] - Held[k2]
          /\ OutcomeSum' = OutcomeSum + x1 + x2
        <3>1. /\ HeldSum' = SumFunctionOnSet(h, Ids) - h[k2] + Held'[k2]
              /\ OutcomeSum' = SumFunctionOnSet(o, Ids) - o[k2] + Outcomes'[k2]
            BY <2>5, <2>6, FiniteDomains, SumUpdate DEF HeldSum, OutcomeSum
        <3>. QED BY <3>1, <2>3, <2>5, <2>6, <2>7, <1>1
    <2>9. /\ balanceOf'[Host] = balanceOf[Host] - HeldFor(k1) - HeldFor(k2)
          /\ balanceOf'[Vault] = balanceOf[Vault] - x1 - x2
          /\ Total(balanceOf') = Total(balanceOf) /\ UNCHANGED <<donated, totalSupply>>
        BY <2>1 DEF EndsTwo
    <2>. QED BY <1>1, <1>2, <2>3, <2>8, <2>9
<1>8. CASE Rests
    <2>1. PICK x \in Nat : balanceOf'[Host] = balanceOf[Host] + x /\ donated'[Host] = donated[Host] + x
        BY <1>8 DEF Rests
    <2>2. PICK y \in Nat : balanceOf'[Vault] = balanceOf[Vault] + y /\ donated'[Vault] = donated[Vault] + y
        BY <1>8 DEF Rests
    <2>3. HeldSum' = HeldSum /\ OutcomeSum' = OutcomeSum
        BY <1>8 DEF Rests, sessionVars, HeldSum, OutcomeSum, Held, Outcomes, HeldFor
    <2>4. Total(balanceOf') = totalSupply'
        <3>1. /\ Total(balanceOf) \in Int /\ Total(balanceOf') \in Int
              /\ totalSupply \in Int /\ totalSupply' \in Int
            BY FiniteDomains, SumType DEF Total, Integral, TypeOK
        <3>2. Total(balanceOf') - totalSupply' = Total(balanceOf) - totalSupply
            BY <1>8 DEF Rests
        <3>. QED BY <1>2, <3>1, <3>2
    <2>. QED BY <1>1, <1>2, <2>1, <2>2, <2>3, <2>4
<1>. QED BY <1>5, <1>6, <1>7, <1>8

-----------------------------------------------------------------------------
(***************************************************************************)
(* The theorems.                                                           *)
(***************************************************************************)

\* Sessions, commitments and emitted snapshots always agree, for every number
\* of players, sessions and steps and for every game.
THEOREM SessionInvariant == Spec => []SessionInv
<1>1. Init => SessionInv
    BY InitSessionInv
<1>2. SessionInv /\ [Next]_vars => SessionInv'
    BY StepEffect, TypeStep, ConsistentStep, LatestStep DEF SessionInv
<1>. QED BY <1>1, <1>2, PTL DEF Spec

\* Every variable keeps its type: no balance, escrow or reserve goes below
\* zero whatever deltas, payouts and quotes the game returns.
THEOREM TypeCorrect == Spec => []TypeOK
<1>1. SessionInv => TypeOK
    BY DEF SessionInv
<1>. QED BY <1>1, SessionInvariant, PTL

\* The commitment bookkeeping the money invariants rest on.
THEOREM SessionsAgree == Spec => []SessionsConsistent
<1>1. SessionInv => SessionsConsistent
    BY DEF SessionInv
<1>. QED BY <1>1, SessionInvariant, PTL

\* The three sums hold from the deployment on, through every transaction.
LEMMA BooksInvariant == Spec => []Books
<1>1. Init => Books
    BY InitBooks
<1>2. SessionInv /\ SessionInv' /\ Books /\ [Next]_vars => Books'
    BY StepEffect, BooksStep DEF SessionInv
<1>. QED BY <1>1, <1>2, SessionInvariant, PTL DEF Spec

\* The host always owns exactly the escrow of its open sessions plus what it
\* was given unasked.
THEOREM EscrowSafety == Spec => []EscrowBacked
<1>1. Books => EscrowBacked
    BY DEF Books
<1>. QED BY <1>1, BooksInvariant, PTL

\* The vault has won what the players lost, and no transfer, settlement or
\* refund creates or destroys a token.
THEOREM BooksSafety == Spec => []HouseBooksBalance
<1>1. Books => HouseBooksBalance
    BY DEF Books
<1>. QED BY <1>1, BooksInvariant, PTL

\* Refunding an open session never lacks tokens, even with an empty vault.
THEOREM RefundSafety == Spec => []RefundNeverBlocked
<1>1. SessionInv /\ Books => RefundNeverBlocked
    <2> SUFFICES ASSUME SessionInv, Books, NEW s \in advanced, Loaded(s)
                 PROVE  CanSettle(balanceOf, s, s.escrowedStake)
        BY DEF RefundNeverBlocked
    <2>1. /\ s \in Snapshots /\ s.sessionId \in Ids
          /\ HeldFor(s.sessionId) = s.escrowedStake
        BY LoadedFacts DEF SessionInv
    <2>2. /\ \A k \in Ids : Held[k] \in Nat
          /\ Held[s.sessionId] = s.escrowedStake
          /\ balanceOf[Host] \in Nat /\ donated[Host] \in Nat
          /\ balanceOf[Vault] \in Nat
        BY <2>1, HeldType, FiniteDomains DEF SessionInv, TypeOK
    <2>3. s.escrowedStake <= HeldSum /\ HeldSum \in Nat
        BY <2>1, <2>2, FiniteDomains, SummandBound, SumOfNaturals DEF HeldSum
    <2>4. balanceOf[Host] = donated[Host] + HeldSum
        BY BooksAsSums DEF SessionInv
    <2>. QED BY <2>1, <2>2, <2>3, <2>4 DEF CanSettle, Snapshots
<1>. QED BY <1>1, SessionInvariant, BooksInvariant, PTL

\* A superseded snapshot is refused forever: no replayed action, forfeit or
\* randomness answer takes effect twice.
THEOREM ReplaySafety == Spec => StaleSnapshotsStayStale
<1>1. SessionInv /\ SessionInv' /\ [Next]_vars
      => [\A s \in advanced : ~Loaded(s) => ~Loaded(s)']_vars
    BY StepEffect, LatestStep DEF SessionInv
<1>. QED BY <1>1, SessionInvariant, PTL DEF Spec, StaleSnapshotsStayStale

-----------------------------------------------------------------------------
(***************************************************************************)
(* Refinement: a session is a custody account.                             *)
(***************************************************************************)

LEMMA CustodyInitially == Init => Custody!CustodyInit
BY ConstantsAssumption
   DEF Init, Custody!CustodyInit, Custody!NoLimits, Held, HeldFor, Ids,
       SessionStatus, SessionLimits

\* Sessions that do not move keep all they show.
LEMMA OthersKept ==
    ASSUME TypeOK, currentSessionId' \in Nat, NEW S \in SUBSET Ids,
           \A j \in Ids \ S : /\ sessionCommitments'[j] = sessionCommitments[j]
                              /\ settled'[j] = settled[j]
                              /\ terms'[j] = terms[j]
                              /\ gain'[j] = gain[j]
                              /\ (j <= currentSessionId') <=> (j <= currentSessionId)
    PROVE  Custody!OthersUnchanged(S)
<1> SUFFICES ASSUME NEW j \in Ids \ S
             PROVE  /\ SessionStatus'[j] = SessionStatus[j]
                    /\ Held'[j] = Held[j]
                    /\ SessionLimits'[j] = SessionLimits[j]
                    /\ gain'[j] = gain[j]
    BY DEF Custody!OthersUnchanged
<1>1. (j > currentSessionId') <=> (j > currentSessionId)
    BY DEF TypeOK, Ids
<1>. QED BY <1>1 DEF SessionStatus, SessionLimits, Held, HeldFor

\* A session that continues is held in full.
LEMMA ContinuesHeld ==
    ASSUME TypeOK, TypeOK', NEW k \in Ids, NEW n, Continues(k, n, terms'[k]),
           terms'[k] \in Terms, k <= currentSessionId', settled[k] = None
    PROVE  Custody!HeldInFull(k)
<1>1. /\ n \in Snapshots /\ n.escrowedStake \in Nat /\ n # None
      /\ terms'[k] # None /\ terms'[k].maxEscrowStake \in Nat
      /\ n.escrowedStake <= terms'[k].maxEscrowStake
    BY ConstantsAssumption DEF Continues, Snapshots, Terms, WithinCaps
<1>2. sessionCommitments'[k] = n /\ settled'[k] = None /\ gain'[k] = -n.escrowedStake
    BY DEF Continues, TypeOK
<1>3. ~(k > currentSessionId')
    BY DEF TypeOK, Ids
<1>. QED BY <1>1, <1>2, <1>3
         DEF Custody!HeldInFull, Held, HeldFor, SessionStatus, SessionLimits

\* A session that ends closes within the quoted caps.
LEMMA EndsWithinLimits ==
    ASSUME TypeOK', NEW k \in Ids, NEW x \in Int,
           terms'[k] \in Terms, k <= currentSessionId',
           -terms'[k].maxEscrowStake <= x, x <= terms'[k].maxReservedProfit,
           sessionCommitments'[k] = None, settled'[k] # None, gain'[k] = x
    PROVE  Custody!ClosedWithinLimits(k)
<1>1. ~(k > currentSessionId') /\ terms'[k] # None
    BY ConstantsAssumption DEF TypeOK, Ids
<1>. QED BY <1>1
         DEF Custody!ClosedWithinLimits, Held, HeldFor, SessionStatus, SessionLimits

\* The session that opens or moves ends up in one of the two states.
LEMMA MovedSession ==
    ASSUME TypeOK, TypeOK', NEW k \in Ids, terms'[k] \in Terms,
           k <= currentSessionId', settled[k] = None,
           (\E n : Continues(k, n, terms'[k])) \/ (\E x : EndsOne(k, x, terms'[k]))
    PROVE  Custody!HeldInFull(k) \/ Custody!ClosedWithinLimits(k)
<1>1. ASSUME NEW n, Continues(k, n, terms'[k])
      PROVE  Custody!HeldInFull(k)
    BY <1>1, ContinuesHeld
<1>2. ASSUME NEW x, EndsOne(k, x, terms'[k])
      PROVE  Custody!ClosedWithinLimits(k)
    <2>1. x \in Int /\ sessionCommitments'[k] = None /\ gain'[k] = x
        BY <1>2 DEF EndsOne, TypeOK
    <2>2. settled'[k] # None
        BY <1>2, ConstantsAssumption DEF EndsOne, TypeOK
    <2>. QED BY <1>2, <2>1, <2>2, EndsWithinLimits DEF EndsOne
<1>. QED BY <1>1, <1>2

\* Neither touches another session.
LEMMA OnlyOneMoves ==
    ASSUME TypeOK, NEW k \in Ids, NEW t, NEW j \in Ids, j # k,
           (\E n : Continues(k, n, t)) \/ (\E x : EndsOne(k, x, t))
    PROVE  /\ sessionCommitments'[j] = sessionCommitments[j]
           /\ settled'[j] = settled[j] /\ gain'[j] = gain[j]
BY DEF Continues, EndsOne, TypeOK

LEMMA CustodyStep ==
    ASSUME SessionInv, TypeOK', Opens \/ Moves \/ EndsBoth \/ Rests
    PROVE  [Custody!CustodyNext]_Custody!custodyVars
<1>0. TypeOK /\ SessionsConsistent /\ currentSessionId \in Nat /\ currentSessionId' \in Nat
    BY DEF SessionInv, TypeOK
<1>1. CASE Opens
    <2> DEFINE k == currentSessionId + 1
    <2>1. PICK t \in Terms :
             /\ k \in Ids /\ currentSessionId' = k
             /\ terms' = [terms EXCEPT ![k] = t]
             /\ (\E n : Continues(k, n, t)) \/ (\E x : EndsOne(k, x, t))
        BY <1>1 DEF Opens
    <2>2. terms'[k] = t
        BY <1>0, <2>1 DEF TypeOK
    <2>3. k > currentSessionId /\ settled[k] = None /\ k <= currentSessionId'
        BY <1>0, <2>1 DEF SessionsConsistent, Ids
    <2> HIDE DEF k
    <2>4. Custody!HeldInFull(k) \/ Custody!ClosedWithinLimits(k)
        BY <1>0, <2>1, <2>2, <2>3, MovedSession
    <2>5. Custody!OthersUnchanged({k})
        <3>1. \A j \in Ids \ {k} : terms'[j] = terms[j]
            BY <1>0, <2>1 DEF TypeOK
        <3>2. \A j \in Ids \ {k} : (j <= currentSessionId') <=> (j <= currentSessionId)
            BY <1>0, <2>1 DEF k, Ids
        <3>. QED BY <1>0, <2>1, <3>1, <3>2, OnlyOneMoves, OthersKept
    <2>6. SessionStatus[k] = "unopened" /\ SessionLimits'[k] \in [loss: Nat, win: Nat]
        BY <2>1, <2>2, <2>3, ConstantsAssumption
           DEF SessionStatus, SessionLimits, Terms
    <2>7. Custody!Open(k)
        BY <2>4, <2>5, <2>6 DEF Custody!Open
    <2>. QED BY <2>1, <2>7 DEF Custody!CustodyNext
<1>2. CASE Moves
    <2>1. PICK k \in Ids :
             /\ sessionCommitments[k] # None
             /\ UNCHANGED <<currentSessionId, terms>>
             /\ (\E n : Continues(k, n, terms[k])) \/ (\E x : EndsOne(k, x, terms[k]))
        BY <1>2 DEF Moves
    <2>2. /\ k <= currentSessionId /\ settled[k] = None
          /\ terms[k] \in Terms /\ terms'[k] = terms[k]
        BY <1>0, <2>1 DEF SessionsConsistent, TypeOK
    <2>3. Custody!HeldInFull(k) \/ Custody!ClosedWithinLimits(k)
        BY <1>0, <2>1, <2>2, MovedSession
    <2>4. Custody!OthersUnchanged({k})
        BY <1>0, <2>1, OnlyOneMoves, OthersKept
    <2>5. ~(k > currentSessionId)
        BY <1>0, <2>2 DEF Ids
    <2>6. SessionStatus[k] = "open" /\ SessionLimits'[k] = SessionLimits[k]
        BY <2>2, <2>5 DEF SessionStatus, SessionLimits
    <2>7. Custody!Adjust(k) \/ Custody!Close({k})
        BY <2>3, <2>4, <2>6 DEF Custody!Adjust, Custody!Close
    <2>. QED BY <2>1, <2>7 DEF Custody!CustodyNext
<1>3. CASE EndsBoth
    <2>1. PICK k1 \in Ids, k2 \in Ids, x1 \in Int, x2 \in Int,
               e1 \in Settlements, e2 \in Settlements :
             EndsTwo(k1, x1, e1, k2, x2, e2)
        BY <1>3 DEF EndsBoth
    <2> DEFINE S == {k1, k2}
    <2>2. UNCHANGED <<currentSessionId, terms>>
        BY <2>1 DEF EndsTwo
    <2>3. \A k \in S : /\ k \in Ids /\ k <= currentSessionId /\ settled[k] = None
                       /\ terms[k] \in Terms /\ terms'[k] = terms[k]
        BY <1>0, <2>1, <2>2 DEF EndsTwo, SessionsConsistent, TypeOK
    <2>4. ASSUME NEW k \in S
          PROVE  Custody!ClosedWithinLimits(k)
        <3>1. sessionCommitments'[k] = None
            BY <1>0, <2>1 DEF EndsTwo, TypeOK
        <3>2. settled'[k] # None
            BY <1>0, <2>1, ConstantsAssumption DEF EndsTwo, TypeOK
        <3>3. PICK x \in Int : /\ gain'[k] = x
                               /\ -terms'[k].maxEscrowStake <= x
                               /\ x <= terms'[k].maxReservedProfit
            BY <1>0, <2>1, <2>2 DEF EndsTwo, TypeOK
        <3>4. k \in Ids /\ terms'[k] \in Terms /\ k <= currentSessionId'
            BY <2>2, <2>3
        <3>. QED BY <1>0, <3>1, <3>2, <3>3, <3>4, EndsWithinLimits
    <2>5. Custody!OthersUnchanged(S)
        <3>1. \A j \in Ids \ S : /\ sessionCommitments'[j] = sessionCommitments[j]
                                 /\ settled'[j] = settled[j]
                                 /\ gain'[j] = gain[j]
            BY <1>0, <2>1 DEF EndsTwo, TypeOK
        <3>. QED BY <1>0, <2>1, <2>2, <3>1, OthersKept
    <2>6. \A k \in S : SessionStatus[k] = "open" /\ SessionLimits'[k] = SessionLimits[k]
        <3>1. \A k \in S : ~(k > currentSessionId)
            BY <1>0, <2>3 DEF Ids
        <3>. QED BY <2>3, <3>1 DEF SessionStatus, SessionLimits
    <2>7. Custody!Close(S)
        BY <2>4, <2>5, <2>6 DEF Custody!Close
    <2>. QED BY <2>1, <2>7 DEF Custody!CustodyNext
<1>4. CASE Rests
    <2>1. UNCHANGED <<SessionStatus, Held, SessionLimits, gain>>
        BY <1>4 DEF Rests, sessionVars, SessionStatus, Held, HeldFor, SessionLimits
    <2>. QED BY <2>1 DEF Custody!custodyVars
<1>. QED BY <1>1, <1>2, <1>3, <1>4

\* The contract implements the custody account: money moves only while a
\* session is open, each session closes once, and the player's outcome stays
\* between the caps quoted when it was opened, whatever game and router do.
THEOREM CustodyRefinement == Spec => ImplementsCustody
<1>1. SessionInv /\ SessionInv' /\ [Next]_vars
      => [Custody!CustodyNext]_Custody!custodyVars
    BY StepEffect, CustodyStep DEF SessionInv
<1>. QED BY <1>1, CustodyInitially, SessionInvariant, PTL
         DEF Spec, ImplementsCustody, Custody!CustodySpec
=============================================================================
