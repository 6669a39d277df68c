--------------------------- MODULE MC_CasinoHost ---------------------------
(***************************************************************************)
(* Three scenarios of CasinoHost for TLC, chosen at the start: the         *)
(* constants are wide enough for all of them, and what is called in each   *)
(* is listed in Of.                                                        *)
(***************************************************************************)
EXTENDS CasinoHost, TLC

CONSTANTS p1, p2

\* What a game may return: wrong flags and phases only without deltas.
Results(deltas, reserves, payouts) ==
    {r \in [escrowDelta: deltas, reservedProfitDelta: reserves, nextPhase: Phases,
            requestRandomnessNow: BOOLEAN, payout: payouts] :
        /\ r.nextPhase \in Waiting \cup {"NONE"} => r.payout = 0
        /\ \/ r.nextPhase # "NONE" /\ (r.requestRandomnessNow <=> r.nextPhase = "WAITING_RANDOMNESS")
           \/ r.escrowDelta = 0 /\ r.reservedProfitDelta = 0 /\ r.payout = 0}

Cap(stake) == {[maxEscrowStake |-> stake, maxReservedProfit |-> 1]}

\* steps: one session, a game that moves escrow and reserve at every step.
\* batch: two sessions of two players over a vault that cannot pay both.
\* tokens: mints, transfers and approvals around the sessions.
Of == [steps |-> [players |-> {p1}, sessions |-> 1, steps |-> 3, caps |-> Cap(2),
                  results |-> Results({-1, 0, 1}, {-1, 0, 1}, {0, 1, 3}),
                  wagers |-> {1}, approvals |-> {}, grants |-> {}, quotes |-> {0, 4}, games |-> Games],
       batch |-> [players |-> {p1, p2}, sessions |-> 2, steps |-> 2, caps |-> Cap(1),
                  results |-> Results({0}, {0, 1}, {0, 2}),
                  wagers |-> {1}, approvals |-> {}, grants |-> {}, quotes |-> {3}, games |-> {}],
       tokens |-> [players |-> {p1}, sessions |-> 2, steps |-> 1, caps |-> Cap(1),
                   results |-> Results({0}, {0, 1}, {0, 2}),
                   wagers |-> {0, 1, 2}, approvals |-> {0, 1}, grants |-> {1}, quotes |-> {3}, games |-> Games]]

MC_Players == {p1, p2}
MC_Caps == UNION {Of[k].caps : k \in DOMAIN Of}
MC_StepResults == UNION {Of[k].results : k \in DOMAIN Of}

VARIABLE scenario

Here == Of[scenario]

ScenarioInit == Init /\ scenario \in DOMAIN Of

\* Bound: the sessions and steps of the scenario.
Room(s) == s.step < Here.steps

ScenarioNext ==
    /\ \/ /\ currentSessionId < Here.sessions
          /\ \E p \in Here.players, game \in Games, wager \in Here.wagers, cap \in Here.caps,
                r \in Here.results : OpenSession(p, game, wager, cap, r)
       \/ \E s \in advanced : Room(s) /\ \E r \in Here.results :
             SubmitAction(s, r) \/ OnRandomnessFulfilled(s, r)
       \/ \E s \in advanced : CancelStuckRandomness(s)
       \/ \E s \in advanced, q \in Here.quotes : ForfeitExpiredSession(s, q)
       \/ \E s1, s2 \in advanced, q1, q2 \in Here.quotes : ForfeitExpiredSessions(s1, q1, s2, q2)
       \/ \E game \in Here.games, named \in BOOLEAN : RegisterGame(game, named)
       \/ \E a \in Here.players \cup {Host, Vault}, amount \in Here.grants : Mint(a, amount)
       \/ \E p \in Here.players, amount \in Here.approvals \cup {UINT_MAX} : Approve(p, amount)
       \/ \E p \in Here.players, a \in Here.players \cup {Host, Vault}, amount \in Here.grants :
             Transfer(p, a, amount)
       \/ Mine
    /\ UNCHANGED scenario

ScenarioSpec == ScenarioInit /\ [][ScenarioNext]_<<vars, scenario>>
=============================================================================
