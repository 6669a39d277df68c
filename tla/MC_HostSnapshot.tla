-------------------------- MODULE MC_HostSnapshot --------------------------
(* Small instances of HostSnapshot for TLC. *)
EXTENDS HostSnapshot

MC_NoHistory == {<<>>}
\* The page finds no round, or one in play that awaits the player.
MC_Found == <<Opened(1, 0), Advanced(1, 1, "WAITING_PLAYER_ACTION", 0)>>
\* The page finds a round that has one random word and awaits the next.
MC_FoundWaiting == <<Opened(1, 0), Advanced(1, 1, "WAITING_RANDOMNESS", 0),
                     Advanced(1, 2, "WAITING_RANDOMNESS", 1)>>
MC_Histories == {<<>>, MC_Found, MC_FoundWaiting}

Setting(found, bs, steps, changes, order, list, open) ==
    [history |-> found, bets |-> bs, steps |-> steps, toggles |-> changes, inOrder |-> order,
     listLimit |-> list, openLimit |-> open]

\* Fixed lags, either channel the slower one.
MC_Lags == {Setting(<<>>, {1}, 1, 0, TRUE, 50, 32)}
\* Rounds of up to three steps; or a second bet beside the first.
MC_Steady == {Setting(<<>>, {1}, 2, 0, TRUE, 50, 32), Setting(<<>>, {1, 2}, 0, 0, TRUE, 50, 32)}
\* A round found at load goes on, alone or beside a bet, while the wallet goes and
\* comes back; or its events come in any order.
MC_AfterLoad == {Setting(MC_FoundWaiting, {}, 3, 2, TRUE, 50, 32),
                 Setting(MC_FoundWaiting, {1}, 0, 1, TRUE, 50, 32),
                 Setting(MC_FoundWaiting, {}, 3, 2, FALSE, 1, 1)}
\* Events in any order; or two bets, a wallet that goes and comes back, a list
\* of one row and room for one entry.
MC_Trouble == {Setting(<<>>, {1}, 2, 0, FALSE, 50, 32), Setting(<<>>, {1, 2}, 0, 2, TRUE, 1, 1)}
MC_Snapshots == MC_Steady \cup MC_AfterLoad \cup MC_Trouble
\* The wallet goes after rounds were shown.
MC_Disconnected == {Setting(h, {1}, 1, 1, TRUE, 50, 32) : h \in MC_Histories}
=============================================================================
