--------------------------- MODULE MC_HostLedger ---------------------------
(* Small instances of HostLedger for TLC. *)
EXTENDS HostLedger

Setting(placed, found, ending, acted, changes, remounted, other, reached, awaited, returned, kept) ==
    [bets |-> placed, found |-> found, ends |-> ending, actions |-> acted, toggles |-> changes,
     remounts |-> remounted, switches |-> other, steps |-> reached, turns |-> awaited,
     returns |-> returned, memory |-> kept]

\* Two bets at a time; one bet beside a round found at load, with an action, a
\* wallet that goes and comes back, and a second mount; the same with a game that
\* waits for the router first; two actions with the router's answer in between
\* and an escrow that is returned in part; a bet that evicts the receipts of a
\* round which is acted on twice (without the ends).
MC_Settings ==
    {Setting({1, 2}, {}, {1, 2}, <<0, 0>>, 0, 0, 0, 1, {{}}, {}, 2),
     Setting({1}, {1}, {1}, <<1, 0>>, 2, 1, 1, 2, {{1}}, {}, 1),
     Setting({1}, {1}, {1}, <<1, 0>>, 0, 1, 0, 2, {{2}}, {}, 1),
     Setting({1}, {}, {1}, <<2, 0>>, 0, 0, 0, 3, {{1, 3}}, {1}, 1),
     Setting({2}, {1}, {}, <<2, 0>>, 0, 0, 0, 3, {{1, 3}}, {}, 1)}
=============================================================================
