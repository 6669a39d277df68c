----------------------------- MODULE MC_Guests -----------------------------
(***************************************************************************)
(* Small instances of the two example games for TLC: a behaviour is one of *)
(* the LEDGE page or one of the coinflip page.                             *)
(***************************************************************************)
EXTENDS LedgeGuest, CoinflipGuest

VARIABLE page

CoinBet(heads, coins, least) == [pickHeads |-> heads, coinCount |-> coins, minWins |-> least]
Forms == {CoinBet(TRUE, 1, 1), CoinBet(FALSE, 2, 1)}

\* One round whose row lags part by part, or two rounds.
MC_Offers == {[forms |-> Forms, rounds |-> {1}, parts |-> TRUE],
              [forms |-> {CoinBet(FALSE, 2, 1)}, rounds |-> {1, 2}, parts |-> FALSE]}

LedgeSetting(framed, still) == [bets |-> {1, 2}, embedded |-> framed, reduced |-> still]
MC_Settings == {LedgeSetting(framed, still) : framed \in BOOLEAN, still \in BOOLEAN}

Alone == LedgeSetting(FALSE, FALSE)
OneRound == [forms |-> Forms, rounds |-> {1}, parts |-> TRUE]

\* The other page rests in an initial state.
GuestsInit ==
    /\ GuestInit /\ CoinInit
    /\ \/ page = "ledge" /\ offer = OneRound /\ fastMode = FALSE
       \/ page = "coinflip" /\ setting = Alone

GuestsNext ==
    /\ UNCHANGED page
    /\ \/ page = "ledge" /\ GuestNext /\ UNCHANGED coinVars
       \/ page = "coinflip" /\ CoinNext /\ UNCHANGED guestVars

GuestsSpec ==
    /\ GuestsInit /\ [][GuestsNext]_<<page, guestVars, coinVars>>
    /\ GuestFairness /\ CoinFairness
=============================================================================
