--------------------------- MODULE SessionCustody ---------------------------
(***************************************************************************)
(* What the casino host promises about the stake of a session, whatever    *)
(* the game, the randomness provider and the callers do: while the session *)
(* is open the player is out of pocket by exactly what is held for it;     *)
(* when it closes the outcome lies between two limits fixed at opening;    *)
(* a closed session never moves money again.  CasinoHost implements this.  *)
(***************************************************************************)
EXTENDS Integers

CONSTANT Ids            \* session ids

VARIABLES
    status,             \* "unopened", "open" or "closed", per session
    stake,              \* tokens held for the session
    limits,             \* [loss, win]: the player's worst and best outcome
    gain                \* tokens the player got back minus tokens paid in

custodyVars == <<status, stake, limits, gain>>

NoLimits == [loss |-> 0, win |-> 0]

CustodyInit ==
    /\ status = [s \in Ids |-> "unopened"]
    /\ stake = [s \in Ids |-> 0]
    /\ limits = [s \in Ids |-> NoLimits]
    /\ gain = [s \in Ids |-> 0]

\* Only the sessions of S may change in the step.
OthersUnchanged(S) ==
    \A t \in Ids \ S : /\ status'[t] = status[t]
                       /\ stake'[t] = stake[t]
                       /\ limits'[t] = limits[t]
                       /\ gain'[t] = gain[t]

\* The player is out of pocket by exactly what is held for the open session.
HeldInFull(s) ==
    /\ status'[s] = "open"
    /\ stake'[s] \in Nat
    /\ stake'[s] <= limits'[s].loss
    /\ gain'[s] = -stake'[s]

ClosedWithinLimits(s) ==
    /\ status'[s] = "closed"
    /\ stake'[s] = 0
    /\ gain'[s] \in Int
    /\ -limits'[s].loss <= gain'[s]
    /\ gain'[s] <= limits'[s].win

\* A game may end in the very call that opens its session.
Open(s) ==
    /\ status[s] = "unopened"
    /\ limits'[s] \in [loss: Nat, win: Nat]
    /\ HeldInFull(s) \/ ClosedWithinLimits(s)
    /\ OthersUnchanged({s})

Adjust(s) ==
    /\ status[s] = "open"
    /\ limits'[s] = limits[s]
    /\ HeldInFull(s)
    /\ OthersUnchanged({s})

\* One transaction may close several sessions (the batch forfeit).
Close(S) ==
    /\ S # {}
    /\ \A s \in S : /\ status[s] = "open"
                    /\ limits'[s] = limits[s]
                    /\ ClosedWithinLimits(s)
    /\ OthersUnchanged(S)

CustodyNext ==
    \/ \E s \in Ids : Open(s) \/ Adjust(s)
    \/ \E S \in SUBSET Ids : Close(S)

CustodySpec == CustodyInit /\ [][CustodyNext]_custodyVars
=============================================================================
