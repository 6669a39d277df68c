---------------------------- MODULE Guests_proofs ----------------------------
(***************************************************************************)
(* Proofs about the two example games' pages: for any number of bets, of   *)
(* lanes and of coins.                                                     *)
(***************************************************************************)
EXTENDS LedgeGuest, CoinflipGuest, SequenceTheorems, TLAPS

-----------------------------------------------------------------------------
\* The LEDGE page

GuestPhases == {"idle", "opening", "waiting", "revealing", "settled", "error"}
MaybeBets == Bets \cup {None}
GuestRounds == [phase : GuestPhases, bet : MaybeBets, session : MaybeBets, result : MaybeBets]

GuestTypes ==
    /\ round \in GuestRounds
    /\ rendered.round \in GuestRounds
    /\ sessionKey \in MaybeBets /\ demoTimer \in MaybeBets
    /\ betInFlight \in BOOLEAN /\ clicks \in Nat
    /\ cascades \subseteq [result : Bets, left : Nat]
    /\ calls \in [Bets -> {"none", "asked", "answered", "rejected", "demo"}]
    /\ recorded \in Seq(MaybeBets \X MaybeBets)
    /\ revealed \in [Bets -> Nat]

Fates == {"none", "open", "settled", "cancelled"}

FateTypes == chain \in [Bets -> Fates] /\ snapshot \in [Bets -> Fates]

\* A result is on its way to the player once: awaited, falling or revealed.
OneReveal ==
    /\ \A b \in Bets : revealed[b] <= 1
    /\ \A b \in Bets : calls[b] # "answered" => revealed[b] = 0
    /\ sessionKey # None => calls[sessionKey] = "answered" /\ revealed[sessionKey] = 0
    /\ demoTimer # None => calls[demoTimer] = "demo"
    /\ \A c \in cascades :
         /\ calls[c.result] \in {"answered", "demo"} /\ revealed[c.result] = 0
         /\ c.result # sessionKey /\ c.result # demoTimer
    /\ \A c, d \in cascades : c.result = d.result => c = d

\* A bet that is asked for is the round's, and the page waits for it.
Asked ==
    \A b \in Bets : calls[b] = "asked" =>
       /\ round.bet = b /\ round.phase = "opening" /\ betInFlight
       /\ cascades = {} /\ demoTimer = None
       /\ clicks = 0 => rendered.round.phase = "opening"

\* What is to come is the round's own.
Own ==
    /\ round.bet # None => calls[round.bet] # "none"
    /\ round.phase = "waiting" => sessionKey = round.bet /\ sessionKey # None
    /\ demoTimer # None => demoTimer = round.bet /\ round.phase = "opening" /\ cascades = {}
    /\ \A c \in cascades : round.phase = "revealing" /\ c.result = round.result
    /\ round.phase \in {"revealing", "settled"} => round.result = round.bet /\ round.result # None
    /\ round.phase \notin {"revealing", "settled"} => round.result = None

\* The history has each bet once, the round's own once it was seen to settle.
History ==
    /\ \A i \in 1..Len(recorded) :
         /\ recorded[i][1] = recorded[i][2]
         /\ recorded[i][1] \in Bets /\ calls[recorded[i][1]] # "none"
         /\ recorded[i][1] = round.bet =>
              round.phase = "settled" /\ rendered.round.phase = "settled"
    /\ \A i, j \in 1..Len(recorded) : recorded[i][1] = recorded[j][1] => i = j

GuestInv == GuestTypes /\ OneReveal /\ (Smooth => Asked /\ Own /\ History)

LEMMA GuestConstants == None \notin Bets /\ (\A b \in Bets : b \in Nat)
BY LedgeGuestAssumption

LEMMA GuestInitially == GuestInit => GuestInv
<1>. SUFFICES ASSUME GuestInit PROVE GuestInv
    OBVIOUS
<1>1. GuestTypes
  <2>1. round = IdleRound /\ rendered.round = IdleRound /\ IdleRound \in GuestRounds
      BY DEF GuestInit, IdleRound, GuestRounds, GuestPhases, MaybeBets
  <2>2. recorded \in Seq(MaybeBets \X MaybeBets)
      BY DEF GuestInit
  <2>. QED BY <2>1, <2>2 DEF GuestInit, GuestTypes, MaybeBets
<1>2. OneReveal
    BY DEF GuestInit, OneReveal
<1>3. Asked /\ Own /\ History
    BY GuestConstants DEF GuestInit, Asked, Own, History, IdleRound
<1>. QED BY <1>1, <1>2, <1>3 DEF GuestInv

LEMMA GuestUntouched ==
    ASSUME GuestInv,
           UNCHANGED <<round, sessionKey, betInFlight, cascades, demoTimer, clicks, calls,
                       recorded, revealed, gaveUp, refused>>,
           rendered'.round = rendered.round
    PROVE  GuestInv'
<1>1. GuestTypes' /\ OneReveal'
    BY DEF GuestInv, GuestTypes, OneReveal
<1>2. Smooth' => Asked' /\ Own' /\ History'
    BY DEF GuestInv, Asked, Own, History, Smooth
<1>. QED BY <1>1, <1>2 DEF GuestInv

\* A new bet: no other is on its way.
LEMMA DropKeeps == ASSUME GuestInv, NEW b \in Bets, Drop(b) PROVE GuestInv'
<1>1. /\ calls[b] = "none" /\ ~betInFlight /\ betInFlight' = TRUE
      /\ clicks' = clicks + 1 /\ clicks' # 0 /\ clicks' \in Nat /\ cascades' = {}
      /\ round' = [phase |-> "opening", bet |-> b, session |-> None, result |-> None]
      /\ round' \in GuestRounds
  <2>1. calls[b] = "none" /\ ~betInFlight /\ betInFlight' = TRUE /\ cascades' = {}
      BY DEF Drop, NextBet
  <2>2. clicks' = clicks + 1 /\ clicks' # 0 /\ clicks' \in Nat
      BY DEF Drop, GuestInv, GuestTypes
  <2>3. round' = [phase |-> "opening", bet |-> b, session |-> None, result |-> None]
      BY DEF Drop, IdleRound
  <2>4. round' \in GuestRounds
      BY <2>3 DEF GuestRounds, GuestPhases, MaybeBets
  <2>. QED BY <2>1, <2>2, <2>3, <2>4
<1>2. \/ calls' = [calls EXCEPT ![b] = "demo"] /\ demoTimer' = b
      \/ calls' = [calls EXCEPT ![b] = "asked"] /\ demoTimer' = None
    BY DEF Drop
<1>3. UNCHANGED <<rendered, sessionKey, recorded, revealed, gaveUp, refused>>
    BY DEF Drop, pageVars, pastVars
<1>4. calls \in [Bets -> {"none", "asked", "answered", "rejected", "demo"}]
    BY DEF GuestInv, GuestTypes
<1>5. GuestTypes'
    BY <1>1, <1>2, <1>3, <1>4 DEF GuestInv, GuestTypes, MaybeBets
<1>6. OneReveal'
  <2>1. /\ \A a \in Bets : a # b => calls'[a] = calls[a]
        /\ calls'[b] \in {"demo", "asked"} /\ revealed[b] = 0
        /\ demoTimer' # None => demoTimer' = b /\ calls'[b] = "demo"
      BY <1>1, <1>2, <1>4 DEF GuestInv, OneReveal
  <2>2. sessionKey # None => sessionKey \in Bets /\ sessionKey # b
      BY <1>1 DEF GuestInv, GuestTypes, OneReveal, MaybeBets
  <2>. QED BY <1>1, <1>3, <2>1, <2>2 DEF GuestInv, OneReveal
<1>7. ASSUME Smooth' PROVE Asked' /\ Own' /\ History'
  <2>1. Smooth /\ \A a \in Bets : calls[a] # "asked"
      BY <1>1, <1>3, <1>7 DEF GuestInv, Asked, Smooth
  <2>2. Asked'
      BY <1>1, <1>2, <1>4, <2>1 DEF Asked
  <2>3. Own'
      BY <1>1, <1>2, <1>4 DEF Own
  <2>4. History'
    <3>1. \A i \in 1..Len(recorded) : recorded[i][1] # b /\ calls'[recorded[i][1]] # "none"
        BY <1>1, <1>2, <1>4, <2>1 DEF GuestInv, History
    <3>. QED BY <1>1, <1>3, <2>1, <3>1 DEF GuestInv, History
  <2>. QED BY <2>2, <2>3, <2>4
<1>. QED BY <1>5, <1>6, <1>7 DEF GuestInv

\* "Play again" clears what was to come; nothing is asked for when it is there.
LEMMA DismissKeeps == GuestInv /\ Dismiss => GuestInv'
<1>. SUFFICES ASSUME GuestInv, Dismiss PROVE GuestInv'
    OBVIOUS
<1>1. /\ clicks = 0 /\ rendered.round.phase \in {"settled", "error"}
      /\ clicks' = clicks + 1 /\ clicks' \in Nat /\ cascades' = {} /\ demoTimer' = None
      /\ betInFlight' = FALSE /\ sessionKey' = None
      /\ round' = [phase |-> "idle", bet |-> None, session |-> None, result |-> None]
      /\ round' \in GuestRounds
    BY DEF Dismiss, Turn, IdleRound, GuestInv, GuestTypes, GuestRounds, GuestPhases, MaybeBets
<1>2. UNCHANGED <<rendered, calls, recorded, revealed, gaveUp, refused>>
    BY DEF Dismiss, pageVars, callVars, pastVars
<1>3. GuestTypes'
    BY <1>1, <1>2 DEF GuestInv, GuestTypes, MaybeBets
<1>4. OneReveal'
    BY <1>1, <1>2 DEF GuestInv, OneReveal
<1>5. ASSUME Smooth' PROVE Asked' /\ Own' /\ History'
  <2>1. Smooth /\ \A b \in Bets : calls[b] # "asked"
      BY <1>1, <1>2, <1>5 DEF GuestInv, Asked, Smooth
  <2>2. History'
      BY <1>1, <1>2, <2>1, GuestConstants DEF GuestInv, History
  <2>. QED BY <1>1, <1>2, <2>1, <2>2 DEF Asked, Own
<1>. QED BY <1>3, <1>4, <1>5 DEF GuestInv

\* The phase of the round after an answer.
LEMMA PhaseOf ==
    ASSUME GuestTypes, NEW p \in GuestPhases, round' = [round EXCEPT !.phase = p]
    PROVE  /\ round' \in GuestRounds
           /\ round'.phase = p /\ round'.bet = round.bet /\ round'.result = round.result
BY DEF GuestTypes, GuestRounds

\* openSession is answered or refused.
LEMMA AnswerKeeps == ASSUME GuestInv, NEW b \in Bets, Answered(b) \/ Rejected(b) PROVE GuestInv'
<1>. DEFINE answer == IF Answered(b) THEN "answered" ELSE "rejected"
            key == IF Answered(b) THEN b ELSE None
            p == IF Answered(b) THEN "waiting" ELSE "error"
<1>1. /\ calls[b] = "asked" /\ calls' = [calls EXCEPT ![b] = answer]
      /\ sessionKey' = key /\ round' = [round EXCEPT !.phase = p]
    BY DEF Answered, Rejected
<1>2. UNCHANGED <<rendered, betInFlight, cascades, demoTimer, clicks, recorded, revealed,
                  gaveUp, refused>>
    BY DEF Answered, Rejected, pageVars, pastVars
<1>3. answer \in {"answered", "rejected"} /\ key \in MaybeBets /\ p \in {"waiting", "error"}
      /\ (answer = "answered" => key = b /\ p = "waiting")
      /\ (answer = "rejected" => key = None /\ p = "error")
    BY DEF MaybeBets
<1>. HIDE DEF answer, key, p
<1>4. /\ round' \in GuestRounds
      /\ round'.phase = p /\ round'.bet = round.bet /\ round'.result = round.result
    BY <1>1, <1>3, PhaseOf DEF GuestInv, GuestPhases
<1>5. /\ calls' \in [Bets -> {"none", "asked", "answered", "rejected", "demo"}]
      /\ calls'[b] = answer /\ \A a \in Bets : a # b => calls'[a] = calls[a]
    BY <1>1, <1>3 DEF GuestInv, GuestTypes
<1>6. GuestTypes'
    BY <1>1, <1>2, <1>3, <1>4, <1>5 DEF GuestInv, GuestTypes
<1>7. OneReveal'
  <2>1. revealed[b] = 0 /\ demoTimer # b /\ \A c \in cascades : c.result # b
      BY <1>1, GuestConstants DEF GuestInv, OneReveal
  <2>2. demoTimer # None => demoTimer \in Bets
      BY DEF GuestInv, GuestTypes, MaybeBets
  <2>3. \A c \in cascades : c.result \in Bets
      BY DEF GuestInv, GuestTypes
  <2>. QED BY <1>1, <1>2, <1>3, <1>5, <2>1, <2>2, <2>3, GuestConstants DEF GuestInv, OneReveal
<1>8. ASSUME Smooth' PROVE Asked' /\ Own' /\ History'
  <2>1. Smooth /\ round.bet = b /\ round.phase = "opening" /\ cascades = {} /\ demoTimer = None
      BY <1>1, <1>2, <1>8 DEF GuestInv, Asked, Smooth
  <2>2. \A a \in Bets : calls'[a] # "asked"
      BY <1>1, <1>3, <1>5, <2>1 DEF GuestInv, Asked
  <2>3. Asked'
      BY <2>2 DEF Asked
  <2>4. Own'
      BY <1>1, <1>2, <1>3, <1>4, <1>5, <2>1, GuestConstants DEF GuestInv, Own
  <2>5. History'
      BY <1>2, <1>3, <1>4, <1>5, <2>1 DEF GuestInv, History
  <2>. QED BY <2>3, <2>4, <2>5
<1>. QED BY <1>6, <1>7, <1>8 DEF GuestInv

\* A bet is given up, or its recovery refused: from then on nothing is said of
\* the history.
LEMMA TroubleKeeps ==
    ASSUME GuestInv, OpeningTimeout \/ \E b \in Bets : CancelRejected(b)
    PROVE  GuestInv'
<1>1. /\ round' = [round EXCEPT !.phase = "error"]
      /\ UNCHANGED <<rendered, sessionKey, betInFlight, cascades, demoTimer, clicks, calls,
                     recorded, revealed>>
    BY DEF OpeningTimeout, CancelRejected, pageVars, callVars
<1>2. round' \in GuestRounds
    BY <1>1, PhaseOf DEF GuestInv, GuestPhases
<1>3. GuestTypes' /\ OneReveal'
    BY <1>1, <1>2 DEF GuestInv, GuestTypes, OneReveal
<1>4. ~Smooth'
    BY DEF OpeningTimeout, CancelRejected, Smooth
<1>. QED BY <1>3, <1>4 DEF GuestInv

\* A lane falls.
LEMMA LaneKeeps == ASSUME GuestInv, NEW c \in cascades, LaneTimer(c) PROVE GuestInv'
<1>. DEFINE fallen == [c EXCEPT !.left = @ - 1]
<1>1. /\ c.left > 0 /\ cascades' = (cascades \ {c}) \cup {fallen}
      /\ UNCHANGED <<round, rendered, sessionKey, betInFlight, demoTimer, clicks, calls,
                     recorded, revealed, gaveUp, refused>>
    BY DEF LaneTimer, pageVars, callVars, pastVars
<1>2. c \in [result : Bets, left : Nat]
    BY DEF GuestInv, GuestTypes
<1>3. fallen.result = c.result /\ fallen \in [result : Bets, left : Nat]
    BY <1>1, <1>2
<1>. HIDE DEF fallen
<1>4. GuestTypes'
    BY <1>1, <1>3 DEF GuestInv, GuestTypes
<1>5. OneReveal'
  <2>1. \A d \in cascades' : \E e \in cascades : d.result = e.result
      BY <1>1, <1>3
  <2>2. \A d, e \in cascades' : d.result = e.result => d = e
      BY <1>1, <1>3 DEF GuestInv, OneReveal
  <2>. QED BY <1>1, <2>1, <2>2 DEF GuestInv, OneReveal
<1>6. ASSUME Smooth' PROVE Asked' /\ Own' /\ History'
  <2>1. \A d \in cascades' : \E e \in cascades : d.result = e.result
      BY <1>1, <1>3
  <2>2. Smooth /\ Asked /\ Own /\ History
      BY <1>1, <1>6 DEF GuestInv, Smooth
  <2>3. Asked' /\ History'
      BY <1>1, <2>2 DEF Asked, History
  <2>4. Own'
      BY <1>1, <2>1, <2>2 DEF Own
  <2>. QED BY <2>3, <2>4
<1>. QED BY <1>4, <1>5, <1>6 DEF GuestInv

\* The last lane has fallen: the result is announced and revealed.
LEMMA SettleKeeps == ASSUME GuestInv, NEW c \in cascades, SettleTimer(c) PROVE GuestInv'
<1>1. /\ cascades' = cascades \ {c} /\ round' = [round EXCEPT !.phase = "settled"]
      /\ UNCHANGED <<rendered, sessionKey, betInFlight, demoTimer, clicks, calls,
                     recorded, gaveUp, refused>>
    BY DEF SettleTimer, pageVars, callVars
<1>2. c.result \in Bets /\ revealed \in [Bets -> Nat]
    BY DEF GuestInv, GuestTypes
<1>3. /\ round' \in GuestRounds
      /\ round'.phase = "settled" /\ round'.bet = round.bet /\ round'.result = round.result
    BY <1>1, PhaseOf DEF GuestInv, GuestPhases
<1>4. /\ revealed' \in [Bets -> Nat]
      /\ \A b \in Bets : b # c.result => revealed'[b] = revealed[b]
      /\ revealed'[c.result] <= 1
      /\ revealed'[c.result] # 0 => calls[c.result] = "answered"
  <2>1. revealed[c.result] = 0 /\ calls[c.result] \in {"answered", "demo"}
      BY DEF GuestInv, OneReveal
  <2>. QED BY <1>2, <2>1 DEF SettleTimer
<1>5. GuestTypes'
    BY <1>1, <1>3, <1>4 DEF GuestInv, GuestTypes
<1>6. OneReveal'
  <2>1. \A d \in cascades' : d.result # c.result /\ d.result \in Bets
      BY <1>1 DEF GuestInv, OneReveal, GuestTypes
  <2>2. sessionKey # None => sessionKey \in Bets /\ sessionKey # c.result
      BY DEF GuestInv, GuestTypes, OneReveal, MaybeBets
  <2>. QED BY <1>1, <1>4, <2>1, <2>2 DEF GuestInv, OneReveal
<1>7. ASSUME Smooth' PROVE Asked' /\ Own' /\ History'
  <2>1. Smooth /\ round.phase = "revealing" /\ demoTimer = None
      BY <1>1, <1>7 DEF GuestInv, Own, Smooth
  <2>2. cascades' = {}
    <3>1. \A d \in cascades : d.result = c.result
        BY <2>1 DEF GuestInv, Own
    <3>. QED BY <1>1, <3>1 DEF GuestInv, OneReveal
  <2>. QED BY <1>1, <1>3, <2>1, <2>2 DEF GuestInv, Asked, Own, History
<1>. QED BY <1>5, <1>6, <1>7 DEF GuestInv

\* The result of b, its bet, is shown: at once, or by a cascade.
LEMMA PlayKeeps ==
    ASSUME GuestInv, NEW b \in Bets, NEW r \in GuestRounds, PlayCascade(r, b),
           r.bet = round.bet,
           calls[b] \in {"answered", "demo"}, revealed[b] = 0,
           \A c \in cascades : c.result # b,
           sessionKey' \in MaybeBets, sessionKey' # b,
           sessionKey' # None => sessionKey' = sessionKey,
           demoTimer' \in MaybeBets, demoTimer' # b,
           demoTimer' # None => demoTimer' = demoTimer,
           Smooth => /\ b = round.bet /\ cascades = {} /\ demoTimer' = None
                     /\ \A a \in Bets : calls[a] # "asked",
           Smooth => round.phase # "settled",
           betInFlight' \in BOOLEAN, clicks' \in Nat,
           rendered'.round = rendered.round \/ rendered'.round = round,
           UNCHANGED <<calls, recorded, gaveUp, refused>>
    PROVE  GuestInv'
<1>1. /\ round' \in GuestRounds /\ round'.bet = round.bet /\ round'.result = b
      /\ round'.phase \in {"revealing", "settled"}
    BY DEF PlayCascade, GuestRounds, GuestPhases, MaybeBets
<1>2. /\ revealed' \in [Bets -> Nat] /\ \A a \in Bets : a # b => revealed'[a] = revealed[a]
      /\ revealed'[b] <= 1 /\ (revealed'[b] # 0 => calls[b] = "answered")
  <2>1. revealed \in [Bets -> Nat]
      BY DEF GuestInv, GuestTypes
  <2>. QED BY <2>1 DEF PlayCascade
<1>3. \/ cascades' = cascades
      \/ /\ cascades' = cascades \cup {[result |-> b, left |-> Lanes]}
         /\ round'.phase = "revealing" /\ revealed' = revealed
    BY DEF PlayCascade, GuestRounds
<1>4. cascades' \subseteq [result : Bets, left : Nat]
    BY <1>3, LedgeGuestAssumption DEF GuestInv, GuestTypes
<1>5. GuestTypes'
  <2>1. rendered'.round \in GuestRounds
      BY DEF GuestInv, GuestTypes
  <2>. QED BY <1>1, <1>2, <1>4, <2>1 DEF GuestInv, GuestTypes
<1>6. OneReveal'
  <2>1. \A c \in cascades' : c.result = b \/ c \in cascades
      BY <1>3
  <2>2. \A c \in cascades' : /\ calls[c.result] \in {"answered", "demo"} /\ revealed'[c.result] = 0
                             /\ c.result # sessionKey' /\ c.result # demoTimer'
    <3>1. \A c \in cascades : /\ c.result \in Bets /\ c.result # b
                              /\ calls[c.result] \in {"answered", "demo"} /\ revealed[c.result] = 0
                              /\ c.result # sessionKey /\ c.result # demoTimer
        BY DEF GuestInv, GuestTypes, OneReveal
    <3>2. \A c \in cascades : c.result # None
        BY <3>1, GuestConstants
    <3>. QED BY <1>2, <1>3, <3>1, <3>2
  <2>3. \A c, d \in cascades' : c.result = d.result => c = d
      BY <1>3 DEF GuestInv, OneReveal
  <2>4. \A a \in Bets : revealed'[a] <= 1 /\ (calls'[a] # "answered" => revealed'[a] = 0)
      BY <1>2 DEF GuestInv, GuestTypes, OneReveal
  <2>5. sessionKey' # None => calls'[sessionKey'] = "answered" /\ revealed'[sessionKey'] = 0
    <3>1. sessionKey' # None => sessionKey' \in Bets
        BY DEF MaybeBets
    <3>. QED BY <1>2, <3>1 DEF GuestInv, OneReveal
  <2>6. demoTimer' # None => calls'[demoTimer'] = "demo"
      BY DEF GuestInv, OneReveal
  <2>. QED BY <2>2, <2>3, <2>4, <2>5, <2>6 DEF OneReveal
<1>7. ASSUME Smooth' PROVE Asked' /\ Own' /\ History'
  <2>1. Smooth /\ Asked /\ Own /\ History
      BY <1>7 DEF GuestInv, Smooth
  <2>2. Asked'
      BY <2>1 DEF Asked
  <2>3. \A c \in cascades' : c.result = b /\ round'.phase = "revealing"
      BY <1>3, <2>1
  <2>4. round'.bet # None => calls'[round'.bet] # "none"
      BY <1>1, <2>1
  <2>5. Own'
      BY <1>1, <2>1, <2>3, <2>4, GuestConstants DEF Own
  <2>6. \A i \in 1..Len(recorded) : recorded[i][1] # round.bet
      BY <2>1 DEF History
  <2>7. History'
      BY <1>1, <2>1, <2>6 DEF History
  <2>. QED BY <2>2, <2>5, <2>7
<1>. QED BY <1>5, <1>6, <1>7 DEF GuestInv

LEMMA DemoKeeps == GuestInv /\ DemoTimer => GuestInv'
<1>. SUFFICES ASSUME GuestInv, DemoTimer PROVE GuestInv'
    OBVIOUS
<1>1. /\ demoTimer # None /\ demoTimer' = None /\ PlayCascade(round, demoTimer)
      /\ UNCHANGED <<rendered, sessionKey, betInFlight, clicks, calls, recorded, gaveUp, refused>>
    BY DEF DemoTimer, pageVars, callVars
<1>2. /\ demoTimer \in Bets /\ round \in GuestRounds /\ sessionKey \in MaybeBets
      /\ betInFlight \in BOOLEAN /\ clicks \in Nat
    BY <1>1 DEF GuestInv, GuestTypes, MaybeBets
<1>3. /\ calls[demoTimer] = "demo" /\ revealed[demoTimer] = 0 /\ sessionKey # demoTimer
      /\ \A c \in cascades : c.result # demoTimer
    BY <1>1, <1>2, GuestConstants DEF GuestInv, OneReveal
<1>4. Smooth => /\ demoTimer = round.bet /\ cascades = {} /\ round.phase # "settled"
                /\ \A a \in Bets : calls[a] # "asked"
    BY <1>1 DEF GuestInv, Own, Asked
<1>5. demoTimer' \in MaybeBets /\ demoTimer' # demoTimer
    BY <1>1 DEF MaybeBets
<1>. QED BY <1>1, <1>2, <1>3, <1>4, <1>5, PlayKeeps

LEMMA FatesKept == FateTypes /\ [GuestNext]_guestVars => FateTypes'
BY DEF FateTypes, Fates, GuestNext, guestVars, pageVars, roundVars, callVars, pastVars, Handshake,
       GraceTimeout, Dismiss, OpeningTimeout, StuckTimeout, DemoTimer, Render, Drop,
       RecoverStuckBet, Answered, Rejected, CancelRejected, Lands, Settles, Cancels, Push,
       LaneTimer, SettleTimer

\* The latch stays shut while a bet is asked for: its round is not over.
LEMMA LatchHolds ==
    ASSUME GuestInv, Render, Smooth, NEW b \in Bets, calls[b] = "asked"
    PROVE  betInFlight'
<1>1. betInFlight /\ round.phase = "opening"
    BY DEF GuestInv, Asked
<1>. QED BY <1>1 DEF Render, RESTARTABLE_PHASES

LEMMA RenderTypes ==
    ASSUME GuestInv, Render
    PROVE  /\ clicks' = 0 /\ rendered'.round = round /\ betInFlight' \in BOOLEAN
           /\ UNCHANGED <<demoTimer, calls, gaveUp, refused>>
           /\ round \in GuestRounds /\ sessionKey \in MaybeBets /\ demoTimer \in MaybeBets
BY DEF Render, callVars, GuestInv, GuestTypes

\* A render that plays nothing: the history may take the round.
LEMMA RecordKeeps ==
    ASSUME GuestInv, Render, UNCHANGED <<round, sessionKey, cascades, revealed>>
    PROVE  GuestInv'
<1>1. recorded' = IF Records THEN Append(recorded, <<round.bet, round.result>>) ELSE recorded
    BY DEF Render
<1>2. recorded \in Seq(MaybeBets \X MaybeBets)
    BY DEF GuestInv, GuestTypes
<1>3. CASE ~Records
  <2>1. GuestTypes' /\ OneReveal'
      BY <1>1, <1>3, RenderTypes DEF GuestInv, GuestTypes, OneReveal
  <2>2. ASSUME Smooth' PROVE Asked' /\ Own' /\ History'
    <3>1. Smooth /\ Asked /\ Own /\ History
        BY <2>2, RenderTypes DEF GuestInv, Smooth
    <3>2. Asked'
        BY <3>1, RenderTypes, LatchHolds DEF Asked
    <3>3. Own'
        BY <3>1, RenderTypes DEF Own
    <3>4. History'
        BY <1>1, <1>3, <3>1, RenderTypes DEF History
    <3>. QED BY <3>2, <3>3, <3>4
  <2>. QED BY <2>1, <2>2 DEF GuestInv
<1>4. CASE Records
  <2>. DEFINE entry == <<round.bet, round.result>>
  <2>1. /\ rendered.round.phase # "settled" /\ round.phase = "settled" /\ round.result # None
        /\ recorded' = Append(recorded, entry)
        /\ entry \in MaybeBets \X MaybeBets
        /\ entry[1] = round.bet /\ entry[2] = round.result
      BY <1>1, <1>4 DEF Records, GuestInv, GuestTypes, GuestRounds
  <2>. HIDE DEF entry
  <2>2. /\ recorded' \in Seq(MaybeBets \X MaybeBets)
        /\ Len(recorded') = Len(recorded) + 1 /\ Len(recorded) \in Nat
        /\ \A i \in 1..Len(recorded) : recorded'[i] = recorded[i]
        /\ recorded'[Len(recorded) + 1] = entry
      BY <1>2, <2>1, AppendProperties, LenProperties
  <2>3. GuestTypes' /\ OneReveal'
      BY <2>2, RenderTypes DEF GuestInv, GuestTypes, OneReveal
  <2>4. ASSUME Smooth' PROVE Asked' /\ Own' /\ History'
    <3>1. Smooth /\ Asked /\ Own /\ History
        BY <2>4, RenderTypes DEF GuestInv, Smooth
    <3>2. Asked'
        BY <3>1, RenderTypes, LatchHolds DEF Asked
    <3>3. Own'
        BY <3>1, RenderTypes DEF Own
    <3>4. round.bet \in Bets /\ round.result = round.bet /\ calls[round.bet] # "none"
        BY <2>1, <3>1, RenderTypes DEF Own, GuestRounds, MaybeBets
    <3>5. \A i \in 1..Len(recorded) : recorded[i][1] # round.bet
        BY <2>1, <3>1 DEF History
    <3>6. \A i \in 1..Len(recorded') : i = Len(recorded) + 1 \/ i \in 1..Len(recorded)
        BY <2>2
    <3>7. \A i \in 1..Len(recorded') :
            /\ recorded'[i][1] = recorded'[i][2]
            /\ recorded'[i][1] \in Bets /\ calls'[recorded'[i][1]] # "none"
        BY <2>1, <2>2, <3>1, <3>4, <3>6, RenderTypes DEF History
    <3>8. \A i, j \in 1..Len(recorded') : recorded'[i][1] = recorded'[j][1] => i = j
        BY <2>1, <2>2, <3>1, <3>5, <3>6 DEF History
    <3>9. rendered'.round.phase = "settled" /\ round'.phase = "settled"
        BY <2>1, RenderTypes
    <3>10. History'
        BY <3>7, <3>8, <3>9 DEF History
    <3>. QED BY <3>2, <3>3, <3>10
  <2>. QED BY <2>3, <2>4 DEF GuestInv
<1>. QED BY <1>3, <1>4

LEMMA RenderKeeps == ASSUME GuestInv, FateTypes, Render PROVE GuestInv'
<1>. DEFINE b == sessionKey
            seen == [round EXCEPT !.session = b]
<1>1. CASE UNCHANGED <<round, sessionKey, cascades, revealed>>
    BY <1>1, RecordKeeps
<1>2. CASE ~UNCHANGED <<round, sessionKey, cascades, revealed>>
  <2>1. /\ round.phase = "waiting" /\ b # None /\ snapshot[b] # "none"
        /\ \/ /\ snapshot[b] = "open" /\ round' = seen
              /\ UNCHANGED <<sessionKey, cascades, revealed>>
           \/ /\ snapshot[b] = "cancelled" /\ round' = [seen EXCEPT !.phase = "error"]
              /\ sessionKey' = None /\ UNCHANGED <<cascades, revealed>>
           \/ snapshot[b] = "settled" /\ sessionKey' = None /\ PlayCascade(seen, b)
    <3>1. WatchSession
        BY <1>2 DEF Render
    <3>2. b \in Bets /\ snapshot[b] \in {"open", "cancelled", "settled"}
        BY <3>1 DEF WatchSession, GuestInv, GuestTypes, MaybeBets, FateTypes, Fates
    <3>. QED BY <1>2, <3>1, <3>2 DEF Render, WatchSession, Watched
  <2>2. b \in Bets /\ recorded' = recorded
      BY <2>1 DEF GuestInv, GuestTypes, MaybeBets, Render, Records
  <2>3. /\ seen \in GuestRounds /\ seen.phase = round.phase /\ seen.bet = round.bet
        /\ seen.result = round.result
      BY <2>2 DEF GuestInv, GuestTypes, GuestRounds, MaybeBets
  <2>. HIDE DEF seen
  <2>4. /\ calls[b] = "answered" /\ revealed[b] = 0
        /\ \A c \in cascades : c.result # b
      BY <2>1 DEF GuestInv, OneReveal
  <2>5. Smooth => /\ b = round.bet /\ cascades = {} /\ demoTimer = None /\ round.result = None
                  /\ \A a \in Bets : calls[a] # "asked"
      BY <2>1 DEF GuestInv, Own, Asked
  <2>6. CASE PlayCascade(seen, b) /\ sessionKey' = None
    <3>1. demoTimer # b
        BY <2>4, <2>2, GuestConstants DEF GuestInv, OneReveal
    <3>2. sessionKey' \in MaybeBets /\ sessionKey' # b
        BY <2>1, <2>6 DEF MaybeBets
    <3>. HIDE DEF b
    <3>. QED BY <2>1, <2>2, <2>3, <2>4, <2>5, <2>6, <3>1, <3>2, RenderTypes, PlayKeeps
  <2>7. ASSUME UNCHANGED <<cascades, revealed>>, round' \in GuestRounds,
               round'.bet = round.bet, round'.result = round.result,
               \/ round'.phase = "waiting" /\ sessionKey' = sessionKey
               \/ round'.phase = "error" /\ sessionKey' = None
        PROVE  GuestInv'
    <3>1. GuestTypes' /\ OneReveal'
      <4>1. GuestTypes'
        <5>1. sessionKey' \in MaybeBets /\ clicks' \in Nat /\ rendered'.round \in GuestRounds
            BY <2>7, RenderTypes DEF MaybeBets
        <5>. QED BY <2>2, <2>7, <5>1, RenderTypes DEF GuestInv, GuestTypes
      <4>2. \A c \in cascades : c.result # None
          BY GuestConstants DEF GuestInv, GuestTypes
      <4>3. /\ cascades' = cascades /\ revealed' = revealed /\ calls' = calls
            /\ demoTimer' = demoTimer /\ (sessionKey' = sessionKey \/ sessionKey' = None)
          BY <2>7, RenderTypes
      <4>4. OneReveal'
          BY <4>2, <4>3 DEF GuestInv, OneReveal
      <4>. QED BY <4>1, <4>4
    <3>2. ASSUME Smooth' PROVE Asked' /\ Own' /\ History'
      <4>1. Smooth /\ Asked /\ Own /\ History
          BY <3>2, RenderTypes DEF GuestInv, Smooth
      <4>2. Asked' /\ Own'
          BY <2>1, <2>2, <2>5, <2>7, <4>1, RenderTypes DEF Asked, Own
      <4>3. History'
          BY <2>1, <2>2, <2>7, <4>1, RenderTypes DEF History
      <4>. QED BY <4>2, <4>3
    <3>. QED BY <3>1, <3>2 DEF GuestInv
  <2>8. CASE round' = seen /\ UNCHANGED <<sessionKey, cascades, revealed>>
      BY <2>1, <2>3, <2>7, <2>8
  <2>9. CASE round' = [seen EXCEPT !.phase = "error"] /\ sessionKey' = None
             /\ UNCHANGED <<cascades, revealed>>
    <3>1. /\ round' \in GuestRounds /\ round'.phase = "error"
          /\ round'.bet = round.bet /\ round'.result = round.result
        BY <2>3, <2>9 DEF GuestRounds, GuestPhases
    <3>. QED BY <2>7, <2>9, <3>1
  <2>. QED BY <2>1, <2>6, <2>8, <2>9
<1>. QED BY <1>1, <1>2

LEMMA GuestStep == GuestInv /\ FateTypes /\ [GuestNext]_guestVars => GuestInv'
<1>. SUFFICES ASSUME GuestInv, FateTypes, [GuestNext]_guestVars PROVE GuestInv'
    OBVIOUS
<1>1. CASE Handshake \/ GraceTimeout \/ StuckTimeout \/ UNCHANGED guestVars
    BY <1>1, GuestUntouched DEF Handshake, GraceTimeout, StuckTimeout, guestVars, pageVars,
           roundVars, callVars, pastVars
<1>2. ASSUME NEW b \in Bets, RecoverStuckBet(b) \/ Lands(b) \/ Settles(b) \/ Cancels(b) \/ Push(b)
      PROVE  GuestInv'
    BY <1>2, GuestUntouched DEF RecoverStuckBet, Lands, Settles, Cancels, Push, pageVars,
           roundVars, callVars, pastVars
<1>3. CASE Dismiss
    BY <1>3, DismissKeeps
<1>4. CASE OpeningTimeout
    BY <1>4, TroubleKeeps
<1>5. CASE DemoTimer
    BY <1>5, DemoKeeps
<1>6. CASE Render
    BY <1>6, RenderKeeps
<1>7. ASSUME NEW b \in Bets, Drop(b) \/ Answered(b) \/ Rejected(b) \/ CancelRejected(b)
      PROVE  GuestInv'
    BY <1>7, DropKeeps, AnswerKeeps, TroubleKeeps
<1>8. ASSUME NEW c \in cascades, LaneTimer(c) \/ SettleTimer(c) PROVE GuestInv'
    BY <1>8, LaneKeeps, SettleKeeps
<1>. QED BY <1>1, <1>2, <1>3, <1>4, <1>5, <1>6, <1>7, <1>8 DEF GuestNext

\* Each result is revealed at most once; and as long as no bet is given up and
\* no recovery refused, the history has every result once, with its own bet, and
\* no two bets are on their way at a time (useLedgeRound.ts): for any order of
\* clicks, timers, renders, answers and pushes.
THEOREM GuestSafety == GuestSpec => []ResultsStayWithTheirBets
<1>1. GuestInit => FateTypes
    BY DEF GuestInit, FateTypes, Fates
<1>2. GuestInv => ResultsStayWithTheirBets
  <2>. SUFFICES ASSUME GuestInv PROVE ResultsStayWithTheirBets
      OBVIOUS
  <2>1. DOMAIN recorded = 1..Len(recorded)
      BY LenProperties DEF GuestInv, GuestTypes
  <2>2. Smooth => /\ \A i, j \in DOMAIN recorded : recorded[i][2] = recorded[j][2] => i = j
                  /\ \A i \in DOMAIN recorded : recorded[i][1] = recorded[i][2]
      BY <2>1 DEF GuestInv, History
  <2>. QED BY <2>2 DEF GuestInv, OneReveal, Asked, Own, ResultsStayWithTheirBets
<1>. QED BY <1>1, <1>2, GuestInitially, GuestStep, FatesKept, PTL DEF GuestSpec

-----------------------------------------------------------------------------
\* The coinflip page

CoinTypes ==
    /\ DOMAIN contract = Rounds /\ DOMAIN rows = Rounds /\ DOMAIN opens = Rounds
    /\ reveals \in [Rounds -> Nat]
    /\ \A b \in Rounds : DOMAIN contract[b] = {"phase", "form", "word", "payout"}
    /\ flip = [key |-> flip.key, form |-> flip.form, status |-> flip.status,
               outcome |-> flip.outcome, payout |-> flip.payout]

\* A row tells parts of the truth.
RowTrue(row, c) ==
    /\ row.phase \in TerminalPhases => row.phase = c.phase
    /\ row.payout # Nil => row.payout = c.payout
    /\ row.randomness # 0 => row.randomness = c.word

Sessions ==
    \A b \in Rounds :
       LET c == contract[b]
       IN  /\ opens[b] = "none" => c.phase = "none"
           /\ opens[b] # "none" => c.form \in offer.forms
           /\ RowTrue(rows[b], c)
           /\ c.phase \notin TerminalPhases => c.word = 0 /\ c.payout = Nil
           /\ c.phase = "settled" =>
                c.payout = IF outcomeFromRandomness(c.form, c.word).won
                           THEN maxPayout(Wager, c.form.coinCount, c.form.minWins) ELSE 0

\* The round on the page is that of a bet, and moves on with it.
Stage ==
    \/ flip = NoRound
    \/ \E b \in Rounds :
          /\ flip.form = contract[b].form
          /\ \/ /\ flip.key = PendingKey(b) /\ flip.status = "opening"
                /\ flip.outcome = Nil /\ opens[b] = "asked"
             \/ /\ flip.key = SessionKey(b) /\ opens[b] = "answered"
                /\ \/ flip.status = "waiting" /\ flip.outcome = Nil
                   \/ flip.status \in {"landing", "done"} /\ contract[b].phase \in TerminalPhases

\* What it shows is so.
ShowsTruth ==
    \A b \in Rounds : flip.key = SessionKey(b) =>
      /\ flip.outcome # Nil /\ contract[b].phase = "settled" =>
           /\ flip.outcome.won = outcomeFromRandomness(contract[b].form, contract[b].word).won
           /\ flip.payout = contract[b].payout
      /\ flip.status # "done" => reveals[b] = 0

Unrevealed == \A b \in Rounds : opens[b] # "answered" => reveals[b] = 0

CoinInv == offer \in Offers /\ CoinTypes /\ Sessions /\ Stage /\ ShowsTruth /\ Unrevealed

LEMMA CoinInitially == CoinInit => CoinInv
<1>. SUFFICES ASSUME CoinInit PROVE CoinInv
    OBVIOUS
<1>1. CoinTypes
    BY DEF CoinInit, CoinTypes, NoRound, Unopened
<1>2. Sessions /\ Stage /\ Unrevealed
    BY DEF CoinInit, Sessions, Stage, Unrevealed, RowTrue, NoRow, Unopened, TerminalPhases
<1>3. ShowsTruth
    BY DEF CoinInit, ShowsTruth, NoRound, SessionKey
<1>. QED BY <1>1, <1>2, <1>3 DEF CoinInit, CoinInv

LEMMA CoinUntouched ==
    ASSUME CoinInv, UNCHANGED <<offer, flip, contract, rows, opens, reveals>>
    PROVE  CoinInv'
BY DEF CoinInv, CoinTypes, Sessions, Stage, ShowsTruth, Unrevealed

LEMMA OpenRoundKeeps == ASSUME CoinInv, NEW b \in Rounds, openRound(b) PROVE CoinInv'
<1>1. PICK form \in offer.forms :
        /\ flip' = [NoRound EXCEPT !.key = PendingKey(b), !.form = form, !.status = "opening"]
        /\ contract' = [contract EXCEPT ![b].form = form]
    BY DEF openRound
<1>2. /\ opens[b] = "none" /\ opens' = [opens EXCEPT ![b] = "asked"]
      /\ offer' = offer /\ rows' = rows /\ reveals' = reveals
    BY DEF openRound, inputVars
<1>3. flip' = [key |-> PendingKey(b), form |-> form, status |-> "opening", outcome |-> Nil,
               payout |-> Nil]
    BY <1>1 DEF NoRound
<1>4. /\ \A a \in Rounds : a # b => contract'[a] = contract[a] /\ opens'[a] = opens[a]
      /\ contract'[b].form = form /\ contract'[b].phase = contract[b].phase
      /\ contract'[b].word = contract[b].word /\ contract'[b].payout = contract[b].payout
      /\ opens'[b] = "asked"
    BY <1>1, <1>2 DEF CoinInv, CoinTypes
<1>5. CoinTypes'
    BY <1>1, <1>2, <1>3 DEF CoinInv, CoinTypes
<1>6. Sessions'
    BY <1>2, <1>4 DEF CoinInv, Sessions, RowTrue, TerminalPhases
<1>7. Stage'
    BY <1>3, <1>4 DEF Stage
<1>8. ShowsTruth' /\ Unrevealed'
    BY <1>2, <1>3, <1>4 DEF CoinInv, ShowsTruth, Unrevealed, PendingKey, SessionKey
<1>. QED BY <1>2, <1>5, <1>6, <1>7, <1>8 DEF CoinInv

LEMMA OpenAnsweredKeeps == ASSUME CoinInv, NEW b \in Rounds, OpenAnswered(b) PROVE CoinInv'
<1>1. /\ opens[b] = "asked" /\ opens' = [opens EXCEPT ![b] = "answered"]
      /\ flip' = IF flip.key = PendingKey(b)
                 THEN [flip EXCEPT !.key = SessionKey(b), !.status = "waiting"] ELSE flip
      /\ offer' = offer /\ rows' = rows /\ reveals' = reveals /\ contract' = contract
    BY DEF OpenAnswered, inputVars
<1>2. opens'[b] = "answered" /\ \A a \in Rounds : a # b => opens'[a] = opens[a]
    BY <1>1 DEF CoinInv, CoinTypes
<1>3. Sessions' /\ Unrevealed' /\ reveals[b] = 0
    BY <1>1, <1>2 DEF CoinInv, Sessions, Unrevealed
<1>4. CASE flip.key = PendingKey(b)
  <2>1. flip' = [key |-> SessionKey(b), form |-> flip.form, status |-> "waiting",
                 outcome |-> flip.outcome, payout |-> flip.payout]
      BY <1>1, <1>4 DEF CoinInv, CoinTypes
  <2>2. flip.form = contract[b].form /\ flip.outcome = Nil
      BY <1>4 DEF CoinInv, Stage, NoRound, PendingKey, SessionKey
  <2>3. CoinTypes'
      BY <1>1, <2>1 DEF CoinInv, CoinTypes
  <2>4. Stage'
      BY <1>1, <1>2, <2>1, <2>2 DEF Stage
  <2>5. ShowsTruth'
      BY <1>1, <1>3, <2>1, <2>2 DEF ShowsTruth, SessionKey
  <2>. QED BY <1>1, <1>3, <2>3, <2>4, <2>5 DEF CoinInv
<1>5. CASE flip.key # PendingKey(b)
  <2>1. CoinTypes' /\ ShowsTruth'
      BY <1>1, <1>5 DEF CoinInv, CoinTypes, ShowsTruth
  <2>2. Stage'
      BY <1>1, <1>2, <1>5 DEF CoinInv, Stage
  <2>. QED BY <1>1, <1>3, <2>1, <2>2 DEF CoinInv
<1>. QED BY <1>4, <1>5

LEMMA OpenRejectedKeeps == ASSUME CoinInv, NEW b \in Rounds, OpenRejected(b) PROVE CoinInv'
<1>1. /\ opens[b] = "asked" /\ opens' = [opens EXCEPT ![b] = "rejected"] /\ flip' = NoRound
      /\ offer' = offer /\ rows' = rows /\ reveals' = reveals /\ contract' = contract
    BY DEF OpenRejected, inputVars
<1>2. opens'[b] = "rejected" /\ \A a \in Rounds : a # b => opens'[a] = opens[a]
    BY <1>1 DEF CoinInv, CoinTypes
<1>3. Sessions' /\ Unrevealed'
    BY <1>1, <1>2 DEF CoinInv, Sessions, Unrevealed
<1>4. CoinTypes' /\ Stage' /\ ShowsTruth'
    BY <1>1 DEF CoinInv, CoinTypes, Stage, ShowsTruth, NoRound, SessionKey
<1>. QED BY <1>1, <1>3, <1>4 DEF CoinInv

\* A session that is not over goes on.
LEMMA SessionKeeps ==
    ASSUME CoinInv, NEW b \in Rounds, NEW c,
           contract' = [contract EXCEPT ![b] = c],
           UNCHANGED <<offer, flip, rows, opens, reveals>>,
           contract[b].phase \notin TerminalPhases,
           DOMAIN c = {"phase", "form", "word", "payout"}, c.form = contract[b].form,
           opens[b] # "none", rows[b].phase \notin TerminalPhases,
           \/ c.phase \notin TerminalPhases /\ c.word = 0 /\ c.payout = Nil
           \/ c.phase = "cancelled"
           \/ c.phase = "settled" /\ c.payout = IF outcomeFromRandomness(c.form, c.word).won
                                             THEN maxPayout(Wager, c.form.coinCount, c.form.minWins)
                                             ELSE 0
    PROVE  CoinInv'
<1>1. contract'[b] = c /\ \A a \in Rounds : a # b => contract'[a] = contract[a]
    BY DEF CoinInv, CoinTypes
<1>2. CoinTypes'
    BY <1>1 DEF CoinInv, CoinTypes
<1>3. RowTrue(rows[b], c)
  <2>1. (rows[b].payout # Nil => rows[b].payout = Nil) /\ (rows[b].randomness # 0 => rows[b].randomness = 0)
      BY DEF CoinInv, Sessions, RowTrue
  <2>. QED BY <2>1 DEF RowTrue
<1>4. Sessions'
    BY <1>1, <1>3 DEF CoinInv, Sessions, TerminalPhases
<1>5. Stage'
  <2>1. CASE flip = NoRound
      BY <2>1 DEF Stage
  <2>2. CASE flip # NoRound
    <3>1. PICK a \in Rounds :
            /\ flip.form = contract[a].form
            /\ \/ flip.key = PendingKey(a) /\ flip.status = "opening"
                  /\ flip.outcome = Nil /\ opens[a] = "asked"
               \/ /\ flip.key = SessionKey(a) /\ opens[a] = "answered"
                  /\ \/ flip.status = "waiting" /\ flip.outcome = Nil
                     \/ flip.status \in {"landing", "done"} /\ contract[a].phase \in TerminalPhases
        BY <2>2 DEF CoinInv, Stage
    <3>2. contract'[a].form = contract[a].form
          /\ (contract[a].phase \in TerminalPhases => contract'[a] = contract[a])
        BY <1>1
    <3>. QED BY <3>1, <3>2 DEF Stage
  <2>. QED BY <2>1, <2>2
<1>6. ShowsTruth'
  <2>. SUFFICES ASSUME NEW a \in Rounds, flip.key = SessionKey(a)
                PROVE  /\ flip.outcome # Nil /\ contract'[a].phase = "settled" =>
                            /\ flip.outcome.won = outcomeFromRandomness(contract'[a].form,
                                                                         contract'[a].word).won
                            /\ flip.payout = contract'[a].payout
                       /\ flip.status # "done" => reveals[a] = 0
      BY DEF ShowsTruth
  <2>1. CASE a # b
      BY <1>1, <2>1 DEF CoinInv, ShowsTruth
  <2>2. CASE a = b
    <3>1. flip.outcome = Nil
        BY <2>2 DEF CoinInv, Stage, NoRound, PendingKey, SessionKey
    <3>. QED BY <3>1 DEF CoinInv, ShowsTruth
  <2>. QED BY <2>1, <2>2
<1>7. Unrevealed'
    BY DEF CoinInv, Unrevealed
<1>. QED BY <1>2, <1>4, <1>5, <1>6, <1>7 DEF CoinInv

\* A bet is mined, and its session ends.
LEMMA ChainKeeps == ASSUME CoinInv, NEW b \in Rounds, FlipLands(b) \/ Ends(b) PROVE CoinInv'
<1>1. UNCHANGED <<offer, flip, rows, opens, reveals>> /\ opens[b] # "none"
      /\ contract[b].phase \in {"none", "open"}
    BY DEF FlipLands, Ends, inputVars, shownVars, CoinInv, Sessions
<1>2. /\ DOMAIN contract = Rounds /\ DOMAIN contract[b] = {"phase", "form", "word", "payout"}
      /\ contract[b].word = 0 /\ contract[b].payout = Nil
      /\ contract[b].phase \notin TerminalPhases /\ rows[b].phase \notin TerminalPhases
    BY <1>1 DEF CoinInv, CoinTypes, Sessions, TerminalPhases, RowTrue
<1>3. CASE FlipLands(b)
  <2>. DEFINE c == [contract[b] EXCEPT !.phase = "open"]
  <2>1. contract' = [contract EXCEPT ![b] = c]
      BY <1>3 DEF FlipLands
  <2>2. /\ DOMAIN c = {"phase", "form", "word", "payout"} /\ c.form = contract[b].form
        /\ c.word = 0 /\ c.payout = Nil /\ c.phase = "open"
      BY <1>2
  <2>. HIDE DEF c
  <2>. QED BY <1>1, <1>2, <2>1, <2>2, SessionKeeps DEF TerminalPhases
<1>4. CASE Ends(b)
  <2>1. CASE contract' = [contract EXCEPT ![b].phase = "cancelled", ![b].payout = Wager]
    <3>. DEFINE c == [[contract[b] EXCEPT !.phase = "cancelled"] EXCEPT !.payout = Wager]
    <3>1. contract' = [contract EXCEPT ![b] = c]
        BY <1>2, <2>1
    <3>2. /\ DOMAIN c = {"phase", "form", "word", "payout"} /\ c.form = contract[b].form
          /\ c.phase = "cancelled"
        BY <1>2
    <3>. HIDE DEF c
    <3>. QED BY <1>1, <1>2, <3>1, <3>2, SessionKeeps
  <2>2. ASSUME NEW word \in Words,
               contract' = [contract EXCEPT ![b].phase = "settled", ![b].word = word,
                    ![b].payout = IF outcomeFromRandomness(contract[b].form, word).won
                                  THEN maxPayout(Wager, contract[b].form.coinCount,
                                                 contract[b].form.minWins)
                                  ELSE 0]
        PROVE  CoinInv'
    <3>. DEFINE paid == IF outcomeFromRandomness(contract[b].form, word).won
                        THEN maxPayout(Wager, contract[b].form.coinCount, contract[b].form.minWins)
                        ELSE 0
                c == [[[contract[b] EXCEPT !.phase = "settled"] EXCEPT !.word = word]
                        EXCEPT !.payout = paid]
    <3>. HIDE DEF paid
    <3>1. contract' = [contract EXCEPT ![b] = c]
        BY <1>2, <2>2 DEF paid
    <3>2. /\ DOMAIN c = {"phase", "form", "word", "payout"} /\ c.form = contract[b].form
          /\ c.phase = "settled" /\ c.word = word /\ c.payout = paid
        BY <1>2
    <3>. HIDE DEF c
    <3>3. c.payout = IF outcomeFromRandomness(c.form, c.word).won
                     THEN maxPayout(Wager, c.form.coinCount, c.form.minWins) ELSE 0
        BY <3>2 DEF paid
    <3>. QED BY <1>1, <1>2, <3>1, <3>2, <3>3, SessionKeeps
  <2>. QED BY <1>4, <2>1, <2>2 DEF Ends
<1>. QED BY <1>3, <1>4

\* The host pushes what it has.
LEMMA PushKeeps == ASSUME CoinInv, NEW b \in Rounds, PushPart(b) \/ PushAll(b) PROVE CoinInv'
<1>1. PICK row : rows' = [rows EXCEPT ![b] = row] /\ RowTrue(row, contract[b])
  <2>1. CASE PushPart(b)
    <3>1. PICK row \in RowsOf(contract[b]) : rows' = [rows EXCEPT ![b] = row]
        BY <2>1 DEF PushPart
    <3>2. RowTrue(row, contract[b])
        BY <3>1 DEF RowsOf, RowTrue
    <3>. QED BY <3>1, <3>2
  <2>2. CASE PushAll(b)
    <3>1. RowTrue(FullRow(contract[b]), contract[b])
        BY DEF FullRow, RowTrue
    <3>. QED BY <2>2, <3>1 DEF PushAll
  <2>. QED BY <2>1, <2>2
<1>2. UNCHANGED <<offer, flip, contract, opens, reveals>>
    BY DEF PushPart, PushAll, inputVars, shownVars
<1>3. CoinTypes' /\ Stage' /\ ShowsTruth' /\ Unrevealed'
    BY <1>1, <1>2 DEF CoinInv, CoinTypes, Stage, ShowsTruth, Unrevealed
<1>4. \A a \in Rounds : rows'[a] = IF a = b THEN row ELSE rows[a]
    BY <1>1 DEF CoinInv, CoinTypes
<1>5. Sessions'
    BY <1>1, <1>2, <1>4 DEF CoinInv, Sessions
<1>. QED BY <1>2, <1>3, <1>5 DEF CoinInv

\* The richest source of a settled row tells who won, and the payout.
LEMMA ReadsTheResult ==
    ASSUME CoinInv, NEW b \in Rounds, contract[b].phase = "settled", NEW r,
           r.form = contract[b].form,
           Resolved(r, rows[b], contract[b].word) # Nil
    PROVE  LET outcome == Resolved(r, rows[b], contract[b].word)
           IN  /\ outcome.won = outcomeFromRandomness(contract[b].form, contract[b].word).won
               /\ ShownPayout(r, rows[b], outcome) = contract[b].payout
<1>. DEFINE form == contract[b].form
            word == contract[b].word
            won == outcomeFromRandomness(form, word).won
            pay == maxPayout(Wager, form.coinCount, form.minWins)
            paid == contract[b].payout
            row == rows[b]
            outcome == Resolved(r, row, word)
<1>1. won \in BOOLEAN
    BY DEF outcomeFromRandomness
<1>2. pay \in Int /\ pay > 0
  <2>1. form \in offer.forms /\ offer \in Offers
      BY DEF CoinInv, Sessions, TerminalPhases
  <2>. QED BY <2>1, CoinflipGuestAssumption
<1>3. paid = IF won THEN pay ELSE 0
    BY DEF CoinInv, Sessions
<1>4. row.payout # Nil => row.payout = paid
    BY DEF CoinInv, Sessions, RowTrue
<1>5. row.randomness # 0 => row.randomness = word
    BY DEF CoinInv, Sessions, RowTrue
<1>6. outcome.won = won
  <2>1. CASE row.gameState = "final"
      BY <2>1 DEF Resolved
  <2>2. CASE row.gameState # "final" /\ row.randomness # 0
      BY <1>5, <2>2 DEF Resolved
  <2>3. CASE row.gameState # "final" /\ row.randomness = 0
    <3>1. row.payout # Nil /\ outcome = outcomeFromResult(form, row.payout > 0)
        BY <2>3 DEF Resolved
    <3>2. (row.payout > 0) = won
        BY <1>1, <1>2, <1>3, <1>4, <3>1
    <3>3. outcome = outcomeFromResult(form, won)
        BY <3>1, <3>2
    <3>. HIDE DEF won, outcome, form
    <3>. QED BY <3>3 DEF outcomeFromResult
  <2>. QED BY <2>1, <2>2, <2>3
<1>. HIDE DEF outcome, won, pay, paid
<1>7. ShownPayout(r, row, outcome) = paid
    BY <1>1, <1>2, <1>3, <1>4, <1>6 DEF ShownPayout, pay
<1>. QED BY <1>6, <1>7 DEF outcome, won, paid

\* Where a round is on the page, bet by bet.
LEMMA Stages ==
    ASSUME CoinInv
    PROVE  /\ BetOf(flip) \in Rounds \/ flip = NoRound
           /\ flip.status \in {"waiting", "landing", "done"} =>
                /\ BetOf(flip) \in Rounds /\ flip.key = SessionKey(BetOf(flip))
                /\ flip.form = contract[BetOf(flip)].form /\ opens[BetOf(flip)] = "answered"
                /\ flip.status # "waiting" => contract[BetOf(flip)].phase \in TerminalPhases
           /\ flip.outcome # Nil => flip.status \in {"landing", "done"}
           /\ \A b \in Rounds : flip.key = SessionKey(b) => BetOf(flip) = b
BY DEF CoinInv, Stage, NoRound, PendingKey, SessionKey, BetOf

\* The round is revealed: it is done.
LEMMA RevealKeeps ==
    ASSUME CoinInv, NEW b \in Rounds, b = BetOf(flip), flip.status \in {"landing", "done"},
           flip' = [flip EXCEPT !.status = "done"],
           reveals' = [reveals EXCEPT ![b] = IF @ < 2 THEN @ + 1 ELSE @],
           UNCHANGED <<offer, contract, rows, opens>>
    PROVE  CoinInv'
<1>1. /\ flip.key = SessionKey(b) /\ flip.form = contract[b].form /\ opens[b] = "answered"
      /\ contract[b].phase \in TerminalPhases
    BY Stages
<1>2. flip' = [key |-> flip.key, form |-> flip.form, status |-> "done", outcome |-> flip.outcome,
               payout |-> flip.payout]
    BY DEF CoinInv, CoinTypes
<1>3. reveals' \in [Rounds -> Nat] /\ \A a \in Rounds : a # b => reveals'[a] = reveals[a]
    BY DEF CoinInv, CoinTypes
<1>4. CoinTypes' /\ Sessions'
    BY <1>2, <1>3 DEF CoinInv, CoinTypes, Sessions
<1>5. Stage'
    BY <1>1, <1>2 DEF Stage
<1>6. \A a \in Rounds : flip.key = SessionKey(a) => a = b
    BY <1>1 DEF SessionKey
<1>7. ShowsTruth' /\ Unrevealed'
    BY <1>1, <1>2, <1>3, <1>6 DEF CoinInv, ShowsTruth, Unrevealed
<1>. QED BY <1>4, <1>5, <1>7 DEF CoinInv

LEMMA ShowKeeps == CoinInv /\ ShowFlip => CoinInv'
<1>. SUFFICES ASSUME CoinInv, ShowFlip PROVE CoinInv'
    OBVIOUS
<1>. DEFINE b == BetOf(flip)
<1>1. UNCHANGED <<offer, contract, rows, opens>>
    BY DEF ShowFlip, inputVars
<1>2. CASE ~Waits
  <2>1. flip' = flip
      BY <1>2 DEF ShowFlip
  <2>2. CASE reveals' = reveals
      BY <1>1, <2>1, <2>2, CoinUntouched
  <2>3. CASE reveals' # reveals
    <3>1. flip.status = "done" /\ reveals' = [reveals EXCEPT ![b] = IF @ < 2 THEN @ + 1 ELSE @]
        BY <2>3 DEF ShowFlip, Reveals
    <3>2. flip' = [flip EXCEPT !.status = "done"]
        BY <2>1, <3>1 DEF CoinInv, CoinTypes
    <3>3. b \in Rounds
        BY <3>1, Stages
    <3>. HIDE DEF b
    <3>4. b = BetOf(flip)
        BY DEF b
    <3>. QED BY <1>1, <3>1, <3>2, <3>3, <3>4, RevealKeeps
  <2>. QED BY <2>2, <2>3
<1>3. CASE Waits
  <2>1. /\ flip.status = "waiting" /\ rows[b].phase \in TerminalPhases
        /\ reveals' = reveals
      BY <1>3 DEF ShowFlip, Waits, Reveals
  <2>2. /\ b \in Rounds /\ flip.key = SessionKey(b) /\ flip.form = contract[b].form
        /\ opens[b] = "answered"
      BY <2>1, Stages
  <2>3. contract[b].phase \in TerminalPhases /\ reveals[b] = 0
      BY <2>1, <2>2 DEF CoinInv, Sessions, RowTrue, ShowsTruth
  <2>. DEFINE outcome == Resolved(flip, rows[b], contract[b].word)
              shown == ShownPayout(flip, rows[b], outcome)
              status == IF fastMode THEN "done" ELSE "landing"
  <2>4. CASE flip' = flip
      BY <1>1, <2>1, <2>4, CoinUntouched
  <2>5. CASE flip' = NoRound
    <3>1. CoinTypes' /\ Sessions'
        BY <1>1, <2>1, <2>5 DEF CoinInv, CoinTypes, Sessions, NoRound
    <3>2. Stage' /\ ShowsTruth' /\ Unrevealed'
        BY <1>1, <2>1, <2>5 DEF CoinInv, Stage, ShowsTruth, Unrevealed, NoRound, SessionKey
    <3>. QED BY <1>1, <3>1, <3>2 DEF CoinInv
  <2>6. CASE /\ outcome # Nil
             /\ flip' = [flip EXCEPT !.status = status, !.outcome = outcome, !.payout = shown]
    <3>1. contract[b].phase = "settled" =>
            /\ outcome.won = outcomeFromRandomness(contract[b].form, contract[b].word).won
            /\ shown = contract[b].payout
        BY <2>2, <2>6, ReadsTheResult
    <3>2. status \in {"landing", "done"}
        OBVIOUS
    <3>. HIDE DEF outcome, shown, status, b
    <3>3. flip' = [key |-> flip.key, form |-> flip.form, status |-> status, outcome |-> outcome,
                   payout |-> shown]
        BY <2>6 DEF CoinInv, CoinTypes
    <3>4. CoinTypes' /\ Sessions'
        BY <1>1, <2>1, <3>3 DEF CoinInv, CoinTypes, Sessions
    <3>5. Stage'
        BY <1>1, <2>2, <2>3, <3>2, <3>3 DEF Stage
    <3>6. \A a \in Rounds : flip.key = SessionKey(a) => a = b
        BY <2>2 DEF SessionKey
    <3>7. ShowsTruth' /\ Unrevealed'
        BY <1>1, <2>1, <2>2, <2>3, <3>1, <3>3, <3>6 DEF CoinInv, ShowsTruth, Unrevealed
    <3>. QED BY <1>1, <3>4, <3>5, <3>7 DEF CoinInv
  <2>. QED BY <1>3, <2>4, <2>5, <2>6, Zenon DEF ShowFlip
<1>. QED BY <1>2, <1>3

LEMMA LandedKeeps == CoinInv /\ Landed => CoinInv'
<1>. SUFFICES ASSUME CoinInv, Landed PROVE CoinInv'
    OBVIOUS
<1>1. BetOf(flip) \in Rounds /\ flip.status = "landing"
    BY Stages DEF Landed
<1>. QED BY <1>1, RevealKeeps DEF Landed, inputVars

LEMMA CoinStep == CoinInv /\ [CoinNext]_coinVars => CoinInv'
<1>. SUFFICES ASSUME CoinInv, [CoinNext]_coinVars PROVE CoinInv'
    OBVIOUS
<1>1. CASE Connect \/ SetWallet \/ setFastMode \/ UNCHANGED coinVars
    BY <1>1, CoinUntouched DEF Connect, SetWallet, setFastMode, coinVars, shownVars
<1>2. CASE ShowFlip \/ Landed
    BY <1>2, ShowKeeps, LandedKeeps
<1>3. ASSUME NEW b \in Rounds,
             \/ openRound(b) \/ OpenAnswered(b) \/ OpenRejected(b) \/ FlipLands(b)
             \/ Ends(b) \/ PushPart(b) \/ PushAll(b)
      PROVE  CoinInv'
    BY <1>3, OpenRoundKeeps, OpenAnsweredKeeps, OpenRejectedKeeps, ChainKeeps, PushKeeps
<1>. QED BY <1>1, <1>2, <1>3 DEF CoinNext

\* The coinflip page shows the winner and the payout that the chain has, from
\* whatever part of the row it read them (App.tsx, the settle effect), and keeps
\* them out of the history and unrevealed until the coins have landed: for any
\* bets and any order of answers, rows and renders.
THEOREM CoinSafety == CoinSpec => []ShownAsSettled
<1>1. CoinInv => ShownAsSettled
  <2>. SUFFICES ASSUME CoinInv PROVE ShownAsSettled
      OBVIOUS
  <2>1. ASSUME flip.outcome # Nil, contract[BetOf(flip)].phase = "settled"
        PROVE  /\ flip.outcome.won = outcomeFromRandomness(flip.form, contract[BetOf(flip)].word).won
               /\ flip.payout = contract[BetOf(flip)].payout
      BY <2>1, Stages DEF CoinInv, ShowsTruth
  <2>2. ASSUME flip.status \in {"waiting", "landing"}, drawn.flip = flip
        PROVE  ~InHistory(BetOf(flip)) /\ reveals[BetOf(flip)] = 0
    <3>1. flip.key = SessionKey(BetOf(flip)) /\ BetOf(flip) \in Rounds
        BY <2>2, Stages
    <3>2. reveals[BetOf(flip)] = 0
        BY <2>2, <3>1 DEF CoinInv, ShowsTruth
    <3>. QED BY <2>2, <3>1, <3>2 DEF InHistory, Withheld, InFlight
  <2>. QED BY <2>1, <2>2 DEF ShownAsSettled
<1>. QED BY <1>1, CoinInitially, CoinStep, PTL DEF CoinSpec
=============================================================================
