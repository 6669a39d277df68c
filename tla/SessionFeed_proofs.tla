------------------------- MODULE SessionFeed_proofs -------------------------
(***************************************************************************)
(* Proofs about the sessions a page reads: the event feed, for every       *)
(* chain, every choice of lags and any number of failing calls, and the    *)
(* codec of their bytes, for every session, byte string, base and width.   *)
(***************************************************************************)
EXTENDS SessionFeed, SessionCodec, SequenceTheorems, WellFoundedInduction, TLAPS

\* stop() leaves no timer behind, and nothing sets one afterwards.
NoTimerLeft == stopped => pendingTimers = <<>>

LEMMA NoTimerInitially == Init => NoTimerLeft
BY DEF Init, NoTimerLeft

LEMMA NoTimerStep == NoTimerLeft /\ [Next]_vars => NoTimerLeft'
<1>. SUFFICES ASSUME NoTimerLeft, [Next]_vars PROVE NoTimerLeft'
    OBVIOUS
<1>. USE DEF NoTimerLeft
<1>1. CASE Proceed
    BY <1>1 DEF Proceed, Start, ReplayLog, ReplayDone, Poll, PollLog, SkipSeenLog, PollDone,
                WakeUp
<1>2. CASE StartFails \/ ReplayLogFails \/ PollFails \/ PollLogFails
    BY <1>2 DEF StartFails, ReplayLogFails, PollFails, PollLogFails, Fails
<1>3. CASE Clock
    BY <1>3 DEF Clock, FireTimer, TimePasses
<1>4. CASE Stop
    BY <1>4 DEF Stop
<1>5. ASSUME NEW n \in 0..setting.logs, Mine(n) PROVE NoTimerLeft'
    BY <1>5 DEF Mine
<1>6. ASSUME NEW l \in setting.lags, ChangeLags(l) PROVE NoTimerLeft'
    BY <1>6 DEF ChangeLags
<1>7. CASE UNCHANGED vars
    BY <1>7 DEF vars
<1>. QED BY <1>1, <1>2, <1>3, <1>4, <1>5, <1>6, <1>7 DEF Next

\* What a step of a stopped feed may deliver.
LEMMA QuietStep ==
    ASSUME NoTimerLeft, [Next]_vars, stopped, mode # "replaying"
    PROVE  UNCHANGED delivered
<1>1. CASE Proceed
    BY <1>1 DEF Proceed, Start, ReplayLog, ReplayDone, Poll, PollLog, SkipSeenLog, PollDone,
                WakeUp
<1>2. CASE StartFails \/ ReplayLogFails \/ PollFails \/ PollLogFails
    BY <1>2 DEF StartFails, ReplayLogFails, PollFails, PollLogFails, Fails
<1>3. CASE Clock
    BY <1>3 DEF Clock, FireTimer, TimePasses, NoTimerLeft
<1>4. CASE Stop
    BY <1>4 DEF Stop
<1>5. ASSUME NEW n \in 0..setting.logs, Mine(n) PROVE UNCHANGED delivered
    BY <1>5 DEF Mine
<1>6. ASSUME NEW l \in setting.lags, ChangeLags(l) PROVE UNCHANGED delivered
    BY <1>6 DEF ChangeLags
<1>7. CASE UNCHANGED vars
    BY <1>7 DEF vars
<1>. QED BY <1>1, <1>2, <1>3, <1>4, <1>5, <1>6, <1>7 DEF Next

\* A stopped feed whose replay is over delivers nothing more, wherever in its
\* awaits, retries and timers it was when it was stopped.
THEOREM StoppedFeedIsQuiet == Spec => QuietAfterStop
<1>1. NoTimerLeft /\ [Next]_vars => [stopped /\ mode # "replaying" => UNCHANGED delivered]_vars
    BY QuietStep
<1>. QED BY <1>1, NoTimerInitially, NoTimerStep, PTL DEF Spec, QuietAfterStop

-----------------------------------------------------------------------------
(***************************************************************************)
(* The pending timers.                                                     *)
(***************************************************************************)

Timers == [channel: Channels, log: Nat, left: Nat]

Sorted(p) == \A i, j \in DOMAIN p : i < j => p[i].left <= p[j].left

\* s is p with t put after its first k timers, which are those due by then.
Inserted(p, s, k, t) ==
    /\ k \in 0..Len(p) /\ s \in Seq(Timers) /\ Len(s) = Len(p) + 1
    /\ s[k + 1] = t
    /\ \A i \in 1..k : s[i] = p[i] /\ p[i].left <= t.left
    /\ \A i \in (k + 1)..Len(p) : s[i + 1] = p[i] /\ p[i].left > t.left

LEMMA TimerFacts ==
    ASSUME NEW p \in Seq(Timers)
    PROVE  /\ Len(p) \in Nat /\ DOMAIN p = 1..Len(p)
           /\ \A i \in DOMAIN p : /\ p[i] \in Timers /\ p[i].channel \in Channels
                                  /\ p[i].log \in Nat /\ p[i].left \in Nat
<1>1. Len(p) \in Nat /\ DOMAIN p = 1..Len(p)
    BY LenProperties
<1>2. \A i \in DOMAIN p : p[i] \in Timers
    BY <1>1, ElementOfSeq
<1>. QED BY <1>1, <1>2 DEF Timers

\* Timers sorted by what is left of them fall into those due by some time and
\* those due later.
LEMMA TimersSplit ==
    ASSUME NEW p \in Seq(Timers), Sorted(p), NEW m \in Nat
    PROVE  \E k \in 0..Len(p) : \A i \in DOMAIN p : i <= k <=> p[i].left <= m
<1>. DEFINE Later == {i \in DOMAIN p : p[i].left > m}
<1>0. Len(p) \in Nat /\ DOMAIN p = 1..Len(p) /\ \A i \in DOMAIN p : p[i].left \in Nat
    BY TimerFacts
<1>1. CASE Later = {}
    <2>1. \A i \in DOMAIN p : i <= Len(p) <=> p[i].left <= m
        BY <1>0, <1>1
    <2>. QED BY <2>1, <1>0
<1>2. CASE Later # {}
    <2>1. Later \subseteq Nat
        BY <1>0
    <2>. DEFINE R == OpToRel(<, Nat)
    <2>a. IsWellFoundedOn(R, Nat)
        BY NatLessThanWellFounded
    <2>b. \A x, y \in Nat : <<y, x>> \in R <=> y < x
        BY Zenon DEF OpToRel
    <2>. HIDE DEF Later, R
    <2>2. PICK x \in Later : \A y \in Later : ~(<<y, x>> \in R)
        BY <1>2, <2>1, <2>a, WFMin
    <2>3. \A y \in Later : ~(y < x)
        BY <2>1, <2>2, <2>b
    <2>. USE DEF Later
    <2>4. x \in DOMAIN p /\ x \in Nat /\ p[x].left > m /\ x - 1 \in 0..Len(p)
        BY <1>0
    <2>5. ASSUME NEW i \in DOMAIN p PROVE i <= x - 1 <=> p[i].left <= m
        <3>1. CASE i < x
            <4>1. i \notin Later
                BY <2>3, <3>1
            <4>. QED BY <4>1, <1>0, <3>1
        <3>2. CASE i >= x
            <4>1. p[x].left <= p[i].left
                BY <3>2, <2>4, <1>0 DEF Sorted
            <4>. QED BY <4>1, <1>0, <3>2, <2>4
        <3>. QED BY <3>1, <3>2, <1>0, <2>4
    <2>. QED BY <2>4, <2>5
<1>. QED BY <1>1, <1>2

LEMMA WithTimerInserts ==
    ASSUME NEW p \in Seq(Timers), Sorted(p), NEW t \in Timers
    PROVE  \E k \in 0..Len(p) : Inserted(p, WithTimer(p, t), k, t)
<1>. DEFINE P(k) == \A i \in DOMAIN p : i <= k <=> p[i].left <= t.left
            k == CHOOSE k \in 0..Len(p) : P(k)
            s == WithTimer(p, t)
<1>0. Len(p) \in Nat /\ DOMAIN p = 1..Len(p) /\ \A i \in DOMAIN p : p[i].left \in Nat
    BY TimerFacts
<1>1. t.left \in Nat
    BY DEF Timers
<1>2. k \in 0..Len(p) /\ P(k)
    BY <1>1, TimersSplit
<1>3. s = InsertAfter(k, p, t)
    BY DEF WithTimer, k
<1>. HIDE DEF s, k
<1>4. \A i \in 1..(Len(p) + 1) :
          (IF i <= k THEN p[i] ELSE IF i = k + 1 THEN t ELSE p[i - 1]) \in Timers
    BY <1>0, <1>2, TimerFacts
<1>5. s \in Seq(Timers) /\ Len(s) = Len(p) + 1
    BY <1>0, <1>3, <1>4 DEF InsertAfter
<1>6. s[k + 1] = t
    BY <1>0, <1>2, <1>3 DEF InsertAfter
<1>7. \A i \in 1..k : s[i] = p[i] /\ p[i].left <= t.left
    BY <1>0, <1>2, <1>3 DEF InsertAfter
<1>8. ASSUME NEW i \in (k + 1)..Len(p) PROVE s[i + 1] = p[i] /\ p[i].left > t.left
    <2>1. /\ i + 1 \in 1..(Len(p) + 1) /\ ~(i + 1 <= k) /\ i + 1 # k + 1 /\ i + 1 - 1 = i
          /\ i \in DOMAIN p /\ ~(i <= k)
        BY <1>0, <1>2
    <2>2. s[i + 1] = p[i]
        BY <2>1, <1>3 DEF InsertAfter
    <2>3. p[i].left \in Nat /\ ~(p[i].left <= t.left)
        BY <2>1, <1>0, <1>2
    <2>. QED BY <2>2, <2>3, <1>1
<1>9. Inserted(p, s, k, t)
    BY <1>2, <1>5, <1>6, <1>7, <1>8 DEF Inserted
<1>. QED BY <1>2, <1>9 DEF s

\* Where the timer at place i of the longer sequence was before.
Old(k, i) == IF i <= k THEN i ELSE i - 1

LEMMA InsertedPlaces ==
    ASSUME NEW p \in Seq(Timers), NEW s, NEW k, NEW t \in Timers, Inserted(p, s, k, t)
    PROVE  /\ s \in Seq(Timers) /\ k + 1 \in DOMAIN s /\ s[k + 1] = t
           /\ \A i \in DOMAIN s : i = k + 1 \/ (Old(k, i) \in DOMAIN p /\ s[i] = p[Old(k, i)])
           /\ \A i \in DOMAIN s : i < k + 1 => s[i].left <= t.left
           /\ \A i \in DOMAIN s : i > k + 1 => s[i].left > t.left
           /\ \A i, j \in DOMAIN s : i # k + 1 /\ j # k + 1 /\ i < j => Old(k, i) < Old(k, j)
           /\ \A i, j \in DOMAIN s : i # k + 1 /\ j # k + 1 /\ i # j => Old(k, i) # Old(k, j)
           /\ \A j \in DOMAIN p : \E i \in DOMAIN s : i # k + 1 /\ Old(k, i) = j
<1>0. /\ Len(p) \in Nat /\ DOMAIN p = 1..Len(p)
      /\ k \in 0..Len(p) /\ s \in Seq(Timers) /\ Len(s) = Len(p) + 1 /\ DOMAIN s = 1..(Len(p) + 1)
      /\ s[k + 1] = t
    BY TimerFacts DEF Inserted
<1>1. ASSUME NEW i \in DOMAIN s, i < k + 1
      PROVE  Old(k, i) \in DOMAIN p /\ s[i] = p[Old(k, i)] /\ s[i].left <= t.left
    BY <1>0, <1>1 DEF Inserted, Old
<1>2. ASSUME NEW i \in DOMAIN s, i > k + 1
      PROVE  Old(k, i) \in DOMAIN p /\ s[i] = p[Old(k, i)] /\ s[i].left > t.left
    <2>1. i - 1 \in (k + 1)..Len(p) /\ (i - 1) + 1 = i /\ ~(i <= k)
        BY <1>0, <1>2
    <2>2. s[(i - 1) + 1] = p[i - 1] /\ p[i - 1].left > t.left
        BY <2>1 DEF Inserted
    <2>. QED BY <2>1, <2>2, <1>0 DEF Old
<1>3. ASSUME NEW i \in DOMAIN s, NEW j \in DOMAIN s, i # k + 1, j # k + 1
      PROVE  (i < j => Old(k, i) < Old(k, j)) /\ (i # j => Old(k, i) # Old(k, j))
    BY <1>0, <1>3 DEF Old
<1>4. ASSUME NEW j \in DOMAIN p PROVE \E i \in DOMAIN s : i # k + 1 /\ Old(k, i) = j
    <2>1. CASE j <= k
        <3>1. j \in DOMAIN s /\ j # k + 1 /\ Old(k, j) = j
            BY <1>0, <2>1 DEF Old
        <3>. QED BY <3>1
    <2>2. CASE j > k
        <3>1. j + 1 \in DOMAIN s /\ j + 1 # k + 1 /\ Old(k, j + 1) = j
            BY <1>0, <2>2 DEF Old
        <3>. QED BY <3>1
    <2>. QED BY <2>1, <2>2, <1>0
<1>5. \A i \in DOMAIN s : i = k + 1 \/ i < k + 1 \/ i > k + 1
    BY <1>0
<1>6. k + 1 \in DOMAIN s
    BY <1>0
<1>7. \A i \in DOMAIN s : i = k + 1 \/ (Old(k, i) \in DOMAIN p /\ s[i] = p[Old(k, i)])
    <2>1. ASSUME NEW i \in DOMAIN s, i # k + 1
          PROVE  Old(k, i) \in DOMAIN p /\ s[i] = p[Old(k, i)]
        <3>1. i < k + 1 \/ i > k + 1
            BY <1>5, <2>1
        <3>. QED BY <3>1, <1>1, <1>2
    <2>. DEFINE Q(i) == Old(k, i) \in DOMAIN p /\ s[i] = p[Old(k, i)]
    <2>2. \A i \in DOMAIN s : i # k + 1 => Q(i)
        BY <2>1
    <2>. HIDE DEF Q
    <2>3. \A i \in DOMAIN s : i = k + 1 \/ Q(i)
        BY <2>2
    <2>. QED BY <2>3, Zenon DEF Q
<1>8. \A i \in DOMAIN s : i < k + 1 => s[i].left <= t.left
    BY <1>1
<1>9. \A i \in DOMAIN s : i > k + 1 => s[i].left > t.left
    BY <1>2
<1>10. /\ \A i, j \in DOMAIN s : i # k + 1 /\ j # k + 1 /\ i < j => Old(k, i) < Old(k, j)
       /\ \A i, j \in DOMAIN s : i # k + 1 /\ j # k + 1 /\ i # j => Old(k, i) # Old(k, j)
    BY <1>3
<1>. QED BY <1>0, <1>4, <1>6, <1>7, <1>8, <1>9, <1>10, Zenon

-----------------------------------------------------------------------------
(***************************************************************************)
(* What was sent, at once (d) or by a timer (p).                           *)
(***************************************************************************)

SentTypes(d, p) == d \in [Channels -> Seq(Nat)] /\ p \in Seq(Timers)

\* No log is sent twice on a channel.
Once(d, p) ==
    /\ \A c \in Channels : \A i, j \in DOMAIN d[c] : d[c][i] = d[c][j] => i = j
    /\ \A i, j \in DOMAIN p : p[i].channel = p[j].channel /\ p[i].log = p[j].log => i = j
    /\ \A c \in Channels : \A i \in DOMAIN p, n \in DOMAIN d[c] :
          p[i].channel = c => d[c][n] # p[i].log

\* With lags l for good: in chain order, and no timer is set for longer.
InOrder(d, p, l) ==
    /\ \A c \in Channels : \A i, j \in DOMAIN d[c] : i < j => d[c][i] < d[c][j]
    /\ \A i, j \in DOMAIN p : p[i].channel = p[j].channel /\ i < j => p[i].log < p[j].log
    /\ \A c \in Channels : \A i \in DOMAIN p, n \in DOMAIN d[c] :
          p[i].channel = c => d[c][n] < p[i].log
    /\ \A i \in DOMAIN p : l[p[i].channel] # 0 /\ p[i].left <= l[p[i].channel]

\* The log comes after all that were sent on channel c.
Above(d, p, log, c) ==
    /\ \A n \in DOMAIN d[c] : d[c][n] < log
    /\ \A i \in DOMAIN p : p[i].channel = c => p[i].log < log

NoneOn(p, c) == \A i \in DOMAIN p : p[i].channel # c

Extended(d, c, log) == [d EXCEPT ![c] = Append(@, log)]

ExtendedBy(d, c, log, e) ==
    /\ e \in [Channels -> Seq(Nat)]
    /\ \A b \in Channels : b # c => e[b] = d[b]
    /\ \A b \in Channels : DOMAIN d[b] = 1..Len(d[b]) /\ Len(d[b]) \in Nat
                           /\ \A n \in DOMAIN d[b] : d[b][n] \in Nat
    /\ DOMAIN e[c] = 1..(Len(d[c]) + 1)
    /\ \A n \in 1..Len(d[c]) : e[c][n] = d[c][n]
    /\ e[c][Len(d[c]) + 1] = log
    /\ \A n \in DOMAIN e[c] : n = Len(d[c]) + 1 \/ (n \in DOMAIN d[c] /\ e[c][n] = d[c][n])

LEMMA ExtendedFacts ==
    ASSUME NEW d \in [Channels -> Seq(Nat)], NEW c \in Channels, NEW log \in Nat
    PROVE  ExtendedBy(d, c, log, Extended(d, c, log))
<1>1. d[c] \in Seq(Nat) /\ Extended(d, c, log)[c] = Append(d[c], log)
    BY DEF Extended
<1>2. /\ Append(d[c], log) \in Seq(Nat) /\ Len(Append(d[c], log)) = Len(d[c]) + 1
      /\ \A n \in 1..Len(d[c]) : Append(d[c], log)[n] = d[c][n]
      /\ Append(d[c], log)[Len(d[c]) + 1] = log
    BY <1>1, AppendProperties
<1>3. \A e \in Channels : e # c => Extended(d, c, log)[e] = d[e]
    BY DEF Extended
<1>4. Extended(d, c, log) \in [Channels -> Seq(Nat)]
    BY <1>2 DEF Extended
<1>5. ASSUME NEW e \in Channels
      PROVE  DOMAIN d[e] = 1..Len(d[e]) /\ Len(d[e]) \in Nat /\ \A n \in DOMAIN d[e] : d[e][n] \in Nat
    <2>1. d[e] \in Seq(Nat)
        OBVIOUS
    <2>. QED BY <2>1, LenProperties, ElementOfSeq
<1>6. DOMAIN Extended(d, c, log)[c] = 1..(Len(d[c]) + 1)
    BY <1>1, <1>2, LenProperties
<1>7. ASSUME NEW n \in 1..(Len(d[c]) + 1)
      PROVE  n = Len(d[c]) + 1 \/ (n \in DOMAIN d[c] /\ Extended(d, c, log)[c][n] = d[c][n])
    <2>1. DOMAIN d[c] = 1..Len(d[c]) /\ Len(d[c]) \in Nat
        BY <1>5
    <2>2. n = Len(d[c]) + 1 \/ n \in 1..Len(d[c])
        BY <2>1
    <2>. QED BY <2>1, <2>2, <1>1, <1>2
<1>. QED BY <1>1, <1>2, <1>3, <1>4, <1>5, <1>6, <1>7 DEF ExtendedBy

\* The listeners are called at once.
LEMMA DeliverKeeps ==
    ASSUME NEW d, NEW p, SentTypes(d, p), Once(d, p),
           NEW c \in Channels, NEW log \in Nat, Above(d, p, log, c)
    PROVE  SentTypes(Extended(d, c, log), p) /\ Once(Extended(d, c, log), p)
<1>. DEFINE e == Extended(d, c, log)
<1>1. d \in [Channels -> Seq(Nat)] /\ p \in Seq(Timers)
    BY DEF SentTypes
<1>2. /\ e \in [Channels -> Seq(Nat)]
      /\ \A b \in Channels : b # c => e[b] = d[b]
      /\ \A b \in Channels : DOMAIN d[b] = 1..Len(d[b]) /\ Len(d[b]) \in Nat
                             /\ \A n \in DOMAIN d[b] : d[b][n] \in Nat
      /\ DOMAIN e[c] = 1..(Len(d[c]) + 1)
      /\ \A n \in 1..Len(d[c]) : e[c][n] = d[c][n]
      /\ e[c][Len(d[c]) + 1] = log
    <2>1. ExtendedBy(d, c, log, e)
        BY <1>1, ExtendedFacts
    <2>. QED BY <2>1, <1>1 DEF ExtendedBy
<1>. HIDE DEF e
<1>3. \A n \in DOMAIN d[c] : d[c][n] \in Nat /\ d[c][n] < log
    BY <1>2 DEF Above
<1>4. ASSUME NEW i \in DOMAIN e[c], NEW j \in DOMAIN e[c], e[c][i] = e[c][j] PROVE i = j
    <2>1. \A n \in DOMAIN e[c] : n \in DOMAIN d[c] \/ n = Len(d[c]) + 1
        BY <1>2
    <2>2. ASSUME NEW n \in DOMAIN d[c] PROVE e[c][n] = d[c][n] /\ e[c][n] # log
        <3>1. e[c][n] = d[c][n]
            BY <1>2
        <3>2. d[c][n] \in Nat /\ d[c][n] < log
            BY <1>3
        <3>. QED BY <3>1, <3>2
    <2>. QED BY <1>2, <1>4, <2>1, <2>2 DEF Once
<1>5. ASSUME NEW i \in DOMAIN p, p[i].channel = c, NEW n \in DOMAIN e[c]
      PROVE  e[c][n] # p[i].log
    <2>1. CASE n = Len(d[c]) + 1
        BY <1>1, <1>2, <1>5, <2>1, TimerFacts DEF Above
    <2>2. CASE n \in DOMAIN d[c]
        BY <1>2, <1>5, <2>2 DEF Once
    <2>. QED BY <1>2, <2>1, <2>2
<1>6. Once(d, p)
    OBVIOUS
<1>7. ASSUME NEW b \in Channels, NEW i \in DOMAIN e[b], NEW j \in DOMAIN e[b], e[b][i] = e[b][j]
      PROVE  i = j
    <2>1. CASE b = c
        BY <1>4, <1>7, <2>1
    <2>2. CASE b # c
        BY <1>2, <1>6, <1>7, <2>2 DEF Once
    <2>. QED BY <2>1, <2>2
<1>8. ASSUME NEW b \in Channels, NEW i \in DOMAIN p, NEW n \in DOMAIN e[b], p[i].channel = b
      PROVE  e[b][n] # p[i].log
    <2>1. CASE b = c
        BY <1>5, <1>8, <2>1
    <2>2. CASE b # c
        BY <1>2, <1>6, <1>8, <2>2 DEF Once
    <2>. QED BY <2>1, <2>2
<1>9. \A i, j \in DOMAIN p : p[i].channel = p[j].channel /\ p[i].log = p[j].log => i = j
    BY <1>6 DEF Once
<1>10. Once(e, p)
    BY <1>7, <1>8, <1>9 DEF Once
<1>. QED BY <1>1, <1>2, <1>10 DEF e, SentTypes

LEMMA DeliverKeepsOrder ==
    ASSUME NEW d, NEW p, SentTypes(d, p), NEW l \in [Channels -> Nat], InOrder(d, p, l),
           NEW c \in Channels, NEW log \in Nat, Above(d, p, log, c), NoneOn(p, c)
    PROVE  InOrder(Extended(d, c, log), p, l)
<1>. DEFINE e == Extended(d, c, log)
<1>1. d \in [Channels -> Seq(Nat)] /\ p \in Seq(Timers)
    BY DEF SentTypes
<1>2. /\ e \in [Channels -> Seq(Nat)]
      /\ \A b \in Channels : b # c => e[b] = d[b]
      /\ \A b \in Channels : DOMAIN d[b] = 1..Len(d[b]) /\ Len(d[b]) \in Nat
                             /\ \A n \in DOMAIN d[b] : d[b][n] \in Nat
      /\ DOMAIN e[c] = 1..(Len(d[c]) + 1)
      /\ \A n \in 1..Len(d[c]) : e[c][n] = d[c][n]
      /\ e[c][Len(d[c]) + 1] = log
    <2>1. ExtendedBy(d, c, log, e)
        BY <1>1, ExtendedFacts
    <2>. QED BY <2>1, <1>1 DEF ExtendedBy
<1>. HIDE DEF e
<1>3. \A n \in DOMAIN d[c] : d[c][n] \in Nat /\ d[c][n] < log
    BY <1>2 DEF Above
<1>4. ASSUME NEW i \in DOMAIN e[c], NEW j \in DOMAIN e[c], i < j PROVE e[c][i] < e[c][j]
    <2>1. CASE j = Len(d[c]) + 1
        <3>1. i \in DOMAIN d[c] /\ e[c][i] = d[c][i]
            BY <1>2, <1>4, <2>1
        <3>. QED BY <1>2, <1>3, <2>1, <3>1
    <2>2. CASE j \in DOMAIN d[c]
        <3>1. i \in DOMAIN d[c]
            BY <1>2, <1>4, <2>2
        <3>. QED BY <1>2, <1>4, <2>2, <3>1 DEF InOrder
    <2>. QED BY <1>2, <2>1, <2>2
<1>5. \A i \in DOMAIN p : p[i].channel # c
    BY DEF NoneOn
<1>6. InOrder(d, p, l)
    OBVIOUS
<1>7. InOrder(e, p, l)
    BY <1>2, <1>4, <1>5, <1>6 DEF InOrder
<1>. QED BY <1>7 DEF e

\* A timer is set.
LEMMA SetTimerKeeps ==
    ASSUME NEW d, NEW p, SentTypes(d, p), Sorted(p), Once(d, p),
           NEW t \in Timers, Above(d, p, t.log, t.channel), NEW s, NEW k, Inserted(p, s, k, t)
    PROVE  SentTypes(d, s) /\ Sorted(s) /\ Once(d, s)
<1>1. d \in [Channels -> Seq(Nat)] /\ p \in Seq(Timers)
    BY DEF SentTypes
<1>2. /\ s \in Seq(Timers) /\ k + 1 \in DOMAIN s /\ s[k + 1] = t
      /\ \A i \in DOMAIN s : i = k + 1 \/ (Old(k, i) \in DOMAIN p /\ s[i] = p[Old(k, i)])
      /\ \A i \in DOMAIN s : i < k + 1 => s[i].left <= t.left
      /\ \A i \in DOMAIN s : i > k + 1 => s[i].left > t.left
      /\ \A i, j \in DOMAIN s : i # k + 1 /\ j # k + 1 /\ i < j => Old(k, i) < Old(k, j)
      /\ \A i, j \in DOMAIN s : i # k + 1 /\ j # k + 1 /\ i # j => Old(k, i) # Old(k, j)
    BY <1>1, InsertedPlaces
<1>3. t.channel \in Channels /\ t.log \in Nat /\ t.left \in Nat
    BY DEF Timers
<1>4. \A i \in DOMAIN s : s[i].left \in Nat /\ s[i].log \in Nat /\ i \in Int
    BY <1>2, TimerFacts
<1>5. ASSUME NEW i \in DOMAIN s, NEW j \in DOMAIN s, i < j PROVE s[i].left <= s[j].left
    <2>1. CASE i = k + 1
        BY <1>2, <1>3, <1>4, <1>5, <2>1
    <2>2. CASE j = k + 1
        BY <1>2, <1>3, <1>4, <1>5, <2>2
    <2>3. CASE i # k + 1 /\ j # k + 1
        BY <1>2, <1>5, <2>3 DEF Sorted
    <2>. QED BY <2>1, <2>2, <2>3
<1>6. \A i \in DOMAIN s : i # k + 1 /\ s[i].channel = t.channel => s[i].log < t.log
    BY <1>2 DEF Above
<1>7. ASSUME NEW i \in DOMAIN s, NEW j \in DOMAIN s, i # j
      PROVE  ~(s[i].channel = s[j].channel /\ s[i].log = s[j].log)
    <2>1. CASE i = k + 1 \/ j = k + 1
        BY <1>2, <1>3, <1>4, <1>6, <1>7, <2>1
    <2>2. CASE i # k + 1 /\ j # k + 1
        BY <1>2, <1>7, <2>2 DEF Once
    <2>. QED BY <2>1, <2>2
<1>8. ASSUME NEW c \in Channels, NEW i \in DOMAIN s, NEW n \in DOMAIN d[c], s[i].channel = c
      PROVE  d[c][n] # s[i].log
    <2>1. CASE i = k + 1
        BY <1>2, <1>3, <1>8, <2>1 DEF Above
    <2>2. CASE i # k + 1
        BY <1>2, <1>8, <2>2 DEF Once
    <2>. QED BY <2>1, <2>2
<1>9. Sorted(s)
    BY <1>5 DEF Sorted
<1>10. Once(d, s)
    BY <1>7, <1>8 DEF Once
<1>. QED BY <1>1, <1>2, <1>9, <1>10 DEF SentTypes

LEMMA SetTimerKeepsOrder ==
    ASSUME NEW d, NEW p, SentTypes(d, p), NEW l \in [Channels -> Nat], InOrder(d, p, l),
           NEW t \in Timers, Above(d, p, t.log, t.channel), NEW s, NEW k, Inserted(p, s, k, t),
           t.left = l[t.channel], t.left # 0
    PROVE  InOrder(d, s, l)
<1>1. d \in [Channels -> Seq(Nat)] /\ p \in Seq(Timers)
    BY DEF SentTypes
<1>2. /\ s \in Seq(Timers) /\ k + 1 \in DOMAIN s /\ s[k + 1] = t
      /\ \A i \in DOMAIN s : i = k + 1 \/ (Old(k, i) \in DOMAIN p /\ s[i] = p[Old(k, i)])
      /\ \A i \in DOMAIN s : i > k + 1 => s[i].left > t.left
      /\ \A i, j \in DOMAIN s : i # k + 1 /\ j # k + 1 /\ i < j => Old(k, i) < Old(k, j)
    BY <1>1, InsertedPlaces
<1>3. t.channel \in Channels /\ t.log \in Nat /\ t.left \in Nat
    BY DEF Timers
<1>4. \A i \in DOMAIN s : s[i].left \in Nat /\ s[i].log \in Nat /\ i \in Int
    BY <1>2, TimerFacts
<1>5. \A i \in DOMAIN s : l[s[i].channel] # 0 /\ s[i].left <= l[s[i].channel]
    BY <1>2, <1>3 DEF InOrder
<1>6. \A i \in DOMAIN s : i # k + 1 /\ s[i].channel = t.channel => s[i].log < t.log
    BY <1>2 DEF Above
<1>7. ASSUME NEW i \in DOMAIN s, NEW j \in DOMAIN s, i < j, s[i].channel = s[j].channel
      PROVE  s[i].log < s[j].log
    <2>1. CASE i = k + 1
        <3>1. s[j].left > t.left /\ s[j].left <= t.left
            BY <1>2, <1>5, <1>7, <2>1
        <3>. QED BY <3>1, <1>3, <1>4
    <2>2. CASE j = k + 1
        BY <1>2, <1>4, <1>6, <1>7, <2>2
    <2>3. CASE i # k + 1 /\ j # k + 1
        BY <1>2, <1>7, <2>3 DEF InOrder
    <2>. QED BY <2>1, <2>2, <2>3
<1>8. ASSUME NEW c \in Channels, NEW i \in DOMAIN s, NEW n \in DOMAIN d[c], s[i].channel = c
      PROVE  d[c][n] < s[i].log
    <2>1. CASE i = k + 1
        BY <1>2, <1>3, <1>8, <2>1 DEF Above
    <2>2. CASE i # k + 1
        BY <1>2, <1>8, <2>2 DEF InOrder
    <2>. QED BY <2>1, <2>2
<1>. QED BY <1>5, <1>7, <1>8 DEF InOrder

\* The first timer fires: its log is the last of its channel.
LEMMA TailFacts ==
    ASSUME NEW p \in Seq(Timers), p # <<>>
    PROVE  /\ Tail(p) \in Seq(Timers) /\ DOMAIN Tail(p) = 1..(Len(p) - 1) /\ Len(p) \in Nat
           /\ 1 \in DOMAIN p /\ DOMAIN p = 1..Len(p)
           /\ Head(p) = p[1] /\ p[1] \in Timers
           /\ \A i \in DOMAIN Tail(p) : Tail(p)[i] = p[i + 1] /\ i + 1 \in DOMAIN p /\ i + 1 # 1
           /\ \A i \in DOMAIN p : i = 1 \/ (i - 1 \in DOMAIN Tail(p) /\ i - 1 + 1 = i)
<1>1. Len(p) \in Nat /\ DOMAIN p = 1..Len(p) /\ Len(p) # 0
    BY TimerFacts, EmptySeq
<1>2. /\ Tail(p) \in Seq(Timers) /\ Len(Tail(p)) = Len(p) - 1
      /\ \A i \in 1..Len(Tail(p)) : Tail(p)[i] = p[i + 1]
    BY HeadTailProperties
<1>3. DOMAIN Tail(p) = 1..(Len(p) - 1)
    BY <1>2, LenProperties
<1>4. Head(p) = p[1] /\ 1 \in DOMAIN p /\ p[1] \in Timers
    BY <1>1, TimerFacts
<1>. QED BY <1>1, <1>2, <1>3, <1>4

LEMMA FireKeeps ==
    ASSUME NEW d, NEW p, SentTypes(d, p), Sorted(p), Once(d, p), p # <<>>
    PROVE  /\ SentTypes(Extended(d, Head(p).channel, Head(p).log), Tail(p))
           /\ Sorted(Tail(p)) /\ Once(Extended(d, Head(p).channel, Head(p).log), Tail(p))
<1>. DEFINE c == p[1].channel
            log == p[1].log
            e == Extended(d, c, log)
            q == Tail(p)
<1>1. d \in [Channels -> Seq(Nat)] /\ p \in Seq(Timers)
    BY DEF SentTypes
<1>2. /\ q \in Seq(Timers) /\ 1 \in DOMAIN p /\ Head(p) = p[1]
      /\ \A i \in DOMAIN q : q[i] = p[i + 1] /\ i + 1 \in DOMAIN p /\ i + 1 # 1 /\ i \in Int
    BY <1>1, TailFacts
<1>3. c \in Channels /\ log \in Nat /\ p[1].channel = c /\ p[1].log = log
    BY <1>1, <1>2, TimerFacts
<1>. HIDE DEF c, log
<1>4. /\ e \in [Channels -> Seq(Nat)]
      /\ \A b \in Channels : b # c => e[b] = d[b]
      /\ DOMAIN e[c] = 1..(Len(d[c]) + 1)
      /\ \A n \in 1..Len(d[c]) : e[c][n] = d[c][n]
      /\ e[c][Len(d[c]) + 1] = log
      /\ DOMAIN d[c] = 1..Len(d[c]) /\ Len(d[c]) \in Nat
      /\ \A n \in DOMAIN e[c] : n = Len(d[c]) + 1 \/ (n \in DOMAIN d[c] /\ e[c][n] = d[c][n])
    <2>1. ExtendedBy(d, c, log, e)
        BY <1>1, <1>3, ExtendedFacts
    <2>. HIDE DEF e
    <2>. QED BY <2>1, <1>1, <1>3 DEF ExtendedBy
<1>. HIDE DEF e, q
<1>5. Sorted(q)
    BY <1>2 DEF Sorted
<1>6. \A n \in DOMAIN e[c] : n = Len(d[c]) + 1 \/ (n \in DOMAIN d[c] /\ e[c][n] = d[c][n])
    BY <1>4
<1>7. \A n \in DOMAIN d[c] : d[c][n] # log
    BY <1>2, <1>3 DEF Once
<1>8. ASSUME NEW b \in Channels, NEW i \in DOMAIN e[b], NEW j \in DOMAIN e[b], e[b][i] = e[b][j]
      PROVE  i = j
    <2>1. CASE b = c
        <3>1. /\ i = Len(d[c]) + 1 \/ (i \in DOMAIN d[c] /\ e[c][i] = d[c][i])
              /\ j = Len(d[c]) + 1 \/ (j \in DOMAIN d[c] /\ e[c][j] = d[c][j])
            BY <1>6, <1>8, <2>1
        <3>2. \A n, m \in DOMAIN d[c] : d[c][n] = d[c][m] => n = m
            BY <1>3 DEF Once
        <3>. QED BY <3>1, <3>2, <1>4, <1>7, <1>8, <2>1
    <2>2. CASE b # c
        BY <1>4, <1>8, <2>2 DEF Once
    <2>. QED BY <2>1, <2>2
<1>9. ASSUME NEW b \in Channels, NEW i \in DOMAIN q, NEW n \in DOMAIN e[b], q[i].channel = b
      PROVE  e[b][n] # q[i].log
    <2>1. CASE b # c
        <3>1. e[b] = d[b]
            BY <1>4, <2>1
        <3>. QED BY <3>1, <1>2, <1>9 DEF Once
    <2>2. CASE b = c /\ n = Len(d[c]) + 1
        <3>1. p[i + 1].channel = p[1].channel /\ i + 1 # 1 /\ i + 1 \in DOMAIN p /\ 1 \in DOMAIN p
            BY <1>2, <1>3, <1>9, <2>2
        <3>2. p[i + 1].log # p[1].log
            BY <3>1 DEF Once
        <3>. QED BY <3>2, <1>2, <1>3, <1>4, <2>2
    <2>3. CASE b = c /\ n \in DOMAIN d[c] /\ e[c][n] = d[c][n]
        BY <1>2, <1>9, <2>3 DEF Once
    <2>. QED BY <1>6, <2>1, <2>2, <2>3
<1>10. ASSUME NEW i \in DOMAIN q, NEW j \in DOMAIN q, q[i].channel = q[j].channel, q[i].log = q[j].log
       PROVE  i = j
    <2>1. i + 1 = j + 1
        BY <1>2, <1>10 DEF Once
    <2>. QED BY <2>1, <1>2
<1>11. Once(e, q)
    BY <1>8, <1>9, <1>10 DEF Once
<1>. QED BY <1>2, <1>3, <1>4, <1>5, <1>11 DEF e, q, SentTypes

LEMMA FireKeepsOrder ==
    ASSUME NEW d, NEW p, SentTypes(d, p), NEW l \in [Channels -> Nat], InOrder(d, p, l),
           p # <<>>
    PROVE  InOrder(Extended(d, Head(p).channel, Head(p).log), Tail(p), l)
<1>. DEFINE c == p[1].channel
            log == p[1].log
            e == Extended(d, c, log)
            q == Tail(p)
<1>1. d \in [Channels -> Seq(Nat)] /\ p \in Seq(Timers)
    BY DEF SentTypes
<1>2. /\ q \in Seq(Timers) /\ 1 \in DOMAIN p /\ Head(p) = p[1]
      /\ \A i \in DOMAIN q : q[i] = p[i + 1] /\ i + 1 \in DOMAIN p /\ 1 < i + 1 /\ i \in Int
    BY <1>1, TailFacts
<1>3. c \in Channels /\ log \in Nat /\ p[1].channel = c /\ p[1].log = log
    BY <1>1, <1>2, TimerFacts
<1>. HIDE DEF c, log
<1>4. /\ \A b \in Channels : b # c => e[b] = d[b]
      /\ DOMAIN e[c] = 1..(Len(d[c]) + 1)
      /\ \A n \in 1..Len(d[c]) : e[c][n] = d[c][n]
      /\ e[c][Len(d[c]) + 1] = log
      /\ DOMAIN d[c] = 1..Len(d[c]) /\ Len(d[c]) \in Nat
      /\ \A n \in DOMAIN e[c] : n = Len(d[c]) + 1 \/ (n \in DOMAIN d[c] /\ e[c][n] = d[c][n])
    <2>1. ExtendedBy(d, c, log, e)
        BY <1>1, <1>3, ExtendedFacts
    <2>. HIDE DEF e
    <2>. QED BY <2>1, <1>1, <1>3 DEF ExtendedBy
<1>. HIDE DEF e, q
<1>6. \A n \in DOMAIN e[c] : n = Len(d[c]) + 1 \/ (n \in DOMAIN d[c] /\ e[c][n] = d[c][n])
    BY <1>4
<1>7. \A n \in DOMAIN d[c] : d[c][n] < log
    BY <1>2, <1>3 DEF InOrder
<1>8. ASSUME NEW b \in Channels, NEW i \in DOMAIN e[b], NEW j \in DOMAIN e[b], i < j
      PROVE  e[b][i] < e[b][j]
    <2>1. CASE b = c /\ j = Len(d[c]) + 1
        <3>1. i \in DOMAIN d[c] /\ e[c][i] = d[c][i]
            BY <1>4, <1>8, <2>1
        <3>. QED BY <3>1, <1>4, <1>7, <2>1
    <2>2. CASE b = c /\ j \in DOMAIN d[c] /\ e[c][j] = d[c][j]
        <3>1. i \in 1..Len(d[c])
            <4>1. i \in 1..(Len(d[c]) + 1) /\ j \in 1..Len(d[c]) /\ Len(d[c]) \in Nat
                BY <1>4, <1>8, <2>2
            <4>. QED BY <4>1, <1>8
        <3>2. i \in DOMAIN d[c] /\ e[c][i] = d[c][i]
            BY <3>1, <1>4
        <3>. QED BY <3>2, <1>3, <1>8, <2>2 DEF InOrder
    <2>3. CASE b # c
        BY <1>4, <1>8, <2>3 DEF InOrder
    <2>. QED BY <1>6, <2>1, <2>2, <2>3
<1>9. ASSUME NEW b \in Channels, NEW i \in DOMAIN q, NEW n \in DOMAIN e[b], q[i].channel = b
      PROVE  e[b][n] < q[i].log
    <2>1. CASE b # c
        <3>1. e[b] = d[b]
            BY <1>4, <2>1
        <3>. QED BY <3>1, <1>2, <1>9 DEF InOrder
    <2>2. CASE b = c /\ n = Len(d[c]) + 1
        <3>1. p[1].channel = p[i + 1].channel /\ 1 < i + 1 /\ i + 1 \in DOMAIN p /\ 1 \in DOMAIN p
            BY <1>2, <1>3, <1>9, <2>2
        <3>2. p[1].log < p[i + 1].log
            BY <3>1 DEF InOrder
        <3>. QED BY <3>2, <1>2, <1>3, <1>4, <2>2
    <2>3. CASE b = c /\ n \in DOMAIN d[c] /\ e[c][n] = d[c][n]
        BY <1>2, <1>9, <2>3 DEF InOrder
    <2>. QED BY <1>6, <2>1, <2>2, <2>3
<1>10. ASSUME NEW i \in DOMAIN q, NEW j \in DOMAIN q, q[i].channel = q[j].channel, i < j
       PROVE  q[i].log < q[j].log
    <2>1. i + 1 < j + 1
        BY <1>2, <1>10
    <2>. QED BY <2>1, <1>2, <1>10 DEF InOrder
<1>11. \A i \in DOMAIN q : l[q[i].channel] # 0 /\ q[i].left <= l[q[i].channel]
    BY <1>2 DEF InOrder
<1>12. InOrder(e, q, l)
    BY <1>8, <1>9, <1>10, <1>11 DEF InOrder
<1>. QED BY <1>2, <1>3, <1>12 DEF e, q

\* Time passes: every timer is one tick nearer.
Ticked(p) == [i \in DOMAIN p |-> [p[i] EXCEPT !.left = @ - 1]]

LEMMA TickedFacts ==
    ASSUME NEW p \in Seq(Timers), Sorted(p), p # <<>>, Head(p).left > 0
    PROVE  /\ Ticked(p) \in Seq(Timers) /\ DOMAIN Ticked(p) = DOMAIN p
           /\ \A i \in DOMAIN p : /\ Ticked(p)[i].channel = p[i].channel
                                  /\ Ticked(p)[i].log = p[i].log
                                  /\ Ticked(p)[i].left = p[i].left - 1
<1>1. /\ Len(p) \in Nat /\ DOMAIN p = 1..Len(p) /\ 1 \in DOMAIN p /\ Head(p) = p[1]
      /\ \A i \in DOMAIN p : p[i] \in Timers /\ p[i].left \in Nat
    BY TimerFacts, TailFacts
<1>2. ASSUME NEW i \in DOMAIN p PROVE p[i].left > 0
    <2>1. i = 1 \/ 1 < i
        BY <1>1
    <2>2. p[1].left <= p[i].left
        BY <2>1, <1>1 DEF Sorted
    <2>. QED BY <2>2, <1>1
<1>3. ASSUME NEW i \in DOMAIN p
      PROVE  /\ [p[i] EXCEPT !.left = @ - 1] \in Timers
             /\ [p[i] EXCEPT !.left = @ - 1].channel = p[i].channel
             /\ [p[i] EXCEPT !.left = @ - 1].log = p[i].log
             /\ [p[i] EXCEPT !.left = @ - 1].left = p[i].left - 1
    <2>1. p[i] \in Timers /\ p[i].left - 1 \in Nat
        BY <1>1, <1>2
    <2>. QED BY <2>1 DEF Timers
<1>4. Ticked(p) = [i \in 1..Len(p) |-> [p[i] EXCEPT !.left = @ - 1]]
    BY <1>1 DEF Ticked
<1>5. Ticked(p) \in Seq(Timers)
    BY <1>1, <1>3, <1>4
<1>. QED BY <1>1, <1>3, <1>4, <1>5

LEMMA TickKeeps ==
    ASSUME NEW d, NEW p, SentTypes(d, p), Sorted(p), Once(d, p), p # <<>>, Head(p).left > 0
    PROVE  /\ SentTypes(d, Ticked(p)) /\ Sorted(Ticked(p)) /\ Once(d, Ticked(p))
           /\ \A l \in [Channels -> Nat] : InOrder(d, p, l) => InOrder(d, Ticked(p), l)
<1>. DEFINE q == Ticked(p)
<1>1. d \in [Channels -> Seq(Nat)] /\ p \in Seq(Timers)
    BY DEF SentTypes
<1>2. /\ q \in Seq(Timers) /\ DOMAIN q = DOMAIN p
      /\ \A i \in DOMAIN p : /\ q[i].channel = p[i].channel /\ q[i].log = p[i].log
                             /\ q[i].left = p[i].left - 1
    BY <1>1, TickedFacts
<1>3. \A i \in DOMAIN p : p[i].left \in Nat /\ p[i].channel \in Channels
    BY <1>1, TimerFacts
<1>. HIDE DEF q
<1>4. Sorted(q)
    BY <1>2, <1>3 DEF Sorted
<1>5. Once(d, q)
    BY <1>2 DEF Once
<1>6. ASSUME NEW l \in [Channels -> Nat], InOrder(d, p, l) PROVE InOrder(d, q, l)
    <2>1. ASSUME NEW i \in DOMAIN q PROVE l[q[i].channel] # 0 /\ q[i].left <= l[q[i].channel]
        <3>1. /\ q[i].channel = p[i].channel /\ q[i].left = p[i].left - 1 /\ p[i].left \in Nat
              /\ l[p[i].channel] \in Nat /\ l[p[i].channel] # 0 /\ p[i].left <= l[p[i].channel]
            BY <1>2, <1>3, <1>6, <2>1 DEF InOrder
        <3>. QED BY <3>1
    <2>2. InOrder(d, p, l)
        BY <1>6
    <2>. QED BY <1>2, <2>1, <2>2 DEF InOrder
<1>. QED BY <1>1, <1>2, <1>4, <1>5, <1>6 DEF q, SentTypes

-----------------------------------------------------------------------------
(***************************************************************************)
(* A flashblock timer and the indexed timer of the same log.               *)
(***************************************************************************)

Follows(p, i) == \E j \in DOMAIN p : i < j /\ p[j].channel = "indexed" /\ p[j].log = p[i].log

\* All flashblock timers but those of one log are followed by its indexed timer.
PairedBut(p, log) ==
    \A i \in DOMAIN p : p[i].channel = "flashblock" /\ p[i].log # log => Follows(p, i)

Paired(p) == \A i \in DOMAIN p : p[i].channel = "flashblock" => Follows(p, i)

\* The timers of a channel and a log are set for so long.
SetFor(p, channel, log, m) ==
    \A i \in DOMAIN p : p[i].channel = channel /\ p[i].log = log => p[i].left = m

LEMMA InsertKeepsFollowers ==
    ASSUME NEW p \in Seq(Timers), NEW t \in Timers, NEW s, NEW k, Inserted(p, s, k, t),
           NEW i \in DOMAIN s, i # k + 1, Follows(p, Old(k, i))
    PROVE  Follows(s, i)
<1>1. /\ k + 1 \in DOMAIN s
      /\ \A j \in DOMAIN s : j = k + 1 \/ (Old(k, j) \in DOMAIN p /\ s[j] = p[Old(k, j)])
      /\ \A m, n \in DOMAIN s : m # k + 1 /\ n # k + 1 /\ m < n => Old(k, m) < Old(k, n)
      /\ \A j \in DOMAIN p : \E m \in DOMAIN s : m # k + 1 /\ Old(k, m) = j
      /\ s \in Seq(Timers)
    BY InsertedPlaces
<1>2. PICK n \in DOMAIN p : /\ Old(k, i) < n /\ p[n].channel = "indexed"
                            /\ p[n].log = p[Old(k, i)].log
    BY DEF Follows
<1>3. PICK j \in DOMAIN s : j # k + 1 /\ Old(k, j) = n
    BY <1>1
<1>4. \A m \in DOMAIN s : m \in Int
    BY <1>1, TimerFacts
<1>5. \A m \in DOMAIN p : m \in Int
    BY TimerFacts
<1>6. Old(k, i) \in Int /\ Old(k, j) \in Int
    BY <1>1, <1>3, <1>5
<1>7. i < j
    <2>1. CASE j < i
        <3>1. Old(k, j) < Old(k, i)
            BY <2>1, <1>1, <1>3
        <3>. QED BY <3>1, <1>2, <1>3, <1>6
    <2>2. CASE j = i
        BY <2>2, <1>2, <1>3, <1>6
    <2>. QED BY <2>1, <2>2, <1>4
<1>. QED BY <1>1, <1>2, <1>3, <1>7 DEF Follows

\* The flashblock timer of a new log.
LEMMA FlashInsert ==
    ASSUME NEW p \in Seq(Timers), NEW t \in Timers, NEW s, NEW k, Inserted(p, s, k, t),
           Paired(p), t.channel = "flashblock",
           \A i \in DOMAIN p : p[i].channel = "flashblock" => p[i].log # t.log
    PROVE  PairedBut(s, t.log) /\ SetFor(s, "flashblock", t.log, t.left)
<1>1. /\ s[k + 1] = t
      /\ \A j \in DOMAIN s : j = k + 1 \/ (Old(k, j) \in DOMAIN p /\ s[j] = p[Old(k, j)])
    BY InsertedPlaces
<1>2. ASSUME NEW i \in DOMAIN s, s[i].channel = "flashblock", s[i].log # t.log PROVE Follows(s, i)
    <2>1. i # k + 1
        BY <1>1, <1>2
    <2>2. Old(k, i) \in DOMAIN p /\ s[i] = p[Old(k, i)]
        BY <1>1, <2>1
    <2>3. Follows(p, Old(k, i))
        BY <1>2, <2>2 DEF Paired
    <2>. QED BY <2>1, <2>3, InsertKeepsFollowers
<1>3. ASSUME NEW i \in DOMAIN s, s[i].channel = "flashblock", s[i].log = t.log
      PROVE  s[i].left = t.left
    BY <1>1, <1>3
<1>. QED BY <1>2, <1>3 DEF PairedBut, SetFor

\* Then its indexed timer, set for no less.
LEMMA IndexedInsert ==
    ASSUME NEW p \in Seq(Timers), NEW t \in Timers, NEW s, NEW k, Inserted(p, s, k, t),
           t.channel = "indexed", NEW m \in Nat, m <= t.left,
           PairedBut(p, t.log), SetFor(p, "flashblock", t.log, m)
    PROVE  Paired(s)
<1>1. /\ s[k + 1] = t /\ s \in Seq(Timers) /\ k + 1 \in DOMAIN s
      /\ \A j \in DOMAIN s : j = k + 1 \/ (Old(k, j) \in DOMAIN p /\ s[j] = p[Old(k, j)])
      /\ \A i \in DOMAIN s : i > k + 1 => s[i].left > t.left
    BY InsertedPlaces
<1>2. t.left \in Nat /\ \A j \in DOMAIN s : j \in Int
    BY <1>1, TimerFacts DEF Timers
<1>3. ASSUME NEW i \in DOMAIN s, s[i].channel = "flashblock" PROVE Follows(s, i)
    <2>1. i # k + 1
        BY <1>1, <1>3
    <2>2. Old(k, i) \in DOMAIN p /\ s[i] = p[Old(k, i)]
        BY <1>1, <2>1
    <2>3. CASE s[i].log # t.log
        <3>1. Follows(p, Old(k, i))
            BY <1>3, <2>2, <2>3 DEF PairedBut
        <3>. QED BY <2>1, <3>1, InsertKeepsFollowers
    <2>4. CASE s[i].log = t.log
        <3>1. s[i].left = m
            BY <1>3, <2>2, <2>4 DEF SetFor
        <3>2. ~(i > k + 1)
            BY <1>1, <1>2, <3>1
        <3>3. i < k + 1
            BY <3>2, <2>1, <1>1, <1>2
        <3>. QED BY <3>3, <1>1, <2>4 DEF Follows
    <2>. QED BY <2>3, <2>4
<1>. QED BY <1>3 DEF Paired

LEMMA FireKeepsPaired ==
    ASSUME NEW p \in Seq(Timers), p # <<>>, Paired(p)
    PROVE  Paired(Tail(p))
<1>1. /\ \A i \in DOMAIN Tail(p) : Tail(p)[i] = p[i + 1] /\ i + 1 \in DOMAIN p /\ i \in Int
      /\ \A i \in DOMAIN p : (i = 1 \/ (i - 1 \in DOMAIN Tail(p) /\ i - 1 + 1 = i)) /\ i \in Int
      /\ \A i \in DOMAIN Tail(p) : i > 0
    BY TailFacts
<1>2. ASSUME NEW i \in DOMAIN Tail(p), Tail(p)[i].channel = "flashblock"
      PROVE  Follows(Tail(p), i)
    <2>1. Follows(p, i + 1)
        BY <1>1, <1>2 DEF Paired
    <2>2. PICK j \in DOMAIN p : i + 1 < j /\ p[j].channel = "indexed" /\ p[j].log = p[i + 1].log
        BY <2>1 DEF Follows
    <2>3. j # 1 /\ i < j - 1
        BY <1>1, <2>2
    <2>4. j - 1 \in DOMAIN Tail(p) /\ Tail(p)[j - 1] = p[j]
        BY <1>1, <2>3
    <2>. QED BY <1>1, <2>2, <2>3, <2>4 DEF Follows
<1>. QED BY <1>2 DEF Paired

LEMMA TickKeepsPaired ==
    ASSUME NEW p \in Seq(Timers), Sorted(p), p # <<>>, Head(p).left > 0, Paired(p)
    PROVE  Paired(Ticked(p))
<1>1. /\ DOMAIN Ticked(p) = DOMAIN p
      /\ \A i \in DOMAIN p : /\ Ticked(p)[i].channel = p[i].channel
                             /\ Ticked(p)[i].log = p[i].log
    BY TickedFacts
<1>. QED BY <1>1 DEF Paired, Follows

-----------------------------------------------------------------------------
(***************************************************************************)
(* emitDelayed                                                             *)
(***************************************************************************)

Outs == [delivered: [Channels -> Seq(Nat)], timers: Seq(Timers)]

\* Nothing sent so far comes after log n.
Within(d, p, n) ==
    /\ \A c \in Channels : \A i \in DOMAIN d[c] : d[c][i] <= n
    /\ \A i \in DOMAIN p : p[i].log <= n

TimerOf(c, n) == [channel |-> c, log |-> n, left |-> lag[c]]

LEMMA EmitFields ==
    ASSUME NEW out \in Outs, NEW c \in Channels, NEW n \in Nat, lag \in [Channels -> Nat],
           Sorted(out.timers)
    PROVE  /\ EmitDelayed(out, n, c) \in Outs
           /\ lag[c] = 0 => /\ EmitDelayed(out, n, c).delivered = Extended(out.delivered, c, n)
                            /\ EmitDelayed(out, n, c).timers = out.timers
           /\ lag[c] # 0 => /\ EmitDelayed(out, n, c).delivered = out.delivered
                            /\ \E k : Inserted(out.timers, EmitDelayed(out, n, c).timers, k,
                                               TimerOf(c, n))
           /\ TimerOf(c, n) \in Timers
<1>. DEFINE e == EmitDelayed(out, n, c)
<1>1. out.delivered \in [Channels -> Seq(Nat)] /\ out.timers \in Seq(Timers)
    BY DEF Outs
<1>2. TimerOf(c, n) \in Timers
    BY DEF TimerOf, Timers
<1>3. CASE lag[c] = 0
    <2>1. e = [out EXCEPT !.delivered[c] = Append(@, n)]
        BY <1>3 DEF EmitDelayed
    <2>2. out = [delivered |-> out.delivered, timers |-> out.timers]
        BY DEF Outs
    <2>3. e = [delivered |-> Extended(out.delivered, c, n), timers |-> out.timers]
        BY <2>1, <2>2 DEF Extended
    <2>4. Extended(out.delivered, c, n) \in [Channels -> Seq(Nat)]
        BY <1>1, ExtendedFacts DEF ExtendedBy
    <2>. HIDE DEF e
    <2>5. e \in Outs /\ e.delivered = Extended(out.delivered, c, n) /\ e.timers = out.timers
        BY <2>3, <2>4, <1>1 DEF Outs
    <2>. QED BY <2>5, <1>2, <1>3 DEF e
<1>4. CASE lag[c] # 0
    <2>1. e = [out EXCEPT !.timers = WithTimer(out.timers, TimerOf(c, n))]
        BY <1>4 DEF EmitDelayed, TimerOf
    <2>2. PICK k \in 0..Len(out.timers) :
              Inserted(out.timers, WithTimer(out.timers, TimerOf(c, n)), k, TimerOf(c, n))
        BY <1>1, <1>2, WithTimerInserts
    <2>. HIDE DEF e
    <2>3. WithTimer(out.timers, TimerOf(c, n)) \in Seq(Timers)
        BY <2>2 DEF Inserted
    <2>4. /\ e \in Outs /\ e.delivered = out.delivered
          /\ e.timers = WithTimer(out.timers, TimerOf(c, n))
        BY <2>1, <2>3, <1>1 DEF Outs
    <2>. QED BY <2>2, <2>4, <1>2, <1>4 DEF e
<1>. QED BY <1>3, <1>4

LEMMA EmitKeeps ==
    ASSUME NEW out \in Outs, NEW c \in Channels, NEW n \in Nat, lag \in [Channels -> Nat],
           Sorted(out.timers), Once(out.delivered, out.timers),
           Above(out.delivered, out.timers, n, c), Within(out.delivered, out.timers, n)
    PROVE  LET e == EmitDelayed(out, n, c)
           IN  /\ e \in Outs /\ Sorted(e.timers) /\ Once(e.delivered, e.timers)
               /\ Within(e.delivered, e.timers, n)
               /\ InOrder(out.delivered, out.timers, lag) => InOrder(e.delivered, e.timers, lag)
               /\ \A b \in Channels : b # c /\ Above(out.delivered, out.timers, n, b)
                                        => Above(e.delivered, e.timers, n, b)
<1>. DEFINE d == out.delivered
            p == out.timers
            e == EmitDelayed(out, n, c)
            t == TimerOf(c, n)
<1>1. SentTypes(d, p)
    BY DEF Outs, SentTypes
<1>2. /\ e \in Outs /\ t \in Timers
      /\ lag[c] = 0 => e.delivered = Extended(d, c, n) /\ e.timers = p
      /\ lag[c] # 0 => e.delivered = d /\ \E k : Inserted(p, e.timers, k, t)
    BY EmitFields
<1>3. t.channel = c /\ t.log = n /\ t.left = lag[c]
    BY DEF TimerOf
<1>4. Sorted(p) /\ Once(d, p) /\ Above(d, p, n, c) /\ Within(d, p, n)
    OBVIOUS
<1>. HIDE DEF d, p, e, t
<1>5. d \in [Channels -> Seq(Nat)] /\ p \in Seq(Timers)
    BY <1>1 DEF SentTypes
<1>6. CASE lag[c] = 0
    <2>. DEFINE f == Extended(d, c, n)
    <2>1. SentTypes(f, p) /\ Once(f, p)
        BY <1>1, <1>4, DeliverKeeps
    <2>2. ExtendedBy(d, c, n, f)
        BY <1>5, ExtendedFacts
    <2>. HIDE DEF f
    <2>3. Within(f, p, n)
        <3>1. ASSUME NEW b \in Channels, NEW i \in DOMAIN f[b] PROVE f[b][i] <= n
            <4>1. CASE b = c
                BY <4>1, <2>2, <1>4 DEF ExtendedBy, Within
            <4>2. CASE b # c
                BY <4>2, <2>2, <1>4 DEF ExtendedBy, Within
            <4>. QED BY <4>1, <4>2
        <3>. QED BY <3>1, <1>4 DEF Within
    <2>4. ASSUME NEW b \in Channels, b # c, Above(d, p, n, b) PROVE Above(f, p, n, b)
        BY <2>2, <2>4 DEF ExtendedBy, Above
    <2>5. ASSUME InOrder(d, p, lag) PROVE InOrder(f, p, lag)
        <3>1. NoneOn(p, c)
            BY <1>6, <2>5 DEF NoneOn, InOrder
        <3>. QED BY <3>1, <2>5, <1>1, <1>4, DeliverKeepsOrder DEF f
    <2>. QED BY <1>2, <1>4, <1>6, <2>1, <2>3, <2>4, <2>5 DEF d, e, f, p
<1>7. CASE lag[c] # 0
    <2>0. PICK k : Inserted(p, e.timers, k, t)
        BY <1>2, <1>7
    <2>. DEFINE s == e.timers
    <2>1. SentTypes(d, s) /\ Sorted(s) /\ Once(d, s)
        BY <1>1, <1>2, <1>3, <1>4, <2>0, SetTimerKeeps
    <2>2. /\ s[k + 1] = t
          /\ \A j \in DOMAIN s : j = k + 1 \/ (Old(k, j) \in DOMAIN p /\ s[j] = p[Old(k, j)])
        BY <1>2, <1>5, <2>0, InsertedPlaces
    <2>00. Inserted(p, s, k, t)
        BY <2>0
    <2>. HIDE DEF s
    <2>3. Within(d, s, n)
        BY <2>2, <1>3, <1>4 DEF Within
    <2>4. ASSUME NEW b \in Channels, b # c, Above(d, p, n, b) PROVE Above(d, s, n, b)
        BY <2>2, <2>4, <1>3 DEF Above
    <2>5. ASSUME InOrder(d, p, lag) PROVE InOrder(d, s, lag)
        BY <2>00, <2>5, <1>1, <1>2, <1>3, <1>4, <1>7, SetTimerKeepsOrder
    <2>. QED BY <1>2, <1>7, <2>1, <2>3, <2>4, <2>5 DEF d, e, s, p
<1>. QED BY <1>6, <1>7

\* PollLog sends a log to the flashblock channel, then to the indexed one.
LEMMA EmitBoth ==
    ASSUME NEW out \in Outs, NEW n \in Nat, lag \in [Channels -> Nat],
           Sorted(out.timers), Once(out.delivered, out.timers),
           \A c \in Channels : Above(out.delivered, out.timers, n, c),
           Within(out.delivered, out.timers, n)
    PROVE  LET e == EmitDelayed(EmitDelayed(out, n, "flashblock"), n, "indexed")
           IN  /\ e \in Outs /\ Sorted(e.timers) /\ Once(e.delivered, e.timers)
               /\ Within(e.delivered, e.timers, n)
               /\ InOrder(out.delivered, out.timers, lag) => InOrder(e.delivered, e.timers, lag)
               /\ lag["flashblock"] <= lag["indexed"] /\ Paired(out.timers) => Paired(e.timers)
<1>. DEFINE f == EmitDelayed(out, n, "flashblock")
            e == EmitDelayed(f, n, "indexed")
<1>0. "flashblock" \in Channels /\ "indexed" \in Channels /\ "flashblock" # "indexed"
    BY DEF Channels
<1>1. /\ f \in Outs /\ Sorted(f.timers) /\ Once(f.delivered, f.timers)
      /\ Within(f.delivered, f.timers, n)
      /\ InOrder(out.delivered, out.timers, lag) => InOrder(f.delivered, f.timers, lag)
      /\ Above(f.delivered, f.timers, n, "indexed")
    BY <1>0, EmitKeeps
<1>a. /\ lag["flashblock"] = 0 => f.timers = out.timers
      /\ lag["flashblock"] # 0 => \E k : Inserted(out.timers, f.timers, k, TimerOf("flashblock", n))
      /\ TimerOf("flashblock", n) \in Timers
    BY <1>0, EmitFields
<1>. HIDE DEF f
<1>2. /\ e \in Outs /\ Sorted(e.timers) /\ Once(e.delivered, e.timers)
      /\ Within(e.delivered, e.timers, n)
      /\ InOrder(f.delivered, f.timers, lag) => InOrder(e.delivered, e.timers, lag)
    BY <1>0, <1>1, EmitKeeps
<1>b. /\ lag["indexed"] = 0 => e.timers = f.timers
      /\ lag["indexed"] # 0 => \E k : Inserted(f.timers, e.timers, k, TimerOf("indexed", n))
      /\ TimerOf("indexed", n) \in Timers
    BY <1>0, <1>1, EmitFields
<1>. HIDE DEF e
<1>3. ASSUME lag["flashblock"] <= lag["indexed"], Paired(out.timers) PROVE Paired(e.timers)
    <2>0. lag["flashblock"] \in Nat /\ lag["indexed"] \in Nat
        BY <1>0
    <2>1. CASE lag["indexed"] = 0
        <3>1. lag["flashblock"] = 0
            BY <2>0, <2>1, <1>3
        <3>. QED BY <3>1, <2>1, <1>3, <1>a, <1>b
    <2>2. CASE lag["indexed"] # 0
        <3>. DEFINE tf == TimerOf("flashblock", n)
                    ti == TimerOf("indexed", n)
        <3>1. /\ ti.channel = "indexed" /\ ti.log = n /\ ti.left = lag["indexed"]
              /\ tf.channel = "flashblock" /\ tf.log = n /\ tf.left = lag["flashblock"]
            BY DEF TimerOf
        <3>2. out.timers \in Seq(Timers) /\ f.timers \in Seq(Timers)
            BY <1>1 DEF Outs
        <3>3. PICK k : Inserted(f.timers, e.timers, k, ti)
            BY <2>2, <1>b
        <3>a. ti \in Timers /\ tf \in Timers
            BY <1>a, <1>b
        <3>b. lag["flashblock"] # 0 => \E k2 : Inserted(out.timers, f.timers, k2, tf)
            BY <1>a
        <3>4. \A i \in DOMAIN out.timers :
                  out.timers[i].channel = "flashblock" => out.timers[i].log # n
            BY <1>0, <3>2, TimerFacts DEF Above
        <3>. HIDE DEF ti, tf
        <3>5. PairedBut(f.timers, n) /\ SetFor(f.timers, "flashblock", n, lag["flashblock"])
            <4>1. CASE lag["flashblock"] = 0
                <5>1. f.timers = out.timers
                    BY <4>1, <1>a
                <5>. QED BY <5>1, <3>4, <1>3 DEF PairedBut, SetFor, Paired
            <4>2. CASE lag["flashblock"] # 0
                <5>1. PICK k2 : Inserted(out.timers, f.timers, k2, tf)
                    BY <4>2, <3>b
                <5>2. PairedBut(f.timers, tf.log) /\ SetFor(f.timers, "flashblock", tf.log, tf.left)
                    BY <5>1, <3>1, <3>2, <3>4, <3>a, <1>3, FlashInsert
                <5>. QED BY <5>2, <3>1
            <4>. QED BY <4>1, <4>2
        <3>. QED BY <3>1, <3>2, <3>3, <3>5, <3>a, <2>0, <1>3, IndexedInsert
    <2>. QED BY <2>1, <2>2
<1>. QED BY <1>1, <1>2, <1>3 DEF e, f

-----------------------------------------------------------------------------
(***************************************************************************)
(* The feed's invariant.                                                   *)
(***************************************************************************)

FeedTypes ==
    /\ setting \in Settings /\ lag \in setting.lags
    /\ chain \in Seq(Nat) /\ \A a, b \in 1..Height : a <= b => chain[a] <= chain[b]
    /\ mode \in {"starting", "replaying", "polling", "draining", "sleeping", "ended"}
    /\ fromBlock \in 1..(Height + 1) /\ pollHead \in 0..Height
    /\ SentTypes(delivered, pendingTimers)

\* The logs seen are the first n of the chain, and nothing else was sent.
SeenAreFirst ==
    \E n \in Nat : seen = 1..n /\ Within(delivered, pendingTimers, n)

\* The blocks before fromBlock were fetched for good.
Covered ==
    mode \in {"polling", "draining", "sleeping"} => 1..UpTo(fromBlock - 1) \subseteq seen

\* The batch is what is left of a range of logs, all before it are seen.
Remaining(last) ==
    \E a \in Nat : /\ a + Len(batch) = last
                   /\ batch \in Seq(Nat) /\ \A i \in 1..Len(batch) : batch[i] = a + i
                   /\ 1..a \subseteq seen
                   /\ mode = "replaying" => seen = 1..a

BatchIsRange ==
    /\ mode = "replaying" => Remaining(UpTo(fromBlock - 1))
    /\ mode = "draining" => Remaining(UpTo(pollHead))

\* Timers belong to the polls.
NothingTimed ==
    /\ mode \in {"starting", "replaying"} => pendingTimers = <<>>
    /\ mode = "starting" => seen = {}

\* What was sent and will be.
SentInv ==
    /\ Sorted(pendingTimers) /\ Once(delivered, pendingTimers)
    /\ LagsLeftAlone => InOrder(delivered, pendingTimers, lag)
    /\ LagsInOrder => Paired(pendingTimers)

FeedInv ==
    /\ FeedTypes /\ SeenAreFirst /\ Covered /\ BatchIsRange /\ NothingTimed /\ SentInv

LEMMA LagTypes ==
    ASSUME setting \in Settings, lag \in setting.lags
    PROVE  lag \in [Channels -> Nat] /\ setting.lags \subseteq [Channels -> Nat]
BY FeedAssumption

LEMMA ChainFacts ==
    ASSUME FeedTypes
    PROVE  /\ Height \in Nat /\ DOMAIN chain = 1..Height
           /\ \A b \in 0..Height : UpTo(b) \in Nat
           /\ \A a, b \in 0..Height : a <= b => UpTo(a) <= UpTo(b)
<1>1. Height \in Nat /\ DOMAIN chain = 1..Height /\ \A b \in 1..Height : chain[b] \in Nat
    BY LenProperties, ElementOfSeq DEF FeedTypes, Height
<1>2. ASSUME NEW b \in 0..Height PROVE UpTo(b) \in Nat
    BY <1>1 DEF UpTo
<1>3. ASSUME NEW a \in 0..Height, NEW b \in 0..Height, a <= b PROVE UpTo(a) <= UpTo(b)
    BY <1>1, <1>2, <1>3 DEF UpTo, FeedTypes
<1>. QED BY <1>1, <1>2, <1>3

LEMMA FeedInitially == Init => FeedInv
<1>. SUFFICES ASSUME Init PROVE FeedInv
    OBVIOUS
<1>1. Len(chain) = 0 /\ chain \in Seq(Nat) /\ pendingTimers \in Seq(Timers)
    BY DEF Init
<1>2. /\ delivered \in [Channels -> Seq(Nat)]
      /\ \A c \in Channels : delivered[c] = <<>> /\ DOMAIN delivered[c] = {}
      /\ pendingTimers = <<>> /\ DOMAIN pendingTimers = {}
    BY DEF Init
<1>3. FeedTypes
    BY <1>1, <1>2 DEF Init, FeedTypes, SentTypes, Height
<1>4. seen = 1..0 /\ Within(delivered, pendingTimers, 0)
    BY <1>2 DEF Init, Within
<1>5. SentInv
    BY <1>2 DEF SentInv, Sorted, Once, InOrder, Paired
<1>6. SeenAreFirst /\ Covered /\ BatchIsRange /\ NothingTimed
    BY <1>4 DEF Init, SeenAreFirst, Covered, BatchIsRange, NothingTimed
<1>. QED BY <1>3, <1>5, <1>6 DEF FeedInv

-----------------------------------------------------------------------------
\* The coroutine's steps.

\* What was sent stays as it was.
SentAlone == UNCHANGED <<setting, lag, delivered, pendingTimers>>

LEMMA SentAloneKeeps ==
    ASSUME FeedInv, SentAlone PROVE SentInv'
<1>1. SentInv
    BY DEF FeedInv
<1>. QED BY <1>1 DEF SentAlone, SentInv, LagsLeftAlone, LagsInOrder

LEMMA StartKeeps == ASSUME FeedInv, Start PROVE FeedInv'
<1>. USE DEF Start
<1>0. FeedTypes /\ SeenAreFirst /\ NothingTimed
    BY DEF FeedInv
<1>1. SentInv'
    BY SentAloneKeeps DEF SentAlone, lagVars
<1>2. Height' = Height /\ chain' = chain
    BY DEF Height
<1>h. /\ Height \in Nat /\ UpTo(0) = 0 /\ 0 \in 0..Height /\ Height \in 0..Height
      /\ UpTo(Height) \in Nat
    BY <1>0, ChainFacts DEF UpTo
<1>3. FeedTypes'
    BY <1>0, <1>2, <1>h DEF FeedTypes, lagVars
<1>4. SeenAreFirst' /\ NothingTimed' /\ Covered'
    BY <1>0 DEF SeenAreFirst, NothingTimed, Covered
<1>5. CASE stopped
    BY <1>1, <1>3, <1>4, <1>5 DEF FeedInv, BatchIsRange
<1>6. CASE ~stopped
    <2>1. batch' = [i \in 1..UpTo(Height) |-> i]
        <3>1. LogsIn(1, Height) = [i \in 1..(UpTo(Height) - 0) |-> 0 + i]
            BY <1>h DEF LogsIn
        <3>2. UpTo(Height) - 0 = UpTo(Height) /\ \A i \in 1..UpTo(Height) : 0 + i = i
            BY <1>h
        <3>. QED BY <3>1, <3>2, <1>6
    <2>2. batch' \in Seq(Nat) /\ Len(batch') = UpTo(Height)
          /\ \A i \in 1..Len(batch') : batch'[i] = 0 + i
        BY <2>1, <1>h
    <2>3. seen' = {} /\ seen' = 1..0 /\ mode' = "replaying" /\ fromBlock' = Height + 1
        BY <1>0, <1>6 DEF NothingTimed
    <2>4. UpTo(fromBlock' - 1) = UpTo(Height) /\ 0 + UpTo(Height) = UpTo(Height)
        BY <2>3, <1>h
    <2>5. Remaining(UpTo(fromBlock - 1))'
        BY <2>2, <2>3, <2>4, <1>2 DEF Remaining, UpTo
    <2>. QED BY <1>1, <1>3, <1>4, <2>3, <2>5 DEF FeedInv, BatchIsRange
<1>. QED BY <1>5, <1>6

LEMMA BatchHead ==
    ASSUME FeedInv, mode \in {"replaying", "draining"}, batch # <<>>
    PROVE  \E a \in Nat :
              /\ Head(batch) = a + 1 /\ 1..a \subseteq seen /\ Len(batch) \in Nat \ {0}
              /\ mode = "replaying" => seen = 1..a
              /\ Tail(batch) \in Seq(Nat) /\ Len(Tail(batch)) = Len(batch) - 1
              /\ \A i \in 1..Len(Tail(batch)) : Tail(batch)[i] = a + 1 + i
              /\ a + 1 + Len(Tail(batch))
                   = IF mode = "replaying" THEN UpTo(fromBlock - 1) ELSE UpTo(pollHead)
<1>. DEFINE last == IF mode = "replaying" THEN UpTo(fromBlock - 1) ELSE UpTo(pollHead)
<1>1. Remaining(last)
    BY DEF FeedInv, BatchIsRange
<1>. HIDE DEF last
<1>2. PICK a \in Nat : /\ a + Len(batch) = last
                       /\ batch \in Seq(Nat) /\ \A i \in 1..Len(batch) : batch[i] = a + i
                       /\ 1..a \subseteq seen
                       /\ mode = "replaying" => seen = 1..a
    BY <1>1 DEF Remaining
<1>3. Len(batch) \in Nat /\ Len(batch) # 0
    BY <1>2, LenProperties, EmptySeq
<1>4. /\ Tail(batch) \in Seq(Nat) /\ Len(Tail(batch)) = Len(batch) - 1
      /\ \A i \in 1..Len(Tail(batch)) : Tail(batch)[i] = batch[i + 1]
    BY <1>2, HeadTailProperties
<1>5. Head(batch) = a + 1
    BY <1>2, <1>3
<1>6. ASSUME NEW i \in 1..Len(Tail(batch)) PROVE Tail(batch)[i] = a + 1 + i
    <2>1. i + 1 \in 1..Len(batch) /\ a + (i + 1) = a + 1 + i
        BY <1>2, <1>3, <1>4
    <2>. QED BY <2>1, <1>2, <1>4
<1>7. a + 1 + Len(Tail(batch)) = last
    BY <1>2, <1>3, <1>4
<1>. QED BY <1>2, <1>3, <1>4, <1>5, <1>6, <1>7 DEF last

\* The first n logs are seen, and n is what the batch begins after if its head is new.
LEMMA NewLog ==
    ASSUME NEW n \in Nat, seen = 1..n, NEW a \in Nat, 1..a \subseteq seen, a + 1 \notin seen
    PROVE  n = a /\ seen \cup {a + 1} = 1..(a + 1)
<1>1. n = a
    BY Z3
<1>2. \A x : x \in 1..(a + 1) <=> (x \in 1..a \/ x = a + 1)
    OBVIOUS
<1>. QED BY <1>1, <1>2

\* Chain, coroutine's bounds and everything sent stay.
ChainAlone == UNCHANGED <<chain, setting, lag>>

LEMMA ReplayLogKeeps == ASSUME FeedInv, ReplayLog PROVE FeedInv'
<1>. USE DEF ReplayLog
<1>0. /\ FeedTypes /\ SeenAreFirst /\ NothingTimed /\ SentInv
      /\ SentTypes(delivered, pendingTimers)
    BY DEF FeedInv, FeedTypes
<1>1. PICK a \in Nat :
          /\ Head(batch) = a + 1 /\ 1..a \subseteq seen /\ Len(batch) \in Nat \ {0}
          /\ seen = 1..a
          /\ Tail(batch) \in Seq(Nat) /\ Len(Tail(batch)) = Len(batch) - 1
          /\ \A i \in 1..Len(Tail(batch)) : Tail(batch)[i] = a + 1 + i
          /\ a + 1 + Len(Tail(batch)) = UpTo(fromBlock - 1)
    BY BatchHead
<1>2. PICK n \in Nat : seen = 1..n /\ Within(delivered, pendingTimers, n)
    BY <1>0 DEF SeenAreFirst
<1>3. n = a /\ seen' = 1..(a + 1)
    BY <1>1, <1>2, NewLog
<1>4. pendingTimers = <<>> /\ pendingTimers' = <<>> /\ DOMAIN pendingTimers = {}
    BY <1>0 DEF NothingTimed
<1>5. delivered' = Extended(delivered, "indexed", a + 1)
    BY <1>1 DEF Extended
<1>6. "indexed" \in Channels /\ a + 1 \in Nat
    BY DEF Channels
<1>7. Above(delivered, pendingTimers, a + 1, "indexed")
    <2>1. \A i \in DOMAIN delivered["indexed"] :
              delivered["indexed"][i] \in Nat /\ delivered["indexed"][i] <= a
        BY <1>0, <1>2, <1>3, <1>6, ExtendedFacts DEF SentTypes, ExtendedBy, Within
    <2>. QED BY <2>1, <1>4 DEF Above
<1>8. SentTypes(delivered, pendingTimers)' /\ Once(delivered, pendingTimers)'
    BY <1>0, <1>4, <1>5, <1>6, <1>7, DeliverKeeps DEF SentInv
<1>9. LagsLeftAlone => InOrder(delivered, pendingTimers, lag)'
    <2>1. lag \in [Channels -> Nat]
        BY <1>0, LagTypes DEF FeedTypes
    <2>2. NoneOn(pendingTimers, "indexed")
        BY <1>4 DEF NoneOn
    <2>3. LagsLeftAlone => InOrder(Extended(delivered, "indexed", a + 1), pendingTimers, lag)
        BY <2>1, <2>2, <1>0, <1>6, <1>7, DeliverKeepsOrder DEF SentInv
    <2>. QED BY <2>3, <1>4, <1>5 DEF lagVars
<1>10. SentInv'
    BY <1>4, <1>8, <1>9 DEF SentInv, Sorted, Paired, LagsLeftAlone, lagVars
<1>11. FeedTypes'
    BY <1>0, <1>8 DEF FeedTypes, lagVars, Height
<1>12. Within(delivered, pendingTimers, a + 1)'
    <2>1. ExtendedBy(delivered, "indexed", a + 1, delivered')
        BY <1>0, <1>5, <1>6, ExtendedFacts DEF SentTypes
    <2>2. ASSUME NEW c \in Channels, NEW i \in DOMAIN delivered'[c]
          PROVE  delivered'[c][i] <= a + 1
        <3>1. CASE c # "indexed"
            <4>1. delivered'[c] = delivered[c] /\ delivered[c][i] \in Nat
                BY <2>1, <2>2, <3>1 DEF ExtendedBy
            <4>. QED BY <4>1, <2>2, <1>2, <1>3 DEF Within
        <3>2. CASE c = "indexed"
            <4>1. \/ i = Len(delivered[c]) + 1
                  \/ i \in DOMAIN delivered[c] /\ delivered'[c][i] = delivered[c][i]
                BY <2>1, <2>2, <3>2 DEF ExtendedBy
            <4>2. CASE i = Len(delivered[c]) + 1
                BY <4>2, <2>1, <3>2 DEF ExtendedBy
            <4>3. CASE i \in DOMAIN delivered[c] /\ delivered'[c][i] = delivered[c][i]
                <5>1. delivered[c][i] \in Nat /\ delivered[c][i] <= a
                    BY <4>3, <2>1, <1>2, <1>3 DEF ExtendedBy, Within
                <5>. QED BY <5>1, <4>3
            <4>. QED BY <4>1, <4>2, <4>3
        <3>. QED BY <3>1, <3>2
    <2>. QED BY <2>2, <1>4 DEF Within
<1>13. SeenAreFirst'
    BY <1>3, <1>12 DEF SeenAreFirst
<1>14. Remaining(UpTo(fromBlock - 1))'
    <2>1. /\ a + 1 + Len(batch') = UpTo(fromBlock - 1)' /\ batch' \in Seq(Nat)
          /\ \A i \in 1..Len(batch') : batch'[i] = a + 1 + i
        BY <1>1 DEF UpTo
    <2>. QED BY <2>1, <1>3, <1>6 DEF Remaining
<1>. QED BY <1>4, <1>10, <1>11, <1>13, <1>14 DEF FeedInv, BatchIsRange, Covered, NothingTimed

LEMMA PollLogKeeps == ASSUME FeedInv, PollLog PROVE FeedInv'
<1>. DEFINE out == [delivered |-> delivered, timers |-> pendingTimers]
            e == EmitDelayed(EmitDelayed(out, Head(batch), "flashblock"), Head(batch), "indexed")
<1>0. /\ FeedTypes /\ SeenAreFirst /\ NothingTimed /\ SentInv /\ Covered
      /\ SentTypes(delivered, pendingTimers) /\ lag \in [Channels -> Nat]
    BY LagTypes DEF FeedInv, FeedTypes
<1>p. /\ mode = "draining" /\ batch # <<>> /\ Head(batch) \notin seen
      /\ seen' = seen \cup {Head(batch)} /\ batch' = Tail(batch)
      /\ \/ stopped /\ delivered' = delivered /\ pendingTimers' = pendingTimers
         \/ ~stopped /\ delivered' = e.delivered /\ pendingTimers' = e.timers
      /\ UNCHANGED <<chain, setting, lag, mode, fromBlock, pollHead>>
    BY DEF PollLog, lagVars
<1>1. PICK a \in Nat :
          /\ Head(batch) = a + 1 /\ 1..a \subseteq seen
          /\ Tail(batch) \in Seq(Nat)
          /\ \A i \in 1..Len(Tail(batch)) : Tail(batch)[i] = a + 1 + i
          /\ a + 1 + Len(Tail(batch)) = UpTo(pollHead)
    BY <1>p, BatchHead
<1>2. PICK n \in Nat : seen = 1..n /\ Within(delivered, pendingTimers, n)
    BY <1>0 DEF SeenAreFirst
<1>3. n = a /\ seen' = 1..(a + 1)
    BY <1>1, <1>2, <1>p, NewLog
<1>4. a + 1 \in Nat
    OBVIOUS
<1>. DEFINE f == EmitDelayed(EmitDelayed(out, a + 1, "flashblock"), a + 1, "indexed")
<1>5. e = f
    BY <1>1
<1>6. /\ out \in Outs /\ out.delivered = delivered /\ out.timers = pendingTimers
    BY <1>0 DEF Outs, SentTypes
<1>7. /\ \A c \in Channels : \A i \in DOMAIN delivered[c] : delivered[c][i] \in Nat
      /\ \A i \in DOMAIN pendingTimers : pendingTimers[i].log \in Nat
    BY <1>0, <1>4, ExtendedFacts, TimerFacts DEF SentTypes, ExtendedBy
<1>8. /\ \A c \in Channels : Above(delivered, pendingTimers, a + 1, c)
      /\ Within(delivered, pendingTimers, a + 1)
    BY <1>2, <1>3, <1>7 DEF Above, Within
<1>9. Sorted(pendingTimers) /\ Once(delivered, pendingTimers)
    BY <1>0 DEF SentInv
<1>. HIDE DEF out
<1>10. /\ f \in Outs /\ Sorted(f.timers) /\ Once(f.delivered, f.timers)
       /\ Within(f.delivered, f.timers, a + 1)
       /\ InOrder(delivered, pendingTimers, lag) => InOrder(f.delivered, f.timers, lag)
       /\ lag["flashblock"] <= lag["indexed"] /\ Paired(pendingTimers) => Paired(f.timers)
    <2>1. /\ Sorted(out.timers) /\ Once(out.delivered, out.timers)
          /\ \A c \in Channels : Above(out.delivered, out.timers, a + 1, c)
          /\ Within(out.delivered, out.timers, a + 1)
        BY <1>6, <1>8, <1>9
    <2>2. /\ f \in Outs /\ Sorted(f.timers) /\ Once(f.delivered, f.timers)
          /\ Within(f.delivered, f.timers, a + 1)
          /\ InOrder(out.delivered, out.timers, lag) => InOrder(f.delivered, f.timers, lag)
          /\ lag["flashblock"] <= lag["indexed"] /\ Paired(out.timers) => Paired(f.timers)
        BY <2>1, <1>0, <1>4, <1>6, EmitBoth
    <2>. QED BY <2>2, <1>6
<1>. HIDE DEF e, f
<1>11. LagsInOrder => lag["flashblock"] <= lag["indexed"]
    BY <1>0 DEF LagsInOrder, FeedTypes
<1>12. SentTypes(delivered, pendingTimers)' /\ SentInv' /\ Within(delivered, pendingTimers, a + 1)'
    <2>1. CASE stopped /\ delivered' = delivered /\ pendingTimers' = pendingTimers
        BY <2>1, <1>0, <1>8, <1>p DEF SentInv, LagsLeftAlone, LagsInOrder
    <2>2. CASE delivered' = f.delivered /\ pendingTimers' = f.timers
        <3>1. SentTypes(delivered, pendingTimers)'
            BY <2>2, <1>10 DEF Outs, SentTypes
        <3>2. /\ LagsLeftAlone' => InOrder(delivered', pendingTimers', lag')
              /\ LagsInOrder' => Paired(pendingTimers')
            BY <2>2, <1>0, <1>10, <1>11, <1>p DEF SentInv, LagsLeftAlone, LagsInOrder
        <3>. QED BY <2>2, <3>1, <3>2, <1>10 DEF SentInv
    <2>. QED BY <2>1, <2>2, <1>5, <1>p
<1>13. FeedTypes'
    BY <1>0, <1>12, <1>p DEF FeedTypes, Height
<1>14. SeenAreFirst'
    BY <1>3, <1>12 DEF SeenAreFirst
<1>15. Remaining(UpTo(pollHead))'
    <2>1. /\ a + 1 + Len(batch') = UpTo(pollHead)' /\ batch' \in Seq(Nat)
          /\ \A i \in 1..Len(batch') : batch'[i] = a + 1 + i /\ mode' # "replaying"
        BY <1>1, <1>p DEF UpTo
    <2>. QED BY <2>1, <1>3, <1>4, <1>p DEF Remaining
<1>16. Covered'
    BY <1>0, <1>p DEF Covered, UpTo
<1>17. NothingTimed'
    BY <1>p DEF NothingTimed
<1>. QED BY <1>12, <1>13, <1>14, <1>15, <1>16, <1>17, <1>p DEF FeedInv, BatchIsRange

\* The other steps of the coroutine send nothing.
LEMMA ReplayLogFailsKeeps == ASSUME FeedInv, ReplayLogFails PROVE FeedInv'
<1>. USE DEF ReplayLogFails, Fails
<1>0. FeedTypes /\ SeenAreFirst /\ NothingTimed
    BY DEF FeedInv
<1>1. SentInv'
    BY SentAloneKeeps DEF SentAlone, lagVars
<1>2. FeedTypes'
    BY <1>0 DEF FeedTypes, lagVars, Height
<1>3. PICK a \in Nat : Head(batch) = a + 1 /\ 1..a \subseteq seen /\ seen = 1..a
    BY BatchHead
<1>4. PICK n \in Nat : seen = 1..n /\ Within(delivered, pendingTimers, n)
    BY <1>0 DEF SeenAreFirst
<1>5. n = a /\ seen' = 1..(a + 1)
    BY <1>3, <1>4, NewLog
<1>6. pendingTimers = <<>> /\ pendingTimers' = <<>>
    BY <1>0 DEF NothingTimed
<1>7. Within(delivered, pendingTimers, a + 1)'
    <2>1. \A c \in Channels : \A i \in DOMAIN delivered[c] :
              delivered[c][i] \in Nat /\ delivered[c][i] <= a
        BY <1>0, <1>4, <1>5, ExtendedFacts DEF FeedTypes, SentTypes, ExtendedBy, Within
    <2>. QED BY <2>1, <1>6 DEF Within
<1>8. SeenAreFirst'
    BY <1>5, <1>7 DEF SeenAreFirst
<1>. QED BY <1>1, <1>2, <1>6, <1>8 DEF FeedInv, BatchIsRange, Covered, NothingTimed

LEMMA PollLogFailsKeeps == ASSUME FeedInv, PollLogFails PROVE FeedInv'
<1>. USE DEF PollLogFails, Fails
<1>0. FeedTypes /\ SeenAreFirst /\ NothingTimed /\ Covered
    BY DEF FeedInv
<1>1. SentInv'
    BY SentAloneKeeps DEF SentAlone, lagVars
<1>2. FeedTypes'
    BY <1>0 DEF FeedTypes, lagVars, Height, Resting
<1>3. PICK a \in Nat : Head(batch) = a + 1 /\ 1..a \subseteq seen
    BY BatchHead
<1>4. PICK n \in Nat : seen = 1..n /\ Within(delivered, pendingTimers, n)
    BY <1>0 DEF SeenAreFirst
<1>5. n = a /\ seen' = 1..(a + 1)
    BY <1>3, <1>4, NewLog
<1>6. Within(delivered, pendingTimers, a + 1)'
    <2>1. /\ \A c \in Channels : \A i \in DOMAIN delivered[c] :
                delivered[c][i] \in Nat /\ delivered[c][i] <= a
          /\ \A i \in DOMAIN pendingTimers : pendingTimers[i].log \in Nat
                                             /\ pendingTimers[i].log <= a
        BY <1>0, <1>4, <1>5, ExtendedFacts, TimerFacts
           DEF FeedTypes, SentTypes, ExtendedBy, Within
    <2>. QED BY <2>1 DEF Within
<1>7. SeenAreFirst'
    BY <1>5, <1>6 DEF SeenAreFirst
<1>8. mode' \in {"ended", "sleeping"}
    BY DEF Resting
<1>9. Covered' /\ BatchIsRange' /\ NothingTimed'
    BY <1>0, <1>8 DEF Covered, BatchIsRange, NothingTimed, UpTo
<1>. QED BY <1>1, <1>2, <1>7, <1>9 DEF FeedInv

LEMMA SkipSeenLogKeeps == ASSUME FeedInv, SkipSeenLog PROVE FeedInv'
<1>. USE DEF SkipSeenLog
<1>0. FeedTypes /\ SeenAreFirst /\ NothingTimed /\ Covered
    BY DEF FeedInv
<1>1. SentInv'
    BY SentAloneKeeps DEF SentAlone, lagVars
<1>2. FeedTypes'
    BY <1>0 DEF FeedTypes, lagVars, Height
<1>3. PICK a \in Nat :
          /\ Head(batch) = a + 1 /\ 1..a \subseteq seen
          /\ Tail(batch) \in Seq(Nat)
          /\ \A i \in 1..Len(Tail(batch)) : Tail(batch)[i] = a + 1 + i
          /\ a + 1 + Len(Tail(batch)) = UpTo(pollHead)
    BY BatchHead
<1>4. 1..(a + 1) \subseteq seen /\ a + 1 \in Nat
    <2>1. \A x \in 1..(a + 1) : x \in 1..a \/ x = a + 1
        OBVIOUS
    <2>. QED BY <2>1, <1>3
<1>5. Remaining(UpTo(pollHead))'
    <2>1. /\ a + 1 + Len(batch') = UpTo(pollHead)' /\ batch' \in Seq(Nat)
          /\ \A i \in 1..Len(batch') : batch'[i] = a + 1 + i
          /\ mode' # "replaying" /\ 1..(a + 1) \subseteq seen'
        BY <1>3, <1>4 DEF UpTo
    <2>. QED BY <2>1, <1>4 DEF Remaining
<1>6. SeenAreFirst' /\ Covered' /\ NothingTimed'
    BY <1>0 DEF SeenAreFirst, Covered, NothingTimed, UpTo
<1>. QED BY <1>1, <1>2, <1>5, <1>6 DEF FeedInv, BatchIsRange

LEMMA EndOfBatch ==
    ASSUME FeedInv, mode \in {"replaying", "draining"}, batch = <<>>
    PROVE  1..(IF mode = "replaying" THEN UpTo(fromBlock - 1) ELSE UpTo(pollHead)) \subseteq seen
<1>. DEFINE last == IF mode = "replaying" THEN UpTo(fromBlock - 1) ELSE UpTo(pollHead)
<1>1. Remaining(last)
    BY DEF FeedInv, BatchIsRange
<1>. HIDE DEF last
<1>2. PICK a \in Nat : a + Len(batch) = last /\ 1..a \subseteq seen
    BY <1>1 DEF Remaining
<1>3. a = last
    BY <1>2
<1>. QED BY <1>2, <1>3 DEF last

LEMMA ReplayDoneKeeps == ASSUME FeedInv, ReplayDone PROVE FeedInv'
<1>. USE DEF ReplayDone
<1>0. FeedTypes /\ SeenAreFirst
    BY DEF FeedInv
<1>1. SentInv'
    BY SentAloneKeeps DEF SentAlone, lagVars
<1>2. 1..UpTo(fromBlock - 1) \subseteq seen
    BY EndOfBatch
<1>3. FeedTypes' /\ SeenAreFirst'
    BY <1>0 DEF FeedTypes, lagVars, Height, SeenAreFirst
<1>4. Covered' /\ BatchIsRange' /\ NothingTimed'
    BY <1>2 DEF Covered, BatchIsRange, NothingTimed, UpTo
<1>. QED BY <1>1, <1>3, <1>4 DEF FeedInv

LEMMA PollDoneKeeps == ASSUME FeedInv, PollDone PROVE FeedInv'
<1>. USE DEF PollDone
<1>0. FeedTypes /\ SeenAreFirst /\ Height \in Nat
    BY ChainFacts DEF FeedInv
<1>1. SentInv'
    BY SentAloneKeeps DEF SentAlone, lagVars
<1>2. 1..UpTo(pollHead) \subseteq seen
    BY EndOfBatch
<1>3. fromBlock' - 1 = pollHead /\ pollHead + 1 \in 1..(Height + 1)
    BY <1>0 DEF FeedTypes
<1>4. FeedTypes' /\ SeenAreFirst'
    BY <1>0, <1>3 DEF FeedTypes, lagVars, Height, SeenAreFirst, Resting
<1>5. mode' \in {"ended", "sleeping"}
    BY DEF Resting
<1>6. UpTo(fromBlock - 1)' = UpTo(pollHead)
    BY <1>3 DEF UpTo
<1>7. Covered' /\ BatchIsRange' /\ NothingTimed'
    BY <1>2, <1>5, <1>6 DEF Covered, BatchIsRange, NothingTimed
<1>. QED BY <1>1, <1>4, <1>7 DEF FeedInv

LEMMA PollKeeps == ASSUME FeedInv, Poll PROVE FeedInv'
<1>. USE DEF Poll
<1>0. FeedTypes /\ SeenAreFirst /\ Covered
    BY DEF FeedInv
<1>h. /\ Height \in Nat /\ fromBlock \in 1..(Height + 1)
      /\ \A b \in 0..Height : UpTo(b) \in Nat
      /\ \A a, b \in 0..Height : a <= b => UpTo(a) <= UpTo(b)
    BY <1>0, ChainFacts DEF FeedTypes
<1>1. SentInv'
    BY SentAloneKeeps DEF SentAlone, lagVars
<1>2. FeedTypes' /\ SeenAreFirst'
    BY <1>0, <1>h DEF FeedTypes, lagVars, Height, SeenAreFirst, Resting
<1>3. Covered' /\ NothingTimed'
    BY <1>0 DEF Covered, NothingTimed, UpTo, Resting
<1>4. CASE ~(Height >= fromBlock)
    BY <1>1, <1>2, <1>3, <1>4 DEF FeedInv, BatchIsRange, Resting
<1>5. CASE Height >= fromBlock
    <2>. DEFINE a == UpTo(fromBlock - 1)
    <2>1. a \in Nat /\ UpTo(Height) \in Nat /\ a <= UpTo(Height) /\ 1..a \subseteq seen
        <3>1. fromBlock - 1 \in 0..Height /\ Height \in 0..Height /\ fromBlock - 1 <= Height
            BY <1>h
        <3>. QED BY <3>1, <1>0, <1>h DEF Covered
    <2>2. batch' = [i \in 1..(UpTo(Height) - a) |-> a + i]
        BY <1>5 DEF LogsIn
    <2>. HIDE DEF a
    <2>3. /\ batch' \in Seq(Nat) /\ Len(batch') = UpTo(Height) - a
          /\ \A i \in 1..Len(batch') : batch'[i] = a + i
        BY <2>1, <2>2
    <2>4. a + Len(batch') = UpTo(Height)
        BY <2>1, <2>3
    <2>5. mode' = "draining" /\ pollHead' = Height /\ UpTo(pollHead)' = UpTo(Height)
          /\ seen' = seen
        BY <1>5 DEF UpTo
    <2>6. Remaining(UpTo(pollHead))'
        BY <2>1, <2>3, <2>4, <2>5 DEF Remaining
    <2>. QED BY <2>5, <2>6, <1>1, <1>2, <1>3 DEF FeedInv, BatchIsRange
<1>. QED BY <1>4, <1>5

LEMMA RestKeeps ==
    ASSUME FeedInv, StartFails \/ PollFails \/ WakeUp
    PROVE  FeedInv'
<1>0. FeedTypes /\ SeenAreFirst /\ Covered
    BY DEF FeedInv
<1>1. /\ UNCHANGED <<chain, setting, lag, delivered, pendingTimers, seen, fromBlock, pollHead>>
      /\ \/ mode' = "ended"
         \/ mode' \in {"sleeping", "polling"} /\ mode \in {"sleeping", "polling"}
    BY DEF StartFails, PollFails, WakeUp, Fails, Resting, lagVars
<1>2. SentInv'
    BY <1>1, SentAloneKeeps DEF SentAlone
<1>3. FeedTypes' /\ SeenAreFirst'
    BY <1>0, <1>1 DEF FeedTypes, Height, SeenAreFirst
<1>4. Covered' /\ BatchIsRange' /\ NothingTimed'
    BY <1>0, <1>1 DEF Covered, BatchIsRange, NothingTimed, UpTo
<1>. QED BY <1>2, <1>3, <1>4 DEF FeedInv

-----------------------------------------------------------------------------
\* The surroundings' steps.

LEMMA StopKeeps == ASSUME FeedInv, Stop PROVE FeedInv'
<1>. USE DEF Stop
<1>0. FeedTypes /\ SeenAreFirst /\ Covered /\ BatchIsRange /\ NothingTimed /\ SentInv
    BY DEF FeedInv
<1>1. pendingTimers' \in Seq(Timers) /\ DOMAIN pendingTimers' = {}
    OBVIOUS
<1>2. FeedTypes'
    BY <1>0, <1>1 DEF FeedTypes, SentTypes, lagVars, Height
<1>3. SentInv'
    BY <1>0, <1>1 DEF SentInv, Sorted, Once, InOrder, Paired, LagsLeftAlone, LagsInOrder, lagVars
<1>4. SeenAreFirst'
    BY <1>0, <1>1 DEF SeenAreFirst, Within
<1>5. BatchIsRange' /\ Covered' /\ NothingTimed'
    BY <1>0 DEF BatchIsRange, Remaining, Covered, NothingTimed, UpTo
<1>. QED BY <1>2, <1>3, <1>4, <1>5 DEF FeedInv

LEMMA ChangeLagsKeeps == ASSUME FeedInv, NEW l \in setting.lags, ChangeLags(l) PROVE FeedInv'
<1>. USE DEF ChangeLags, coroutine
<1>0. FeedTypes /\ SeenAreFirst /\ Covered /\ BatchIsRange /\ NothingTimed /\ SentInv
    BY DEF FeedInv
<1>1. FeedTypes'
    BY <1>0 DEF FeedTypes, Height
<1>2. ~LagsLeftAlone'
    BY <1>0 DEF LagsLeftAlone, FeedTypes
<1>3. SentInv'
    BY <1>0, <1>2 DEF SentInv, LagsInOrder
<1>4. SeenAreFirst' /\ BatchIsRange' /\ Covered' /\ NothingTimed'
    BY <1>0 DEF SeenAreFirst, BatchIsRange, Remaining, Covered, NothingTimed, UpTo
<1>. QED BY <1>1, <1>3, <1>4 DEF FeedInv

LEMMA MineKeeps == ASSUME FeedInv, NEW n \in 0..setting.logs, Mine(n) PROVE FeedInv'
<1>. USE DEF Mine, coroutine, lagVars
<1>0. FeedTypes /\ SeenAreFirst /\ Covered /\ BatchIsRange /\ NothingTimed /\ SentInv
    BY DEF FeedInv
<1>h. /\ Height \in Nat /\ DOMAIN chain = 1..Height
      /\ \A b \in 0..Height : UpTo(b) \in Nat
      /\ \A a, b \in 0..Height : a <= b => UpTo(a) <= UpTo(b)
      /\ n \in Nat
    <2>1. setting.logs \in Nat
        BY <1>0, FeedAssumption DEF FeedTypes
    <2>. QED BY <2>1, <1>0, ChainFacts
<1>a. /\ UpTo(Height) + n \in Nat /\ chain \in Seq(Nat)
      /\ chain' = Append(chain, UpTo(Height) + n)
    BY <1>0, <1>h DEF FeedTypes
<1>1. /\ chain' \in Seq(Nat) /\ Height' = Height + 1
      /\ \A b \in 1..Height : chain'[b] = chain[b]
      /\ chain'[Height + 1] = UpTo(Height) + n
    BY <1>a, AppendProperties DEF Height
<1>2. ASSUME NEW b \in 0..Height PROVE UpTo(b)' = UpTo(b)
    BY <1>1, <1>h DEF UpTo
<1>3. \A b \in 1..Height : chain[b] = UpTo(b)
    BY <1>h DEF UpTo
<1>4. ASSUME NEW a \in 1..Height', NEW b \in 1..Height', a <= b PROVE chain'[a] <= chain'[b]
    <2>1. CASE b \in 1..Height
        <3>1. a \in 1..Height
            BY <1>4, <2>1, <1>h
        <3>2. chain[a] <= chain[b]
            BY <3>1, <2>1, <1>4, <1>0 DEF FeedTypes
        <3>. QED BY <3>1, <3>2, <2>1, <1>1
    <2>2. CASE b = Height + 1 /\ a \in 1..Height
        <3>1. /\ UpTo(a) <= UpTo(Height) /\ UpTo(a) \in Nat /\ UpTo(Height) \in Nat
              /\ chain'[a] = UpTo(a)
            <4>1. a \in 0..Height /\ Height \in 0..Height /\ a <= Height
                BY <2>2, <1>h
            <4>. QED BY <4>1, <2>2, <1>1, <1>3, <1>h
        <3>. DEFINE v == chain'[a]
                    w == chain'[b]
                    u == UpTo(Height)
        <3>2. v <= u /\ v \in Nat /\ u \in Nat /\ n \in Nat
            BY <3>1, <1>h
        <3>3. w = u + n
            BY <2>2, <1>1
        <3>. HIDE DEF u, v, w
        <3>4. v <= w
            BY <3>2, <3>3
        <3>. QED BY <3>4 DEF v, w
    <2>3. CASE b = Height + 1 /\ a = Height + 1
        <3>. DEFINE w == chain'[Height + 1]
        <3>1. w \in Nat
            BY <1>1, <1>a
        <3>. HIDE DEF w
        <3>2. w <= w
            BY <3>1
        <3>. QED BY <3>2, <2>3 DEF w
    <2>. QED BY <2>1, <2>2, <2>3, <1>1, <1>4, <1>h
<1>5. FeedTypes'
    BY <1>0, <1>1, <1>4, <1>h DEF FeedTypes
<1>6. SentInv'
    BY SentAloneKeeps DEF SentAlone
<1>7. UpTo(fromBlock - 1)' = UpTo(fromBlock - 1) /\ UpTo(pollHead)' = UpTo(pollHead)
    <2>1. fromBlock - 1 \in 0..Height /\ pollHead \in 0..Height
          /\ fromBlock' = fromBlock /\ pollHead' = pollHead
        BY <1>0, <1>h DEF FeedTypes
    <2>2. ASSUME NEW x \in 0..Height
          PROVE  (IF x = 0 THEN 0 ELSE chain'[x]) = (IF x = 0 THEN 0 ELSE chain[x])
        BY <1>1, <1>h
    <2>. QED BY <2>1, <2>2 DEF UpTo
<1>8. SeenAreFirst' /\ NothingTimed'
    BY <1>0 DEF SeenAreFirst, NothingTimed
<1>9. Covered'
    BY <1>0, <1>7 DEF Covered
<1>10. BatchIsRange'
    BY <1>0, <1>7 DEF BatchIsRange, Remaining
<1>. QED BY <1>5, <1>6, <1>8, <1>9, <1>10 DEF FeedInv

LEMMA FireTimerKeeps == ASSUME FeedInv, FireTimer PROVE FeedInv'
<1>. DEFINE c == Head(pendingTimers).channel
            log == Head(pendingTimers).log
<1>0. /\ FeedTypes /\ SeenAreFirst /\ Covered /\ BatchIsRange /\ NothingTimed /\ SentInv
      /\ SentTypes(delivered, pendingTimers) /\ lag \in [Channels -> Nat]
    BY LagTypes DEF FeedInv, FeedTypes
<1>1. /\ pendingTimers # <<>> /\ pendingTimers' = Tail(pendingTimers)
      /\ delivered' = Extended(delivered, c, log)
      /\ UNCHANGED <<chain, setting, lag, mode, fromBlock, batch, pollHead, seen>>
    BY DEF FireTimer, Extended, lagVars, coroutine
<1>2. Sorted(pendingTimers) /\ Once(delivered, pendingTimers)
    BY <1>0 DEF SentInv
<1>3. /\ SentTypes(Extended(delivered, c, log), Tail(pendingTimers))
      /\ Sorted(Tail(pendingTimers)) /\ Once(Extended(delivered, c, log), Tail(pendingTimers))
    BY <1>0, <1>1, <1>2, FireKeeps
<1>4. LagsLeftAlone => InOrder(Extended(delivered, c, log), Tail(pendingTimers), lag)
    BY <1>0, <1>1, FireKeepsOrder DEF SentInv
<1>5. LagsInOrder => Paired(Tail(pendingTimers))
    BY <1>0, <1>1, FireKeepsPaired DEF SentInv, SentTypes
<1>6. /\ pendingTimers \in Seq(Timers) /\ 1 \in DOMAIN pendingTimers
      /\ Head(pendingTimers) = pendingTimers[1] /\ pendingTimers[1] \in Timers
      /\ \A i \in DOMAIN Tail(pendingTimers) :
            Tail(pendingTimers)[i] = pendingTimers[i + 1] /\ i + 1 \in DOMAIN pendingTimers
      /\ delivered \in [Channels -> Seq(Nat)]
    BY <1>0, <1>1, TailFacts DEF SentTypes
<1>7. c \in Channels /\ log \in Nat /\ log = pendingTimers[1].log
    BY <1>6 DEF Timers
<1>. HIDE DEF c, log
<1>8. ExtendedBy(delivered, c, log, delivered')
    BY <1>1, <1>6, <1>7, ExtendedFacts
<1>9. SentInv'
    BY <1>1, <1>3, <1>4, <1>5 DEF SentInv, LagsLeftAlone, LagsInOrder
<1>10. FeedTypes'
    BY <1>0, <1>1, <1>3 DEF FeedTypes, Height
<1>11. SeenAreFirst'
    <2>1. PICK n \in Nat : seen = 1..n /\ Within(delivered, pendingTimers, n)
        BY <1>0 DEF SeenAreFirst
    <2>2. log <= n /\ \A i \in DOMAIN Tail(pendingTimers) : Tail(pendingTimers)[i].log <= n
        BY <2>1, <1>6, <1>7 DEF Within
    <2>3. ASSUME NEW b \in Channels, NEW i \in DOMAIN delivered'[b] PROVE delivered'[b][i] <= n
        <3>1. CASE b # c
            BY <3>1, <2>1, <2>3, <1>8 DEF ExtendedBy, Within
        <3>2. CASE b = c
            BY <3>2, <2>1, <2>2, <2>3, <1>8 DEF ExtendedBy, Within
        <3>. QED BY <3>1, <3>2
    <2>4. Within(delivered, pendingTimers, n)'
        BY <2>2, <2>3, <1>1 DEF Within
    <2>. QED BY <2>1, <2>4, <1>1 DEF SeenAreFirst
<1>12. Covered' /\ BatchIsRange'
    BY <1>0, <1>1 DEF Covered, BatchIsRange, Remaining, UpTo
<1>13. NothingTimed'
    BY <1>0, <1>1 DEF NothingTimed
<1>. QED BY <1>9, <1>10, <1>11, <1>12, <1>13 DEF FeedInv

LEMMA TimePassesKeeps == ASSUME FeedInv, TimePasses PROVE FeedInv'
<1>0. /\ FeedTypes /\ SeenAreFirst /\ Covered /\ BatchIsRange /\ NothingTimed /\ SentInv
      /\ SentTypes(delivered, pendingTimers) /\ lag \in [Channels -> Nat]
    BY LagTypes DEF FeedInv, FeedTypes
<1>1. /\ pendingTimers # <<>> /\ Head(pendingTimers).left > 0
      /\ pendingTimers' = Ticked(pendingTimers)
      /\ UNCHANGED <<chain, setting, lag, mode, fromBlock, batch, pollHead, seen, delivered>>
    BY DEF TimePasses, Ticked, lagVars, coroutine
<1>2. Sorted(pendingTimers) /\ Once(delivered, pendingTimers)
    BY <1>0 DEF SentInv
<1>3. /\ SentTypes(delivered, Ticked(pendingTimers))
      /\ Sorted(Ticked(pendingTimers)) /\ Once(delivered, Ticked(pendingTimers))
      /\ \A l \in [Channels -> Nat] : InOrder(delivered, pendingTimers, l)
                                        => InOrder(delivered, Ticked(pendingTimers), l)
    BY <1>0, <1>1, <1>2, TickKeeps
<1>4. LagsInOrder => Paired(Ticked(pendingTimers))
    BY <1>0, <1>1, <1>2, TickKeepsPaired DEF SentInv, SentTypes
<1>5. SentInv'
    BY <1>0, <1>1, <1>3, <1>4 DEF SentInv, LagsLeftAlone, LagsInOrder
<1>6. FeedTypes'
    BY <1>0, <1>1, <1>3 DEF FeedTypes, Height
<1>7. SeenAreFirst'
    <2>1. PICK n \in Nat : seen = 1..n /\ Within(delivered, pendingTimers, n)
        BY <1>0 DEF SeenAreFirst
    <2>2. /\ DOMAIN Ticked(pendingTimers) = DOMAIN pendingTimers
          /\ \A i \in DOMAIN pendingTimers : Ticked(pendingTimers)[i].log = pendingTimers[i].log
        BY <1>0, <1>1, <1>2, TickedFacts DEF SentTypes
    <2>3. Within(delivered, pendingTimers, n)'
        BY <2>1, <2>2, <1>1 DEF Within
    <2>. QED BY <2>1, <2>3, <1>1 DEF SeenAreFirst
<1>8. Covered' /\ BatchIsRange'
    BY <1>0, <1>1 DEF Covered, BatchIsRange, Remaining, UpTo
<1>9. NothingTimed'
    BY <1>0, <1>1 DEF NothingTimed
<1>. QED BY <1>5, <1>6, <1>7, <1>8, <1>9 DEF FeedInv

LEMMA FeedStep == FeedInv /\ [Next]_vars => FeedInv'
<1>. SUFFICES ASSUME FeedInv, [Next]_vars PROVE FeedInv'
    OBVIOUS
<1>1. ASSUME NEW n \in 0..setting.logs, Mine(n) PROVE FeedInv'
    BY <1>1, MineKeeps
<1>2. ASSUME NEW l \in setting.lags, ChangeLags(l) PROVE FeedInv'
    BY <1>2, ChangeLagsKeeps
<1>3. CASE Proceed
    BY <1>3, StartKeeps, ReplayLogKeeps, ReplayDoneKeeps, PollKeeps, PollLogKeeps,
       SkipSeenLogKeeps, PollDoneKeeps, RestKeeps DEF Proceed
<1>4. CASE StartFails \/ ReplayLogFails \/ PollFails \/ PollLogFails
    BY <1>4, RestKeeps, ReplayLogFailsKeeps, PollLogFailsKeeps
<1>5. CASE Clock
    BY <1>5, FireTimerKeeps, TimePassesKeeps DEF Clock
<1>6. CASE Stop
    BY <1>6, StopKeeps
<1>7. CASE UNCHANGED vars
    <2>1. /\ FeedTypes /\ SeenAreFirst /\ Covered /\ BatchIsRange /\ NothingTimed /\ SentInv
          /\ UNCHANGED <<chain, setting, lag, mode, fromBlock, batch, pollHead, seen, delivered,
                         pendingTimers>>
        BY <1>7 DEF FeedInv, vars, lagVars, coroutine
    <2>2. SentInv' /\ FeedTypes'
        BY <2>1 DEF SentInv, LagsLeftAlone, LagsInOrder, FeedTypes, Height
    <2>3. SeenAreFirst' /\ Covered' /\ BatchIsRange' /\ NothingTimed'
        BY <2>1 DEF SeenAreFirst, Covered, BatchIsRange, Remaining, NothingTimed, UpTo
    <2>. QED BY <2>2, <2>3 DEF FeedInv
<1>. QED BY <1>1, <1>2, <1>3, <1>4, <1>5, <1>6, <1>7 DEF Next

-----------------------------------------------------------------------------
\* At all times the logs in seen are the first ones of the chain, without a gap
\* and with nothing sent beyond them, every block before fromBlock was taken in
\* whole, and the batch is what is left of the range being taken: a poll that
\* failed, or was stopped half-way, leaves nothing out that the next one skips.
THEOREM NoGap == Spec => []FeedInv
BY FeedInitially, FeedStep, PTL DEF Spec

LEMMA OutgoingInOrder ==
    ASSUME SentTypes(delivered, pendingTimers), Once(delivered, pendingTimers),
           NEW c \in Channels, NEW x \in Outgoing(c), NEW y \in Outgoing(c)
    PROVE  /\ x[2] = y[2] => x = y
           /\ InOrder(delivered, pendingTimers, lag) /\ x[1] < y[1] => x[2] < y[2]
<1>. DEFINE d == delivered[c]
            p == pendingTimers
            Gone(z) == z[1] \in DOMAIN d /\ z = <<z[1], d[z[1]]>>
            Due(z, i) == i \in DOMAIN p /\ p[i].channel = c /\ z = <<Len(d) + i, p[i].log>>
<1>1. d \in Seq(Nat) /\ p \in Seq(Timers)
    BY DEF SentTypes
<1>2. /\ Len(d) \in Nat /\ DOMAIN d = 1..Len(d) /\ Len(p) \in Nat /\ DOMAIN p = 1..Len(p)
      /\ \A i \in DOMAIN d : d[i] \in Nat
      /\ \A i \in DOMAIN p : p[i].log \in Nat
    BY <1>1, LenProperties, ElementOfSeq, TimerFacts
<1>3. ASSUME NEW z \in Outgoing(c) PROVE Gone(z) \/ \E i \in DOMAIN p : Due(z, i)
    BY <1>3 DEF Outgoing
<1>4. /\ \A i, j \in DOMAIN d : d[i] = d[j] => i = j
      /\ \A i, j \in DOMAIN p : p[i].channel = c /\ p[j].channel = c /\ p[i].log = p[j].log => i = j
      /\ \A i \in DOMAIN p, n \in DOMAIN d : p[i].channel = c => d[n] # p[i].log
    BY DEF Once
<1>5. InOrder(delivered, pendingTimers, lag) =>
        /\ \A i, j \in DOMAIN d : i < j => d[i] < d[j]
        /\ \A i, j \in DOMAIN p : p[i].channel = c /\ p[j].channel = c /\ i < j => p[i].log < p[j].log
        /\ \A i \in DOMAIN p, n \in DOMAIN d : p[i].channel = c => d[n] < p[i].log
    BY DEF InOrder
<1>. DEFINE Ordered == InOrder(delivered, pendingTimers, lag)
<1>. HIDE DEF d, p, Ordered
<1>6. CASE Gone(x) /\ Gone(y)
    BY <1>2, <1>4, <1>5, <1>6 DEF Ordered
<1>7. ASSUME Gone(x), NEW j \in DOMAIN p, Due(y, j) PROVE x[2] # y[2] /\ (Ordered => x[2] < y[2])
    BY <1>4, <1>5, <1>7 DEF Ordered
<1>8. ASSUME Gone(y), NEW i \in DOMAIN p, Due(x, i) PROVE x[2] # y[2] /\ ~(x[1] < y[1])
    <2>1. x[1] = Len(d) + i /\ x[2] = p[i].log /\ y[1] \in DOMAIN d /\ y[2] = d[y[1]]
        BY <1>8
    <2>2. x[2] # y[2]
        BY <2>1, <1>4, <1>8
    <2>3. ~(x[1] < y[1])
        BY <2>1, <1>2
    <2>. QED BY <2>2, <2>3
<1>9. ASSUME NEW i \in DOMAIN p, NEW j \in DOMAIN p, Due(x, i), Due(y, j)
      PROVE  (x[2] = y[2] => x = y) /\ (Ordered /\ x[1] < y[1] => x[2] < y[2])
    <2>1. x[1] = Len(d) + i /\ x[2] = p[i].log /\ y[1] = Len(d) + j /\ y[2] = p[j].log
          /\ x = <<Len(d) + i, p[i].log>> /\ y = <<Len(d) + j, p[j].log>>
          /\ p[i].channel = c /\ p[j].channel = c
        BY <1>9
    <2>2. x[2] = y[2] => i = j
        BY <2>1, <1>4
    <2>3. x[1] < y[1] => i < j
        BY <2>1, <1>2
    <2>4. Ordered /\ i < j => p[i].log < p[j].log
        BY <2>1, <1>5 DEF Ordered
    <2>. QED BY <2>1, <2>2, <2>3, <2>4
<1>. QED BY <1>3, <1>6, <1>7, <1>8, <1>9 DEF Ordered

\* Across the replay, failed and repeated polls and timers, no channel gets a log
\* twice, and with the lag sliders left alone each gets the logs in chain order.
THEOREM OrderSafety == Spec => []ChainOrder
<1>1. FeedInv => ChainOrder
    <2>. SUFFICES ASSUME FeedInv, NEW c \in Channels, NEW x \in Outgoing(c), NEW y \in Outgoing(c)
                  PROVE  /\ x[2] = y[2] => x = y
                         /\ LagsLeftAlone /\ x[1] < y[1] => x[2] < y[2]
        BY DEF ChainOrder
    <2>1. /\ SentTypes(delivered, pendingTimers) /\ Once(delivered, pendingTimers)
          /\ LagsLeftAlone => InOrder(delivered, pendingTimers, lag)
        BY DEF FeedInv, FeedTypes, SentInv
    <2>. QED BY <2>1, OutgoingInOrder
<1>. QED BY <1>1, NoGap, PTL

\* While the flashblock lag is the smaller one wherever the sliders are, no log
\* reaches the indexed channel before the flashblock channel.
THEOREM FlashblockSafety == Spec => []FlashblockFirst
<1>1. FeedInv => FlashblockFirst
    <2>. SUFFICES ASSUME FeedInv, LagsInOrder, NEW i \in DOMAIN pendingTimers,
                         pendingTimers[i].channel = "flashblock"
                  PROVE  /\ \A n \in DOMAIN delivered["indexed"] :
                               delivered["indexed"][n] # pendingTimers[i].log
                         /\ \A j \in 1..(i - 1) : pendingTimers[j].log = pendingTimers[i].log =>
                               pendingTimers[j].channel # "indexed"
        BY DEF FlashblockFirst
    <2>1. /\ pendingTimers \in Seq(Timers) /\ Once(delivered, pendingTimers)
          /\ Paired(pendingTimers)
        BY DEF FeedInv, FeedTypes, SentTypes, SentInv
    <2>2. PICK j \in DOMAIN pendingTimers :
              /\ i < j /\ pendingTimers[j].channel = "indexed"
              /\ pendingTimers[j].log = pendingTimers[i].log
        BY <2>1 DEF Paired, Follows
    <2>3. DOMAIN pendingTimers = 1..Len(pendingTimers) /\ Len(pendingTimers) \in Nat
        BY <2>1, TimerFacts
    <2>4. \A n \in DOMAIN delivered["indexed"] : delivered["indexed"][n] # pendingTimers[i].log
        BY <2>1, <2>2 DEF Once, Channels
    <2>5. ASSUME NEW k \in 1..(i - 1), pendingTimers[k].log = pendingTimers[i].log,
                 pendingTimers[k].channel = "indexed"
          PROVE  FALSE
        <3>1. k \in DOMAIN pendingTimers /\ k # j
            BY <2>2, <2>3
        <3>. QED BY <3>1, <2>1, <2>2, <2>5 DEF Once
    <2>. QED BY <2>4, <2>5
<1>. QED BY <1>1, NoGap, PTL

-----------------------------------------------------------------------------
(***************************************************************************)
(* Induction and recursion over an interval of the integers.               *)
(***************************************************************************)

\* A set that has the first number and with each the next one has them all.
LEMMA Induction ==
    ASSUME NEW lo \in Int, NEW n \in Int, lo <= n, NEW C, lo \in C,
           \A k \in lo..(n - 1) : k \in C => k + 1 \in C
    PROVE  n \in C
<1>. DEFINE D == {d \in Nat : lo + d <= n /\ lo + d \notin C}
<1>1. ASSUME D = {} PROVE n \in C
    <2>1. n - lo \in Nat /\ lo + (n - lo) = n
        OBVIOUS
    <2>2. n - lo \notin D
        BY <1>1
    <2>. QED BY <2>1, <2>2
<1>2. ASSUME D # {} PROVE FALSE
    <2>1. PICK d \in D : \A e \in D : <<e, d>> \notin OpToRel(<, Nat)
        <3>1. D \subseteq Nat
            OBVIOUS
        <3>. HIDE DEF D
        <3>. QED BY <1>2, <3>1, NatLessThanWellFounded, WFMin
    <2>2. \A e \in D : e \in Nat /\ ~(e < d)
        BY <2>1 DEF OpToRel
    <2>3. d \in Nat /\ lo + d <= n /\ lo + d \notin C
        BY <2>1
    <2>4. d # 0 /\ d - 1 \in Nat
        BY <2>3
    <2>5. d - 1 \notin D
        BY <2>2, <2>3, <2>4
    <2>6. lo + (d - 1) \in C
        BY <2>3, <2>4, <2>5
    <2>7. lo + (d - 1) \in lo..(n - 1) /\ (lo + (d - 1)) + 1 = lo + d
        BY <2>3, <2>4
    <2>. QED BY <2>3, <2>6, <2>7
<1>. QED BY <1>1, <1>2

\* f starts at lo and goes on by F.
Recursive(f, lo, n, base, F) ==
    f = [k \in lo..n |-> IF k = lo THEN base ELSE F[<<k, f[k - 1]>>]]

Staying(F, S, lo, n) == \A k \in (lo + 1)..n : \A x \in S : F[<<k, x>>] \in S

\* Such a function exists, with its values among those F stays in.
LEMMA Recursion ==
    ASSUME NEW S, NEW lo \in Int, NEW n \in Int, lo <= n, NEW base \in S, NEW F,
           Staying(F, S, lo, n)
    PROVE  \E f \in [lo..n -> S] : Recursive(f, lo, n, base, F)
<1>. DEFINE C == {m \in lo..n : \E f \in [lo..m -> S] : Recursive(f, lo, m, base, F)}
<1>1. lo \in C
    <2>. DEFINE f == [k \in lo..lo |-> base]
    <2>1. f \in [lo..lo -> S]
        OBVIOUS
    <2>2. Recursive(f, lo, lo, base, F)
        <3>1. \A k \in lo..lo : k = lo
            OBVIOUS
        <3>2. f = [k \in lo..lo |-> IF k = lo THEN base ELSE F[<<k, f[k - 1]>>]]
            BY <3>1
        <3>. QED BY <3>2 DEF Recursive
    <2>. QED BY <2>1, <2>2
<1>2. ASSUME NEW m \in lo..(n - 1), m \in C PROVE m + 1 \in C
    <2>1. PICK f \in [lo..m -> S] : Recursive(f, lo, m, base, F)
        BY <1>2
    <2>. DEFINE g == [k \in lo..(m + 1) |-> IF k = m + 1 THEN F[<<m + 1, f[m]>>] ELSE f[k]]
    <2>2. F[<<m + 1, f[m]>>] \in S
        <3>1. f[m] \in S /\ m + 1 \in (lo + 1)..n
            BY <2>1
        <3>. QED BY <3>1 DEF Staying
    <2>3. g \in [lo..(m + 1) -> S]
        BY <2>1, <2>2
    <2>4. ASSUME NEW k \in lo..(m + 1)
          PROVE  g[k] = IF k = lo THEN base ELSE F[<<k, g[k - 1]>>]
        <3>1. CASE k = m + 1
            BY <3>1
        <3>2. CASE k # m + 1
            <4>1. k \in lo..m /\ g[k] = f[k] /\ (k # lo => g[k - 1] = f[k - 1])
                BY <3>2
            <4>2. f[k] = IF k = lo THEN base ELSE F[<<k, f[k - 1]>>]
                BY <2>1, <4>1 DEF Recursive
            <4>. QED BY <4>1, <4>2
        <3>. QED BY <3>1, <3>2
    <2>5. Recursive(g, lo, m + 1, base, F)
        <3>. DEFINE h == [k \in lo..(m + 1) |-> IF k = lo THEN base ELSE F[<<k, g[k - 1]>>]]
        <3>1. \A k \in lo..(m + 1) : g[k] = h[k]
            BY <2>4
        <3>2. g = h
            BY <3>1
        <3>. QED BY <3>2 DEF Recursive
    <2>6. m + 1 \in lo..n
        OBVIOUS
    <2>. QED BY <2>3, <2>5, <2>6
<1>. HIDE DEF C
<1>3. n \in C
    BY <1>1, <1>2, Induction
<1>. QED BY <1>3 DEF C

-----------------------------------------------------------------------------
(***************************************************************************)
(* Digits.                                                                 *)
(***************************************************************************)

\* Division by the base, and its inverse.
LEMMA Division ==
    ASSUME CodecAssumption, NEW x \in Nat
    PROVE  \E q \in Nat : \E r \in Bytes :
              x \div BYTE = q /\ x % BYTE = r /\ x = BYTE * q + r
<1>0. BYTE \in Nat /\ BYTE > 0
    BY DEF CodecAssumption
<1>1. x \div BYTE \in Nat /\ x % BYTE >= 0 /\ x % BYTE < BYTE
    BY <1>0, SMT
<1>2. x % BYTE = x - BYTE * (x \div BYTE)
    BY <1>0, Z3
<1>3. PICK q : q = x \div BYTE
    OBVIOUS
<1>4. PICK r : r = x % BYTE
    OBVIOUS
<1>5. q \in Nat /\ BYTE * q \in Nat /\ r = x - BYTE * q
    BY <1>0, <1>1, <1>2, <1>3, <1>4
<1>6. r \in Bytes /\ x = BYTE * q + r
    <2>1. r >= 0 /\ r < BYTE
        BY <1>1, <1>4
    <2>. QED BY <1>0, <1>5, <2>1 DEF Bytes
<1>. QED BY <1>3, <1>4, <1>5, <1>6

LEMMA Composition ==
    ASSUME CodecAssumption, NEW q \in Nat, NEW d \in Bytes
    PROVE  /\ BYTE * q + d \in Nat
           /\ (BYTE * q + d) \div BYTE = q /\ (BYTE * q + d) % BYTE = d
<1>. DEFINE x == BYTE * q + d
<1>1. BYTE \in Nat /\ BYTE > 3 /\ d \in Nat /\ d < BYTE /\ x \in Nat
    BY DEF CodecAssumption, Bytes
<1>2. PICK p \in Nat, r \in Nat :
          x \div BYTE = p /\ x % BYTE = r /\ r < BYTE /\ x = BYTE * p + r
    BY <1>1, Division DEF Bytes
<1>3. ~(p < q)
    <2>. SUFFICES ASSUME p < q PROVE FALSE
        OBVIOUS
    <2>1. PICK e \in Nat : q = p + 1 + e
        <3>1. q - p - 1 \in Nat
            BY <1>2
        <3>. QED BY <3>1, <1>2
    <2>2. BYTE * q = BYTE * p + BYTE + BYTE * e /\ BYTE * e \in Nat
        BY <1>1, <1>2, <2>1
    <2>. QED BY <1>1, <1>2, <2>2
<1>4. ~(q < p)
    <2>. SUFFICES ASSUME q < p PROVE FALSE
        OBVIOUS
    <2>1. PICK e \in Nat : p = q + 1 + e
        <3>1. p - q - 1 \in Nat
            BY <1>2
        <3>. QED BY <3>1, <1>2
    <2>2. BYTE * p = BYTE * q + BYTE + BYTE * e /\ BYTE * e \in Nat
        BY <1>1, <1>2, <2>1
    <2>. QED BY <1>1, <1>2, <2>2
<1>5. p = q
    BY <1>2, <1>3, <1>4
<1>6. r = d
    BY <1>1, <1>2, <1>5
<1>. QED BY <1>1, <1>2, <1>5, <1>6

\* The function behind Shifted.
Shifts(f, v, n) == f = [k \in 0..n |-> IF k = 0 THEN v ELSE f[k - 1] \div BYTE]

LEMMA ShiftsExist ==
    ASSUME CodecAssumption, NEW v \in Nat, NEW n \in Nat
    PROVE  \E f \in [0..n -> Nat] : Shifts(f, v, n) /\ Shifted(v, n) = f[n]
<1>. DEFINE F == [p \in (1..n) \X Nat |-> p[2] \div BYTE]
<1>1. Staying(F, Nat, 0, n)
    <2>1. ASSUME NEW k \in 1..n, NEW x \in Nat PROVE F[<<k, x>>] \in Nat
        <3>1. F[<<k, x>>] = x \div BYTE
            OBVIOUS
        <3>. QED BY <3>1, Division
    <2>2. 0 + 1 = 1
        OBVIOUS
    <2>. QED BY <2>1, <2>2 DEF Staying
<1>2. PICK f \in [0..n -> Nat] : Recursive(f, 0, n, v, F)
    <2>. HIDE DEF F
    <2>1. 0 \in Int /\ n \in Int /\ 0 <= n /\ v \in Nat
        OBVIOUS
    <2>. QED BY <1>1, <2>1, Recursion
<1>3. Shifts(f, v, n)
    <2>. DEFINE g == [k \in 0..n |-> IF k = 0 THEN v ELSE f[k - 1] \div BYTE]
    <2>1. ASSUME NEW k \in 0..n PROVE f[k] = g[k]
        <3>1. f[k] = IF k = 0 THEN v ELSE F[<<k, f[k - 1]>>]
            BY <1>2 DEF Recursive
        <3>2. CASE k = 0
            BY <3>1, <3>2
        <3>3. CASE k # 0
            <4>1. <<k, f[k - 1]>> \in (1..n) \X Nat
                BY <3>3
            <4>2. F[<<k, f[k - 1]>>] = f[k - 1] \div BYTE
                BY <4>1
            <4>. QED BY <3>1, <3>3, <4>2
        <3>. QED BY <3>2, <3>3
    <2>2. f = g
        <3>. HIDE DEF g
        <3>1. g \in [0..n -> Nat] \/ DOMAIN g = 0..n
            BY DEF g
        <3>. QED BY <2>1 DEF g
    <2>. QED BY <2>2 DEF Shifts
<1>. DEFINE c == CHOOSE g : Shifts(g, v, n)
<1>4. Shifted(v, n) = c[n]
    BY DEF Shifted, Shifts
<1>5. Shifts(c, v, n)
    BY <1>3
<1>. HIDE DEF c, F
<1>6. \A k \in 0..n : c[k] = f[k]
    <2>. DEFINE C == {k \in 0..n : c[k] = f[k]}
    <2>1. 0 \in C
        BY <1>3, <1>5 DEF Shifts
    <2>2. ASSUME NEW k \in 0..(n - 1), k \in C PROVE k + 1 \in C
        <3>1. k + 1 \in 0..n /\ k + 1 # 0 /\ (k + 1) - 1 = k
            OBVIOUS
        <3>2. c[k + 1] = c[k] \div BYTE /\ f[k + 1] = f[k] \div BYTE
            BY <1>3, <1>5, <3>1 DEF Shifts
        <3>. QED BY <2>2, <3>1, <3>2
    <2>3. ASSUME NEW m \in 0..n PROVE m \in C
        <3>. HIDE DEF C
        <3>1. \A k \in 0..(m - 1) : k \in 0..(n - 1)
            OBVIOUS
        <3>. QED BY <2>1, <2>2, <3>1, Induction
    <2>. QED BY <2>3
<1>7. c[n] = f[n]
    BY <1>6
<1>. QED BY <1>3, <1>4, <1>7

LEMMA ShiftedFacts ==
    ASSUME CodecAssumption, NEW v \in Nat, NEW n \in Nat
    PROVE  /\ Shifted(v, 0) = v /\ Shifted(v, n) \in Nat
           /\ Shifted(v, n + 1) = Shifted(v, n) \div BYTE
<1>1. Shifted(v, 0) = v
    BY ShiftsExist DEF Shifts
<1>2. PICK f \in [0..n -> Nat] : Shifts(f, v, n) /\ Shifted(v, n) = f[n]
    BY ShiftsExist
<1>3. PICK g \in [0..(n + 1) -> Nat] : Shifts(g, v, n + 1) /\ Shifted(v, n + 1) = g[n + 1]
    <2>1. n + 1 \in Nat
        OBVIOUS
    <2>. QED BY <2>1, ShiftsExist
<1>4. g[n] = f[n]
    <2>. DEFINE C == {k \in 0..n : g[k] = f[k]}
    <2>1. 0 \in C
        BY <1>2, <1>3 DEF Shifts
    <2>2. ASSUME NEW k \in 0..(n - 1), k \in C PROVE k + 1 \in C
        <3>1. k + 1 \in 0..n /\ k + 1 \in 0..(n + 1) /\ k + 1 # 0 /\ (k + 1) - 1 = k
            OBVIOUS
        <3>2. g[k + 1] = g[k] \div BYTE /\ f[k + 1] = f[k] \div BYTE
            BY <1>2, <1>3, <3>1 DEF Shifts
        <3>. QED BY <2>2, <3>1, <3>2
    <2>3. n \in C
        <3>. HIDE DEF C
        <3>. QED BY <2>1, <2>2, Induction
    <2>. QED BY <2>3
<1>5. g[n + 1] = g[n] \div BYTE
    <2>1. n + 1 \in 0..(n + 1) /\ n + 1 # 0 /\ (n + 1) - 1 = n
        OBVIOUS
    <2>. QED BY <1>3, <2>1 DEF Shifts
<1>. QED BY <1>1, <1>2, <1>3, <1>4, <1>5

\* The function behind uint.
Reads(f, bytes, offset, width) ==
    f = [n \in 0..width |-> IF n = 0 THEN 0 ELSE BYTE * f[n - 1] + bytes[offset + n]]

Digits(bytes, offset, width) == \A n \in 1..width : bytes[offset + n] \in Bytes

ReadBy(f, bytes, offset, width) ==
    /\ f \in [0..width -> Nat]
    /\ f[0] = 0 /\ uint(bytes, offset, width) = f[width]
    /\ \A n \in 1..width : f[n] = BYTE * f[n - 1] + bytes[offset + n]

LEMMA ReadsExist ==
    ASSUME CodecAssumption, NEW bytes, NEW offset \in Nat, NEW width \in Nat,
           Digits(bytes, offset, width)
    PROVE  \E f : ReadBy(f, bytes, offset, width)
<1>0. \A n \in 1..width : bytes[offset + n] \in Bytes
    BY DEF Digits
<1>. DEFINE F == [p \in (1..width) \X Nat |-> BYTE * p[2] + bytes[offset + p[1]]]
<1>1. Staying(F, Nat, 0, width)
    <2>1. ASSUME NEW k \in 1..width, NEW x \in Nat PROVE F[<<k, x>>] \in Nat
        <3>1. F[<<k, x>>] = BYTE * x + bytes[offset + k]
            OBVIOUS
        <3>. QED BY <1>0, <3>1, Composition
    <2>2. 0 + 1 = 1
        OBVIOUS
    <2>. QED BY <2>1, <2>2 DEF Staying
<1>2. PICK f \in [0..width -> Nat] : Recursive(f, 0, width, 0, F)
    <2>. HIDE DEF F
    <2>1. 0 \in Int /\ width \in Int /\ 0 <= width /\ 0 \in Nat
        OBVIOUS
    <2>. QED BY <1>1, <2>1, Recursion
<1>3. Reads(f, bytes, offset, width)
    <2>. DEFINE g == [k \in 0..width |->
                        IF k = 0 THEN 0 ELSE BYTE * f[k - 1] + bytes[offset + k]]
    <2>1. ASSUME NEW k \in 0..width PROVE f[k] = g[k]
        <3>1. f[k] = IF k = 0 THEN 0 ELSE F[<<k, f[k - 1]>>]
            BY <1>2 DEF Recursive
        <3>2. CASE k = 0
            BY <3>1, <3>2
        <3>3. CASE k # 0
            <4>1. <<k, f[k - 1]>> \in (1..width) \X Nat
                BY <3>3
            <4>2. F[<<k, f[k - 1]>>] = BYTE * f[k - 1] + bytes[offset + k]
                BY <4>1
            <4>. QED BY <3>1, <3>3, <4>2
        <3>. QED BY <3>2, <3>3
    <2>2. f = g
        <3>. HIDE DEF g
        <3>1. DOMAIN g = 0..width
            BY DEF g
        <3>. QED BY <2>1 DEF g
    <2>. QED BY <2>2 DEF Reads
<1>. DEFINE c == CHOOSE g : Reads(g, bytes, offset, width)
<1>4. uint(bytes, offset, width) = c[width]
    BY DEF uint, Reads
<1>5. Reads(c, bytes, offset, width)
    BY <1>3
<1>. HIDE DEF c, F
<1>6. f[0] = 0 /\ c[0] = 0
    BY <1>3, <1>5 DEF Reads
<1>7. ASSUME NEW k \in 1..width
      PROVE  /\ f[k] = BYTE * f[k - 1] + bytes[offset + k]
             /\ c[k] = BYTE * c[k - 1] + bytes[offset + k]
    BY <1>3, <1>5 DEF Reads
<1>8. c[width] = f[width]
    <2>. DEFINE C == {k \in 0..width : c[k] = f[k]}
    <2>1. 0 \in C
        BY <1>6
    <2>2. ASSUME NEW k \in 0..(width - 1), k \in C PROVE k + 1 \in C
        <3>1. k + 1 \in 1..width /\ (k + 1) - 1 = k
            OBVIOUS
        <3>2. /\ f[k + 1] = BYTE * f[k] + bytes[offset + (k + 1)]
              /\ c[k + 1] = BYTE * c[k] + bytes[offset + (k + 1)]
            BY <1>7, <3>1
        <3>. QED BY <2>2, <3>1, <3>2
    <2>3. width \in C
        <3>. HIDE DEF C
        <3>. QED BY <2>1, <2>2, Induction
    <2>. QED BY <2>3
<1>. QED BY <1>2, <1>4, <1>6, <1>7, <1>8 DEF ReadBy

\* Digits decide a number, and a number that fits its digits.
LEMMA ReadsWhatFits ==
    ASSUME CodecAssumption, NEW bytes, NEW offset \in Nat, NEW width \in Nat,
           Digits(bytes, offset, width)
    PROVE  LET v == uint(bytes, offset, width)
           IN  /\ v \in Nat /\ Fits(v, width)
               /\ \A n \in 1..width : uintHex(v, width)[n] = bytes[offset + n]
<1>. DEFINE v == uint(bytes, offset, width)
<1>0. PICK f : ReadBy(f, bytes, offset, width)
    BY ReadsExist
<1>1. /\ f \in [0..width -> Nat] /\ f[0] = 0 /\ v = f[width]
      /\ \A n \in 1..width : f[n] = BYTE * f[n - 1] + bytes[offset + n]
    BY <1>0 DEF ReadBy
<1>2. v \in Nat
    BY <1>1
<1>. HIDE DEF v
<1>3. ASSUME NEW n \in 1..width
      PROVE  f[n] \div BYTE = f[n - 1] /\ f[n] % BYTE = bytes[offset + n]
    <2>1. f[n - 1] \in Nat /\ bytes[offset + n] \in Bytes
        BY <1>1 DEF Digits
    <2>. QED BY <1>1, <2>1, Composition
<1>4. ASSUME NEW m \in 0..width PROVE Shifted(v, m) = f[width - m]
    <2>. DEFINE C == {k \in 0..width : Shifted(v, k) = f[width - k]}
    <2>1. 0 \in C
        <3>1. width - 0 = width
            OBVIOUS
        <3>. QED BY <1>1, <1>2, <3>1, ShiftedFacts
    <2>2. ASSUME NEW k \in 0..(m - 1), k \in C PROVE k + 1 \in C
        <3>1. k \in Nat /\ k + 1 \in 0..width /\ width - k \in 1..width
              /\ (width - k) - 1 = width - (k + 1)
            OBVIOUS
        <3>2. Shifted(v, k + 1) = Shifted(v, k) \div BYTE
            BY <1>2, <3>1, ShiftedFacts
        <3>3. f[width - k] \div BYTE = f[width - (k + 1)]
            BY <1>3, <3>1
        <3>. QED BY <2>2, <3>1, <3>2, <3>3
    <2>3. m \in C
        <3>. HIDE DEF C
        <3>. QED BY <2>1, <2>2, Induction
    <2>. QED BY <2>3
<1>5. Fits(v, width)
    <2>1. width \in 0..width /\ width - width = 0
        OBVIOUS
    <2>. QED BY <1>1, <1>2, <1>4, <2>1 DEF Fits
<1>6. ASSUME NEW n \in 1..width PROVE uintHex(v, width)[n] = bytes[offset + n]
    <2>1. width - n \in 0..width /\ width - (width - n) = n
        OBVIOUS
    <2>2. uintHex(v, width)[n] = Shifted(v, width - n) % BYTE
        BY DEF uintHex
    <2>. QED BY <1>3, <1>4, <2>1, <2>2
<1>. QED BY <1>2, <1>5, <1>6 DEF v

LEMMA FitsWhatIsRead ==
    ASSUME CodecAssumption, NEW v \in Int, NEW width \in Nat, Fits(v, width),
           NEW bytes, NEW offset \in Nat,
           \A n \in 1..width : bytes[offset + n] = uintHex(v, width)[n]
    PROVE  Digits(bytes, offset, width) /\ uint(bytes, offset, width) = v
<1>1. v \in Nat
    BY DEF Fits
<1>2. ASSUME NEW n \in 1..width
      PROVE  /\ bytes[offset + n] = Shifted(v, width - n) % BYTE
             /\ bytes[offset + n] \in Bytes
             /\ Shifted(v, width - n)
                = BYTE * Shifted(v, width - (n - 1)) + bytes[offset + n]
    <2>1. width - n \in Nat /\ (width - n) + 1 = width - (n - 1)
        OBVIOUS
    <2>2. bytes[offset + n] = Shifted(v, width - n) % BYTE
        BY DEF uintHex
    <2>3. /\ Shifted(v, width - n) \in Nat
          /\ Shifted(v, width - (n - 1)) = Shifted(v, width - n) \div BYTE
        BY <1>1, <2>1, ShiftedFacts
    <2>. QED BY <2>2, <2>3, Division
<1>3. PICK f : ReadBy(f, bytes, offset, width)
    BY <1>2, ReadsExist DEF Digits
<1>4. width \in {k \in 0..width : f[k] = Shifted(v, width - k)}
    <2>. DEFINE C == {k \in 0..width : f[k] = Shifted(v, width - k)}
    <2>1. 0 \in C
        <3>1. width - 0 = width
            OBVIOUS
        <3>. QED BY <1>3, <3>1 DEF Fits, ReadBy
    <2>2. ASSUME NEW k \in 0..(width - 1), k \in C PROVE k + 1 \in C
        <3>1. k + 1 \in 1..width /\ (k + 1) - 1 = k
            OBVIOUS
        <3>2. Shifted(v, width - (k + 1)) = BYTE * Shifted(v, width - k) + bytes[offset + (k + 1)]
            BY <1>2, <3>1
        <3>3. f[k + 1] = BYTE * f[k] + bytes[offset + (k + 1)]
            BY <1>3, <3>1 DEF ReadBy
        <3>. QED BY <2>2, <3>2, <3>3
    <2>3. width \in C
        <3>. HIDE DEF C
        <3>. QED BY <2>1, <2>2, Induction
    <2>. QED BY <2>3
<1>5. width - width = 0
    OBVIOUS
<1>. QED BY <1>1, <1>2, <1>3, <1>4, <1>5, ShiftedFacts DEF Digits, ReadBy

-----------------------------------------------------------------------------
(***************************************************************************)
(* The fixed layout.                                                       *)
(***************************************************************************)

LEMMA FieldsFacts ==
    ASSUME CodecAssumption
    PROVE  /\ Len(FIELDS) = 17
           /\ \A n \in 1..17 : FieldWidth(n) \in Nat \ {0}
           /\ FieldWidth(17) = 1
<1>1. Len(FIELDS) = 17
    BY DEF FIELDS
<1>2. ASSUME NEW n \in 1..17 PROVE FIELDS[n][2] \in Types
    BY DEF FIELDS, Types
<1>3. FIELDS[17][2] = "uint8"
    BY DEF FIELDS
<1>. QED BY <1>1, <1>2, <1>3 DEF FieldWidth, CodecAssumption

LEMMA OffsetFacts ==
    ASSUME CodecAssumption
    PROVE  /\ OffsetOf \in [1..18 -> Nat] /\ OffsetOf[1] = 0
           /\ \A n \in 1..17 : OffsetOf[n + 1] = OffsetOf[n] + FieldWidth(n)
           /\ FIXED_LENGTH = OffsetOf[18]
<1>. DEFINE F == [p \in (2..18) \X Nat |-> p[2] + FieldWidth(p[1] - 1)]
            Lays(f) == f = [n \in 1..(Len(FIELDS) + 1) |->
                              IF n = 1 THEN 0 ELSE f[n - 1] + FieldWidth(n - 1)]
<1>0. Len(FIELDS) + 1 = 18 /\ \A n \in 2..18 : FieldWidth(n - 1) \in Nat
    <2>1. ASSUME NEW n \in 2..18 PROVE FieldWidth(n - 1) \in Nat
        <3>1. n - 1 \in 1..17
            OBVIOUS
        <3>2. FieldWidth(n - 1) \in Nat \ {0}
            BY <3>1, FieldsFacts
        <3>. QED BY <3>2
    <2>2. Len(FIELDS) = 17
        BY FieldsFacts
    <2>. QED BY <2>1, <2>2
<1>1. Staying(F, Nat, 1, 18)
    <2>1. ASSUME NEW k \in 2..18, NEW x \in Nat PROVE F[<<k, x>>] \in Nat
        <3>1. F[<<k, x>>] = x + FieldWidth(k - 1)
            OBVIOUS
        <3>2. FieldWidth(k - 1) \in Nat
            BY <1>0
        <3>. HIDE DEF F
        <3>. QED BY <3>1, <3>2
    <2>2. 1 + 1 = 2
        OBVIOUS
    <2>. QED BY <2>1, <2>2 DEF Staying
<1>2. PICK f \in [1..18 -> Nat] : Recursive(f, 1, 18, 0, F)
    <2>. HIDE DEF F
    <2>1. 1 \in Int /\ 18 \in Int /\ 1 <= 18 /\ 0 \in Nat
        OBVIOUS
    <2>. QED BY <1>1, <2>1, Recursion
<1>3. ASSUME NEW k \in 1..18
      PROVE  f[k] = IF k = 1 THEN 0 ELSE f[k - 1] + FieldWidth(k - 1)
    <2>1. f[k] = IF k = 1 THEN 0 ELSE F[<<k, f[k - 1]>>]
        BY <1>2 DEF Recursive
    <2>2. CASE k = 1
        BY <2>1, <2>2
    <2>3. CASE k # 1
        <3>1. <<k, f[k - 1]>> \in (2..18) \X Nat
            BY <2>3
        <3>2. F[<<k, f[k - 1]>>] = f[k - 1] + FieldWidth(k - 1)
            BY <3>1
        <3>. QED BY <2>1, <2>3, <3>2
    <2>. QED BY <2>2, <2>3
<1>4. Lays(f)
    <2>. DEFINE g == [n \in 1..(Len(FIELDS) + 1) |->
                        IF n = 1 THEN 0 ELSE f[n - 1] + FieldWidth(n - 1)]
    <2>1. DOMAIN g = 1..18 /\ \A k \in 1..18 : f[k] = g[k]
        BY <1>0, <1>3
    <2>2. f = g
        <3>1. g = [k \in 1..18 |-> g[k]]
            BY <1>0
        <3>. HIDE DEF g
        <3>. QED BY <2>1, <3>1
    <2>. QED BY <2>2
<1>5. OffsetOf = CHOOSE g : Lays(g)
    BY DEF OffsetOf
<1>6. Lays(OffsetOf)
    <2>. HIDE DEF Lays
    <2>. QED BY <1>4, <1>5
<1>7. OffsetOf[1] = 0
    BY <1>0, <1>6
<1>8. ASSUME NEW n \in 1..17 PROVE OffsetOf[n + 1] = OffsetOf[n] + FieldWidth(n)
    <2>1. n + 1 \in 1..18 /\ n + 1 # 1 /\ (n + 1) - 1 = n
        OBVIOUS
    <2>. QED BY <1>0, <1>6, <2>1
<1>9. ASSUME NEW m \in 1..18 PROVE OffsetOf[m] \in Nat
    <2>. DEFINE C == {k \in 1..18 : OffsetOf[k] \in Nat}
    <2>1. 1 \in C
        BY <1>7
    <2>2. ASSUME NEW k \in 1..(m - 1), k \in C PROVE k + 1 \in C
        <3>1. k \in 1..17 /\ k + 1 \in 1..18
            OBVIOUS
        <3>. HIDE DEF Lays
        <3>. QED BY <1>8, <2>2, <3>1, FieldsFacts
    <2>3. m \in C
        <3>. HIDE DEF C
        <3>. QED BY <2>1, <2>2, Induction
    <2>. QED BY <2>3
<1>10. OffsetOf \in [1..18 -> Nat]
    <2>1. DOMAIN OffsetOf = 1..18 /\ OffsetOf = [n \in DOMAIN OffsetOf |-> OffsetOf[n]]
        BY <1>0, <1>6
    <2>. HIDE DEF Lays
    <2>. QED BY <1>9, <2>1
<1>11. FIXED_LENGTH = OffsetOf[18]
    BY <1>0 DEF FIXED_LENGTH
<1>. HIDE DEF Lays
<1>. QED BY <1>7, <1>8, <1>10, <1>11

\* Every byte before field i + 1 is one of a field up to i.
Placed(p, i) == \E n \in 1..i : \E k \in 1..FieldWidth(n) : p = OffsetOf[n] + k

LEMMA EveryByteIsPlaced ==
    ASSUME CodecAssumption, NEW i \in 1..17, NEW p \in 1..OffsetOf[i + 1]
    PROVE  Placed(p, i)
<1>. DEFINE C == {j \in 1..17 : \A x \in 1..OffsetOf[j + 1] : Placed(x, j)}
<1>0. /\ OffsetOf \in [1..18 -> Nat] /\ OffsetOf[1] = 0
      /\ \A n \in 1..17 : OffsetOf[n + 1] = OffsetOf[n] + FieldWidth(n)
      /\ \A n \in 1..17 : FieldWidth(n) \in Nat \ {0}
    BY OffsetFacts, FieldsFacts
<1>1. 1 \in C
    <2>1. OffsetOf[1 + 1] = OffsetOf[1] + FieldWidth(1)
        BY <1>0
    <2>2. OffsetOf[1] = 0 /\ FieldWidth(1) \in Nat
        BY <1>0
    <2>3. ASSUME NEW x \in 1..OffsetOf[1 + 1] PROVE Placed(x, 1)
        <3>1. x \in 1..FieldWidth(1) /\ x = OffsetOf[1] + x
            BY <2>1, <2>2
        <3>. QED BY <3>1 DEF Placed
    <2>. QED BY <2>3
<1>2. ASSUME NEW j \in 1..(i - 1), j \in C PROVE j + 1 \in C
    <2>0. j \in 1..17 /\ j + 1 \in 1..17 /\ j + 1 \in 1..18
        OBVIOUS
    <2>. DEFINE o == OffsetOf[j + 1]
                w == FieldWidth(j + 1)
    <2>1. o \in Nat /\ w \in Nat /\ OffsetOf[(j + 1) + 1] = o + w
        BY <1>0, <2>0
    <2>2. ASSUME NEW x \in 1..OffsetOf[(j + 1) + 1] PROVE Placed(x, j + 1)
        <3>1. CASE x <= o
            <4>1. x \in 1..o
                BY <2>1, <3>1
            <4>2. Placed(x, j)
                BY <1>2, <4>1
            <4>. QED BY <2>0, <4>2 DEF Placed
        <3>2. CASE x > o
            <4>1. x - o \in 1..w /\ x = o + (x - o) /\ j + 1 \in 1..(j + 1)
                BY <2>0, <2>1, <3>2
            <4>. QED BY <4>1 DEF Placed
        <3>. QED BY <2>1, <3>1, <3>2
    <2>. QED BY <2>0, <2>2
<1>3. i \in C
    <2>. HIDE DEF C
    <2>. QED BY <1>1, <1>2, Induction
<1>. QED BY <1>3

\* Sequences that fill the fields.
Fills(seqs) ==
    /\ seqs = [n \in 1..17 |-> seqs[n]]
    /\ \A n \in 1..17 : seqs[n] \in Seq(Bytes) /\ Len(seqs[n]) = FieldWidth(n)

\* The function behind FlattenSeq.
Joins(f, seqs) == f = [i \in 1..17 |-> IF i = 1 THEN seqs[i] ELSE f[i - 1] \o seqs[i]]

LEMMA JoinsExist ==
    ASSUME NEW seqs, Fills(seqs)
    PROVE  \E f : /\ Joins(f, seqs) /\ FlattenSeq(seqs) = f[17]
                  /\ f[1] = seqs[1] /\ \A n \in 1..16 : f[n + 1] = f[n] \o seqs[n + 1]
<1>. DEFINE F == [p \in (2..17) \X Seq(Bytes) |-> p[2] \o seqs[p[1]]]
<1>0. Len(seqs) = 17 /\ \A n \in 1..17 : seqs[n] \in Seq(Bytes)
    BY DEF Fills
<1>1. Staying(F, Seq(Bytes), 1, 17)
    <2>1. ASSUME NEW k \in 2..17, NEW x \in Seq(Bytes) PROVE F[<<k, x>>] \in Seq(Bytes)
        <3>1. F[<<k, x>>] = x \o seqs[k]
            OBVIOUS
        <3>. HIDE DEF F
        <3>2. seqs[k] \in Seq(Bytes)
            <4>1. k \in 1..17
                OBVIOUS
            <4>. QED BY <1>0, <4>1
        <3>3. x \o seqs[k] \in Seq(Bytes)
            BY <3>2, ConcatProperties
        <3>. QED BY <3>1, <3>3
    <2>2. 1 + 1 = 2
        OBVIOUS
    <2>. HIDE DEF F
    <2>. QED BY <2>1, <2>2 DEF Staying
<1>2. PICK f \in [1..17 -> Seq(Bytes)] : Recursive(f, 1, 17, seqs[1], F)
    <2>. HIDE DEF F
    <2>1. 1 \in Int /\ 17 \in Int /\ 1 <= 17 /\ seqs[1] \in Seq(Bytes)
        BY <1>0
    <2>. QED BY <1>1, <2>1, Recursion
<1>3. ASSUME NEW k \in 1..17
      PROVE  f[k] = IF k = 1 THEN seqs[k] ELSE f[k - 1] \o seqs[k]
    <2>1. f[k] = IF k = 1 THEN seqs[1] ELSE F[<<k, f[k - 1]>>]
        BY <1>2 DEF Recursive
    <2>2. CASE k = 1
        BY <2>1, <2>2
    <2>3. CASE k # 1
        <3>1. <<k, f[k - 1]>> \in (2..17) \X Seq(Bytes)
            <4>. HIDE DEF F
            <4>1. k \in 2..17 /\ k - 1 \in 1..17
                BY <2>3
            <4>2. f[k - 1] \in Seq(Bytes)
                BY <4>1
            <4>. QED BY <4>1, <4>2
        <3>2. F[<<k, f[k - 1]>>] = f[k - 1] \o seqs[k]
            BY <3>1
        <3>. QED BY <2>1, <2>3, <3>2
    <2>. QED BY <2>2, <2>3
<1>4. Joins(f, seqs)
    <2>. DEFINE g == [i \in 1..17 |-> IF i = 1 THEN seqs[i] ELSE f[i - 1] \o seqs[i]]
    <2>1. \A k \in 1..17 : f[k] = g[k]
        BY <1>3
    <2>2. f = g
        <3>1. g = [k \in 1..17 |-> g[k]]
            OBVIOUS
        <3>. HIDE DEF g
        <3>. QED BY <2>1, <3>1
    <2>. QED BY <2>2 DEF Joins
<1>. DEFINE c == CHOOSE g : Joins(g, seqs)
<1>5. FlattenSeq(seqs) = c[17]
    BY <1>0 DEF FlattenSeq, Joins
<1>6. Joins(c, seqs)
    BY <1>4
<1>. HIDE DEF c
<1>7. c[1] = seqs[1]
    BY <1>6 DEF Joins
<1>8. ASSUME NEW n \in 1..16 PROVE c[n + 1] = c[n] \o seqs[n + 1]
    <2>1. n + 1 \in 1..17 /\ n + 1 # 1 /\ (n + 1) - 1 = n
        OBVIOUS
    <2>. QED BY <1>6, <2>1 DEF Joins
<1>. QED BY <1>5, <1>6, <1>7, <1>8

LayOut(w, seqs, i) ==
    /\ w \in Seq(Bytes) /\ Len(w) = OffsetOf[i + 1]
    /\ \A n \in 1..i : \A k \in 1..FieldWidth(n) : w[OffsetOf[n] + k] = seqs[n][k]

LEMMA FlattenLaysOut ==
    ASSUME CodecAssumption, NEW seqs, Fills(seqs)
    PROVE  LayOut(FlattenSeq(seqs), seqs, 17)
<1>1. PICK f : /\ FlattenSeq(seqs) = f[17]
               /\ f[1] = seqs[1] /\ \A n \in 1..16 : f[n + 1] = f[n] \o seqs[n + 1]
    BY JoinsExist
<1>2. /\ OffsetOf \in [1..18 -> Nat] /\ OffsetOf[1] = 0
      /\ \A n \in 1..17 : OffsetOf[n + 1] = OffsetOf[n] + FieldWidth(n)
      /\ \A n \in 1..17 : FieldWidth(n) \in Nat \ {0}
    BY OffsetFacts, FieldsFacts
<1>3. \A n \in 1..17 : seqs[n] \in Seq(Bytes) /\ Len(seqs[n]) = FieldWidth(n)
    BY DEF Fills
<1>. DEFINE C == {i \in 1..17 : LayOut(f[i], seqs, i)}
<1>4. 1 \in C
    <2>1. OffsetOf[1 + 1] = OffsetOf[1] + FieldWidth(1) /\ OffsetOf[1] = 0 /\ FieldWidth(1) \in Nat
        BY <1>2
    <2>2. ASSUME NEW n \in 1..1, NEW k \in 1..FieldWidth(n)
          PROVE  f[1][OffsetOf[n] + k] = seqs[n][k]
        <3>1. n = 1 /\ OffsetOf[n] + k = k
            BY <2>1
        <3>. QED BY <1>1, <3>1
    <2>3. f[1] \in Seq(Bytes) /\ Len(f[1]) = OffsetOf[1 + 1]
        <3>1. f[1] \in Seq(Bytes) /\ Len(f[1]) = FieldWidth(1)
            <4>1. 1 \in 1..17
                OBVIOUS
            <4>2. seqs[1] \in Seq(Bytes) /\ Len(seqs[1]) = FieldWidth(1)
                BY <1>3, <4>1
            <4>. QED BY <1>1, <4>2
        <3>. QED BY <2>1, <3>1
    <2>. QED BY <2>2, <2>3 DEF LayOut
<1>5. ASSUME NEW i \in 1..16, i \in C PROVE i + 1 \in C
    <2>0. i \in 1..17 /\ i + 1 \in 1..17 /\ i + 1 \in 1..18
        OBVIOUS
    <2>. DEFINE w == f[i]
                x == seqs[i + 1]
    <2>1. /\ w \in Seq(Bytes) /\ Len(w) = OffsetOf[i + 1]
          /\ \A n \in 1..i : \A k \in 1..FieldWidth(n) : w[OffsetOf[n] + k] = seqs[n][k]
        BY <1>5 DEF LayOut
    <2>2. x \in Seq(Bytes) /\ Len(x) = FieldWidth(i + 1)
        BY <1>3, <2>0
    <2>3. f[i + 1] = w \o x
        BY <1>1
    <2>4. OffsetOf[(i + 1) + 1] = OffsetOf[i + 1] + FieldWidth(i + 1)
        BY <1>2, <2>0
    <2>5. OffsetOf[i + 1] \in Nat /\ FieldWidth(i + 1) \in Nat
        BY <1>2, <2>0
    <2>. HIDE DEF w, x
    <2>6. /\ w \o x \in Seq(Bytes) /\ Len(w \o x) = Len(w) + Len(x)
          /\ \A p \in 1..(Len(w) + Len(x)) :
                (w \o x)[p] = IF p <= Len(w) THEN w[p] ELSE x[p - Len(w)]
        <3>1. w \in Seq(Bytes) /\ x \in Seq(Bytes)
            BY <2>1, <2>2
        <3>. QED BY <3>1, ConcatProperties
    <2>7. ASSUME NEW n \in 1..(i + 1), NEW k \in 1..FieldWidth(n)
          PROVE  (w \o x)[OffsetOf[n] + k] = seqs[n][k]
        <3>1. CASE n = i + 1
            <4>1. OffsetOf[n] + k \in 1..(Len(w) + Len(x)) /\ ~(OffsetOf[n] + k <= Len(w))
                  /\ (OffsetOf[n] + k) - Len(w) = k
                BY <2>1, <2>2, <2>5, <3>1
            <4>2. x = seqs[n]
                BY <3>1 DEF x
            <4>. QED BY <2>6, <4>1, <4>2
        <3>2. CASE n # i + 1
            <4>1. n \in 1..i /\ n + 1 \in 1..(i + 1)
                BY <2>0, <3>2
            <4>2. n \in 1..17 /\ OffsetOf[n] \in Nat /\ FieldWidth(n) \in Nat
                  /\ OffsetOf[n + 1] = OffsetOf[n] + FieldWidth(n)
                BY <1>2, <2>0, <4>1
            <4>3. OffsetOf[n + 1] <= OffsetOf[i + 1]
                <5>. DEFINE D == {j \in 1..18 : OffsetOf[n + 1] <= OffsetOf[j]}
                <5>1. n + 1 \in D
                    <6>1. n + 1 \in 1..18
                        BY <2>0, <4>1
                    <6>2. OffsetOf[n + 1] \in Nat
                        BY <1>2, <6>1
                    <6>. QED BY <6>1, <6>2
                <5>2. ASSUME NEW j \in (n + 1)..((i + 1) - 1), j \in D PROVE j + 1 \in D
                    <6>1. j \in 1..17 /\ j + 1 \in 1..18
                        BY <2>0, <4>1
                    <6>2. /\ OffsetOf[j] \in Nat /\ FieldWidth(j) \in Nat /\ OffsetOf[n + 1] \in Nat
                          /\ OffsetOf[j + 1] = OffsetOf[j] + FieldWidth(j)
                        BY <1>2, <2>0, <4>1, <6>1
                    <6>. QED BY <5>2, <6>1, <6>2
                <5>3. i + 1 \in D
                    <6>1. n + 1 \in Int /\ i + 1 \in Int /\ n + 1 <= i + 1
                        BY <4>1
                    <6>. HIDE DEF D
                    <6>. QED BY <5>1, <5>2, <6>1, Induction
                <5>. QED BY <5>3
            <4>4. OffsetOf[n] + k \in 1..(Len(w) + Len(x)) /\ OffsetOf[n] + k <= Len(w)
                <5>1. OffsetOf[n] + k <= OffsetOf[n + 1] /\ OffsetOf[n] + k >= 1 /\ OffsetOf[n] + k \in Nat
                    BY <4>2
                <5>2. Len(w) \in Nat /\ Len(x) \in Nat /\ OffsetOf[n + 1] <= Len(w) /\ OffsetOf[n + 1] \in Nat
                    BY <2>1, <2>2, <2>5, <4>2, <4>3
                <5>. QED BY <5>1, <5>2
            <4>. QED BY <2>1, <2>6, <4>1, <4>4
        <3>. QED BY <3>1, <3>2
    <2>. QED BY <2>0, <2>1, <2>2, <2>3, <2>4, <2>6, <2>7 DEF LayOut
<1>6. 17 \in C
    <2>1. 17 - 1 = 16 /\ 1 \in Int /\ 17 \in Int /\ 1 <= 17
        OBVIOUS
    <2>. HIDE DEF C
    <2>. QED BY <1>4, <1>5, <2>1, Induction
<1>. QED BY <1>1, <1>6

-----------------------------------------------------------------------------
(***************************************************************************)
(* The fields by name.                                                     *)
(***************************************************************************)

IntegerNames ==
    {"sessionId", "wagerBase", "escrowedStake", "reservedProfit", "maxEscrowStake",
     "maxReservedProfit", "deadlineBlock", "step", "phase", "riskMaxPayout",
     "riskProbabilityWad", "riskSubVarianceScaled"}
AddressNames == {"player", "vault", "game", "token"}

IsAddress(n) == FIELDS[n][2] = "address"

LEMMA NamesOfFields ==
    /\ \A n \in 1..16 : IsAddress(n) => FIELDS[n][1] \in AddressNames
    /\ \A n \in 1..16 : ~IsAddress(n) => FIELDS[n][1] \in IntegerNames
    /\ \A n \in 1..16 : FIELDS[n][1] # "flags"
    /\ FIELDS[17][1] = "flags" /\ Len(FIELDS) = 17
<1>1. \A n \in 1..16 : IsAddress(n) => FIELDS[n][1] \in AddressNames
    BY DEF FIELDS, IsAddress, AddressNames
<1>2. \A n \in 1..16 : ~IsAddress(n) => FIELDS[n][1] \in IntegerNames
    BY DEF FIELDS, IsAddress, IntegerNames
<1>3. \A n \in 1..16 : FIELDS[n][1] # "flags"
    BY DEF FIELDS
<1>4. FIELDS[17][1] = "flags" /\ Len(FIELDS) = 17
    BY DEF FIELDS
<1>. QED BY <1>1, <1>2, <1>3, <1>4

LEMMA NamesDiffer ==
    ASSUME NEW m \in 1..17, NEW n \in 1..17, FIELDS[m][1] = FIELDS[n][1]
    PROVE  m = n
BY DEF FIELDS

LEMMA IndexOfName == ASSUME NEW n \in 1..17 PROVE FieldIndex(FIELDS[n][1]) = n
<1>1. FieldIndex(FIELDS[n][1]) = CHOOSE m \in 1..17 : FIELDS[m][1] = FIELDS[n][1]
    BY NamesOfFields DEF FieldIndex
<1>. QED BY <1>1, NamesDiffer

LEMMA Indices ==
    /\ FieldIndex("sessionId") = 1 /\ FieldIndex("player") = 2 /\ FieldIndex("vault") = 3
    /\ FieldIndex("game") = 4 /\ FieldIndex("token") = 5 /\ FieldIndex("wagerBase") = 6
    /\ FieldIndex("escrowedStake") = 7 /\ FieldIndex("reservedProfit") = 8
    /\ FieldIndex("maxEscrowStake") = 9 /\ FieldIndex("maxReservedProfit") = 10
    /\ FieldIndex("deadlineBlock") = 11 /\ FieldIndex("step") = 12
    /\ FieldIndex("phase") = 13 /\ FieldIndex("riskMaxPayout") = 14
    /\ FieldIndex("riskProbabilityWad") = 15 /\ FieldIndex("riskSubVarianceScaled") = 16
    /\ FieldIndex("flags") = 17
<1>1. /\ FIELDS[1][1] = "sessionId" /\ FIELDS[2][1] = "player" /\ FIELDS[3][1] = "vault"
      /\ FIELDS[4][1] = "game" /\ FIELDS[5][1] = "token" /\ FIELDS[6][1] = "wagerBase"
      /\ FIELDS[7][1] = "escrowedStake" /\ FIELDS[8][1] = "reservedProfit"
      /\ FIELDS[9][1] = "maxEscrowStake" /\ FIELDS[10][1] = "maxReservedProfit"
      /\ FIELDS[11][1] = "deadlineBlock" /\ FIELDS[12][1] = "step"
      /\ FIELDS[13][1] = "phase" /\ FIELDS[14][1] = "riskMaxPayout"
      /\ FIELDS[15][1] = "riskProbabilityWad" /\ FIELDS[16][1] = "riskSubVarianceScaled"
      /\ FIELDS[17][1] = "flags"
    BY DEF FIELDS
<1>2. \A n \in 1..17 : FieldIndex(FIELDS[n][1]) = n
    BY IndexOfName
<1>. QED BY <1>1, <1>2

\* Every field is read at its own place.
FieldRead(b, n) ==
    IF IsAddress(n) THEN take(b, OffsetOf[n], FieldWidth(n))
    ELSE uint(b, OffsetOf[n], FieldWidth(n))
FlagsRead(b) == uint(b, OffsetOf[17], FieldWidth(17))

LEMMA DecodedFields ==
    ASSUME NEW b
    PROVE  LET s == decodeCasinoSession(b)
           IN  /\ \A n \in 1..16 : s[FIELDS[n][1]] = FieldRead(b, n)
               /\ s.riskHeavyTail = (FlagsRead(b) % 2 = 1)
               /\ s.riskHighMultiplierFloor = ((FlagsRead(b) \div 2) % 2 = 1)
               /\ s.gameData = Prefixed(b, FIXED_LENGTH)
               /\ s.gameState = Prefixed(b, DataEnd(b))
<1>1. ASSUME NEW n \in 1..16
      PROVE  decodeCasinoSession(b)[FIELDS[n][1]] = FieldRead(b, n)
    BY Indices DEF decodeCasinoSession, FieldRead, IsAddress, FIELDS
<1>2. decodeCasinoSession(b).riskHeavyTail = (FlagsRead(b) % 2 = 1)
    BY Indices DEF decodeCasinoSession, FlagsRead, FLAG_HEAVY_TAIL
<1>3. decodeCasinoSession(b).riskHighMultiplierFloor = ((FlagsRead(b) \div 2) % 2 = 1)
    BY Indices DEF decodeCasinoSession, FlagsRead, FLAG_HIGH_MULTIPLIER_FLOOR
<1>4. decodeCasinoSession(b).gameData = Prefixed(b, FIXED_LENGTH)
    BY DEF decodeCasinoSession
<1>5. decodeCasinoSession(b).gameState = Prefixed(b, DataEnd(b))
    BY DEF decodeCasinoSession
<1>. QED BY <1>1, <1>2, <1>3, <1>4, <1>5

-----------------------------------------------------------------------------
(***************************************************************************)
(* What is written.                                                        *)
(***************************************************************************)

LEMMA WidthFacts ==
    ASSUME CodecAssumption PROVE WIDTH["uint16"] \in Nat \ {0} /\ WIDTH["uint8"] = 1
<1>1. "uint16" \in Types
    BY DEF Types
<1>. QED BY <1>1 DEF CodecAssumption

LEMMA WrittenDigits ==
    ASSUME CodecAssumption, NEW v \in Nat, NEW width \in Nat
    PROVE  uintHex(v, width) \in Seq(Bytes) /\ Len(uintHex(v, width)) = width
<1>1. ASSUME NEW n \in 1..width PROVE Shifted(v, width - n) % BYTE \in Bytes
    <2>1. width - n \in Nat
        OBVIOUS
    <2>2. Shifted(v, width - n) \in Nat
        BY <2>1, ShiftedFacts
    <2>. QED BY <2>2, Division
<1>2. uintHex(v, width) \in [1..width -> Bytes]
    BY <1>1 DEF uintHex
<1>. QED BY <1>2

LEMMA FlagsFit ==
    ASSUME CodecAssumption, NEW s
    PROVE  FlagsOf(s) \in 0..3 /\ FlagsOf(s) \in Bytes
BY DEF FlagsOf, FLAG_HEAVY_TAIL, FLAG_HIGH_MULTIPLIER_FLOOR, CodecAssumption, Bytes

LEMMA WrittenFields ==
    ASSUME CodecAssumption, NEW s \in CasinoSessionSnapshots, SessionFits(s), NEW n \in 1..17
    PROVE  /\ FieldBytes(s, n) \in Seq(Bytes) /\ Len(FieldBytes(s, n)) = FieldWidth(n)
           /\ n = 17 => FieldBytes(s, n) = uintHex(FlagsOf(s), FieldWidth(17))
           /\ n # 17 /\ IsAddress(n) => FieldBytes(s, n) = s[FIELDS[n][1]]
           /\ n # 17 /\ ~IsAddress(n) =>
                 /\ FieldBytes(s, n) = uintHex(s[FIELDS[n][1]], FieldWidth(n))
                 /\ s[FIELDS[n][1]] \in Int /\ Fits(s[FIELDS[n][1]], FieldWidth(n))
<1>. DEFINE name == FIELDS[n][1]
<1>0. FieldWidth(n) \in Nat /\ FieldWidth(17) \in Nat
    BY FieldsFacts
<1>1. CASE n = 17
    <2>1. FieldBytes(s, n) = uintHex(FlagsOf(s), FieldWidth(17))
        <3>1. FIELDS[n][1] = "flags"
            BY <1>1, NamesOfFields
        <3>2. FIELDS[n][2] # "address"
            BY <1>1 DEF FIELDS
        <3>3. FieldBytes(s, n) = uintHex(FlagsOf(s), FieldWidth(n))
            BY <3>1, <3>2 DEF FieldBytes
        <3>. QED BY <1>1, <3>3
    <2>2. FlagsOf(s) \in Nat
        BY FlagsFit
    <2>. QED BY <1>0, <1>1, <2>1, <2>2, WrittenDigits
<1>2. CASE n # 17
    <2>0. n \in 1..16 /\ name # "flags"
        BY <1>2, NamesOfFields
    <2>1. IF IsAddress(n) THEN Len(s[name]) = FieldWidth(n) ELSE Fits(s[name], FieldWidth(n))
        <3>1. 1..(Len(FIELDS) - 1) = 1..16
            BY NamesOfFields
        <3>. QED BY <2>0, <3>1 DEF SessionFits, IsAddress
    <2>2. CASE IsAddress(n)
        <3>1. FieldBytes(s, n) = s[name]
            BY <2>0, <2>2 DEF FieldBytes, IsAddress
        <3>2. name \in AddressNames
            BY <2>0, <2>2, NamesOfFields
        <3>. HIDE DEF name
        <3>3. s[name] \in Seq(Bytes)
            BY <3>2 DEF CasinoSessionSnapshots, AddressNames
        <3>. QED BY <1>2, <2>1, <2>2, <3>1, <3>3 DEF name
    <2>3. CASE ~IsAddress(n)
        <3>1. FieldBytes(s, n) = uintHex(s[name], FieldWidth(n))
            BY <2>0, <2>3 DEF FieldBytes, IsAddress
        <3>2. name \in IntegerNames
            BY <2>0, <2>3, NamesOfFields
        <3>. HIDE DEF name
        <3>3. s[name] \in Int
            BY <3>2 DEF CasinoSessionSnapshots, IntegerNames
        <3>4. s[name] \in Nat
            BY <2>1, <2>3, <3>3 DEF Fits
        <3>5. uintHex(s[name], FieldWidth(n)) \in Seq(Bytes)
              /\ Len(uintHex(s[name], FieldWidth(n))) = FieldWidth(n)
            BY <1>0, <3>4, WrittenDigits
        <3>. QED BY <1>2, <2>1, <2>3, <3>1, <3>3, <3>5 DEF name
    <2>. QED BY <2>2, <2>3
<1>. QED BY <1>1, <1>2

\* w is the layout of s, byte by byte.
DataPlace == FIXED_LENGTH + WIDTH["uint16"]
StatePlace(s) == DataPlace + Len(s.gameData) + WIDTH["uint16"]

Encodes(w, s) ==
    /\ w \in Seq(Bytes) /\ Len(w) = StatePlace(s) + Len(s.gameState)
    /\ \A n \in 1..17 : \A k \in 1..FieldWidth(n) : w[OffsetOf[n] + k] = FieldBytes(s, n)[k]
    /\ \A k \in 1..WIDTH["uint16"] :
          /\ w[FIXED_LENGTH + k] = uintHex(Len(s.gameData), WIDTH["uint16"])[k]
          /\ w[DataPlace + Len(s.gameData) + k] = uintHex(Len(s.gameState), WIDTH["uint16"])[k]
    /\ \A k \in 1..Len(s.gameData) : w[DataPlace + k] = s.gameData[k]
    /\ \A k \in 1..Len(s.gameState) : w[StatePlace(s) + k] = s.gameState[k]

\* A field ends where the next one begins, or before.
LEMMA OffsetsGrow ==
    ASSUME CodecAssumption, NEW n \in 1..17, NEW m \in 2..18, n < m
    PROVE  /\ OffsetOf[n] \in Nat /\ FieldWidth(n) \in Nat \ {0} /\ OffsetOf[m] \in Nat
           /\ OffsetOf[n] + FieldWidth(n) <= OffsetOf[m]
<1>1. /\ OffsetOf \in [1..18 -> Nat]
      /\ \A j \in 1..17 : OffsetOf[j + 1] = OffsetOf[j] + FieldWidth(j)
      /\ \A j \in 1..17 : FieldWidth(j) \in Nat \ {0}
    BY OffsetFacts, FieldsFacts
<1>2. n \in 1..18 /\ n + 1 \in 1..18 /\ m \in 1..18
    OBVIOUS
<1>3. /\ OffsetOf[n] \in Nat /\ OffsetOf[n + 1] \in Nat /\ OffsetOf[m] \in Nat
      /\ FieldWidth(n) \in Nat \ {0} /\ OffsetOf[n + 1] = OffsetOf[n] + FieldWidth(n)
    BY <1>1, <1>2
<1>. DEFINE D == {j \in 1..18 : OffsetOf[n + 1] <= OffsetOf[j]}
<1>4. n + 1 \in D
    BY <1>2, <1>3
<1>5. ASSUME NEW j \in (n + 1)..(m - 1), j \in D PROVE j + 1 \in D
    <2>1. j \in 1..17 /\ j \in 1..18 /\ j + 1 \in 1..18
        OBVIOUS
    <2>2. /\ OffsetOf[j] \in Nat /\ FieldWidth(j) \in Nat
          /\ OffsetOf[j + 1] = OffsetOf[j] + FieldWidth(j)
        BY <1>1, <2>1
    <2>3. OffsetOf[n + 1] <= OffsetOf[j]
        BY <1>5
    <2>4. OffsetOf[n + 1] <= OffsetOf[j + 1]
        BY <1>3, <2>2, <2>3
    <2>. QED BY <2>1, <2>4
<1>6. m \in D
    <2>1. n + 1 \in Int /\ m \in Int /\ n + 1 <= m
        OBVIOUS
    <2>. HIDE DEF D
    <2>. QED BY <1>4, <1>5, <2>1, Induction
<1>7. OffsetOf[n + 1] <= OffsetOf[m]
    BY <1>6
<1>. QED BY <1>3, <1>7

LEMMA LayoutFacts ==
    ASSUME CodecAssumption
    PROVE  /\ FIXED_LENGTH \in Nat /\ FIXED_LENGTH = OffsetOf[17] + 1 /\ OffsetOf[17] \in Nat
           /\ \A n \in 1..17 : /\ OffsetOf[n] \in Nat /\ FieldWidth(n) \in Nat \ {0}
                               /\ OffsetOf[n] + FieldWidth(n) <= FIXED_LENGTH
<1>1. /\ OffsetOf \in [1..18 -> Nat] /\ FIXED_LENGTH = OffsetOf[18]
      /\ \A n \in 1..17 : OffsetOf[n + 1] = OffsetOf[n] + FieldWidth(n)
      /\ \A n \in 1..17 : FieldWidth(n) \in Nat \ {0}
      /\ FieldWidth(17) = 1
    BY OffsetFacts, FieldsFacts
<1>2. OffsetOf[17] \in Nat /\ OffsetOf[18] \in Nat /\ OffsetOf[17 + 1] = OffsetOf[17] + FieldWidth(17)
    BY <1>1
<1>3. FIXED_LENGTH = OffsetOf[17] + 1
    <2>1. 17 + 1 = 18
        OBVIOUS
    <2>. QED BY <1>1, <1>2, <2>1
<1>4. ASSUME NEW n \in 1..17 PROVE OffsetOf[n] + FieldWidth(n) <= FIXED_LENGTH
    <2>1. 18 \in 2..18 /\ n < 18
        OBVIOUS
    <2>. QED BY <1>1, <2>1, OffsetsGrow
<1>5. \A n \in 1..17 : OffsetOf[n] \in Nat
    BY <1>1
<1>. QED BY <1>1, <1>2, <1>3, <1>4, <1>5

LEMMA Concatenation ==
    ASSUME NEW S, NEW x \in Seq(S), NEW y \in Seq(S)
    PROVE  /\ x \o y \in Seq(S) /\ Len(x \o y) = Len(x) + Len(y)
           /\ Len(x) \in Nat /\ Len(y) \in Nat
           /\ \A k \in 1..Len(x) : (x \o y)[k] = x[k]
           /\ \A k \in 1..Len(y) : (x \o y)[Len(x) + k] = y[k]
<1>1. /\ x \o y \in Seq(S) /\ Len(x \o y) = Len(x) + Len(y)
      /\ \A i \in 1..(Len(x) + Len(y)) :
            (x \o y)[i] = IF i <= Len(x) THEN x[i] ELSE y[i - Len(x)]
    BY ConcatProperties
<1>2. Len(x) \in Nat /\ Len(y) \in Nat
    OBVIOUS
<1>3. ASSUME NEW k \in 1..Len(x) PROVE (x \o y)[k] = x[k]
    <2>1. k \in 1..(Len(x) + Len(y)) /\ k <= Len(x)
        BY <1>2
    <2>. QED BY <1>1, <2>1
<1>4. ASSUME NEW k \in 1..Len(y) PROVE (x \o y)[Len(x) + k] = y[k]
    <2>. DEFINE i == Len(x) + k
    <2>1. i \in 1..(Len(x) + Len(y)) /\ ~(i <= Len(x)) /\ i - Len(x) = k
        BY <1>2
    <2>2. (x \o y)[i] = IF i <= Len(x) THEN x[i] ELSE y[i - Len(x)]
        BY <1>1, <2>1
    <2>. QED BY <2>1, <2>2
<1>. QED BY <1>1, <1>2, <1>3, <1>4

LEMMA Prefixing ==
    ASSUME CodecAssumption, NEW x \in Seq(Bytes)
    PROVE  /\ lengthPrefixed(x) \in Seq(Bytes)
           /\ Len(lengthPrefixed(x)) = WIDTH["uint16"] + Len(x)
           /\ \A k \in 1..WIDTH["uint16"] :
                 lengthPrefixed(x)[k] = uintHex(Len(x), WIDTH["uint16"])[k]
           /\ \A k \in 1..Len(x) : lengthPrefixed(x)[WIDTH["uint16"] + k] = x[k]
<1>. DEFINE h == uintHex(Len(x), WIDTH["uint16"])
<1>1. h \in Seq(Bytes) /\ Len(h) = WIDTH["uint16"]
    <2>1. Len(x) \in Nat /\ WIDTH["uint16"] \in Nat
        BY WidthFacts
    <2>. QED BY <2>1, WrittenDigits
<1>2. lengthPrefixed(x) = h \o x
    BY DEF lengthPrefixed
<1>. HIDE DEF h
<1>3. /\ h \o x \in Seq(Bytes) /\ Len(h \o x) = Len(h) + Len(x)
      /\ \A k \in 1..Len(h) : (h \o x)[k] = h[k]
      /\ \A k \in 1..Len(x) : (h \o x)[Len(h) + k] = x[k]
    BY <1>1, Concatenation
<1>. QED BY <1>1, <1>2, <1>3 DEF h

LEMMA EncodeLaysOut ==
    ASSUME CodecAssumption, NEW s \in CasinoSessionSnapshots, SessionFits(s)
    PROVE  Encodes(encodeCasinoSession(s), s)
<1>. DEFINE seqs == [n \in 1..17 |-> FieldBytes(s, n)]
            a == FlattenSeq(seqs)
            b == lengthPrefixed(s.gameData)
            c == lengthPrefixed(s.gameState)
            w == encodeCasinoSession(s)
            u == WIDTH["uint16"]
<1>0. s.gameData \in Seq(Bytes) /\ s.gameState \in Seq(Bytes) /\ u \in Nat
    BY WidthFacts DEF CasinoSessionSnapshots
<1>1. Fills(seqs)
    BY WrittenFields DEF Fills
<1>2. LayOut(a, seqs, 17) /\ OffsetOf[18] = FIXED_LENGTH
    <2>. HIDE DEF seqs
    <2>. QED BY <1>1, FlattenLaysOut, OffsetFacts
<1>3. /\ a \in Seq(Bytes) /\ Len(a) = FIXED_LENGTH
      /\ \A n \in 1..17 : \A k \in 1..FieldWidth(n) : a[OffsetOf[n] + k] = FieldBytes(s, n)[k]
    <2>1. 17 + 1 = 18
        OBVIOUS
    <2>2. /\ a \in Seq(Bytes) /\ Len(a) = FIXED_LENGTH
          /\ \A n \in 1..17 : \A k \in 1..FieldWidth(n) : a[OffsetOf[n] + k] = seqs[n][k]
        BY <1>2, <2>1 DEF LayOut
    <2>. HIDE DEF a
    <2>. QED BY <2>2
<1>4. w = (a \o b) \o c
    BY NamesOfFields DEF encodeCasinoSession
<1>5. /\ b \in Seq(Bytes) /\ Len(b) = u + Len(s.gameData)
      /\ \A k \in 1..u : b[k] = uintHex(Len(s.gameData), u)[k]
      /\ \A k \in 1..Len(s.gameData) : b[u + k] = s.gameData[k]
    BY <1>0, Prefixing
<1>6. /\ c \in Seq(Bytes) /\ Len(c) = u + Len(s.gameState)
      /\ \A k \in 1..u : c[k] = uintHex(Len(s.gameState), u)[k]
      /\ \A k \in 1..Len(s.gameState) : c[u + k] = s.gameState[k]
    BY <1>0, Prefixing
<1>. HIDE DEF seqs, a, b, c, w, u
<1>7. /\ a \o b \in Seq(Bytes) /\ Len(a \o b) = Len(a) + Len(b)
      /\ Len(a) \in Nat /\ Len(b) \in Nat
      /\ \A k \in 1..Len(a) : (a \o b)[k] = a[k]
      /\ \A k \in 1..Len(b) : (a \o b)[Len(a) + k] = b[k]
    <2>1. a \in Seq(Bytes) /\ b \in Seq(Bytes)
        BY <1>3, <1>5
    <2>. QED BY <2>1, Concatenation
<1>8. /\ w \in Seq(Bytes) /\ Len(w) = Len(a \o b) + Len(c)
      /\ Len(a \o b) \in Nat /\ Len(c) \in Nat
      /\ \A k \in 1..Len(a \o b) : w[k] = (a \o b)[k]
      /\ \A k \in 1..Len(c) : w[Len(a \o b) + k] = c[k]
    <2>1. a \o b \in Seq(Bytes) /\ c \in Seq(Bytes)
        BY <1>6, <1>7
    <2>. QED BY <1>4, <2>1, Concatenation
<1>9. Len(s.gameData) \in Nat /\ Len(s.gameState) \in Nat
    BY <1>0
<1>10. DataPlace = Len(a) + u /\ StatePlace(s) = Len(a \o b) + u
       /\ DataPlace + Len(s.gameData) = Len(a \o b)
    BY <1>0, <1>3, <1>5, <1>7, <1>9 DEF DataPlace, StatePlace, u
<1>11. ASSUME NEW k \in 1..Len(a) PROVE w[k] = a[k]
    BY <1>7, <1>8
<1>12. ASSUME NEW k \in 1..Len(b) PROVE w[Len(a) + k] = b[k]
    <2>1. Len(a) + k \in 1..Len(a \o b)
        BY <1>7
    <2>. QED BY <1>7, <1>8, <2>1
<1>13. ASSUME NEW n \in 1..17, NEW k \in 1..FieldWidth(n)
       PROVE  w[OffsetOf[n] + k] = FieldBytes(s, n)[k]
    <2>1. /\ OffsetOf[n] \in Nat /\ FieldWidth(n) \in Nat /\ FIXED_LENGTH \in Nat
          /\ OffsetOf[n] + FieldWidth(n) <= FIXED_LENGTH
        BY LayoutFacts
    <2>2. OffsetOf[n] + k \in 1..Len(a)
        BY <1>3, <2>1
    <2>. QED BY <1>3, <1>11, <2>2
<1>14. ASSUME NEW k \in 1..u
       PROVE  /\ w[FIXED_LENGTH + k] = uintHex(Len(s.gameData), u)[k]
              /\ w[DataPlace + Len(s.gameData) + k] = uintHex(Len(s.gameState), u)[k]
    <2>1. k \in 1..Len(b) /\ k \in 1..Len(c)
        BY <1>0, <1>5, <1>6, <1>9
    <2>2. w[Len(a) + k] = b[k] /\ w[Len(a \o b) + k] = c[k]
        BY <1>8, <1>12, <2>1
    <2>. QED BY <1>3, <1>5, <1>6, <1>10, <2>2
<1>15. ASSUME NEW k \in 1..Len(s.gameData) PROVE w[DataPlace + k] = s.gameData[k]
    <2>1. u + k \in 1..Len(b) /\ Len(a) + (u + k) = DataPlace + k
        BY <1>0, <1>5, <1>7, <1>9, <1>10
    <2>2. w[Len(a) + (u + k)] = b[u + k]
        BY <1>12, <2>1
    <2>. QED BY <1>5, <2>1, <2>2
<1>16. ASSUME NEW k \in 1..Len(s.gameState) PROVE w[StatePlace(s) + k] = s.gameState[k]
    <2>1. u + k \in 1..Len(c) /\ Len(a \o b) + (u + k) = StatePlace(s) + k
        BY <1>0, <1>6, <1>8, <1>9, <1>10
    <2>2. w[Len(a \o b) + (u + k)] = c[u + k]
        BY <1>8, <2>1
    <2>. QED BY <1>6, <2>1, <2>2
<1>17. Len(w) = StatePlace(s) + Len(s.gameState)
    <2>1. PICK l \in Nat : l = Len(a \o b)
        BY <1>8
    <2>2. Len(w) = l + Len(c) /\ Len(c) = u + Len(s.gameState) /\ StatePlace(s) = l + u
        BY <1>6, <1>8, <1>10, <2>1
    <2>3. PICK g \in Nat : g = Len(s.gameState)
        BY <1>9
    <2>4. ASSUME NEW x \in Nat, NEW y \in Nat, NEW z \in Nat PROVE x + (y + z) = (x + y) + z
        OBVIOUS
    <2>5. l + (u + g) = (l + u) + g
        BY <1>0, <2>4
    <2>. QED BY <2>2, <2>3, <2>5
<1>. QED BY <1>8, <1>13, <1>14, <1>15, <1>16, <1>17 DEF Encodes, u, w

\* The layout leaves nothing open.
LEMMA OneEncoding ==
    ASSUME CodecAssumption, NEW s \in CasinoSessionSnapshots, NEW v, NEW w,
           Encodes(v, s), Encodes(w, s)
    PROVE  v = w
<1>. DEFINE u == WIDTH["uint16"]
            d == Len(s.gameData)
            t == Len(s.gameState)
<1>0. /\ u \in Nat /\ d \in Nat /\ t \in Nat /\ FIXED_LENGTH \in Nat
      /\ DataPlace = FIXED_LENGTH + u /\ StatePlace(s) = FIXED_LENGTH + u + d + u
    <2>1. u \in Nat /\ FIXED_LENGTH \in Nat
        BY WidthFacts, LayoutFacts
    <2>2. d \in Nat /\ t \in Nat
        <3>1. s.gameData \in Seq(Bytes) /\ s.gameState \in Seq(Bytes)
            BY DEF CasinoSessionSnapshots
        <3>. QED BY <3>1
    <2>. QED BY <2>1, <2>2 DEF DataPlace, StatePlace
<1>1. /\ v \in Seq(Bytes) /\ w \in Seq(Bytes) /\ Len(v) = Len(w)
      /\ Len(w) = StatePlace(s) + t
    BY DEF Encodes
<1>2. ASSUME NEW p \in 1..Len(w) PROVE v[p] = w[p]
    <2>1. CASE p \in 1..FIXED_LENGTH
        <3>0. 17 \in 1..17 /\ p \in 1..OffsetOf[17 + 1]
            <4>1. 17 + 1 = 18
                OBVIOUS
            <4>. QED BY <2>1, <4>1, OffsetFacts
        <3>1. Placed(p, 17)
            BY <3>0, EveryByteIsPlaced
        <3>2. PICK n \in 1..17 : \E k \in 1..FieldWidth(n) : p = OffsetOf[n] + k
            BY <3>1 DEF Placed
        <3>3. PICK k \in 1..FieldWidth(n) : p = OffsetOf[n] + k
            BY <3>2
        <3>. QED BY <3>3 DEF Encodes
    <2>2. CASE p - FIXED_LENGTH \in 1..u
        <3>1. p = FIXED_LENGTH + (p - FIXED_LENGTH)
            BY <1>0, <1>1
        <3>. QED BY <2>2, <3>1 DEF Encodes
    <2>3. CASE p - DataPlace \in 1..d
        <3>1. p = DataPlace + (p - DataPlace)
            BY <1>0, <1>1
        <3>. QED BY <2>3, <3>1 DEF Encodes
    <2>4. CASE p - (DataPlace + d) \in 1..u
        <3>1. p = (DataPlace + d) + (p - (DataPlace + d))
            BY <1>0, <1>1
        <3>. QED BY <2>4, <3>1 DEF Encodes
    <2>5. CASE p - StatePlace(s) \in 1..t
        <3>1. p = StatePlace(s) + (p - StatePlace(s))
            BY <1>0, <1>1
        <3>. QED BY <2>5, <3>1 DEF Encodes
    <2>. HIDE DEF u, d, t
    <2>. QED BY <1>0, <1>1, <2>1, <2>2, <2>3, <2>4, <2>5
<1>. QED BY <1>1, <1>2, SeqEqual

-----------------------------------------------------------------------------
(***************************************************************************)
(* What is read.                                                           *)
(***************************************************************************)

LEMMA TakeFacts ==
    ASSUME NEW b \in Seq(Bytes), NEW o \in Nat, NEW width \in Nat, o + width <= Len(b)
    PROVE  /\ take(b, o, width) \in Seq(Bytes) /\ Len(take(b, o, width)) = width
           /\ \A k \in 1..width : take(b, o, width)[k] = b[o + k]
<1>1. Len(b) \in Nat
    OBVIOUS
<1>2. /\ o + 1 \in 1..(Len(b) + 1) /\ o + width \in o..Len(b)
      /\ (o + 1) - 1 = o /\ (o + width) - (o + 1) + 1 = width
    BY <1>1
<1>3. /\ SubSeq(b, o + 1, o + width) \in Seq(Bytes)
      /\ Len(SubSeq(b, o + 1, o + width)) =
            IF o + 1 <= o + width THEN (o + width) - (o + 1) + 1 ELSE 0
      /\ \A i \in 1..((o + width) - (o + 1) + 1) :
            SubSeq(b, o + 1, o + width)[i] = b[(o + 1) + i - 1]
    BY <1>2, SubSeqProperties
<1>4. Len(SubSeq(b, o + 1, o + width)) = width
    BY <1>2, <1>3
<1>5. ASSUME NEW k \in 1..width PROVE SubSeq(b, o + 1, o + width)[k] = b[o + k]
    <2>1. (o + 1) + k - 1 = o + k
        OBVIOUS
    <2>. QED BY <1>2, <1>3, <2>1
<1>. QED BY <1>3, <1>4, <1>5 DEF take

\* One byte is its own number.
LEMMA OneByte ==
    ASSUME CodecAssumption, NEW b, NEW o \in Nat, b[o + 1] \in Bytes
    PROVE  uint(b, o, 1) = b[o + 1]
<1>1. Digits(b, o, 1)
    BY DEF Digits
<1>2. PICK f : ReadBy(f, b, o, 1)
    BY <1>1, ReadsExist
<1>3. 1 \in 1..1 /\ 1 - 1 = 0
    OBVIOUS
<1>4. f[0] = 0 /\ uint(b, o, 1) = f[1] /\ f[1] = BYTE * f[0] + b[o + 1]
    BY <1>2, <1>3 DEF ReadBy
<1>. QED BY <1>4 DEF CodecAssumption, Bytes

LEMMA OneDigit ==
    ASSUME CodecAssumption, NEW v \in Bytes
    PROVE  uintHex(v, 1)[1] = v /\ Fits(v, 1)
<1>1. v \in Nat /\ BYTE * 0 + v = v /\ 0 \in Nat
    BY DEF CodecAssumption, Bytes
<1>2. v \div BYTE = 0 /\ v % BYTE = v
    BY <1>1, Composition
<1>3. Shifted(v, 0) = v /\ Shifted(v, 0 + 1) = Shifted(v, 0) \div BYTE
    BY <1>1, ShiftedFacts
<1>4. uintHex(v, 1)[1] = Shifted(v, 1 - 1) % BYTE
    BY DEF uintHex
<1>5. 1 - 1 = 0 /\ 0 + 1 = 1
    OBVIOUS
<1>. QED BY <1>1, <1>2, <1>3, <1>4, <1>5 DEF Fits

\* A session that was written is read back.
LEMMA ReadBack ==
    ASSUME CodecAssumption, NEW s \in CasinoSessionSnapshots, SessionFits(s), NEW w, Encodes(w, s)
    PROVE  WellFormed(w) /\ decodeCasinoSession(w) = s
<1>. DEFINE u == WIDTH["uint16"]
            d == Len(s.gameData)
            t == Len(s.gameState)
<1>0. /\ u \in Nat /\ d \in Nat /\ t \in Nat /\ FIXED_LENGTH \in Nat
      /\ DataPlace = FIXED_LENGTH + u /\ StatePlace(s) = FIXED_LENGTH + u + d + u
      /\ s.gameData \in Seq(Bytes) /\ s.gameState \in Seq(Bytes)
    <2>1. u \in Nat /\ FIXED_LENGTH \in Nat
        BY WidthFacts, LayoutFacts
    <2>2. s.gameData \in Seq(Bytes) /\ s.gameState \in Seq(Bytes)
        BY DEF CasinoSessionSnapshots
    <2>3. d \in Nat /\ t \in Nat
        BY <2>2
    <2>. QED BY <2>1, <2>2, <2>3 DEF DataPlace, StatePlace
<1>1. w \in Seq(Bytes) /\ Len(w) = StatePlace(s) + t /\ Len(w) \in Nat
    BY DEF Encodes
<1>2. Fits(d, u) /\ Fits(t, u)
    BY DEF SessionFits
<1>3. uint(w, FIXED_LENGTH, u) = d
    <2>1. \A k \in 1..u : w[FIXED_LENGTH + k] = uintHex(d, u)[k]
        BY DEF Encodes
    <2>. HIDE DEF u, d
    <2>2. FIXED_LENGTH \in Nat /\ u \in Nat /\ d \in Int /\ Fits(d, u)
        BY <1>0, <1>2
    <2>. QED BY <2>1, <2>2, FitsWhatIsRead
<1>4. DataEnd(w) = DataPlace + d
    BY <1>0, <1>3 DEF DataEnd, PrefixedEnd
<1>5. uint(w, DataPlace + d, u) = t
    <2>1. \A k \in 1..u : w[(DataPlace + d) + k] = uintHex(t, u)[k]
        BY DEF Encodes
    <2>2. DataPlace + d \in Nat
        BY <1>0
    <2>. HIDE DEF u, d, t
    <2>3. u \in Nat /\ t \in Int /\ Fits(t, u)
        BY <1>0, <1>2
    <2>. QED BY <2>1, <2>2, <2>3, FitsWhatIsRead
<1>6. PrefixedEnd(w, DataEnd(w)) = Len(w)
    BY <1>0, <1>1, <1>4, <1>5 DEF PrefixedEnd
<1>7. WellFormed(w)
    <2>. HIDE DEF u, d, t
    <2>1. /\ Len(w) >= FIXED_LENGTH + 2 * u /\ DataEnd(w) + u <= Len(w)
        BY <1>0, <1>1, <1>4
    <2>. QED BY <1>6, <2>1 DEF WellFormed, u
<1>8. Prefixed(w, FIXED_LENGTH) = s.gameData
    <2>1. w \in Seq(Bytes) /\ DataPlace + d <= Len(w) /\ DataPlace \in Nat /\ d \in Nat
        <3>. HIDE DEF u, d, t
        <3>. QED BY <1>0, <1>1
    <2>2. Prefixed(w, FIXED_LENGTH) = take(w, DataPlace, d)
        BY <1>0, <1>3 DEF Prefixed
    <2>3. \A k \in 1..d : w[DataPlace + k] = s.gameData[k]
        BY DEF Encodes
    <2>4. s.gameData \in Seq(Bytes) /\ Len(s.gameData) = d
        BY <1>0
    <2>. HIDE DEF u, d, t
    <2>5. /\ take(w, DataPlace, d) \in Seq(Bytes) /\ Len(take(w, DataPlace, d)) = d
          /\ \A k \in 1..d : take(w, DataPlace, d)[k] = w[DataPlace + k]
        BY <2>1, TakeFacts
    <2>6. take(w, DataPlace, d) = s.gameData
        BY <2>3, <2>4, <2>5, SeqEqual
    <2>. QED BY <2>2, <2>6
<1>9. Prefixed(w, DataEnd(w)) = s.gameState
    <2>1. w \in Seq(Bytes) /\ StatePlace(s) + t <= Len(w) /\ StatePlace(s) \in Nat /\ t \in Nat
        <3>. HIDE DEF u, d, t
        <3>. QED BY <1>0, <1>1
    <2>2. Prefixed(w, DataEnd(w)) = take(w, StatePlace(s), t)
        BY <1>0, <1>4, <1>5 DEF Prefixed
    <2>3. \A k \in 1..t : w[StatePlace(s) + k] = s.gameState[k]
        BY DEF Encodes
    <2>4. s.gameState \in Seq(Bytes) /\ Len(s.gameState) = t
        BY <1>0
    <2>. HIDE DEF u, d, t
    <2>5. /\ take(w, StatePlace(s), t) \in Seq(Bytes) /\ Len(take(w, StatePlace(s), t)) = t
          /\ \A k \in 1..t : take(w, StatePlace(s), t)[k] = w[StatePlace(s) + k]
        BY <2>1, TakeFacts
    <2>6. take(w, StatePlace(s), t) = s.gameState
        BY <2>3, <2>4, <2>5, SeqEqual
    <2>. QED BY <2>2, <2>6
<1>10. ASSUME NEW n \in 1..16 PROVE FieldRead(w, n) = s[FIELDS[n][1]]
    <2>. DEFINE o == OffsetOf[n]
                x == FieldWidth(n)
                v == s[FIELDS[n][1]]
    <2>0. n \in 1..17 /\ n # 17
        OBVIOUS
    <2>1. o \in Nat /\ x \in Nat /\ o + x <= FIXED_LENGTH
        BY <2>0, LayoutFacts
    <2>2. \A k \in 1..x : w[o + k] = FieldBytes(s, n)[k]
        BY <2>0 DEF Encodes
    <2>3. CASE IsAddress(n)
        <3>1. v \in Seq(Bytes) /\ Len(v) = x /\ FieldBytes(s, n) = v
            BY <2>0, <2>3, WrittenFields
        <3>2. o + x <= Len(w)
            <4>. HIDE DEF u, d, t, o, x
            <4>. QED BY <1>0, <1>1, <2>1
        <3>. HIDE DEF o, x, v
        <3>3. /\ take(w, o, x) \in Seq(Bytes) /\ Len(take(w, o, x)) = x
              /\ \A k \in 1..x : take(w, o, x)[k] = w[o + k]
            BY <1>1, <2>1, <3>2, TakeFacts
        <3>4. take(w, o, x) = v
            BY <2>2, <3>1, <3>3, SeqEqual
        <3>. QED BY <2>3, <3>4 DEF FieldRead, o, x, v
    <2>4. CASE ~IsAddress(n)
        <3>1. v \in Int /\ Fits(v, x) /\ FieldBytes(s, n) = uintHex(v, x)
            BY <2>0, <2>4, WrittenFields
        <3>. HIDE DEF o, x, v
        <3>2. uint(w, o, x) = v
            BY <2>1, <2>2, <3>1, FitsWhatIsRead
        <3>. QED BY <2>4, <3>2 DEF FieldRead, o, x, v
    <2>. QED BY <2>3, <2>4
<1>11. FlagsRead(w) = FlagsOf(s)
    <2>1. 17 \in 1..17 /\ FieldWidth(17) = 1 /\ OffsetOf[17] \in Nat
        BY FieldsFacts, LayoutFacts
    <2>2. FieldBytes(s, 17) = uintHex(FlagsOf(s), 1)
        BY <2>1, WrittenFields
    <2>3. w[OffsetOf[17] + 1] = FieldBytes(s, 17)[1]
        BY <2>1 DEF Encodes
    <2>4. FlagsOf(s) \in Bytes /\ uintHex(FlagsOf(s), 1)[1] = FlagsOf(s)
        BY FlagsFit, OneDigit
    <2>. QED BY <2>1, <2>2, <2>3, <2>4, OneByte DEF FlagsRead
<1>12. /\ (FlagsOf(s) % 2 = 1) = s.riskHeavyTail
       /\ ((FlagsOf(s) \div 2) % 2 = 1) = s.riskHighMultiplierFloor
    <2>1. s.riskHeavyTail \in BOOLEAN /\ s.riskHighMultiplierFloor \in BOOLEAN
        BY DEF CasinoSessionSnapshots
    <2>. QED BY <2>1 DEF FlagsOf, FLAG_HEAVY_TAIL, FLAG_HIGH_MULTIPLIER_FLOOR
<1>. HIDE DEF u, d, t
<1>. DEFINE e == decodeCasinoSession(w)
<1>13. /\ \A n \in 1..16 : e[FIELDS[n][1]] = s[FIELDS[n][1]]
       /\ e.riskHeavyTail = s.riskHeavyTail
       /\ e.riskHighMultiplierFloor = s.riskHighMultiplierFloor
       /\ e.gameData = s.gameData /\ e.gameState = s.gameState
    BY <1>8, <1>9, <1>10, <1>11, <1>12, DecodedFields
<1>14. \A name \in IntegerNames \cup AddressNames : \E n \in 1..16 : FIELDS[n][1] = name
    BY DEF FIELDS, IntegerNames, AddressNames
<1>15. \A name \in IntegerNames \cup AddressNames : e[name] = s[name]
    BY <1>13, <1>14
<1>16. DOMAIN e = DOMAIN s /\ e = [name \in DOMAIN e |-> e[name]]
       /\ s = [name \in DOMAIN s |-> s[name]]
       /\ DOMAIN s = IntegerNames \cup AddressNames
                     \cup {"riskHeavyTail", "riskHighMultiplierFloor", "gameData", "gameState"}
    BY DEF decodeCasinoSession, CasinoSessionSnapshots, IntegerNames, AddressNames
<1>. HIDE DEF e
<1>17. \A name \in DOMAIN s : e[name] = s[name]
    BY <1>13, <1>15, <1>16
<1>18. e = s
    BY <1>16, <1>17
<1>. QED BY <1>7, <1>18 DEF e

SameDigits(a, b, o, width) == \A n \in 1..width : b[o + n] = a[o + n]

LEMMA SameNumber ==
    ASSUME CodecAssumption, NEW a, NEW b, NEW o \in Nat, NEW width \in Nat,
           Digits(a, o, width), SameDigits(a, b, o, width)
    PROVE  uint(a, o, width) \in Nat /\ uint(b, o, width) = uint(a, o, width)
<1>0. PICK v : v = uint(a, o, width)
    OBVIOUS
<1>1. /\ v \in Nat /\ Fits(v, width)
      /\ \A n \in 1..width : uintHex(v, width)[n] = a[o + n]
    <2>1. v \in Nat /\ Fits(v, width)
        BY <1>0, ReadsWhatFits
    <2>2. ASSUME NEW n \in 1..width PROVE uintHex(v, width)[n] = a[o + n]
        BY <1>0, ReadsWhatFits
    <2>. QED BY <2>1, <2>2
<1>2. v \in Nat /\ v = uint(a, o, width)
    BY <1>0, <1>1
<1>3. Fits(v, width) /\ \A n \in 1..width : b[o + n] = uintHex(v, width)[n]
    BY <1>1, <1>2 DEF SameDigits
<1>4. uint(b, o, width) = v
    <2>1. v \in Int
        BY <1>2
    <2>. QED BY <1>3, <2>1, FitsWhatIsRead
<1>. QED BY <1>2, <1>4

\* The places and lengths of bytes that are accepted.
LEMMA AcceptedPlaces ==
    ASSUME CodecAssumption, NEW b \in Seq(Bytes), WellFormed(b)
    PROVE  LET u == WIDTH["uint16"]
               d == uint(b, FIXED_LENGTH, u)
               t == uint(b, DataEnd(b), u)
           IN  /\ u \in Nat /\ d \in Nat /\ t \in Nat /\ Fits(d, u) /\ Fits(t, u)
               /\ DataEnd(b) = DataPlace + d /\ DataPlace = FIXED_LENGTH + u
               /\ FIXED_LENGTH \in Nat /\ FIXED_LENGTH > 0
               /\ Len(b) \in Nat /\ Len(b) = DataEnd(b) + u + t
               /\ \A k \in 1..u : /\ uintHex(d, u)[k] = b[FIXED_LENGTH + k]
                                  /\ uintHex(t, u)[k] = b[DataEnd(b) + k]
<1>. DEFINE u == WIDTH["uint16"]
            d == uint(b, FIXED_LENGTH, u)
            t == uint(b, DataEnd(b), u)
<1>1. u \in Nat /\ FIXED_LENGTH \in Nat /\ FIXED_LENGTH > 0 /\ Len(b) \in Nat
    <2>1. u \in Nat
        BY WidthFacts
    <2>2. FIXED_LENGTH = OffsetOf[17] + 1 /\ OffsetOf[17] \in Nat
        BY LayoutFacts
    <2>. QED BY <2>1, <2>2
<1>2. /\ Len(b) >= FIXED_LENGTH + 2 * u
      /\ DataEnd(b) + u <= Len(b) /\ PrefixedEnd(b, DataEnd(b)) = Len(b)
    BY DEF WellFormed
<1>3. \A p \in 1..Len(b) : b[p] \in Bytes
    BY <1>1
<1>4. DataEnd(b) = FIXED_LENGTH + u + d /\ PrefixedEnd(b, DataEnd(b)) = DataEnd(b) + u + t
    BY DEF DataEnd, PrefixedEnd
<1>5. Digits(b, FIXED_LENGTH, u)
    <2>. HIDE DEF u
    <2>1. ASSUME NEW n \in 1..u PROVE FIXED_LENGTH + n \in 1..Len(b)
        BY <1>1, <1>2
    <2>. QED BY <1>3, <2>1 DEF Digits
<1>6. /\ d \in Nat /\ Fits(d, u)
      /\ \A k \in 1..u : uintHex(d, u)[k] = b[FIXED_LENGTH + k]
    <2>. HIDE DEF u
    <2>. QED BY <1>1, <1>5, ReadsWhatFits
<1>. HIDE DEF u, d
<1>7. DataEnd(b) \in Nat
    BY <1>1, <1>4, <1>6
<1>8. Digits(b, DataEnd(b), u)
    <2>1. ASSUME NEW n \in 1..u PROVE DataEnd(b) + n \in 1..Len(b)
        BY <1>1, <1>2, <1>7
    <2>. QED BY <1>3, <2>1 DEF Digits
<1>9. /\ t \in Nat /\ Fits(t, u)
      /\ \A k \in 1..u : uintHex(t, u)[k] = b[DataEnd(b) + k]
    BY <1>1, <1>7, <1>8, ReadsWhatFits
<1>. HIDE DEF t
<1>10. Len(b) = DataEnd(b) + u + t
    BY <1>2, <1>4
<1>. QED BY <1>1, <1>4, <1>6, <1>9, <1>10 DEF u, d, t, DataPlace

\* Of two accepted byte strings none is a proper prefix of the other.
LEMMA NoPrefix ==
    ASSUME CodecAssumption, NEW a \in Seq(Bytes), NEW b \in Seq(Bytes),
           WellFormed(a), WellFormed(b), Len(a) <= Len(b),
           \A p \in 1..Len(a) : a[p] = b[p]
    PROVE  Len(a) = Len(b)
<1>. DEFINE u == WIDTH["uint16"]
            d == uint(a, FIXED_LENGTH, u)
            t == uint(a, DataEnd(a), u)
<1>1. /\ u \in Nat /\ d \in Nat /\ t \in Nat /\ FIXED_LENGTH \in Nat /\ Len(a) \in Nat
      /\ DataEnd(a) = FIXED_LENGTH + u + d /\ Len(a) = DataEnd(a) + u + t
    BY AcceptedPlaces DEF DataPlace
<1>2. /\ Len(b) = DataEnd(b) + u + uint(b, DataEnd(b), u)
      /\ DataEnd(b) = FIXED_LENGTH + u + uint(b, FIXED_LENGTH, u)
    BY AcceptedPlaces DEF DataPlace
<1>3. \A p \in 1..Len(a) : a[p] \in Bytes
    BY <1>1
<1>. HIDE DEF u, d, t
<1>4. ASSUME NEW o \in Nat, o + u <= Len(a) PROVE uint(b, o, u) = uint(a, o, u)
    <2>1. ASSUME NEW n \in 1..u PROVE o + n \in 1..Len(a)
        BY <1>1, <1>4
    <2>2. Digits(a, o, u)
        BY <1>3, <2>1 DEF Digits
    <2>3. SameDigits(a, b, o, u)
        BY <2>1 DEF SameDigits
    <2>. QED BY <1>1, <2>2, <2>3, SameNumber
<1>5. uint(b, FIXED_LENGTH, u) = d
    <2>1. FIXED_LENGTH + u <= Len(a)
        BY <1>1
    <2>. QED BY <1>1, <1>4, <2>1 DEF d
<1>6. DataEnd(b) = DataEnd(a)
    BY <1>1, <1>2, <1>5
<1>7. uint(b, DataEnd(b), u) = t
    <2>1. DataEnd(a) + u <= Len(a) /\ DataEnd(a) \in Nat
        BY <1>1
    <2>. QED BY <1>4, <1>6, <2>1 DEF t
<1>. QED BY <1>1, <1>2, <1>6, <1>7

\* What is accepted is what would be written, but for unknown flags.
Known(b) == [b EXCEPT ![FIXED_LENGTH] = @ % 4]

LEMMA FlagsReadBack ==
    ASSUME NEW x \in Nat, NEW s, s.riskHeavyTail = (x % 2 = 1),
           s.riskHighMultiplierFloor = ((x \div 2) % 2 = 1)
    PROVE  FlagsOf(s) = x % 4
<1>1. FlagsOf(s) = (IF x % 2 = 1 THEN 1 ELSE 0) + (IF (x \div 2) % 2 = 1 THEN 2 ELSE 0)
    BY DEF FlagsOf, FLAG_HEAVY_TAIL, FLAG_HIGH_MULTIPLIER_FLOOR
<1>2. x % 4 = (IF x % 2 = 1 THEN 1 ELSE 0) + (IF (x \div 2) % 2 = 1 THEN 2 ELSE 0)
    BY SMT
<1>. QED BY <1>1, <1>2

LEMMA AcceptedFields ==
    ASSUME CodecAssumption, NEW b \in Seq(Bytes), WellFormed(b), NEW n \in 1..16
    PROVE  LET v == decodeCasinoSession(b)[FIELDS[n][1]]
               o == OffsetOf[n]
               x == FieldWidth(n)
           IN  /\ IsAddress(n) => /\ v \in Seq(Bytes) /\ Len(v) = x
                                  /\ \A k \in 1..x : v[k] = b[o + k]
               /\ ~IsAddress(n) => /\ v \in Nat /\ Fits(v, x)
                                   /\ \A k \in 1..x : uintHex(v, x)[k] = b[o + k]
<1>. DEFINE v == decodeCasinoSession(b)[FIELDS[n][1]]
            o == OffsetOf[n]
            x == FieldWidth(n)
<1>0. n \in 1..17
    OBVIOUS
<1>1. o \in Nat /\ x \in Nat /\ o + x <= FIXED_LENGTH
    BY <1>0, LayoutFacts
<1>2. o + x <= Len(b) /\ Len(b) \in Nat
    <2>. HIDE DEF o, x
    <2>1. /\ Len(b) \in Nat /\ FIXED_LENGTH <= Len(b) /\ FIXED_LENGTH \in Nat
        BY AcceptedPlaces DEF DataPlace
    <2>. QED BY <1>1, <2>1
<1>3. v = FieldRead(b, n)
    BY DecodedFields
<1>4. ASSUME IsAddress(n)
      PROVE  v \in Seq(Bytes) /\ Len(v) = x /\ \A k \in 1..x : v[k] = b[o + k]
    <2>1. v = take(b, o, x)
        BY <1>3, <1>4 DEF FieldRead
    <2>. HIDE DEF v, o, x
    <2>. QED BY <1>1, <1>2, <2>1, TakeFacts
<1>5. ASSUME ~IsAddress(n)
      PROVE  v \in Nat /\ Fits(v, x) /\ \A k \in 1..x : uintHex(v, x)[k] = b[o + k]
    <2>1. v = uint(b, o, x)
        BY <1>3, <1>5 DEF FieldRead
    <2>. HIDE DEF v, o, x
    <2>2. ASSUME NEW k \in 1..x PROVE b[o + k] \in Bytes
        <3>1. o + k \in 1..Len(b)
            BY <1>1, <1>2
        <3>. QED BY <3>1
    <2>3. Digits(b, o, x)
        BY <2>2 DEF Digits
    <2>. QED BY <1>1, <2>1, <2>3, ReadsWhatFits
<1>. QED BY <1>4, <1>5

LEMMA AcceptedIsWritten ==
    ASSUME CodecAssumption, NEW b \in Seq(Bytes), WellFormed(b)
    PROVE  LET s == decodeCasinoSession(b)
           IN  s \in CasinoSessionSnapshots /\ SessionFits(s) /\ Encodes(Known(b), s)
<1>. DEFINE s == decodeCasinoSession(b)
            u == WIDTH["uint16"]
            d == uint(b, FIXED_LENGTH, u)
            t == uint(b, DataEnd(b), u)
<1>1. /\ u \in Nat /\ d \in Nat /\ t \in Nat /\ Fits(d, u) /\ Fits(t, u)
      /\ DataEnd(b) = DataPlace + d /\ DataPlace = FIXED_LENGTH + u
      /\ FIXED_LENGTH \in Nat /\ FIXED_LENGTH > 0
      /\ Len(b) \in Nat /\ Len(b) = DataEnd(b) + u + t
      /\ \A k \in 1..u : /\ uintHex(d, u)[k] = b[FIXED_LENGTH + k]
                         /\ uintHex(t, u)[k] = b[DataEnd(b) + k]
    BY AcceptedPlaces
<1>2. s.gameData = take(b, DataPlace, d) /\ s.gameState = take(b, DataPlace + d + u, t)
    BY <1>1, DecodedFields DEF Prefixed
<1>. HIDE DEF u, d, t
<1>. HIDE DEF s
<1>3. /\ s.gameData \in Seq(Bytes) /\ Len(s.gameData) = d
      /\ \A k \in 1..d : s.gameData[k] = b[DataPlace + k]
    <2>1. b \in Seq(Bytes) /\ DataPlace \in Nat /\ d \in Nat /\ DataPlace + d <= Len(b)
        BY <1>1
    <2>2. /\ take(b, DataPlace, d) \in Seq(Bytes) /\ Len(take(b, DataPlace, d)) = d
          /\ \A k \in 1..d : take(b, DataPlace, d)[k] = b[DataPlace + k]
        BY <2>1, TakeFacts
    <2>. QED BY <1>2, <2>2
<1>4. /\ s.gameState \in Seq(Bytes) /\ Len(s.gameState) = t
      /\ \A k \in 1..t : s.gameState[k] = b[(DataPlace + d + u) + k]
    <2>. DEFINE o == DataPlace + d + u
    <2>1. b \in Seq(Bytes) /\ o \in Nat /\ t \in Nat /\ o + t <= Len(b)
        BY <1>1
    <2>. HIDE DEF o
    <2>2. /\ take(b, o, t) \in Seq(Bytes) /\ Len(take(b, o, t)) = t
          /\ \A k \in 1..t : take(b, o, t)[k] = b[o + k]
        BY <2>1, TakeFacts
    <2>. QED BY <1>2, <2>2 DEF o
<1>. USE DEF s
<1>5. ASSUME NEW n \in 1..16
      PROVE  LET v == s[FIELDS[n][1]]
                 x == FieldWidth(n)
             IN  /\ IsAddress(n) => /\ v \in Seq(Bytes) /\ Len(v) = x
                                    /\ \A k \in 1..x : v[k] = b[OffsetOf[n] + k]
                 /\ ~IsAddress(n) => /\ v \in Nat /\ Fits(v, x)
                                     /\ \A k \in 1..x : uintHex(v, x)[k] = b[OffsetOf[n] + k]
    BY AcceptedFields
<1>6. s \in CasinoSessionSnapshots
    <2>1. ASSUME NEW n \in 1..16 PROVE IsAddress(n) <=> n \in 2..5
        BY DEF IsAddress, FIELDS
    <2>. HIDE DEF s
    <2>2. ASSUME NEW n \in 1..16
          PROVE  IF n \in 2..5 THEN s[FIELDS[n][1]] \in Seq(Bytes)
                                ELSE s[FIELDS[n][1]] \in Int
        <3>1. IsAddress(n) => s[FIELDS[n][1]] \in Seq(Bytes)
            BY <1>5
        <3>2. ~IsAddress(n) => s[FIELDS[n][1]] \in Nat
            BY <1>5
        <3>. QED BY <2>1, <3>1, <3>2
    <2>3. /\ \A name \in AddressNames : \E n \in 2..5 : FIELDS[n][1] = name
          /\ \A name \in IntegerNames : \E n \in (1..16) \ (2..5) : FIELDS[n][1] = name
        BY DEF FIELDS, AddressNames, IntegerNames
    <2>4. /\ \A name \in AddressNames : s[name] \in Seq(Bytes)
          /\ \A name \in IntegerNames : s[name] \in Int
        <3>1. ASSUME NEW name \in AddressNames PROVE s[name] \in Seq(Bytes)
            <4>1. PICK n \in 2..5 : FIELDS[n][1] = name
                BY <2>3
            <4>2. n \in 1..16
                OBVIOUS
            <4>. QED BY <2>2, <4>1, <4>2
        <3>2. ASSUME NEW name \in IntegerNames PROVE s[name] \in Int
            <4>1. PICK n \in (1..16) \ (2..5) : FIELDS[n][1] = name
                BY <2>3
            <4>. QED BY <2>2, <4>1
        <3>. QED BY <3>1, <3>2
    <2>. USE DEF s
    <2>5. s.riskHeavyTail \in BOOLEAN /\ s.riskHighMultiplierFloor \in BOOLEAN
        BY DEF decodeCasinoSession
    <2>6. s = [name \in DOMAIN s |-> s[name]]
          /\ DOMAIN s = IntegerNames \cup AddressNames
                     \cup {"riskHeavyTail", "riskHighMultiplierFloor", "gameData", "gameState"}
        BY DEF decodeCasinoSession, IntegerNames, AddressNames
    <2>. HIDE DEF s
    <2>. QED BY <1>3, <1>4, <2>4, <2>5, <2>6 DEF CasinoSessionSnapshots, IntegerNames, AddressNames
<1>7. SessionFits(s)
    <2>1. 1..(Len(FIELDS) - 1) = 1..16
        BY NamesOfFields
    <2>2. Fits(Len(s.gameData), u) /\ Fits(Len(s.gameState), u)
        BY <1>1, <1>3, <1>4
    <2>. HIDE DEF s
    <2>. QED BY <1>5, <2>1, <2>2 DEF SessionFits, IsAddress, u
<1>8. \A p \in 1..Len(b) : b[p] \in Bytes /\ b[p] \in Nat
    BY <1>1 DEF Bytes
<1>9. /\ OffsetOf[17] \in Nat /\ OffsetOf[17] + 1 = FIXED_LENGTH /\ FieldWidth(17) = 1
      /\ FIXED_LENGTH \in 1..Len(b)
    <2>1. FIXED_LENGTH = OffsetOf[17] + 1 /\ OffsetOf[17] \in Nat /\ FieldWidth(17) = 1
        BY LayoutFacts, FieldsFacts
    <2>2. FIXED_LENGTH \in 1..Len(b)
        BY <1>1
    <2>. QED BY <2>1, <2>2
<1>10. FlagsRead(b) = b[FIXED_LENGTH]
    BY <1>8, <1>9, OneByte DEF FlagsRead
<1>11. FlagsOf(s) = b[FIXED_LENGTH] % 4
    <2>1. b[FIXED_LENGTH] \in Nat
        BY <1>8, <1>9
    <2>2. /\ s.riskHeavyTail = (b[FIXED_LENGTH] % 2 = 1)
          /\ s.riskHighMultiplierFloor = ((b[FIXED_LENGTH] \div 2) % 2 = 1)
        BY <1>10, DecodedFields
    <2>. HIDE DEF s
    <2>. QED BY <2>1, <2>2, FlagsReadBack
<1>. HIDE DEF s
<1>. DEFINE w == Known(b)
<1>12. /\ w \in Seq(Bytes) /\ Len(w) = Len(b)
       /\ \A p \in 1..Len(b) : w[p] = IF p = FIXED_LENGTH THEN FlagsOf(s) ELSE b[p]
    <2>1. FlagsOf(s) \in Bytes
        BY FlagsFit
    <2>2. w = [b EXCEPT ![FIXED_LENGTH] = FlagsOf(s)]
        BY <1>11 DEF Known
    <2>. HIDE DEF w
    <2>. QED BY <1>9, <2>1, <2>2, ExceptSeq
<1>. HIDE DEF w
<1>13. Len(w) = StatePlace(s) + Len(s.gameState) /\ StatePlace(s) = DataPlace + d + u
    BY <1>1, <1>3, <1>4, <1>12 DEF StatePlace, u
<1>14. ASSUME NEW n \in 1..17, NEW k \in 1..FieldWidth(n)
       PROVE  w[OffsetOf[n] + k] = FieldBytes(s, n)[k]
    <2>1. CASE n = 17
        <3>1. k = 1 /\ OffsetOf[n] + k = FIXED_LENGTH
            BY <1>9, <2>1
        <3>2. FieldBytes(s, n) = uintHex(FlagsOf(s), 1)
            BY <1>6, <1>7, <1>9, <2>1, WrittenFields
        <3>3. uintHex(FlagsOf(s), 1)[1] = FlagsOf(s)
            BY FlagsFit, OneDigit
        <3>. QED BY <1>9, <1>12, <3>1, <3>2, <3>3
    <2>2. CASE n # 17
        <3>0. n \in 1..16
            BY <2>2
        <3>1. /\ OffsetOf[n] \in Nat /\ FieldWidth(n) \in Nat
              /\ OffsetOf[n] + FieldWidth(n) <= OffsetOf[17]
            <4>1. 17 \in 2..18 /\ n < 17
                BY <3>0
            <4>. QED BY <4>1, OffsetsGrow
        <3>2. OffsetOf[n] + k \in 1..Len(b) /\ OffsetOf[n] + k # FIXED_LENGTH
            <4>1. /\ OffsetOf[n] \in Nat /\ FieldWidth(n) \in Nat /\ OffsetOf[17] \in Nat
                  /\ OffsetOf[n] + FieldWidth(n) <= OffsetOf[17] /\ k \in 1..FieldWidth(n)
                  /\ FIXED_LENGTH = OffsetOf[17] + 1
                BY <1>9, <3>1
            <4>2. Len(b) \in Nat /\ FIXED_LENGTH <= Len(b)
                BY <1>1
            <4>3. k \in Nat /\ k >= 1 /\ k <= FieldWidth(n)
                BY <4>1
            <4>4. OffsetOf[n] + k >= 1 /\ OffsetOf[n] + k < FIXED_LENGTH
                BY <4>1, <4>3
            <4>. QED BY <4>1, <4>2, <4>3, <4>4
        <3>3. w[OffsetOf[n] + k] = b[OffsetOf[n] + k]
            BY <1>12, <3>2
        <3>4. FieldBytes(s, n)[k] = b[OffsetOf[n] + k]
            <4>1. CASE IsAddress(n)
                <5>1. FieldBytes(s, n) = s[FIELDS[n][1]]
                    BY <1>6, <1>7, <2>2, <4>1, WrittenFields
                <5>. QED BY <1>5, <3>0, <4>1, <5>1
            <4>2. CASE ~IsAddress(n)
                <5>1. FieldBytes(s, n) = uintHex(s[FIELDS[n][1]], FieldWidth(n))
                    BY <1>6, <1>7, <2>2, <4>2, WrittenFields
                <5>. QED BY <1>5, <3>0, <4>2, <5>1
            <4>. QED BY <4>1, <4>2
        <3>. QED BY <3>3, <3>4
    <2>. QED BY <2>1, <2>2
<1>15. ASSUME NEW p \in (FIXED_LENGTH + 1)..Len(b) PROVE w[p] = b[p]
    <2>1. p \in 1..Len(b) /\ p # FIXED_LENGTH
        BY <1>1
    <2>. QED BY <1>12, <2>1
<1>16. ASSUME NEW k \in 1..u
       PROVE  /\ w[FIXED_LENGTH + k] = uintHex(Len(s.gameData), u)[k]
              /\ w[DataPlace + Len(s.gameData) + k] = uintHex(Len(s.gameState), u)[k]
    <2>1. /\ FIXED_LENGTH + k \in (FIXED_LENGTH + 1)..Len(b)
          /\ DataPlace + d + k \in (FIXED_LENGTH + 1)..Len(b)
        <3>1. /\ u \in Nat /\ d \in Nat /\ t \in Nat /\ FIXED_LENGTH \in Nat
              /\ DataPlace = FIXED_LENGTH + u /\ Len(b) = FIXED_LENGTH + u + d + u + t
            BY <1>1
        <3>. QED BY <3>1
    <2>2. w[FIXED_LENGTH + k] = b[FIXED_LENGTH + k] /\ w[DataPlace + d + k] = b[DataPlace + d + k]
        BY <1>15, <2>1
    <2>. QED BY <1>1, <1>3, <1>4, <2>2
<1>17. ASSUME NEW k \in 1..Len(s.gameData) PROVE w[DataPlace + k] = s.gameData[k]
    <2>1. DataPlace + k \in (FIXED_LENGTH + 1)..Len(b) /\ k \in 1..d
        BY <1>1, <1>3
    <2>. QED BY <1>3, <1>15, <2>1
<1>18. ASSUME NEW k \in 1..Len(s.gameState) PROVE w[StatePlace(s) + k] = s.gameState[k]
    <2>1. (DataPlace + d + u) + k \in (FIXED_LENGTH + 1)..Len(b) /\ k \in 1..t
        BY <1>1, <1>4
    <2>. QED BY <1>4, <1>13, <1>15, <2>1
<1>. QED BY <1>6, <1>7, <1>12, <1>13, <1>14, <1>16, <1>17, <1>18 DEF Encodes, u, s, w

-----------------------------------------------------------------------------
\* With the widths of the source the fixed part has the length its constant
\* FIXED_LENGTH states, 235 bytes, and each field lies where the ones before it end.
THEOREM FixedLengthIsRight ==
    ASSUME \A t \in Types :
              WIDTH[t] = CASE t = "uint8" -> 1 [] t = "uint16" -> 2 [] t = "uint32" -> 4
                           [] t = "uint40" -> 5 [] t = "uint64" -> 8 [] t = "uint128" -> 16
                           [] t = "uint256" -> 32 [] t = "address" -> 20
    PROVE  FIXED_LENGTH = 235
<1>1. /\ WIDTH["uint64"] = 8 /\ WIDTH["address"] = 20 /\ WIDTH["uint128"] = 16
      /\ WIDTH["uint40"] = 5 /\ WIDTH["uint32"] = 4 /\ WIDTH["uint8"] = 1
      /\ WIDTH["uint256"] = 32
    BY DEF Types
<1>2. \A n \in 1..17 :
         FieldWidth(n) = CASE n \in {1, 15} -> 8 [] n \in 2..5 -> 20
                           [] n \in (6..10) \cup {14} -> 16 [] n = 11 -> 5 [] n = 12 -> 4 [] n \in {13, 17} -> 1 [] n = 16 -> 32
    BY <1>1 DEF FieldWidth, FIELDS
<1>3. OffsetOf[1] = 0 /\ OffsetOf[18] = FIXED_LENGTH
      /\ \A n \in 1..17 : OffsetOf[n + 1] = OffsetOf[n] + FieldWidth(n)
    BY CodecAssumption, OffsetFacts
<1>4. /\ OffsetOf[2] = 8 /\ OffsetOf[3] = 28 /\ OffsetOf[4] = 48 /\ OffsetOf[5] = 68
      /\ OffsetOf[6] = 88
    <2>1. /\ OffsetOf[1 + 1] = OffsetOf[1] + FieldWidth(1)
          /\ OffsetOf[2 + 1] = OffsetOf[2] + FieldWidth(2)
          /\ OffsetOf[3 + 1] = OffsetOf[3] + FieldWidth(3)
          /\ OffsetOf[4 + 1] = OffsetOf[4] + FieldWidth(4)
          /\ OffsetOf[5 + 1] = OffsetOf[5] + FieldWidth(5)
        BY <1>3
    <2>. QED BY <1>2, <1>3, <2>1
<1>5. /\ OffsetOf[7] = 104 /\ OffsetOf[8] = 120 /\ OffsetOf[9] = 136 /\ OffsetOf[10] = 152
      /\ OffsetOf[11] = 168 /\ OffsetOf[12] = 173
    <2>1. /\ OffsetOf[6 + 1] = OffsetOf[6] + FieldWidth(6)
          /\ OffsetOf[7 + 1] = OffsetOf[7] + FieldWidth(7)
          /\ OffsetOf[8 + 1] = OffsetOf[8] + FieldWidth(8)
          /\ OffsetOf[9 + 1] = OffsetOf[9] + FieldWidth(9)
          /\ OffsetOf[10 + 1] = OffsetOf[10] + FieldWidth(10)
          /\ OffsetOf[11 + 1] = OffsetOf[11] + FieldWidth(11)
        BY <1>3
    <2>. QED BY <1>2, <1>4, <2>1
<1>6. /\ OffsetOf[13] = 177 /\ OffsetOf[14] = 178 /\ OffsetOf[15] = 194 /\ OffsetOf[16] = 202
      /\ OffsetOf[17] = 234 /\ OffsetOf[18] = 235
    <2>1. /\ OffsetOf[12 + 1] = OffsetOf[12] + FieldWidth(12)
          /\ OffsetOf[13 + 1] = OffsetOf[13] + FieldWidth(13)
          /\ OffsetOf[14 + 1] = OffsetOf[14] + FieldWidth(14)
          /\ OffsetOf[15 + 1] = OffsetOf[15] + FieldWidth(15)
          /\ OffsetOf[16 + 1] = OffsetOf[16] + FieldWidth(16)
          /\ OffsetOf[17 + 1] = OffsetOf[17] + FieldWidth(17)
        BY <1>3
    <2>. QED BY <1>2, <1>5, <2>1
<1>. QED BY <1>3, <1>6

-----------------------------------------------------------------------------
(***************************************************************************)
(* The codec as functions.                                                 *)
(***************************************************************************)

\* "The inverse of decodeCasinoSession": every session that encodeCasinoSession
\* does not refuse is read back as it was, whatever its values, its data and the
\* widths of the fields.
THEOREM SessionsReadBack ==
    ASSUME NEW s \in CasinoSessionSnapshots, SessionFits(s)
    PROVE  /\ encodeCasinoSession(s) \in Seq(Bytes)
           /\ WellFormed(encodeCasinoSession(s))
           /\ decodeCasinoSession(encodeCasinoSession(s)) = s
<1>1. Encodes(encodeCasinoSession(s), s)
    BY CodecAssumption, EncodeLaysOut
<1>2. encodeCasinoSession(s) \in Seq(Bytes)
    BY <1>1 DEF Encodes
<1>. QED BY <1>1, <1>2, CodecAssumption, ReadBack

\* Whatever bytes decodeCasinoSession accepts are those encodeCasinoSession writes
\* for the session it returns, but for flags this reader does not know: two byte
\* strings that decode alike differ in nothing else, so the hash the host stores
\* is the hash of the session.
THEOREM AcceptedBytesAreCanonical ==
    ASSUME NEW b \in Seq(Bytes), WellFormed(b)
    PROVE  /\ decodeCasinoSession(b) \in CasinoSessionSnapshots
           /\ SessionFits(decodeCasinoSession(b))
           /\ encodeCasinoSession(decodeCasinoSession(b)) = Known(b)
<1>. DEFINE s == decodeCasinoSession(b)
<1>1. s \in CasinoSessionSnapshots /\ SessionFits(s) /\ Encodes(Known(b), s)
    BY CodecAssumption, AcceptedIsWritten
<1>. HIDE DEF s
<1>2. Encodes(encodeCasinoSession(s), s)
    BY <1>1, CodecAssumption, EncodeLaysOut
<1>3. encodeCasinoSession(s) = Known(b)
    BY <1>1, <1>2, CodecAssumption, OneEncoding
<1>. QED BY <1>1, <1>3 DEF s

\* "Throws on any length mismatch": of the byte strings that are accepted none is
\* the beginning of another, so nothing cut off or appended goes unnoticed.
THEOREM AcceptedBytesHaveNoPrefix ==
    ASSUME NEW a \in Seq(Bytes), NEW b \in Seq(Bytes), WellFormed(a), WellFormed(b),
           Len(a) <= Len(b), \A p \in 1..Len(a) : a[p] = b[p]
    PROVE  a = b
<1>1. Len(a) = Len(b)
    BY CodecAssumption, NoPrefix
<1>. QED BY <1>1, SeqEqual

-----------------------------------------------------------------------------
(***************************************************************************)
(* The codec as a state machine.                                           *)
(***************************************************************************)

\* What became of the bytes that were written.
CutFrom(w, e) == \E n \in 0..(Len(e) - 1) : w = SubSeq(e, 1, n)
ExtendedFrom(w, e) == \E byte \in Bytes : w = Append(e, byte)

CodecInv ==
    /\ session \in CasinoSessionSnapshots /\ wire \in Seq(Bytes)
    /\ carried \in {"no", "intact", "cut", "extended", "reflagged"}
    /\ carried # "no" => SessionFits(session)
    /\ carried = "intact" => wire = encodeCasinoSession(session)
    /\ carried = "cut" => CutFrom(wire, encodeCasinoSession(session))
    /\ carried = "extended" => ExtendedFrom(wire, encodeCasinoSession(session))

LEMMA CodecInvInit == ASSUME CodecInit PROVE CodecInv
<1>1. session \in CasinoSessionSnapshots
    BY CodecAssumption DEF CodecInit, CodecAssumption
<1>. QED BY <1>1 DEF CodecInit, CodecInv

LEMMA EncodeKeeps == ASSUME CodecInv, Encode PROVE CodecInv'
<1>1. encodeCasinoSession(session) \in Seq(Bytes)
    BY SessionsReadBack DEF CodecInv, Encode
<1>. QED BY <1>1 DEF CodecInv, Encode

LEMMA CutKeeps == ASSUME CodecInv, NEW n \in 0..(Len(wire) - 1), Cut(n) PROVE CodecInv'
<1>0. wire \in Seq(Bytes) /\ wire = encodeCasinoSession(session) /\ SessionFits(session)
      /\ session' = session /\ carried' = "cut" /\ wire' = SubSeq(wire, 1, n)
    BY DEF CodecInv, Cut
<1>1. n \in 0..Len(wire) /\ 1 \in 1..(Len(wire) + 1)
    <2>1. Len(wire) \in Nat
        BY <1>0
    <2>. QED BY <2>1
<1>2. wire' \in Seq(Bytes)
    BY <1>0, <1>1, SubSeqProperties
<1>3. CutFrom(wire', encodeCasinoSession(session'))
    BY <1>0 DEF CutFrom
<1>. QED BY <1>0, <1>2, <1>3 DEF CodecInv

LEMMA ExtendKeeps == ASSUME CodecInv, NEW byte \in Bytes, Extend(byte) PROVE CodecInv'
<1>0. wire \in Seq(Bytes) /\ wire = encodeCasinoSession(session) /\ SessionFits(session)
      /\ session' = session /\ carried' = "extended" /\ wire' = Append(wire, byte)
    BY DEF CodecInv, Extend
<1>1. wire' \in Seq(Bytes)
    BY <1>0
<1>2. ExtendedFrom(wire', encodeCasinoSession(session'))
    BY <1>0 DEF ExtendedFrom
<1>. QED BY <1>0, <1>1, <1>2 DEF CodecInv

LEMMA ReflagKeeps == ASSUME CodecInv, NEW flags \in Flags, Reflag(flags) PROVE CodecInv'
<1>0. wire \in Seq(Bytes) /\ wire = encodeCasinoSession(session) /\ SessionFits(session)
      /\ session' = session /\ carried' = "reflagged"
      /\ wire' = [wire EXCEPT ![FIXED_LENGTH] = flags]
    BY DEF CodecInv, Reflag
<1>1. flags \in Bytes
    BY CodecAssumption DEF CodecAssumption
<1>2. FIXED_LENGTH \in 1..Len(wire)
    <2>1. WellFormed(wire) /\ wire \in Seq(Bytes)
        BY <1>0, SessionsReadBack DEF CodecInv
    <2>2. /\ FIXED_LENGTH \in Nat /\ FIXED_LENGTH > 0
          /\ FIXED_LENGTH <= Len(wire) /\ Len(wire) \in Nat
        BY <2>1, CodecAssumption, AcceptedPlaces DEF DataPlace
    <2>. QED BY <2>2
<1>3. [wire EXCEPT ![FIXED_LENGTH] = flags] \in Seq(Bytes)
    BY <1>0, <1>1, <1>2, ExceptSeq
<1>. QED BY <1>0, <1>3 DEF CodecInv

LEMMA CodecInvNext == ASSUME CodecInv, [CodecNext]_codecVars PROVE CodecInv'
<1>1. CASE Encode
    BY <1>1, EncodeKeeps
<1>2. ASSUME NEW n \in 0..(Len(wire) - 1), Cut(n) PROVE CodecInv'
    BY <1>2, CutKeeps
<1>3. ASSUME NEW byte \in 0..(BYTE - 1), Extend(byte) PROVE CodecInv'
    BY <1>3, ExtendKeeps DEF Bytes
<1>4. ASSUME NEW flags \in Flags, Reflag(flags) PROVE CodecInv'
    BY <1>4, ReflagKeeps
<1>5. CASE UNCHANGED codecVars
    BY <1>5 DEF codecVars, CodecInv
<1>. QED BY <1>1, <1>2, <1>3, <1>4, <1>5 DEF CodecNext

LEMMA ReadsBackAlways == ASSUME CodecInv PROVE ReadsBack
BY SessionsReadBack DEF CodecInv, ReadsBack

LEMMA OnlyWholeSessionsAlways == ASSUME CodecInv PROVE OnlyWholeSessions
<1>. SUFFICES ASSUME carried \in {"cut", "extended"}, WellFormed(wire) PROVE FALSE
    BY DEF OnlyWholeSessions
<1>. DEFINE e == encodeCasinoSession(session)
<1>1. e \in Seq(Bytes) /\ WellFormed(e) /\ wire \in Seq(Bytes)
    BY SessionsReadBack DEF CodecInv
<1>. HIDE DEF e
<1>2. CASE carried = "cut"
    <2>1. PICK n \in 0..(Len(e) - 1) : wire = SubSeq(e, 1, n)
        BY <1>2 DEF CodecInv, CutFrom, e
    <2>2. Len(e) \in Nat
        BY <1>1
    <2>3. 1 \in 1..(Len(e) + 1) /\ n \in 0..Len(e) /\ n \in Nat
        BY <2>2
    <2>4. /\ Len(wire) = IF 1 <= n THEN n - 1 + 1 ELSE 0
          /\ \A p \in 1..(n - 1 + 1) : wire[p] = e[1 + p - 1]
        BY <1>1, <2>1, <2>3, SubSeqProperties
    <2>5. Len(wire) = n
        BY <2>3, <2>4
    <2>6. \A p \in 1..Len(wire) : wire[p] = e[p]
        BY <2>3, <2>4, <2>5
    <2>7. Len(wire) <= Len(e)
        BY <2>2, <2>5
    <2>8. wire = e
        BY <1>1, <2>6, <2>7, AcceptedBytesHaveNoPrefix
    <2>. QED BY <2>2, <2>5, <2>8
<1>3. CASE carried = "extended"
    <2>1. PICK byte \in Bytes : wire = Append(e, byte)
        BY <1>3 DEF CodecInv, ExtendedFrom, e
    <2>2. Len(e) \in Nat
        BY <1>1
    <2>3. Len(wire) = Len(e) + 1 /\ \A p \in 1..Len(e) : e[p] = wire[p]
        BY <1>1, <2>1, AppendProperties
    <2>4. Len(e) <= Len(wire)
        BY <2>2, <2>3
    <2>5. wire = e
        BY <1>1, <2>3, <2>4, AcceptedBytesHaveNoPrefix
    <2>. QED BY <2>2, <2>3, <2>5
<1>. QED BY <1>2, <1>3

LEMMA AcceptedAlways == ASSUME CodecInv PROVE AcceptedIsCanonical
BY AcceptedBytesAreCanonical DEF CodecInv, AcceptedIsCanonical, Known

\* Of the bytes on their way: what arrives as it was sent is read as what was sent,
\* what was cut or extended is refused, and whatever is accepted, also with flags
\* another writer set, is what would be written.
THEOREM CodecExactness == CodecSpec => []CodecIsExact
<1>1. CodecInit => CodecInv
    BY CodecInvInit
<1>2. CodecInv /\ [CodecNext]_codecVars => CodecInv'
    BY CodecInvNext
<1>3. CodecInv => CodecIsExact
    BY ReadsBackAlways, OnlyWholeSessionsAlways, AcceptedAlways DEF CodecIsExact
<1>. QED BY <1>1, <1>2, <1>3, PTL DEF CodecSpec
=============================================================================
