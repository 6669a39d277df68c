----------------------------- MODULE SessionFeed -----------------------------
(***************************************************************************)
(* createSessionEventFeed (simulator/src/session-events.ts): the poller    *)
(* that turns the host contract's logs into events on two channels, one    *)
(* prompt ("flashblock") and one lagging ("indexed").  The chain and its   *)
(* RPC are external: blocks come when they like and a call may fail.  A    *)
(* log is the number of its place in the chain; what it says matters only  *)
(* to the stores that listen.                                              *)
(*                                                                         *)
(* JavaScript runs one callback to its end, so a step of the model is the  *)
(* code between two awaits or timers.  Awaits are merged where nothing     *)
(* else can change their result: the head and the logs up to it, and the   *)
(* timestamp of one log.                                                   *)
(***************************************************************************)
EXTENDS Integers, Sequences, SequencesExt

CONSTANTS
    MaxBlocks, LogsPerBlock,    \* bounds of the chain
    MaxFaults,                  \* bound: failing calls in a behaviour
    Settings                    \* logs per block; lags, [flashblock, indexed] in
                                \* ticks, that the user may choose from; calls
                                \* that may fail: "start", "poll", "block"

Channels == {"flashblock", "indexed"}

ASSUME FeedAssumption ==
    /\ MaxBlocks \in Nat /\ LogsPerBlock \in Nat /\ MaxFaults \in Nat
    /\ Settings \subseteq [logs: 0..LogsPerBlock, lags: SUBSET [Channels -> Nat],
                           faults: SUBSET {"start", "poll", "block"}]

VARIABLES
    setting,        \* the choices of this behaviour
    chain,          \* chain[b]: the last log of the blocks up to b
    mode,           \* where the poller's coroutine waits
    stopped,
    lag,            \* flashblockLagMs, indexerLagMs: settings the user changes
    fromBlock,
    batch,          \* logs fetched and not yet normalized
    pollHead,       \* head that batch goes up to
    seen,
    blockTimestamps,
    pendingTimers,  \* delayed events, soonest first
    delivered,      \* history: what the listeners of each channel got
    faults          \* history: failing calls so far

coroutine == <<mode, fromBlock, batch, pollHead, seen, blockTimestamps>>
lagVars == <<setting, lag>>
vars == <<chain, stopped, lagVars, coroutine, pendingTimers, delivered, faults>>

Height == Len(chain)
UpTo(b) == IF b = 0 THEN 0 ELSE chain[b]
LogsIn(first, last) ==
    [i \in 1..(UpTo(last) - UpTo(first - 1)) |-> UpTo(first - 1) + i]
Logs == 1..UpTo(Height)
BlockOf(log) == CHOOSE b \in 1..Height : log \in (UpTo(b - 1) + 1)..UpTo(b)

-----------------------------------------------------------------------------
\* Surroundings: the chain, the settings, the RPC

Mine(n) ==
    /\ Height < MaxBlocks
    /\ chain' = Append(chain, UpTo(Height) + n)
    /\ UNCHANGED <<stopped, lagVars, coroutine, pendingTimers, delivered, faults>>

ChangeLags(l) ==
    /\ l \in setting.lags /\ l # lag /\ lag' = l
    /\ UNCHANGED <<setting, chain, stopped, coroutine, pendingTimers, delivered, faults>>

Fails(call) ==
    /\ call \in setting.faults /\ faults < MaxFaults
    /\ faults' = faults + 1
    /\ UNCHANGED <<chain, stopped, lagVars, pendingTimers, delivered>>

-----------------------------------------------------------------------------
\* Delivery

InsertAfter(k, timers, t) ==
    [i \in 1..(Len(timers) + 1) |->
        IF i <= k THEN timers[i] ELSE IF i = k + 1 THEN t ELSE timers[i - 1]]

\* Mutation: a timer fires before those due at the same time.
WithTimerInFront(timers, t) ==
    InsertAfter(CHOOSE k \in 0..Len(timers) :
                    \A i \in DOMAIN timers : i <= k <=> timers[i].left < t.left,
                timers, t)

\* A timer fires after those due no later than it, which were set before it.
WithTimer(timers, t) ==
    InsertAfter(CHOOSE k \in 0..Len(timers) :
                    \A i \in DOMAIN timers : i <= k <=> timers[i].left <= t.left,
                timers, t)

\* emitDelayed: without a lag the listeners run at once.
EmitDelayed(out, log, channel) ==
    IF lag[channel] = 0
    THEN [out EXCEPT !.delivered[channel] = Append(@, log)]
    ELSE [out EXCEPT !.timers = WithTimer(@,
            [channel |-> channel, log |-> log, left |-> lag[channel]])]

FireTimer ==
    LET t == Head(pendingTimers)
    IN  /\ pendingTimers # <<>> /\ t.left = 0
        /\ pendingTimers' = Tail(pendingTimers)
        /\ delivered' = [delivered EXCEPT ![t.channel] = Append(@, t.log)]
        /\ UNCHANGED <<chain, stopped, lagVars, coroutine, faults>>

TimePasses ==
    /\ pendingTimers # <<>> /\ Head(pendingTimers).left > 0
    /\ pendingTimers' = [i \in DOMAIN pendingTimers |->
                           [pendingTimers[i] EXCEPT !.left = @ - 1]]
    /\ UNCHANGED <<chain, stopped, lagVars, coroutine, delivered, faults>>

-----------------------------------------------------------------------------
\* The coroutine

\* start(): the head and everything up to it.
Start ==
    /\ mode = "starting"
    /\ IF stopped
       THEN mode' = "ended" /\ UNCHANGED <<fromBlock, batch>>
       ELSE /\ mode' = "replaying"
            /\ fromBlock' = Height + 1
            /\ batch' = LogsIn(1, Height)
    /\ UNCHANGED <<chain, stopped, lagVars, pollHead, seen, blockTimestamps,
                   pendingTimers, delivered, faults>>

\* A rejection inside start() is swallowed and nothing calls start() again.
StartFails ==
    /\ mode = "starting"
    /\ Fails("start")
    /\ mode' = "ended"
    /\ UNCHANGED <<fromBlock, batch, pollHead, seen, blockTimestamps>>

\* Historical logs go to the indexed channel, at once, even after stop().
ReplayLog ==
    LET log == Head(batch)
    IN  /\ mode = "replaying" /\ batch # <<>>
        /\ seen' = seen \cup {log}
        /\ blockTimestamps' = blockTimestamps \cup {BlockOf(log)}
        /\ delivered' = [delivered EXCEPT !["indexed"] = Append(@, log)]
        /\ batch' = Tail(batch)
        /\ UNCHANGED <<chain, stopped, lagVars, mode, fromBlock, pollHead,
                       pendingTimers, faults>>

ReplayLogFails ==
    /\ mode = "replaying" /\ batch # <<>>
    /\ BlockOf(Head(batch)) \notin blockTimestamps
    /\ Fails("block")
    /\ seen' = seen \cup {Head(batch)}
    /\ mode' = "ended"
    /\ UNCHANGED <<fromBlock, batch, pollHead, blockTimestamps>>

ReplayDone ==
    /\ mode = "replaying" /\ batch = <<>>
    /\ mode' = "polling"
    /\ UNCHANGED <<chain, stopped, lagVars, fromBlock, batch, pollHead, seen,
                   blockTimestamps, pendingTimers, delivered, faults>>

Resting == IF stopped THEN "ended" ELSE "sleeping"

\* poll(): the logs of every block since the last poll that went through.
Poll ==
    /\ mode = "polling"
    /\ IF Height >= fromBlock
       THEN /\ mode' = "draining"
            /\ batch' = LogsIn(fromBlock, Height) /\ pollHead' = Height
       ELSE mode' = Resting /\ UNCHANGED <<batch, pollHead>>
    /\ UNCHANGED <<chain, stopped, lagVars, fromBlock, seen, blockTimestamps,
                   pendingTimers, delivered, faults>>

\* Mutation: a failed poll moves on to the blocks after the head.
PollFailsSkipsRange ==
    /\ mode = "polling"
    /\ Fails("poll")
    /\ mode' = Resting
    /\ fromBlock' = Height + 1
    /\ UNCHANGED <<batch, pollHead, seen, blockTimestamps>>

PollFails ==
    /\ mode = "polling"
    /\ Fails("poll")
    /\ mode' = Resting
    /\ UNCHANGED <<fromBlock, batch, pollHead, seen, blockTimestamps>>

\* Mutation: the indexed channel is served before the flashblock channel.
PollLogIndexedFirst ==
    LET log == Head(batch)
        out == [delivered |-> delivered, timers |-> pendingTimers]
        sent == EmitDelayed(EmitDelayed(out, log, "indexed"), log, "flashblock")
    IN  /\ mode = "draining" /\ batch # <<>>
        /\ log \notin seen
        /\ seen' = seen \cup {log}
        /\ blockTimestamps' = blockTimestamps \cup {BlockOf(log)}
        /\ IF stopped THEN UNCHANGED <<delivered, pendingTimers>>
           ELSE delivered' = sent.delivered /\ pendingTimers' = sent.timers
        /\ batch' = Tail(batch)
        /\ UNCHANGED <<chain, stopped, lagVars, mode, fromBlock, pollHead, faults>>

\* Mutation: stop() is not looked at again after the await.
PollLogAfterStop ==
    LET log == Head(batch)
        out == [delivered |-> delivered, timers |-> pendingTimers]
        sent == EmitDelayed(EmitDelayed(out, log, "flashblock"), log, "indexed")
    IN  /\ mode = "draining" /\ batch # <<>>
        /\ log \notin seen
        /\ seen' = seen \cup {log}
        /\ blockTimestamps' = blockTimestamps \cup {BlockOf(log)}
        /\ delivered' = sent.delivered /\ pendingTimers' = sent.timers
        /\ batch' = Tail(batch)
        /\ UNCHANGED <<chain, stopped, lagVars, mode, fromBlock, pollHead, faults>>

\* A new log goes to both channels, the flashblock channel first.
PollLog ==
    LET log == Head(batch)
        out == [delivered |-> delivered, timers |-> pendingTimers]
        sent == EmitDelayed(EmitDelayed(out, log, "flashblock"), log, "indexed")
    IN  /\ mode = "draining" /\ batch # <<>>
        /\ log \notin seen
        /\ seen' = seen \cup {log}
        /\ blockTimestamps' = blockTimestamps \cup {BlockOf(log)}
        /\ IF stopped THEN UNCHANGED <<delivered, pendingTimers>>
           ELSE delivered' = sent.delivered /\ pendingTimers' = sent.timers
        /\ batch' = Tail(batch)
        /\ UNCHANGED <<chain, stopped, lagVars, mode, fromBlock, pollHead, faults>>

\* The log is in seen before its block's timestamp is asked for.
PollLogFails ==
    /\ mode = "draining" /\ batch # <<>>
    /\ Head(batch) \notin seen
    /\ BlockOf(Head(batch)) \notin blockTimestamps
    /\ Fails("block")
    /\ seen' = seen \cup {Head(batch)}
    /\ mode' = Resting
    /\ batch' = <<>>
    /\ UNCHANGED <<fromBlock, pollHead, blockTimestamps>>

SkipSeenLog ==
    /\ mode = "draining" /\ batch # <<>>
    /\ Head(batch) \in seen
    /\ batch' = Tail(batch)
    /\ UNCHANGED <<chain, stopped, lagVars, mode, fromBlock, pollHead, seen,
                   blockTimestamps, pendingTimers, delivered, faults>>

PollDone ==
    /\ mode = "draining" /\ batch = <<>>
    /\ fromBlock' = pollHead + 1
    /\ mode' = Resting
    /\ UNCHANGED <<chain, stopped, lagVars, batch, pollHead, seen,
                   blockTimestamps, pendingTimers, delivered, faults>>

WakeUp ==
    /\ mode = "sleeping"
    /\ mode' = "polling"
    /\ UNCHANGED <<chain, stopped, lagVars, fromBlock, batch, pollHead, seen,
                   blockTimestamps, pendingTimers, delivered, faults>>

\* stop() clears the timers; a coroutine inside an await goes on to its end.
Stop ==
    /\ ~stopped
    /\ stopped' = TRUE
    /\ pendingTimers' = <<>>
    /\ mode' = IF mode = "sleeping" THEN "ended" ELSE mode
    /\ UNCHANGED <<chain, lagVars, fromBlock, batch, pollHead, seen,
                   blockTimestamps, delivered, faults>>

-----------------------------------------------------------------------------
Init ==
    /\ chain = <<>>
    /\ mode = "starting" /\ stopped = FALSE
    /\ setting \in Settings /\ lag \in setting.lags
    /\ fromBlock = 1 /\ batch = <<>> /\ pollHead = 0
    /\ seen = {} /\ blockTimestamps = {}
    /\ pendingTimers = <<>>
    /\ delivered = [c \in Channels |-> <<>>]
    /\ faults = 0

\* What the coroutine does next when its call succeeds.
Proceed == \/ Start \/ ReplayLog \/ ReplayDone
           \/ Poll \/ PollLog \/ SkipSeenLog \/ PollDone \/ WakeUp

Clock == FireTimer \/ TimePasses

Next ==
    \/ \E n \in 0..setting.logs : Mine(n)
    \/ \E l \in setting.lags : ChangeLags(l)
    \/ Proceed
    \/ StartFails \/ ReplayLogFails \/ PollFails \/ PollLogFails
    \/ Clock
    \/ Stop

Spec == Init /\ [][Next]_vars

\* The event loop keeps running; failing calls are bounded by MaxFaults, so
\* this says that the RPC does not fail forever.
Fairness == WF_vars(Proceed) /\ WF_vars(Clock)

FairSpec == Spec /\ Fairness

-----------------------------------------------------------------------------
\* Properties

\* What a channel's listeners got and will get from a timer, each log with its
\* place in the order.
Outgoing(channel) ==
    {<<i, delivered[channel][i]>> : i \in DOMAIN delivered[channel]}
    \cup {<<Len(delivered[channel]) + i, pendingTimers[i].log>> :
            i \in {k \in DOMAIN pendingTimers : pendingTimers[k].channel = channel}}

\* Nobody moves the lag sliders.
LagsLeftAlone == setting.lags = {lag}

\* However polls are retried over ranges they covered before, no channel gets a
\* log twice (an Opened applied twice is a second session row); and with the
\* lags left alone each gets the logs in chain order, across replay, retries and
\* polls: a Settled never overtakes its Opened.
ChainOrder ==
    \A channel \in Channels : \A x, y \in Outgoing(channel) :
        /\ x[2] = y[2] => x = y
        /\ LagsLeftAlone /\ x[1] < y[1] => x[2] < y[2]

\* Wherever the sliders are, the flashblock lag is the smaller one.
LagsInOrder == \A l \in setting.lags : l["flashblock"] <= l["indexed"]

\* A log seen live reaches the flashblock channel no later than the indexed
\* channel, as long as its lag is the smaller one: the optimistic rows rely on
\* an indexed row never being news.
FlashblockFirst ==
    LagsInOrder => \A i \in DOMAIN pendingTimers :
        pendingTimers[i].channel = "flashblock" =>
          /\ \A n \in DOMAIN delivered["indexed"] :
                delivered["indexed"][n] # pendingTimers[i].log
          /\ \A j \in 1..(i - 1) : pendingTimers[j].log = pendingTimers[i].log =>
                pendingTimers[j].channel # "indexed"

\* Every log of the chain reaches the indexed listeners in the end, unless the
\* feed is stopped ("a failed poll simply retries the same range").
NothingLost ==
    \A log \in 1..(MaxBlocks * LogsPerBlock) :
        log \in Logs ~> stopped \/ log \in ToSet(delivered["indexed"])

\* Nothing is lost to polls that fail at their head or log query.
NothingLostToPolls ==
    \A log \in 1..(MaxBlocks * LogsPerBlock) :
        log \in Logs /\ setting.faults \subseteq {"poll"}
            ~> stopped \/ log \in ToSet(delivered["indexed"])

\* Nothing is sent once the feed is stopped and its replay is over.
QuietAfterStop ==
    [][stopped /\ mode # "replaying" => UNCHANGED delivered]_vars
=============================================================================
