--------------------------- MODULE MC_SessionFeed ---------------------------
(***************************************************************************)
(* Instances of SessionFeed: lags in ticks of a small clock.               *)
(***************************************************************************)
EXTENDS SessionFeed

Lag(flash, index) == [c \in Channels |-> IF c = "flashblock" THEN flash ELSE index]

\* The defaults' shape: prompt flashblocks, a slower indexer.
FixedLags == {Lag(1, 2)}

\* The user moves the sliders while events are under way.
ChangingLags == {Lag(0, 0), Lag(0, 2), Lag(2, 2)}

\* Fixed lags and a poll that fails now and then; or lags that change and
\* any failing call.
MC_Settings ==
    {[logs |-> 2, lags |-> FixedLags, faults |-> {"poll"}],
     [logs |-> 1, lags |-> ChangingLags, faults |-> {"start", "poll", "block"}]}

MC_BlockFault == {[logs |-> 1, lags |-> FixedLags, faults |-> {"block"}]}
=============================================================================
