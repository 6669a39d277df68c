---------------------------- MODULE MC_Simulator ----------------------------
(***************************************************************************)
(* Small instances of the simulator's parts around the host: the local     *)
(* node with the page that starts the harness, the bridge to the game's    *)
(* frame, the frame's height, and the queue of transactions; and what the  *)
(* host shows while its channels lag.  A behaviour is one of one part.     *)
(***************************************************************************)
EXTENDS MC_HostSnapshot, SimulatorShell, GameBridge, FrameHeight, SendQueue, TLC

VARIABLE part

\* A developer at the folder; one at the panel.
Budget(b, e, f, r, s, p, c) ==
    [boots |-> b, edits |-> e, faults |-> f, chains |-> r, starts |-> s, polls |-> p, choices |-> c]
MC_Budgets == {Budget(0, 2, 1, 0, 0, 1, 0), Budget(0, 1, 1, 1, 0, 1, 0), Budget(1, 0, 0, 0, 1, 2, 0),
               Budget(0, 0, 1, 0, 2, 1, 1)}
MC_GamesIn == ("two" :> <<"A", "B", "C">>) @@ ("broken" :> <<>>)

\* A narrow frame: rounding errors; a turn of fullscreen.
Page(heights, errors, changes, screens) ==
    [screen |-> 900, beside |-> 300, cap |-> 9999, base |-> 560, games |-> heights,
     rounding |-> errors, layouts |-> changes, turns |-> screens]
NoPage == Page({500}, {}, 0, 0)     \* nothing is ever measured
MC_Pages == {Page({500, 700}, {0, 1}, 1, 0), Page({500, 700, 950}, {0}, 1, 1), NoPage}

Call(name, value) == [call |-> name, amount |-> value]
MC_ActionsOf ==
    ("small" :> <<Call("approve", 1), Call("open", 1)>>)
    @@ ("large" :> <<Call("approve", 2), Call("open", 2)>>)
    @@ ("action" :> <<Call("other", 0)>>)

\* The other parts rest in an initial state.
NoNode == budget = Budget(0, 0, 1, 0, 2, 1, 1) /\ rpcChain = NoChain /\ config = NoConfig
          /\ folder = [f \in Files |-> Missing]
SimulatorInit ==
    /\ StackInit /\ BridgeInit /\ FrameInit /\ QueueInit /\ Init
    /\ part \in {"node", "bridge", "frame", "queue", "snapshot"}
    /\ part # "node" => NoNode
    /\ part = "frame" <=> page # NoPage

SimulatorNext ==
    /\ UNCHANGED part
    /\ \/ part = "node" /\ StackNext /\ UNCHANGED <<bridgeVars, frameVars, queueVars, vars>>
       \/ part = "bridge" /\ BridgeNext /\ UNCHANGED <<stackVars, frameVars, queueVars, vars>>
       \/ part = "frame" /\ FrameNext /\ UNCHANGED <<stackVars, bridgeVars, queueVars, vars>>
       \/ part = "queue" /\ QueueNext /\ UNCHANGED <<stackVars, bridgeVars, frameVars, vars>>
       \/ part = "snapshot" /\ Next /\ UNCHANGED <<stackVars, bridgeVars, frameVars, queueVars>>

\* HostSnapshot's Fairness: in the other parts none of these steps changes anything.
SnapshotFairness ==
    /\ WF_vars(part = "snapshot" /\ \E i \in DOMAIN chain : IndexDeliver(i))
    /\ WF_vars(part = "snapshot" /\ Render) /\ WF_vars(part = "snapshot" /\ PruneEffect)

SimulatorSpec ==
    /\ SimulatorInit
    /\ [][SimulatorNext]_<<part, stackVars, bridgeVars, frameVars, queueVars, vars>>
    /\ NodeFairness /\ ShellFairness /\ BridgeFairness /\ FrameFairness /\ QueueFairness
    /\ SnapshotFairness
=============================================================================
