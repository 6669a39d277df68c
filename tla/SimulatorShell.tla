--------------------------- MODULE SimulatorShell ---------------------------
(***************************************************************************)
(* The simulator page (App.tsx, config.ts, SetupPanel.tsx) beside the      *)
(* local node: it polls deployed.json, fills the panel in and starts the   *)
(* harness by itself, shows the games there are, and starts it anew when   *)
(* the developer says so.  Creating a runtime takes several calls to the   *)
(* chain; each of the starts has its own.                                  *)
(***************************************************************************)
EXTENDS LocalNode

VARIABLES
    config,     \* the panel: the host and token, the game's address
    chosen,     \* the game the developer chose, if any
    detected, autoFilled,
    polls,      \* answers of deployed.json on their way, oldest first
    applied,    \* the number of the newest start
    effect,     \* the start whose effect ran last
    starts,     \* for each start its config and what became of its runtime
    runtime, starting, error

shellVars == <<config, chosen, detected, autoFilled, polls, applied, effect, starts, runtime,
               starting, error>>
stackVars == <<nodeVars, shellVars>>

NoConfig == [host |-> Missing, token |-> Missing, game |-> Missing]

ShellInit ==
    /\ config \in {NoConfig, [host |-> 1, token |-> 0, game |-> Missing]}
    /\ chosen = Missing /\ detected = Missing /\ autoFilled = FALSE /\ polls = <<>>
    /\ applied = 0 /\ effect = 0 /\ starts = <<>>
    /\ runtime = 0 /\ starting = FALSE /\ error = FALSE

-----------------------------------------------------------------------------
\* Polling

\* The request is served: the file as it is now, or 404.
PollServed ==
    /\ deployedFile # Missing /\ Len(polls) < budget.polls
    /\ polls' = Append(polls, deployedFile)
    /\ UNCHANGED <<nodeVars, config, chosen, detected, autoFilled, applied, effect, starts,
                   runtime, starting, error>>

\* The panel with the node's addresses; the game only if none was set.
Merged(contracts) ==
    [host |-> contracts.host, token |-> contracts.token,
     game |-> IF config.game # Missing THEN config.game
              ELSE (CHOOSE game \in contracts.games : game.name = "CoinflipGame").address]

Started(with) == Append(starts, [config |-> with, is |-> "applied"])

\* Mutation: polling is over when the panel is filled.
PollAnsweredOnce(i) ==
    /\ i \in DOMAIN polls
    /\ polls' = SubSeq(polls, 1, i - 1) \o SubSeq(polls, i + 1, Len(polls))
    /\ IF autoFilled THEN UNCHANGED <<detected, autoFilled, config, applied, starts>>
       ELSE /\ autoFilled' = TRUE /\ detected' = polls[i] /\ config' = Merged(polls[i])
            /\ IF applied # 0 THEN UNCHANGED <<applied, starts>>
               ELSE applied' = 1 /\ starts' = Started(Merged(polls[i]))
    /\ UNCHANGED <<nodeVars, chosen, effect, runtime, starting, error>>

\* Answers come in any order; the first one fills the panel and starts the
\* harness, unless the developer has.
PollAnswered(i) ==
    /\ i \in DOMAIN polls
    /\ polls' = SubSeq(polls, 1, i - 1) \o SubSeq(polls, i + 1, Len(polls))
    /\ detected' = polls[i]
    /\ IF autoFilled THEN UNCHANGED <<autoFilled, config, applied, starts>>
       ELSE /\ autoFilled' = TRUE /\ config' = Merged(polls[i])
            /\ IF applied # 0 THEN UNCHANGED <<applied, starts>>
               ELSE applied' = 1 /\ starts' = Started(Merged(polls[i]))
    /\ UNCHANGED <<nodeVars, chosen, effect, runtime, starting, error>>

-----------------------------------------------------------------------------
\* The developer

Typed == 99     \* an address that is none of the node's

\* A game of the list is picked, or typed in as long as there is no list.
SetGame ==
    /\ budget.choices > 0
    /\ budget' = [budget EXCEPT !.choices = @ - 1]
    /\ \E address \in IF detected = Missing THEN {Typed}
                      ELSE {game.address : game \in detected.games} \ {config.game} :
          config' = [config EXCEPT !.game = address] /\ chosen' = address
    /\ UNCHANGED <<rpcChain, bootVars, folder, scanVars, deployedFile, missed, detected, autoFilled,
                   polls, applied, effect, starts, runtime, starting, error>>

start ==
    /\ applied < budget.starts
    /\ applied' = applied + 1 /\ starts' = Started(config)
    /\ UNCHANGED <<nodeVars, config, chosen, detected, autoFilled, polls, effect, runtime,
                   starting, error>>

-----------------------------------------------------------------------------
\* The runtime of a start

\* The effect of a new start: the cleanup of the one before it, which stops the
\* runtime that came of it and cancels one that is still to come.
StartEffect ==
    /\ effect # applied
    /\ effect' = applied /\ starting' = TRUE /\ error' = FALSE
    /\ starts' = [s \in DOMAIN starts |->
          IF s = applied THEN [starts[s] EXCEPT !.is = "pending"]
          ELSE IF s = effect /\ starts[s].is = "live" THEN [starts[s] EXCEPT !.is = "stopped"]
          ELSE starts[s]]
    /\ runtime' = IF runtime = effect THEN 0 ELSE runtime
    /\ UNCHANGED <<nodeVars, config, chosen, detected, autoFilled, polls, applied>>

\* createSimulatorRuntime: the addresses, the chain and the token are there.
Creatable(s) ==
    /\ starts[s].config.host # Missing /\ rpcChain.up
    /\ starts[s].config.token \in rpcChain.contracts

\* A game the host does not know is registered on the fly.
RegisteredOnTheFly(with) ==
    IF with.game = Missing \/ with.host \notin rpcChain.contracts
       \/ <<with.host, with.game>> \in rpcChain.registered
    THEN rpcChain ELSE [Send EXCEPT !.registered = @ \cup {<<with.host, with.game>>}]

\* Mutation: a runtime of an older start is not stopped.
CreatedUnchecked(s) ==
    /\ starts[s].is = "pending" /\ Creatable(s)
    /\ rpcChain' = RegisteredOnTheFly(starts[s].config)
    /\ starts' = [starts EXCEPT ![s].is = "live"]
    /\ runtime' = s /\ starting' = FALSE
    /\ UNCHANGED <<bootVars, folder, scanVars, deployedFile, missed, budget, config, chosen,
                   detected, autoFilled, polls, applied, effect, error>>

\* The runtime is there: stopped at once if its start was cancelled.
Created(s) ==
    /\ starts[s].is = "pending" /\ Creatable(s)
    /\ rpcChain' = RegisteredOnTheFly(starts[s].config)
    /\ starts' = [starts EXCEPT ![s].is = IF s = effect THEN "live" ELSE "stopped"]
    /\ runtime' = (IF s = effect THEN s ELSE runtime)
    /\ starting' = (starting /\ s # effect)
    /\ UNCHANGED <<bootVars, folder, scanVars, deployedFile, missed, budget, config, chosen,
                   detected, autoFilled, polls, applied, effect, error>>

CreateFails(s) ==
    /\ starts[s].is = "pending" /\ (Creatable(s) => budget.faults > 0)
    /\ starts' = [starts EXCEPT ![s].is = "failed"]
    /\ budget' = IF Creatable(s) THEN [budget EXCEPT !.faults = @ - 1] ELSE budget
    /\ error' = (error \/ s = effect) /\ starting' = (starting /\ s # effect)
    /\ UNCHANGED <<rpcChain, bootVars, folder, scanVars, deployedFile, missed, config, chosen,
                   detected, autoFilled, polls, applied, effect, runtime>>

ShellNext ==
    \/ PollServed \/ SetGame \/ start \/ StartEffect
    \/ \E i \in DOMAIN polls : PollAnswered(i)
    \/ \E s \in DOMAIN starts : Created(s) \/ CreateFails(s)

StackInit == NodeInit /\ ShellInit
StackNext == (NodeNext /\ UNCHANGED shellVars) \/ ShellNext

\* The page polls on and on; effects run, calls end.
ShellFairness ==
    /\ WF_stackVars(PollServed) /\ WF_stackVars(PollAnswered(1))
    /\ WF_stackVars(StartEffect)
    /\ WF_stackVars(\E s \in DOMAIN starts : Created(s) \/ CreateFails(s))

StackSpec == StackInit /\ [][StackNext]_stackVars /\ NodeFairness /\ ShellFairness

-----------------------------------------------------------------------------
\* One harness at a time: only the newest start whose effect ran has a live
\* runtime (its event feed and store), whatever the order in which runtimes come
\* and starts are made (the effect on appliedConfig); and the page tells the
\* truth about that start: "starting…" while its runtime is awaited, the error
\* if it failed, else the runtime is mounted.
OneRuntime ==
    /\ \A s \in DOMAIN starts : starts[s].is = "live" => s = effect
    /\ runtime # 0 => starts[runtime].is = "live"
    /\ effect # 0 =>
         LET is == starts[effect].is
         IN  (starting <=> is = "pending") /\ (error <=> is = "failed")
             /\ (runtime = effect <=> is = "live")

\* "So games dropped into contracts/ show up in the picker live" (App.tsx): once
\* the edits stop, the list comes to reflect them and the page shows the list, but
\* for what a failed call or an edit during the first scan took away.
DroppedGamesShowUp ==
    <>[](stage = "ready" /\ ~missed => Reflected /\ detected = deployedFile)
=============================================================================
