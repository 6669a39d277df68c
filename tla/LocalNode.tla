----------------------------- MODULE LocalNode -----------------------------
(***************************************************************************)
(* The local backend (local-node/index.ts, game-contracts.ts): main finds  *)
(* or spawns a chain, deploys the casino, deploys the games found in the   *)
(* contracts folder and writes deployed.json; afterwards it watches the    *)
(* folder.  The developer edits files, chains and processes die, calls     *)
(* fail.  deployed.json and the folder outlive the process.                *)
(*                                                                         *)
(* An address is the deployer's nonce at deployment, so a fresh chain      *)
(* repeats the addresses of the one before; a file's hash is its content.  *)
(***************************************************************************)
EXTENDS Integers, Sequences, FiniteSets

CONSTANTS
    Missing,
    Files, Contents,    \* game sources (files are numbers, in sorted order)
    Broken,             \* contents that do not compile
    GamesIn,            \* for each content the names of its games
    NeedArgs,           \* names of contracts with constructor arguments
    Budgets             \* bounds: boots, edits, faults, chains put in the place
                        \* of the one there was; for the page starts, polls, choices

ASSUME LocalNodeAssumption ==
    /\ Files \subseteq Nat /\ Missing \notin Contents /\ Broken \subseteq Contents
    /\ DOMAIN GamesIn = Contents
    /\ Budgets \subseteq [{"boots", "edits", "faults", "chains", "starts", "polls", "choices"} -> Nat]

VARIABLES
    rpcChain,   \* the chain behind RPC_URL: its contracts, registrations, paid hosts
    ours,       \* chainProcess is a child of this process
    stage,      \* what main awaits
    infra,      \* addresses of this boot
    replaced,   \* history: somebody started another chain behind RPC_URL since
                \* this process found its own
    folder,
    deployed,   \* watchGameContracts: what each file was last deployed as
    scan,       \* the sync that runs
    debounce, queued,
    deployedFile,   \* deployed.json
    missed,     \* an edit went unnoticed or a call failed: see FolderIsPublished
    budget

scanVars == <<deployed, scan, debounce, queued>>
bootVars == <<ours, stage, infra, replaced>>
nodeVars == <<rpcChain, ours, stage, infra, replaced, folder, deployed, scan, debounce, queued,
              deployedFile, missed, budget>>

NoChain == [up |-> FALSE, nonce |-> 0, contracts |-> {}, registered |-> {}, paid |-> {}]
FreshChain == [NoChain EXCEPT !.up = TRUE]
NoInfra == [token |-> Missing, host |-> Missing, coinflip |-> Missing]
NoFile == [hash |-> Missing, games |-> {}]
NoScan == [on |-> FALSE, files |-> {}, changed |-> FALSE, file |-> Missing, hash |-> Missing,
           left |-> <<>>, fresh |-> Missing, games |-> {}]

Send == [rpcChain EXCEPT !.nonce = @ + 1]

\* Transactions of the deployer: a contract's address is the nonce it is sent with.
Deploy == [Send EXCEPT !.contracts = @ \cup {rpcChain.nonce}]
Register(address) == [Send EXCEPT !.registered = @ \cup {<<infra.host, address>>}]

\* A call of a contract: on another chain there may be none at the address, and
\* the transaction goes through to nobody.
Calls(effect) == rpcChain' = effect \/ (replaced /\ rpcChain' = Send)

\* The chain this process found, or spawned, is there.
ItsChain == rpcChain.up /\ ~replaced

NodeInit ==
    /\ rpcChain \in {NoChain, FreshChain} /\ ours = FALSE
    /\ stage = "probe" /\ infra = NoInfra /\ replaced = FALSE
    /\ folder \in [Files -> Contents \cup {Missing}]
    /\ deployed = [f \in Files |-> NoFile] /\ scan = NoScan
    /\ debounce = FALSE /\ queued = 0
    /\ deployedFile = Missing /\ missed = FALSE
    /\ budget \in Budgets

-----------------------------------------------------------------------------
\* ensureChain

Probe ==
    /\ stage = "probe"
    /\ stage' = IF rpcChain.up THEN "router" ELSE "waiting"
    /\ ours' = ~rpcChain.up
    /\ UNCHANGED <<rpcChain, infra, replaced, folder, scanVars, deployedFile, missed, budget>>

Wait ==
    /\ stage = "waiting" /\ rpcChain.up
    /\ stage' = "router"
    /\ UNCHANGED <<rpcChain, ours, infra, replaced, folder, scanVars, deployedFile, missed, budget>>

\* The spawned node comes up; or somebody starts a chain, perhaps in the place
\* of the one this process found: that has no exit handler, and main goes on.
ChainStarts ==
    /\ ~rpcChain.up
    /\ rpcChain' = FreshChain
    /\ IF stage \in {"probe", "waiting", "down"} THEN UNCHANGED <<replaced, budget>>
       ELSE /\ budget.chains > 0 /\ replaced' = TRUE
            /\ budget' = [budget EXCEPT !.chains = @ - 1]
    /\ UNCHANGED <<ours, stage, infra, folder, scanVars, deployedFile, missed>>

\* Its exit ends this process, if it is ours.
ChainExits ==
    /\ rpcChain.up /\ budget.faults > 0
    /\ rpcChain' = NoChain /\ budget' = [budget EXCEPT !.faults = @ - 1]
    /\ stage' = (IF ours THEN "down" ELSE stage) /\ ours' = FALSE
    /\ UNCHANGED <<infra, replaced, folder, scanVars, deployedFile, missed>>

-----------------------------------------------------------------------------
\* main

Steps == <<"router", "token", "host", "coinflip", "register", "mint", "fund", "deposit", "scan">>

StepOf(name) == CHOOSE i \in DOMAIN Steps : Steps[i] = name

\* One transaction of the deployment; the router is another account's.
SetUp ==
    /\ stage \in {Steps[i] : i \in 1..(Len(Steps) - 1)} /\ rpcChain.up
    /\ stage' = Steps[StepOf(stage) + 1]
    /\ CASE stage = "router" -> UNCHANGED rpcChain
         [] stage \in {"token", "host", "coinflip"} -> rpcChain' = Deploy
         [] stage = "register" -> Calls(Register(infra.coinflip))
         [] stage \in {"mint", "fund"} -> rpcChain' = Send
         [] stage = "deposit" -> Calls([Send EXCEPT !.paid = @ \cup {infra.host}])
    /\ infra' = IF stage \in DOMAIN infra THEN [infra EXCEPT ![stage] = rpcChain.nonce] ELSE infra
    /\ UNCHANGED <<ours, replaced, folder, scanVars, deployedFile, missed, budget>>

\* No chain at a remote URL, a rejected call, the 60 s over: the process exits
\* and leaves the chain it spawned alone.  So does a sync that throws, whose
\* rejection nobody handles.
Fails ==
    /\ stage # "down" /\ (ItsChain => budget.faults > 0)
    /\ stage' = "down" /\ ours' = FALSE
    /\ budget' = IF ItsChain THEN [budget EXCEPT !.faults = @ - 1] ELSE budget
    /\ UNCHANGED <<rpcChain, infra, replaced, folder, scanVars, deployedFile, missed>>

\* SIGINT, SIGTERM: the spawned chain goes too.
Shutdown ==
    /\ stage = "ready"
    /\ stage' = "down" /\ ours' = FALSE
    /\ rpcChain' = IF ours THEN NoChain ELSE rpcChain
    /\ UNCHANGED <<infra, replaced, folder, scanVars, deployedFile, missed, budget>>

Boot ==
    /\ stage = "down" /\ budget.boots > 0
    /\ stage' = "probe" /\ infra' = NoInfra /\ replaced' = FALSE /\ missed' = FALSE
    /\ deployed' = [f \in Files |-> NoFile] /\ scan' = NoScan
    /\ debounce' = FALSE /\ queued' = 0
    /\ budget' = [budget EXCEPT !.boots = @ - 1]
    /\ UNCHANGED <<rpcChain, ours, folder, deployedFile>>

-----------------------------------------------------------------------------
\* The contracts folder

\* Whoever edits: noticed if the folder is watched, and before a scan all the
\* same; a file that the first scan has passed is not looked at again.
Edit(f) ==
    /\ stage \in {"down", "scan", "ready"} /\ budget.edits > 0
    /\ budget' = [budget EXCEPT !.edits = @ - 1]
    /\ \E content \in (Contents \cup {Missing}) \ {folder[f]} :
          folder' = [folder EXCEPT ![f] = content]
    /\ debounce' = (stage = "ready")
    /\ missed' = (missed \/ (stage = "scan" /\ scan.on))
    /\ UNCHANGED <<rpcChain, bootVars, deployed, scan, queued, deployedFile>>

DebounceFires ==
    /\ stage = "ready" /\ debounce
    /\ debounce' = FALSE /\ queued' = queued + 1
    /\ UNCHANGED <<rpcChain, bootVars, folder, deployed, scan, deployedFile, missed, budget>>

\* sync lists the folder and forgets the files that are gone.
SyncBegins ==
    /\ ~scan.on /\ (stage = "scan" \/ (stage = "ready" /\ queued > 0))
    /\ queued' = IF stage = "ready" THEN queued - 1 ELSE queued
    /\ LET files == {f \in Files : folder[f] # Missing}
           stale == {f \in Files \ files : deployed[f] # NoFile}
       IN  /\ deployed' = [f \in Files |-> IF f \in stale THEN NoFile ELSE deployed[f]]
           /\ scan' = [NoScan EXCEPT !.on = TRUE, !.files = files, !.changed = stale # {}]
    /\ UNCHANGED <<rpcChain, bootVars, folder, debounce, deployedFile, missed, budget>>

Next1(files) == CHOOSE f \in files : \A g \in files : f <= g
Deployable(content) == SelectSeq(GamesIn[content], LAMBDA name : name \notin NeedArgs)

\* A file that is read: unreadable and unchanged ones are skipped, a broken
\* revision is remembered with the games there were.
ReadFile ==
    /\ scan.on /\ scan.file = Missing /\ scan.files # {}
    /\ LET f == Next1(scan.files)
           hash == folder[f]
           rest == [scan EXCEPT !.files = @ \ {f}]
       IN  IF hash = Missing \/ deployed[f].hash = hash
           THEN scan' = rest /\ UNCHANGED deployed
           ELSE IF hash \in Broken
           THEN scan' = rest /\ deployed' = [deployed EXCEPT ![f].hash = hash]
           ELSE /\ scan' = [rest EXCEPT !.file = f, !.hash = hash, !.left = Deployable(hash)]
                /\ UNCHANGED deployed
    /\ UNCHANGED <<rpcChain, bootVars, folder, debounce, queued, deployedFile, missed, budget>>

\* deployGamesFromFile: one contract after the other,
DeployGame ==
    /\ scan.file # Missing /\ scan.left # <<>> /\ scan.fresh = Missing /\ rpcChain.up
    /\ rpcChain' = Deploy
    /\ scan' = [scan EXCEPT !.fresh = rpcChain.nonce]
    /\ UNCHANGED <<bootVars, folder, deployed, debounce, queued, deployedFile, missed, budget>>

\* Mutation: a game counts before its registration has gone through.
RegisterGameUnawaited ==
    /\ scan.fresh # Missing /\ rpcChain.up
    /\ rpcChain' = Send
    /\ scan' = [scan EXCEPT !.fresh = Missing, !.left = Tail(@),
                            !.games = @ \cup {[name |-> Head(scan.left), address |-> scan.fresh]}]
    /\ UNCHANGED <<bootVars, folder, deployed, debounce, queued, deployedFile, missed, budget>>

\* and each is registered before the next.
RegisterGame ==
    /\ scan.fresh # Missing /\ rpcChain.up
    /\ Calls(Register(scan.fresh))
    /\ scan' = [scan EXCEPT !.fresh = Missing, !.left = Tail(@),
                            !.games = @ \cup {[name |-> Head(scan.left), address |-> scan.fresh]}]
    /\ UNCHANGED <<bootVars, folder, deployed, debounce, queued, deployedFile, missed, budget>>

\* All of the file's games are there.
FileDeployed ==
    /\ scan.file # Missing /\ scan.left = <<>>
    /\ deployed' = [deployed EXCEPT ![scan.file] = [hash |-> scan.hash, games |-> scan.games]]
    /\ scan' = [scan EXCEPT !.file = Missing, !.games = {}, !.changed = TRUE]
    /\ UNCHANGED <<rpcChain, bootVars, folder, debounce, queued, deployedFile, missed, budget>>

\* A call failed: the revision is remembered as broken, with the old games.
FileFails ==
    /\ scan.file # Missing /\ scan.left # <<>> /\ (ItsChain => budget.faults > 0)
    /\ deployed' = [deployed EXCEPT ![scan.file].hash = scan.hash]
    /\ scan' = [scan EXCEPT !.file = Missing, !.left = <<>>, !.fresh = Missing, !.games = {}]
    /\ missed' = TRUE
    /\ budget' = IF ItsChain THEN [budget EXCEPT !.faults = @ - 1] ELSE budget
    /\ UNCHANGED <<rpcChain, bootVars, folder, debounce, queued, deployedFile>>

currentGames == UNION {deployed[f].games : f \in Files}

writeDeployed ==
    [token |-> infra.token, host |-> infra.host,
     games |-> {[name |-> "CoinflipGame", address |-> infra.coinflip]} \cup currentGames]

\* The first sync is followed by deployed.json and the watch; a later one
\* writes the file if something changed.
SyncEnds ==
    /\ scan.on /\ scan.file = Missing /\ scan.files = {}
    /\ scan' = NoScan /\ stage' = "ready"
    /\ deployedFile' = IF stage = "scan" \/ scan.changed THEN writeDeployed ELSE deployedFile
    /\ UNCHANGED <<rpcChain, ours, infra, replaced, folder, deployed, debounce, queued, missed, budget>>

Running == stage \in {"scan", "ready"}

SyncStep == Running /\ (SyncBegins \/ ReadFile \/ DeployGame \/ RegisterGame \/ FileDeployed
                        \/ SyncEnds)

NodeNext ==
    \/ Probe \/ Wait \/ ChainStarts \/ ChainExits \/ SetUp \/ Fails \/ Shutdown \/ Boot
    \/ DebounceFires \/ SyncStep \/ (Running /\ FileFails)
    \/ \E f \in Files : Edit(f)

\* A process that runs goes on.
NodeFairness == WF_nodeVars(SyncStep) /\ WF_nodeVars(DebounceFires)
                /\ WF_nodeVars(Running /\ FileFails /\ ~rpcChain.up)

-----------------------------------------------------------------------------
\* What deployed.json names can be played, as long as its process runs: the
\* casino is deployed and paid up with the router, and every game in the list is
\* deployed and registered on that host (writeDeployed after the setup and the
\* syncs).  A chain that main spawned takes the process with it when it goes, so
\* that this holds whatever happens to it; if main only found its chain, nobody
\* may have started another in its place, of which the process learns nothing.
PublishedIsUsable ==
    stage = "ready" /\ rpcChain.up /\ (ours \/ ~replaced) =>
        /\ {deployedFile.token, deployedFile.host} \subseteq rpcChain.contracts
        /\ deployedFile.host \in rpcChain.paid
        /\ \A game \in deployedFile.games :
              <<deployedFile.host, game.address>> \in rpcChain.registered

Names(content) == {Deployable(content)[i] : i \in DOMAIN Deployable(content)}

\* The folder is on the list: a file that compiles has exactly its own games
\* there, one that is gone has none.
Reflected ==
    /\ deployedFile.games = writeDeployed.games
    /\ \A f \in Files :
          folder[f] \notin Broken =>
              {game.name : game \in deployed[f].games} =
                  IF folder[f] = Missing THEN {} ELSE Names(folder[f])
=============================================================================
