---------------------------- MODULE DeployScript ----------------------------
(***************************************************************************)
(* scripts/deploy-ledge.ts: deploys LedgeGame to the network behind        *)
(* LEDGE_RPC_URL and records the address in deployments/<chainId>.json.    *)
(* The script is run again and again, with whatever the environment says;  *)
(* any call may fail, and a run may be killed between two of them, also    *)
(* while the transaction it has sent is still pending.                     *)
(***************************************************************************)
EXTENDS Integers, FiniteSets

CONSTANTS Networks,         \* chain ids
          Confirms,         \* values of LEDGE_CONFIRM; 0 for none
          Funds,            \* balances the deployer may hold
          Costs,            \* estimates of the deployment
          MaxRuns           \* bound on runs of the script

ASSUME DeployAssumption ==
    /\ Networks \subseteq Nat \ {0} /\ Confirms \subseteq Nat
    /\ Funds \subseteq Nat /\ Costs \subseteq Nat \ {0} /\ MaxRuns \in Nat

VARIABLES
    script,                 \* the run: [at, network, confirm, balance, cost, tx]
    runs,                   \* runs started so far
    holdings,               \* network -> the deployer's balance
    pending,                \* transactions sent and not mined
    mined,                  \* [tx, network, success]
    deployments,            \* network -> [tx] of the file, or Unrecorded
    asked                   \* history: tx -> [network, confirm, balance, cost]

deployVars == <<script, runs, holdings, pending, mined, deployments, asked>>

Idle == [at |-> "idle", network |-> 0, confirm |-> 0, balance |-> 0, cost |-> 0, tx |-> 0]
Unrecorded == 0

\* readConfig and getChainId; a run with a bad configuration ends at once.
StartRun(network, confirm) ==
    /\ script.at = "idle" /\ runs < MaxRuns
    /\ runs' = runs + 1
    /\ script' = [Idle EXCEPT !.at = "balance", !.network = network, !.confirm = confirm]
    /\ UNCHANGED <<holdings, pending, mined, deployments, asked>>

ReadBalance ==
    /\ script.at = "balance"
    /\ script' = IF holdings[script.network] = 0 THEN Idle
                 ELSE [script EXCEPT !.at = "estimate", !.balance = holdings[script.network]]
    /\ UNCHANGED <<runs, holdings, pending, mined, deployments, asked>>

\* Mutation: any confirmation will do.
EstimateUnlessUnconfirmed(cost) ==
    /\ script.at = "estimate"
    /\ script' = IF script.balance < cost \/ script.confirm = 0 THEN Idle
                 ELSE [script EXCEPT !.at = "send", !.cost = cost]
    /\ UNCHANGED <<runs, holdings, pending, mined, deployments, asked>>

\* Compile, estimate gas and fees; a dry run ends here.
Estimate(cost) ==
    /\ script.at = "estimate"
    /\ script' = IF script.balance < cost \/ script.confirm # script.network THEN Idle
                 ELSE [script EXCEPT !.at = "send", !.cost = cost]
    /\ UNCHANGED <<runs, holdings, pending, mined, deployments, asked>>

\* A run sends at most one transaction, which is named after the run.
Send ==
    /\ script.at = "send"
    /\ script' = [script EXCEPT !.at = "receipt", !.tx = runs]
    /\ pending' = pending \cup {[tx |-> runs, network |-> script.network]}
    /\ asked' = [asked EXCEPT ![runs] = script]
    /\ UNCHANGED <<runs, holdings, mined, deployments>>

\* The receipt arrives; the file is written if the deployment succeeded.
Record ==
    /\ script.at = "receipt"
    /\ \E m \in mined :
         /\ m.tx = script.tx
         /\ deployments' = IF m.success
                           THEN [deployments EXCEPT ![script.network] = script.tx]
                           ELSE deployments
    /\ script' = Idle
    /\ UNCHANGED <<runs, holdings, pending, mined, asked>>

\* A call rejects (the script prints and exits), or the process is killed.
Ends ==
    /\ script.at # "idle" /\ script' = Idle
    /\ UNCHANGED <<runs, holdings, pending, mined, deployments, asked>>

MineDeployment(t, success) ==
    /\ pending' = pending \ {t}
    /\ mined' = mined \cup {[tx |-> t.tx, network |-> t.network, success |-> success]}
    /\ UNCHANGED <<script, runs, holdings, deployments, asked>>

Fund(network, amount) ==
    /\ holdings' = [holdings EXCEPT ![network] = amount]
    /\ UNCHANGED <<script, runs, pending, mined, deployments, asked>>

DeployInit ==
    /\ script = Idle /\ runs = 0
    /\ holdings = [n \in Networks |-> 0]
    /\ pending = {} /\ mined = {}
    /\ deployments = [n \in Networks |-> Unrecorded]
    /\ asked = [n \in 1..MaxRuns |-> Idle]

DeployNext ==
    \/ \E network \in Networks, confirm \in Confirms : StartRun(network, confirm)
    \/ ReadBalance
    \/ \E cost \in Costs : Estimate(cost)
    \/ Send
    \/ Record
    \/ Ends
    \/ \E t \in pending, success \in BOOLEAN : MineDeployment(t, success)
    \/ \E network \in Networks, amount \in Funds : Fund(network, amount)

DeploySpec == DeployInit /\ [][DeployNext]_deployVars

-----------------------------------------------------------------------------
\* Properties

\* "A mainnet deploy can never happen by accident": whatever is on a chain or on
\* its way there was confirmed for that very chain, with the funds for it.
NothingSentUnasked ==
    \A t \in pending \cup {[tx |-> m.tx, network |-> m.network] : m \in mined} :
        /\ asked[t.tx].confirm = t.network
        /\ asked[t.tx].balance >= asked[t.tx].cost

\* The file of a chain names a contract that is deployed on that very chain,
\* whichever runs were killed, failed or had their deployment reverted meanwhile.
RecordsAreDeployed ==
    \A n \in Networks : deployments[n] # Unrecorded =>
        [tx |-> deployments[n], network |-> n, success |-> TRUE] \in mined

\* Every deployment was asked for, and every record is of a deployment.
DeploymentsAreInOrder == NothingSentUnasked /\ RecordsAreDeployed
=============================================================================
