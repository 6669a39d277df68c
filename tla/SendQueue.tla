----------------------------- MODULE SendQueue -----------------------------
(***************************************************************************)
(* sendActions (runtime.ts): the actions of a bet, each a transaction of   *)
(* the player's account, one after the other's receipt; batches wait for   *)
(* each other in the one queue of a runtime.  Calls fail, a transaction    *)
(* whose call failed may be mined all the same, transactions revert.       *)
(***************************************************************************)
EXTENDS Integers, Sequences, FiniteSets

CONSTANTS
    Batches,
    ActionsOf,      \* for each batch its actions: what is called, the amount
    MaxSendFaults   \* bound

Action == [call : {"approve", "open", "other"}, amount : Nat]

\* The host builds a bet as the approval of its stake and the call that takes it.
ASSUME SendQueueAssumption ==
    /\ ActionsOf \in [Batches -> Seq(Action) \ {<<>>}]
    /\ \A b \in Batches : \A i \in DOMAIN ActionsOf[b] :
         ActionsOf[b][i].call = "open" =>
           i > 1 /\ ActionsOf[b][i - 1] = [ActionsOf[b][i] EXCEPT !.call = "approve"]
    /\ MaxSendFaults \in Nat

VARIABLES
    sends,      \* the promise of each batch
    queue,      \* pending batches in the order of the calls
    step,       \* the action of each batch that is next or awaited
    awaited,    \* the transaction whose receipt a batch awaits, or 0
    sent,       \* transactions in the order of their nonces
    mined,      \* for those mined, the allowance they found and if they succeeded
    allowance,  \* what the host may take from the player
    troubled,   \* batches one of whose own calls went wrong
    sendFaults

queueVars == <<sends, queue, step, awaited, sent, mined, allowance, troubled, sendFaults>>

QueueInit ==
    /\ sends = [b \in Batches |-> "none"] /\ queue = <<>>
    /\ step = [b \in Batches |-> 1] /\ awaited = [b \in Batches |-> 0]
    /\ sent = <<>> /\ mined = <<>> /\ allowance = 0
    /\ troubled = {} /\ sendFaults = MaxSendFaults

sendActions(b) ==
    /\ sends[b] = "none"
    /\ sends' = [sends EXCEPT ![b] = "pending"]
    /\ queue' = Append(queue, b)
    /\ UNCHANGED <<step, awaited, sent, mined, allowance, troubled, sendFaults>>

\* Mutation: a batch does not wait for those before it.
HasTurnAtOnce(b) == sends[b] = "pending"

HasTurn(b) == queue # <<>> /\ b = Head(queue)

Transaction(b) == [batch |-> b, action |-> ActionsOf[b][step[b]]]

\* The next action of a batch is broadcast.
Broadcast(b) ==
    /\ HasTurn(b) /\ awaited[b] = 0
    /\ sent' = Append(sent, Transaction(b))
    /\ awaited' = [awaited EXCEPT ![b] = Len(sent) + 1]
    /\ UNCHANGED <<sends, queue, step, mined, allowance, troubled, sendFaults>>

\* Mutation: the queue goes on after a batch that is done only.
EndsIfDone(b, result) ==
    /\ sends' = [sends EXCEPT ![b] = result]
    /\ queue' = IF result = "failed" THEN queue ELSE Tail(queue)
    /\ awaited' = [awaited EXCEPT ![b] = IF result = "failed" THEN @ ELSE 0]

\* The promise is settled, and the next batch's turn comes in any case.
Ends(b, result) ==
    /\ sends' = [sends EXCEPT ![b] = result]
    /\ queue' = Tail(queue)
    /\ awaited' = [awaited EXCEPT ![b] = 0]

ReceiptArrives(b) ==
    /\ sends[b] = "pending" /\ awaited[b] \in DOMAIN mined
    /\ IF ~mined[awaited[b]].success THEN Ends(b, "failed") /\ UNCHANGED step
       ELSE IF step[b] = Len(ActionsOf[b]) THEN Ends(b, "done") /\ UNCHANGED step
       ELSE /\ step' = [step EXCEPT ![b] = @ + 1] /\ awaited' = [awaited EXCEPT ![b] = 0]
            /\ UNCHANGED <<sends, queue>>
    /\ UNCHANGED <<sent, mined, allowance, troubled, sendFaults>>

\* The call is rejected: of the broadcast, which may have reached the node, or
\* of the wait for the receipt.
CallFails(b) ==
    /\ HasTurn(b) /\ sendFaults > 0
    /\ sendFaults' = sendFaults - 1 /\ troubled' = troubled \cup {b}
    /\ sent' \in {sent} \cup (IF awaited[b] = 0 THEN {Append(sent, Transaction(b))} ELSE {})
    /\ Ends(b, "failed")
    /\ UNCHANGED <<step, mined, allowance>>

\* The chain mines in the order of the nonces; what is opened takes its amount,
\* and anything may revert for reasons of its own.
Mine ==
    /\ Len(mined) < Len(sent)
    /\ LET tx == sent[Len(mined) + 1]
           action == tx.action
           enough == action.call = "open" => allowance >= action.amount
       IN  \E success \in {enough} \cup (IF sendFaults > 0 THEN {FALSE} ELSE {}) :
             /\ mined' = Append(mined, [batch |-> tx.batch, action |-> action,
                                        allowance |-> allowance, success |-> success])
             /\ allowance' = IF ~success THEN allowance
                             ELSE IF action.call = "approve" THEN action.amount
                             ELSE IF action.call = "open" THEN allowance - action.amount
                             ELSE allowance
             /\ sendFaults' = IF success = enough THEN sendFaults ELSE sendFaults - 1
             /\ troubled' = IF success = enough THEN troubled ELSE troubled \cup {tx.batch}
    /\ UNCHANGED <<sends, queue, step, awaited, sent>>

QueueNext ==
    \/ Mine
    \/ \E b \in Batches : sendActions(b) \/ Broadcast(b) \/ ReceiptArrives(b) \/ CallFails(b)

QueueSpec == QueueInit /\ [][QueueNext]_queueVars

\* Calls end and the chain goes on.
QueueFairness ==
    /\ WF_queueVars(\E b \in Batches : Broadcast(b)) /\ WF_queueVars(Mine)
    /\ WF_queueVars(\E b \in Batches : ReceiptArrives(b))

-----------------------------------------------------------------------------
\* "The whole harness shares one queue so pipelined bets never race"
\* (runtime.ts): the session of a bet is opened with the allowance of that bet,
\* whatever was sent before it, got lost or reverted.
EachBetSpendsItsOwnApproval ==
    \A i \in DOMAIN mined :
        mined[i].action.call = "open" => mined[i].allowance = mined[i].action.amount

\* Every promise of sendActions is settled, and a batch only fails through a call
\* or transaction of its own.
EveryBatchSettles ==
    \A b \in Batches :
        sends[b] = "pending" ~> sends[b] = "done" \/ (sends[b] = "failed" /\ b \in troubled)
=============================================================================
