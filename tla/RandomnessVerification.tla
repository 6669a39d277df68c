----------------------- MODULE RandomnessVerification -----------------------
(***************************************************************************)
(* getRandomnessVerification of the simulator's host                       *)
(* (randomness-verification.ts, verify-network-router.ts): the requests of *)
(* a session are verified side by side, each from the log and the calldata *)
(* of its fulfilment.  Reads may fail, and the chain may be restarted      *)
(* between them.  Hashes are symbolic: a request id is the record it is    *)
(* computed from, a signature names its key and what was signed.           *)
(***************************************************************************)
EXTENDS Ecvrf, Sequences

CONSTANTS Scenarios         \* [requests, chain, routerAddress], see VerifyInit

chainId == 1
Router == "router"
Absent == -1

VARIABLES
    requests,               \* what the game asks about: i -> request
    transactions,           \* on chain: hash -> [call, fulfillments, logs]
    routerRead,             \* router() of the host: "pending", "set", "zero", "failed"
    stage,                  \* i -> "start", "lookup", "reads", "done"
    hash,                   \* i -> transaction looked up
    receipt, input,         \* i -> what the two reads returned, or Nothing
    verdict,                \* i -> the answer for the request
    fault                   \* history: i -> one of its reads failed

verifyVars == <<requests, transactions, routerRead, stage, hash, receipt, input,
                verdict, fault>>

Nothing == <<>>

-----------------------------------------------------------------------------
\* verify-network-router.ts

\* keccak256 of the chain, the router and every field of the request.
computeRequestId(request) == [chain |-> chainId, router |-> Router, request |-> request]

SignedBy(key, id, proof) == [key |-> key, form |-> "canonical", id |-> id, proof |-> proof]

\* The key a signature over this id and proof recovers to; none for a signature
\* the router would reject.  Over other data it recovers to a key nobody has.
recoverFulfillmentSigner(id, proof, signature) ==
    IF signature.form = "canonical" /\ signature.id = id /\ signature.proof = proof
    THEN {signature.key} ELSE {}

-----------------------------------------------------------------------------
\* randomness-verification.ts

LogIndexes(logs, id) ==
    {n \in 1..Len(logs) : logs[n].address = Router /\ logs[n].requestId = id}

\* The first matching log of the router, or none.
findFulfillmentLog(logs, id) ==
    LET found == LogIndexes(logs, id)
    IN  {logs[n] : n \in {k \in found : \A other \in found : k <= other}}

\* Nobody forges: a proof that holds under the key of the node assigned gives
\* that node's word (the uniqueness that an ECVRF promises).
Unforged(log) ==
    LET key == log.requestId.request.fulfiller
    IN  Verify(key, log.proof, log.requestId) =>
            DeriveRandomness(log.proof) = DeriveRandomness(Prove(key, log.requestId))

\* The assigned node's own answer to r, untouched, in a fulfilment that echoes r.
HonestAnswer(r, transaction, log) ==
    LET id == computeRequestId(r)
        proof == Prove(r.fulfiller, id)
    IN  /\ log.proof = proof /\ log.randomness = DeriveRandomness(proof)
        /\ log.signature = SignedBy(r.fulfiller, id, proof)
        /\ transaction.call # "other"
        /\ \E n \in 1..Len(transaction.fulfillments) : transaction.fulfillments[n] = r

\* Honest: the node could answer and did so, and the game used its word.
HonestRequest(scenario, request) ==
    LET r == request.requestId.request
    IN  /\ request.requestId = computeRequestId(r)
        /\ r.fulfiller \in Points /\ isFulfillable(r.fulfiller, request.requestId)
        /\ request.randomness
              \in {Absent, DeriveRandomness(Prove(r.fulfiller, request.requestId))}
        /\ \A h \in DOMAIN scenario.chain :
             \A n \in LogIndexes(scenario.chain[h].logs, request.requestId) :
                HonestAnswer(r, scenario.chain[h], scenario.chain[h].logs[n])

ASSUME VerificationAssumption ==
    \A scenario \in Scenarios :
       /\ \A h \in DOMAIN scenario.chain :
             \A n \in 1..Len(scenario.chain[h].logs) : Unforged(scenario.chain[h].logs[n])
       /\ \A i \in DOMAIN scenario.requests :
             scenario.requests[i].honest => HonestRequest(scenario, scenario.requests[i])

\* Mutation: the request is taken from its place, not by its id.
findFirstRequest(transaction, id) ==
    IF transaction.call = "other" THEN {} ELSE {transaction.fulfillments[1]}

\* The request echoed in a single or batched fulfilment, bound by its id.
findEchoedRequest(transaction, id) ==
    IF transaction.call = "other" THEN {}
    ELSE {r \in {transaction.fulfillments[n] : n \in 1..Len(transaction.fulfillments)} :
            computeRequestId(r) = id}

Checks(request, log, echo) ==
    LET id == request.requestId
        signer == recoverFulfillmentSigner(id, log.proof, log.signature)
        proven == \E key \in signer : Verify(key, log.proof, id)
    IN  [vrfProofValid |-> proven,
         vrfBetaMatchesRandomness |->
            proven /\ DeriveRandomness(log.proof) = log.randomness
                   /\ (request.randomness = Absent \/ request.randomness = log.randomness),
         enclaveSignatureValid |-> signer # {},
         signerMatchesFulfiller |-> \E key \in signer, r \in echo : key = r.fulfiller]

Passes(checks) ==
    /\ checks.vrfProofValid /\ checks.vrfBetaMatchesRandomness
    /\ checks.enclaveSignatureValid /\ checks.signerMatchesFulfiller

\* `{ ...request }`: nothing checked, rendered as "could not verify".
Unchecked(request) == [randomness |-> request.randomness, checked |-> FALSE, valid |-> FALSE]

GiveUp(i) ==
    /\ verdict' = [verdict EXCEPT ![i] = Unchecked(requests[i])]
    /\ stage' = [stage EXCEPT ![i] = "done"]

\* With both reads in, the rest runs without waiting.
Judge(i, transaction, logs) ==
    LET request == requests[i]
        echo == findEchoedRequest(transaction, request.requestId)
    IN  IF findFulfillmentLog(logs, request.requestId) = {}
        THEN GiveUp(i)
        ELSE \E log \in findFulfillmentLog(logs, request.requestId) :
               /\ verdict' = [verdict EXCEPT ![i] =
                    [randomness |-> IF request.randomness = Absent THEN log.randomness
                                    ELSE request.randomness,
                     checked |-> TRUE,
                     valid |-> Passes(Checks(request, log, echo))]]
               /\ stage' = [stage EXCEPT ![i] = "done"]

-----------------------------------------------------------------------------
Working(i, at) == routerRead = "set" /\ stage[i] = at

\* verifySessionRandomness reads the router's address first: it rejects if that
\* fails and answers "not supported" without one.
ReadRouter(outcome) ==
    /\ routerRead = "pending" /\ routerRead' = outcome
    /\ UNCHANGED <<requests, transactions, stage, hash, receipt, input, verdict, fault>>

Begin(i) ==
    LET request == requests[i]
    IN  /\ Working(i, "start")
        /\ \/ ~request.fulfilled /\ GiveUp(i) /\ UNCHANGED hash
           \/ /\ request.fulfilled
              /\ stage' = [stage EXCEPT ![i] = IF request.hash = Absent THEN "lookup"
                                               ELSE "reads"]
              /\ hash' = [hash EXCEPT ![i] = request.hash]
              /\ UNCHANGED verdict
        /\ UNCHANGED <<requests, transactions, routerRead, receipt, input, fault>>

\* The latest fulfilment log of the id names the transaction.
Lookup(i) ==
    LET with == {h \in DOMAIN transactions :
                   LogIndexes(transactions[h].logs, requests[i].requestId) # {}}
    IN  /\ Working(i, "lookup")
        /\ \/ with = {} /\ GiveUp(i) /\ UNCHANGED hash
           \/ /\ with # {}
              /\ hash' = [hash EXCEPT ![i] = CHOOSE h \in with : \A o \in with : o <= h]
              /\ stage' = [stage EXCEPT ![i] = "reads"]
              /\ UNCHANGED verdict
        /\ UNCHANGED <<requests, transactions, routerRead, receipt, input, fault>>

ReadReceipt(i) ==
    /\ Working(i, "reads") /\ receipt[i] = Nothing
    /\ hash[i] \in DOMAIN transactions
    /\ receipt' = [receipt EXCEPT ![i] = <<transactions[hash[i]].logs>>]
    /\ IF input[i] = Nothing THEN UNCHANGED <<stage, verdict>>
       ELSE Judge(i, input[i][1], transactions[hash[i]].logs)
    /\ UNCHANGED <<requests, transactions, routerRead, hash, input, fault>>

ReadTransaction(i) ==
    /\ Working(i, "reads") /\ input[i] = Nothing
    /\ hash[i] \in DOMAIN transactions
    /\ input' = [input EXCEPT ![i] = <<[call |-> transactions[hash[i]].call,
                   fulfillments |-> transactions[hash[i]].fulfillments]>>]
    /\ IF receipt[i] = Nothing THEN UNCHANGED <<stage, verdict>>
       ELSE Judge(i, input'[i][1], receipt[i][1])
    /\ UNCHANGED <<requests, transactions, routerRead, hash, receipt, fault>>

\* A read rejects, by itself or because the transaction is not known.
ReadFails(i) ==
    /\ routerRead = "set" /\ stage[i] \in {"lookup", "reads"}
    /\ GiveUp(i)
    /\ fault' = [fault EXCEPT ![i] = TRUE]
    /\ UNCHANGED <<requests, transactions, routerRead, hash, receipt, input>>

\* The local chain is restarted: its transactions are gone.
ChainRestarts ==
    /\ DOMAIN transactions # {}
    /\ transactions' = <<>>
    /\ UNCHANGED <<requests, routerRead, stage, hash, receipt, input, verdict, fault>>

VerifyInit ==
    /\ \E scenario \in Scenarios :
         requests = scenario.requests /\ transactions = scenario.chain
    /\ routerRead = "pending"
    /\ stage = [i \in DOMAIN requests |-> "start"]
    /\ hash = [i \in DOMAIN requests |-> Absent]
    /\ receipt = [i \in DOMAIN requests |-> Nothing]
    /\ input = [i \in DOMAIN requests |-> Nothing]
    /\ verdict = [i \in DOMAIN requests |-> Unchecked(requests[i])]
    /\ fault = [i \in DOMAIN requests |-> FALSE]

Proceed(i) ==
    Begin(i) \/ Lookup(i) \/ ReadReceipt(i) \/ ReadTransaction(i) \/ ReadFails(i)

VerifyNext ==
    \/ \E outcome \in {"set", "zero", "failed"} : ReadRouter(outcome)
    \/ \E i \in DOMAIN requests : Proceed(i)
    \/ ChainRestarts

VerifySpec == VerifyInit /\ [][VerifyNext]_verifyVars

-----------------------------------------------------------------------------
\* Properties

Judged(i) == stage[i] = "done" /\ verdict[i].checked

\* The random word of a request: what the assigned node's key determines for
\* this id and no one can choose.
WordOf(request) ==
    LET r == request.requestId.request
    IN  DeriveRandomness(Prove(r.fulfiller, computeRequestId(r)))

\* A request shown as valid was answered by the node it was assigned to, with
\* the word its key determines for it, and the game used that word: whatever
\* else the transaction, the batch or the signature held.
ValidIsGenuine ==
    \A i \in DOMAIN requests : Judged(i) /\ verdict[i].valid =>
        /\ verdict[i].randomness = WordOf(requests[i])
        /\ requests[i].randomness \in {Absent, WordOf(requests[i])}
        /\ isFulfillable(requests[i].requestId.request.fulfiller, requests[i].requestId)

\* An honest fulfilment is never shown as invalid: not in a batch, not beside a
\* request whose reads fail, not with a chain that restarts meanwhile.
HonestIsValid ==
    \A i \in DOMAIN requests : Judged(i) /\ requests[i].honest => verdict[i].valid

\* "Reads failed for this request only ... renders as 'could not verify' with a
\* retry, NOT as invalid": a failed read leaves the request unchecked.
FailureIsNotInvalid ==
    \A i \in DOMAIN requests : fault[i] => ~Judged(i) /\ ~verdict[i].valid

\* What the dialog tells of a request is right both ways, or it tells nothing.
VerdictIsRight == ValidIsGenuine /\ HonestIsValid /\ FailureIsNotInvalid
=============================================================================
