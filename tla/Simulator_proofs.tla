-------------------------- MODULE Simulator_proofs --------------------------
(***************************************************************************)
(* Proofs about the simulator beside the host: the page that starts the    *)
(* harness, the local node it starts it on, the queue of transactions.     *)
(* For any folder of contracts and any number of boots, faults, starts and *)
(* polls; for any number of bets of any amounts and any number of failures.*)
(***************************************************************************)
EXTENDS SimulatorShell, SendQueue, SequenceTheorems, TLAPS

-----------------------------------------------------------------------------
\* The starts of the harness

Fates == {"applied", "pending", "live", "stopped", "failed"}

ShellTypes ==
    /\ \E C : starts \in Seq([config : C, is : Fates])
    /\ applied = Len(starts) /\ effect \in 0..applied
    /\ starting \in BOOLEAN /\ error \in BOOLEAN

\* Starts whose effect has not run have done nothing; an older one than that of
\* the last effect is over or cancelled.
Superseded ==
    /\ \A s \in 1..applied : s > effect => starts[s].is = "applied"
    /\ \A s \in 1..applied : starts[s].is = "live" => s = effect

\* The page is about the start whose effect ran last.
Mounted ==
    /\ effect = 0 => runtime = 0
    /\ effect # 0 =>
         /\ starts[effect].is \in {"pending", "live", "failed"}
         /\ starting <=> starts[effect].is = "pending"
         /\ error <=> starts[effect].is = "failed"
         /\ runtime = IF starts[effect].is = "live" THEN effect ELSE 0

ShellInv == ShellTypes /\ Superseded /\ Mounted

LEMMA ShellInitially == ShellInit => ShellInv
<1>. SUFFICES ASSUME ShellInit PROVE ShellInv
    OBVIOUS
<1>1. starts \in Seq([config : {}, is : Fates]) /\ Len(starts) = 0
    BY DEF ShellInit
<1>2. /\ applied = 0 /\ effect = 0 /\ runtime = 0
      /\ starting \in BOOLEAN /\ error \in BOOLEAN
    BY DEF ShellInit
<1>3. ShellTypes
    BY <1>1, <1>2 DEF ShellTypes
<1>. QED BY <1>2, <1>3 DEF ShellInv, Superseded, Mounted

\* A start appended to the others.
LEMMA OneMoreStart ==
    ASSUME ShellInv, NEW with, starts' = Started(with), applied' = applied + 1,
           UNCHANGED <<effect, runtime, starting, error>>
    PROVE  ShellInv'
<1>1. PICK C : starts \in Seq([config : C, is : Fates])
    BY DEF ShellInv, ShellTypes
<1>. DEFINE R == [config : C \cup {with}, is : Fates]
            new == [config |-> with, is |-> "applied"]
<1>2. new \in R /\ new.is = "applied"
    BY DEF Fates
<1>3. starts \in Seq(R)
    BY <1>1, SeqMonotonic
<1>4. applied = Len(starts) /\ applied \in Nat
    BY <1>3, LenProperties DEF ShellInv, ShellTypes
<1>5. starts' = Append(starts, new)
    BY DEF Started
<1>. HIDE DEF R, new
<1>6. /\ starts' \in Seq(R) /\ Len(starts') = applied + 1
      /\ \A s \in 1..applied : starts'[s] = starts[s]
      /\ starts'[applied + 1] = new
    BY <1>2, <1>3, <1>4, <1>5, AppendProperties
<1>7. ShellTypes'
  <2>1. starting' \in BOOLEAN /\ error' \in BOOLEAN
      BY DEF ShellInv, ShellTypes
  <2>2. effect' \in 0..applied'
      BY <1>4 DEF ShellInv, ShellTypes
  <2>3. applied' = Len(starts')
      BY <1>6
  <2>4. \E D : starts' \in Seq([config : D, is : Fates])
      BY <1>6 DEF R
  <2>. QED BY <2>1, <2>2, <2>3, <2>4 DEF ShellTypes
<1>8. \A s \in 1..applied' : s = applied + 1 \/ s \in 1..applied
    BY <1>4
<1>9. effect \in 0..applied
    BY DEF ShellInv, ShellTypes
<1>10. Superseded'
    BY <1>2, <1>4, <1>6, <1>8, <1>9 DEF ShellInv, Superseded
<1>11. Mounted'
    BY <1>4, <1>6, <1>9 DEF ShellInv, Mounted
<1>. QED BY <1>7, <1>10, <1>11 DEF ShellInv

\* The fate of one start, or none, changes.
LEMMA FateTypes ==
    ASSUME ShellTypes, applied' = applied, effect' \in 0..applied,
           starting' \in BOOLEAN, error' \in BOOLEAN,
           NEW fate, \A s \in 1..applied : fate[s] \in Fates,
           starts' = [s \in DOMAIN starts |-> [starts[s] EXCEPT !.is = fate[s]]]
    PROVE  /\ ShellTypes'
           /\ \A s \in 1..applied : starts'[s].is = fate[s]
<1>1. PICK C : starts \in Seq([config : C, is : Fates])
    BY DEF ShellTypes
<1>. DEFINE R == [config : C, is : Fates]
<1>2. /\ applied = Len(starts) /\ applied \in Nat /\ DOMAIN starts = 1..applied
      /\ \A s \in 1..applied : starts[s] \in R
    BY <1>1, LenProperties, ElementOfSeq DEF ShellTypes
<1>3. \A s \in 1..applied : /\ [starts[s] EXCEPT !.is = fate[s]] \in R
                            /\ [starts[s] EXCEPT !.is = fate[s]].is = fate[s]
    BY <1>2
<1>4. starts' \in [1..applied -> R] /\ \A s \in 1..applied : starts'[s].is = fate[s]
    BY <1>2, <1>3
<1>5. starts' \in Seq(R) /\ Len(starts') = applied
    BY <1>2, <1>4, IsASeq, LenProperties
<1>. QED BY <1>2, <1>4, <1>5 DEF ShellTypes

\* The newest start takes over.
LEMMA TakesOver == ShellInv /\ StartEffect => ShellInv'
<1>. SUFFICES ASSUME ShellInv, StartEffect PROVE ShellInv'
    OBVIOUS
<1>. DEFINE fate == [s \in 1..applied |-> IF s = applied THEN "pending"
                                          ELSE IF s = effect /\ starts[s].is = "live"
                                               THEN "stopped" ELSE starts[s].is]
<1>1. PICK C : starts \in Seq([config : C, is : Fates])
    BY DEF ShellInv, ShellTypes
<1>2. /\ applied \in Nat /\ effect \in 0..applied /\ DOMAIN starts = 1..applied
      /\ \A s \in 1..applied : starts[s] \in [config : C, is : Fates]
    BY <1>1, LenProperties, ElementOfSeq DEF ShellInv, ShellTypes
<1>3. effect < applied /\ applied \in 1..applied /\ effect' = applied /\ applied' = applied
    BY <1>2 DEF StartEffect
<1>4. \A s \in 1..applied : fate[s] \in Fates
    BY <1>2 DEF Fates
<1>5. starts' = [s \in DOMAIN starts |-> [starts[s] EXCEPT !.is = fate[s]]]
  <2>1. \A s \in 1..applied : starts[s] = [starts[s] EXCEPT !.is = starts[s].is]
      BY <1>2
  <2>. QED BY <1>2, <2>1 DEF StartEffect
<1>6. ShellTypes' /\ \A s \in 1..applied : starts'[s].is = fate[s]
  <2>1. starting' \in BOOLEAN /\ error' \in BOOLEAN
      BY Zenon DEF StartEffect
  <2>2. effect' \in 0..applied
      BY <1>2, <1>3
  <2>. HIDE DEF fate
  <2>. QED BY <1>3, <1>4, <1>5, <2>1, <2>2, FateTypes DEF ShellInv
<1>7. Superseded'
    BY <1>2, <1>3, <1>6 DEF ShellInv, Superseded
<1>8. starts'[applied].is = "pending"
    BY <1>3, <1>6
<1>9. runtime' = 0
    BY <1>2 DEF StartEffect, ShellInv, Mounted
<1>10. Mounted'
    BY <1>3, <1>8, <1>9 DEF StartEffect, Mounted
<1>. QED BY <1>6, <1>7, <1>10 DEF ShellInv

\* A start's runtime comes to be, or does not.
LEMMA FateKnown ==
    ASSUME ShellInv, NEW s \in DOMAIN starts, starts[s].is = "pending",
           NEW outcome \in {"live", "stopped", "failed"},
           s = effect => outcome # "stopped", s # effect => outcome # "live",
           starts' = [starts EXCEPT ![s].is = outcome],
           runtime' = (IF outcome = "live" THEN s ELSE runtime),
           error' = (error \/ (outcome = "failed" /\ s = effect)),
           starting' = (starting /\ s # effect), UNCHANGED <<applied, effect>>
    PROVE  ShellInv'
<1>. DEFINE fate == [i \in 1..applied |-> IF i = s THEN outcome ELSE starts[i].is]
<1>1. PICK C : starts \in Seq([config : C, is : Fates])
    BY DEF ShellInv, ShellTypes
<1>2. /\ applied \in Nat /\ effect \in 0..applied /\ DOMAIN starts = 1..applied
      /\ \A i \in 1..applied : starts[i] \in [config : C, is : Fates]
    BY <1>1, LenProperties, ElementOfSeq DEF ShellInv, ShellTypes
<1>3. \A i \in 1..applied : fate[i] \in Fates
    BY <1>2 DEF Fates
<1>4. starts' = [i \in DOMAIN starts |-> [starts[i] EXCEPT !.is = fate[i]]]
  <2>1. \A i \in 1..applied : starts[i] = [starts[i] EXCEPT !.is = starts[i].is]
      BY <1>2
  <2>. QED BY <1>2, <2>1
<1>5. ShellTypes' /\ \A i \in 1..applied : starts'[i].is = fate[i]
  <2>1. starting' \in BOOLEAN /\ error' \in BOOLEAN /\ effect' \in 0..applied
      BY <1>2 DEF ShellInv, ShellTypes
  <2>. HIDE DEF fate
  <2>. QED BY <1>3, <1>4, <2>1, FateTypes DEF ShellInv
<1>6. s \in 1..applied /\ s <= effect
    BY <1>2 DEF ShellInv, Superseded
<1>7. \A i \in 1..applied : i # s => starts'[i].is = starts[i].is
    BY <1>5
<1>8. starts'[s].is = outcome
    BY <1>5, <1>6
<1>9. Superseded'
    BY <1>2, <1>6, <1>7, <1>8 DEF ShellInv, Superseded
<1>10. effect \in 1..applied
    BY <1>2, <1>6
<1>11. Mounted'
  <2>1. CASE s = effect
      BY <1>8, <1>10, <2>1 DEF ShellInv, Mounted
  <2>2. CASE s # effect
      BY <1>7, <1>10, <2>2 DEF ShellInv, Mounted
  <2>. QED BY <2>1, <2>2
<1>. QED BY <1>5, <1>9, <1>11 DEF ShellInv

LEMMA ShellUntouched ==
    ASSUME ShellInv, UNCHANGED <<applied, effect, starts, runtime, starting, error>>
    PROVE  ShellInv'
BY DEF ShellInv, ShellTypes, Superseded, Mounted

LEMMA ShellStep == ShellInv /\ [StackNext]_stackVars => ShellInv'
<1>. SUFFICES ASSUME ShellInv, [StackNext]_stackVars PROVE ShellInv'
    OBVIOUS
<1>1. CASE UNCHANGED shellVars
    BY <1>1, ShellUntouched DEF shellVars
<1>2. CASE PollServed
    BY <1>2, ShellUntouched DEF PollServed
<1>3. CASE SetGame
    BY <1>3, ShellUntouched DEF SetGame
<1>4. CASE start
    BY <1>4, OneMoreStart DEF start
<1>5. CASE StartEffect
    BY <1>5, TakesOver
<1>6. ASSUME NEW i \in DOMAIN polls, PollAnswered(i) PROVE ShellInv'
  <2>1. CASE UNCHANGED <<applied, starts>>
      BY <1>6, <2>1, ShellUntouched DEF PollAnswered
  <2>2. CASE ~UNCHANGED <<applied, starts>>
    <3>1. applied = 0 /\ applied' = applied + 1 /\ starts' = Started(Merged(polls[i]))
        BY <1>6, <2>2 DEF PollAnswered
    <3>. QED BY <1>6, <3>1, OneMoreStart DEF PollAnswered
  <2>. QED BY <2>1, <2>2
<1>7. ASSUME NEW s \in DOMAIN starts, Created(s) PROVE ShellInv'
  <2>. DEFINE outcome == IF s = effect THEN "live" ELSE "stopped"
  <2>1. outcome \in {"live", "stopped", "failed"} /\ starts[s].is = "pending"
        /\ (s = effect => outcome # "stopped") /\ (s # effect => outcome # "live")
        /\ starts' = [starts EXCEPT ![s].is = outcome]
        /\ runtime' = (IF outcome = "live" THEN s ELSE runtime)
        /\ starting' = (starting /\ s # effect) /\ UNCHANGED <<applied, effect>>
      BY <1>7 DEF Created
  <2>2. error' = (error \/ (outcome = "failed" /\ s = effect))
      BY <1>7 DEF Created, ShellInv, ShellTypes
  <2>. HIDE DEF outcome
  <2>. QED BY <2>1, <2>2, FateKnown
<1>8. ASSUME NEW s \in DOMAIN starts, CreateFails(s) PROVE ShellInv'
  <2>. DEFINE outcome == "failed"
  <2>1. outcome \in {"live", "stopped", "failed"} /\ starts[s].is = "pending"
        /\ outcome # "stopped" /\ outcome # "live"
        /\ starts' = [starts EXCEPT ![s].is = outcome]
        /\ runtime' = (IF outcome = "live" THEN s ELSE runtime)
        /\ starting' = (starting /\ s # effect) /\ UNCHANGED <<applied, effect>>
      BY <1>8 DEF CreateFails
  <2>2. error' = (error \/ (outcome = "failed" /\ s = effect))
      BY <1>8 DEF CreateFails
  <2>. HIDE DEF outcome
  <2>. QED BY <2>1, <2>2, FateKnown
<1>. QED BY <1>1, <1>2, <1>3, <1>4, <1>5, <1>6, <1>7, <1>8 DEF StackNext, ShellNext, stackVars

\* One harness is alive at a time, that of the newest start whose effect ran,
\* and the page shows what became of it (App.tsx, the effect on appliedConfig):
\* for any order of starts, answers and creations.
THEOREM ShellSafety == StackSpec => []OneRuntime
<1>1. StackInit => ShellInv
    BY ShellInitially DEF StackInit
<1>2. ShellInv => OneRuntime
  <2>. SUFFICES ASSUME ShellInv PROVE OneRuntime
      OBVIOUS
  <2>1. DOMAIN starts = 1..applied /\ effect \in 0..applied
      BY LenProperties DEF ShellInv, ShellTypes
  <2>2. effect # 0 => effect \in 1..applied
      BY <2>1
  <2>. QED BY <2>1, <2>2 DEF ShellInv, Superseded, Mounted, OneRuntime
<1>. QED BY <1>1, <1>2, ShellStep, PTL DEF StackSpec

-----------------------------------------------------------------------------
\* The local node

\* Records with exactly their fields; what is in them is left open.
NodeTypes ==
    /\ rpcChain = [up |-> rpcChain.up, nonce |-> rpcChain.nonce, contracts |-> rpcChain.contracts,
                registered |-> rpcChain.registered, paid |-> rpcChain.paid]
    /\ infra = [token |-> infra.token, host |-> infra.host, coinflip |-> infra.coinflip]
    /\ deployed = [f \in Files |-> [hash |-> deployed[f].hash, games |-> deployed[f].games]]
    /\ DOMAIN scan = {"on", "files", "changed", "file", "hash", "left", "fresh", "games"}

SetupStages == {"router", "token", "host", "coinflip", "register", "mint", "fund", "deposit"}
Later(stages) == stage \notin {"probe", "waiting", "down"} \cup stages

\* A chain of main's own has not been replaced: main does not outlive it.
Spawned ==
    /\ ours => ~replaced /\ (stage = "waiting" \/ rpcChain.up)
    /\ stage = "probe" => ~replaced

\* How far main has come on the chain it found.
Progress ==
    /\ stage \in {"probe", "waiting", "scan", "ready", "down"} \cup SetupStages
    /\ stage \notin {"scan", "ready", "down"} =>
         deployed = [f \in Files |-> NoFile] /\ scan = NoScan
    /\ ItsChain =>
         /\ Later({"router", "token"}) => infra.token \in rpcChain.contracts
         /\ Later({"router", "token", "host"}) => infra.host \in rpcChain.contracts
         /\ Later({"router", "token", "host", "coinflip", "register"}) =>
              <<infra.host, infra.coinflip>> \in rpcChain.registered
         /\ Later(SetupStages) => infra.host \in rpcChain.paid

OnHost(games) == \A game \in games : <<infra.host, game.address>> \in rpcChain.registered

\* The games a sync has come to know are registered.
Listed ==
    Running /\ ItsChain => OnHost(scan.games) /\ \A f \in Files : OnHost(deployed[f].games)

\* deployed.json is of this boot once the first sync is over.
Written ==
    stage = "ready" /\ ItsChain =>
        deployedFile.token = infra.token /\ deployedFile.host = infra.host /\ OnHost(deployedFile.games)

NodeInv == NodeTypes /\ Spawned /\ Progress /\ Listed /\ Written

LEMMA NodeInitially == NodeInit => NodeInv
BY DEF NodeInit, NodeInv, NodeTypes, Spawned, ItsChain, Progress, Listed, Written, Later, Running, SetupStages,
       NoChain, FreshChain, NoInfra, NoFile, NoScan

LEMMA InvIsUsable == NodeInv => PublishedIsUsable
BY DEF NodeInv, Spawned, ItsChain, Progress, Written, OnHost, PublishedIsUsable, Later, SetupStages

LEMMA StepsInOrder ==
    /\ \A s \in SetupStages : s \in {Steps[i] : i \in 1..(Len(Steps) - 1)}
    /\ \A s \in {Steps[i] : i \in 1..(Len(Steps) - 1)} : s \in SetupStages
    /\ Steps[StepOf("router") + 1] = "token" /\ Steps[StepOf("token") + 1] = "host"
    /\ Steps[StepOf("host") + 1] = "coinflip" /\ Steps[StepOf("coinflip") + 1] = "register"
    /\ Steps[StepOf("register") + 1] = "mint" /\ Steps[StepOf("mint") + 1] = "fund"
    /\ Steps[StepOf("fund") + 1] = "deposit" /\ Steps[StepOf("deposit") + 1] = "scan"
<1>1. /\ Steps[1] = "router" /\ Steps[2] = "token" /\ Steps[3] = "host" /\ Steps[4] = "coinflip"
      /\ Steps[5] = "register" /\ Steps[6] = "mint" /\ Steps[7] = "fund" /\ Steps[8] = "deposit"
      /\ Steps[9] = "scan" /\ DOMAIN Steps = 1..9 /\ Len(Steps) = 9
    BY DEF Steps
<1>2. \A i \in 1..9 : StepOf(Steps[i]) = i
  <2>1. \A i, j \in 1..9 : Steps[i] = Steps[j] => i = j
      BY <1>1
  <2>. QED BY <1>1, <2>1 DEF StepOf
<1>. QED BY <1>1, <1>2 DEF SetupStages

ChainIs(nonce, contracts, registered, paid) ==
    [up |-> rpcChain.up, nonce |-> nonce, contracts |-> contracts, registered |-> registered,
     paid |-> paid]

\* The transactions, field by field.
LEMMA Transactions ==
    ASSUME NodeTypes
    PROVE  /\ rpcChain = ChainIs(rpcChain.nonce, rpcChain.contracts, rpcChain.registered, rpcChain.paid)
           /\ Send = ChainIs(rpcChain.nonce + 1, rpcChain.contracts, rpcChain.registered, rpcChain.paid)
           /\ Deploy = ChainIs(rpcChain.nonce + 1, rpcChain.contracts \cup {rpcChain.nonce},
                               rpcChain.registered, rpcChain.paid)
           /\ \A address : Register(address) =
                ChainIs(rpcChain.nonce + 1, rpcChain.contracts,
                        rpcChain.registered \cup {<<infra.host, address>>}, rpcChain.paid)
           /\ \A pairs : [Send EXCEPT !.registered = @ \cup pairs] =
                ChainIs(rpcChain.nonce + 1, rpcChain.contracts, rpcChain.registered \cup pairs, rpcChain.paid)
           /\ \A hosts : [Send EXCEPT !.paid = @ \cup hosts] =
                ChainIs(rpcChain.nonce + 1, rpcChain.contracts, rpcChain.registered,
                        rpcChain.paid \cup hosts)
<1>. DEFINE up == rpcChain.up
            nonce == rpcChain.nonce
            contracts == rpcChain.contracts
            registered == rpcChain.registered
            paid == rpcChain.paid
            c == [up |-> up, nonce |-> nonce, contracts |-> contracts,
                  registered |-> registered, paid |-> paid]
            more == nonce + 1
            d == [up |-> up, nonce |-> more, contracts |-> contracts,
                  registered |-> registered, paid |-> paid]
<1>1. rpcChain = c
    BY DEF NodeTypes
<1>2. Send = d
  <2>. HIDE DEF up, nonce, contracts, registered, paid
  <2>1. c.nonce = nonce /\ \A x : [c EXCEPT !.nonce = x] =
               [up |-> up, nonce |-> x, contracts |-> contracts, registered |-> registered,
                paid |-> paid]
      OBVIOUS
  <2>. QED BY <1>1, <2>1, Zenon DEF Send
<1>. HIDE DEF up, nonce, contracts, registered, paid, more
<1>3. /\ d.up = up /\ d.nonce = more /\ d.contracts = contracts /\ d.registered = registered
      /\ d.paid = paid
    OBVIOUS
<1>4. \A x : [d EXCEPT !.contracts = d.contracts \cup x] =
               [up |-> up, nonce |-> more, contracts |-> contracts \cup x,
                registered |-> registered, paid |-> paid]
    OBVIOUS
<1>5. \A x : [d EXCEPT !.registered = d.registered \cup x] =
               [up |-> up, nonce |-> more, contracts |-> contracts,
                registered |-> registered \cup x, paid |-> paid]
    OBVIOUS
<1>6. \A x : [d EXCEPT !.paid = d.paid \cup x] =
               [up |-> up, nonce |-> more, contracts |-> contracts,
                registered |-> registered, paid |-> paid \cup x]
    OBVIOUS
<1>. QED BY <1>1, <1>2, <1>4, <1>5, <1>6, Zenon
         DEF ChainIs, Deploy, Register, up, nonce, contracts, registered, paid, more

\* What a step of the node's may do to the chain while main is busy: nothing is
\* undone.
Grows ==
    /\ rpcChain'.up = rpcChain.up
    /\ rpcChain' = [up |-> rpcChain'.up, nonce |-> rpcChain'.nonce, contracts |-> rpcChain'.contracts,
                 registered |-> rpcChain'.registered, paid |-> rpcChain'.paid]
    /\ rpcChain.contracts \subseteq rpcChain'.contracts
    /\ rpcChain.registered \subseteq rpcChain'.registered
    /\ rpcChain.paid \subseteq rpcChain'.paid

LEMMA ChainGrows ==
    ASSUME NodeTypes,
           \/ rpcChain' \in {rpcChain, Send, Deploy}
           \/ \E address : rpcChain' = Register(address)
           \/ \E pairs : rpcChain' = [Send EXCEPT !.registered = @ \cup pairs]
           \/ \E hosts : rpcChain' = [Send EXCEPT !.paid = @ \cup hosts]
    PROVE  Grows
<1>1. PICK n, c, r, p : /\ rpcChain' = ChainIs(n, c, r, p)
                        /\ rpcChain.contracts \subseteq c /\ rpcChain.registered \subseteq r
                        /\ rpcChain.paid \subseteq p
  <2>. DEFINE Fits(n, c, r, p) ==
                /\ rpcChain' = ChainIs(n, c, r, p)
                /\ rpcChain.contracts \subseteq c /\ rpcChain.registered \subseteq r
                /\ rpcChain.paid \subseteq p
  <2>1. CASE rpcChain' = rpcChain
    <3>1. Fits(rpcChain.nonce, rpcChain.contracts, rpcChain.registered, rpcChain.paid)
        BY <2>1, Transactions
    <3>. QED BY <3>1
  <2>2. CASE rpcChain' = Send
    <3>1. Fits(rpcChain.nonce + 1, rpcChain.contracts, rpcChain.registered, rpcChain.paid)
        BY <2>2, Transactions
    <3>. QED BY <3>1
  <2>3. CASE rpcChain' = Deploy
    <3>1. Fits(rpcChain.nonce + 1, rpcChain.contracts \cup {rpcChain.nonce}, rpcChain.registered, rpcChain.paid)
        BY <2>3, Transactions
    <3>. QED BY <3>1
  <2>4. ASSUME NEW address, rpcChain' = Register(address) PROVE \E n, c, r, p : Fits(n, c, r, p)
    <3>1. Fits(rpcChain.nonce + 1, rpcChain.contracts,
               rpcChain.registered \cup {<<infra.host, address>>}, rpcChain.paid)
        BY <2>4, Transactions
    <3>. QED BY <3>1
  <2>5. ASSUME NEW pairs, rpcChain' = [Send EXCEPT !.registered = @ \cup pairs]
        PROVE  \E n, c, r, p : Fits(n, c, r, p)
    <3>1. Fits(rpcChain.nonce + 1, rpcChain.contracts, rpcChain.registered \cup pairs, rpcChain.paid)
        BY <2>5, Transactions
    <3>. QED BY <3>1
  <2>6. ASSUME NEW hosts, rpcChain' = [Send EXCEPT !.paid = @ \cup hosts]
        PROVE  \E n, c, r, p : Fits(n, c, r, p)
    <3>1. Fits(rpcChain.nonce + 1, rpcChain.contracts, rpcChain.registered, rpcChain.paid \cup hosts)
        BY <2>6, Transactions
    <3>. QED BY <3>1
  <2>. QED BY <2>1, <2>2, <2>3, <2>4, <2>5, <2>6
<1>. QED BY <1>1 DEF ChainIs, Grows

\* Nothing of the node changes but the chain grows.
LEMMA GrowthKeeps ==
    ASSUME NodeInv, Grows, UNCHANGED <<bootVars, deployed, scan, deployedFile>>
    PROVE  NodeInv'
<1>1. NodeTypes' /\ Spawned'
    BY DEF NodeInv, NodeTypes, Spawned, Grows, bootVars
<1>2. Progress'
    BY DEF NodeInv, Progress, ItsChain, Grows, Later, bootVars
<1>3. \A games : OnHost(games) => OnHost(games)'
    BY DEF OnHost, Grows, bootVars
<1>4. Listed' /\ Written'
    BY <1>3 DEF NodeInv, Listed, Written, ItsChain, Grows, Running, OnHost, bootVars
<1>. QED BY <1>1, <1>2, <1>4 DEF NodeInv

LEMMA NodeTypesKept ==
    ASSUME NodeInv, UNCHANGED <<rpcChain, infra, deployed, scan>>
    PROVE  NodeTypes'
BY DEF NodeInv, NodeTypes

\* Outside the transactions: the process and the chain come and go.
LEMMA LifeKeeps ==
    ASSUME NodeInv, Probe \/ Wait \/ ChainStarts \/ ChainExits \/ Fails \/ Shutdown \/ Boot
    PROVE  NodeInv'
<1>8. Spawned'
  <2>1. CASE Probe
      BY <2>1 DEF NodeInv, Spawned, Probe
  <2>2. CASE Wait
      BY <2>2 DEF NodeInv, Spawned, Wait
  <2>3. CASE ChainStarts
      BY <2>3 DEF NodeInv, Spawned, ChainStarts, FreshChain, NoChain
  <2>4. CASE ChainExits
      BY <2>4 DEF NodeInv, Spawned, ChainExits
  <2>5. CASE Fails \/ Shutdown
      BY <2>5 DEF NodeInv, Spawned, Fails, Shutdown
  <2>6. CASE Boot
      BY <2>6 DEF NodeInv, Spawned, Boot
  <2>. QED BY <1>8, <2>1, <2>2, <2>3, <2>4, <2>5, <2>6
<1>1. CASE Probe
  <2>1. Progress' /\ ~Running' /\ stage' # "ready"
      BY <1>1 DEF NodeInv, Progress, ItsChain, Probe, scanVars, Running, Later, SetupStages
  <2>. QED BY <1>8, <1>1, <2>1, NodeTypesKept DEF NodeInv, Listed, Written, ItsChain, Probe, scanVars
<1>2. CASE Wait
  <2>1. Progress' /\ ~Running' /\ stage' # "ready"
      BY <1>2 DEF NodeInv, Progress, ItsChain, Wait, scanVars, Running, Later, SetupStages
  <2>. QED BY <1>8, <1>2, <2>1, NodeTypesKept DEF NodeInv, Listed, Written, ItsChain, Wait, scanVars
<1>3. CASE ChainStarts
  <2>1. NodeTypes'
      BY <1>3 DEF NodeInv, NodeTypes, ChainStarts, scanVars, FreshChain, NoChain
  <2>2. /\ UNCHANGED <<ours, stage, infra, deployed, scan, deployedFile>> /\ ~rpcChain.up /\ rpcChain'.up
        /\ stage \in {"probe", "waiting", "down"} => UNCHANGED replaced
        /\ stage \notin {"probe", "waiting", "down"} => replaced'
    <3>1. rpcChain'.up
        BY <1>3 DEF ChainStarts, FreshChain, NoChain
    <3>. QED BY <1>3, <3>1 DEF ChainStarts, scanVars
  <2>3. CASE stage \in {"probe", "waiting", "down"}
    <3>1. Progress' /\ ~Running' /\ stage' # "ready"
        BY <2>2, <2>3 DEF NodeInv, Progress, Running, Later, SetupStages
    <3>. QED BY <2>1, <2>2, <2>3, <3>1, <1>8 DEF NodeInv, Listed, Written, Spawned
  <2>4. CASE stage \notin {"probe", "waiting", "down"}
    <3>1. ~ItsChain' /\ Progress'
        BY <2>2, <2>4 DEF NodeInv, Progress, ItsChain
    <3>. QED BY <2>1, <3>1, <1>8 DEF NodeInv, Listed, Written
  <2>. QED BY <2>3, <2>4
<1>4. CASE ChainExits
  <2>1. NodeTypes'
      BY <1>4 DEF NodeInv, NodeTypes, ChainExits, scanVars, NoChain
  <2>2. Progress' /\ ~rpcChain'.up
      BY <1>4 DEF NodeInv, Progress, ItsChain, ChainExits, scanVars, NoChain
  <2>. QED BY <1>8, <2>1, <2>2 DEF NodeInv, Listed, Written, ItsChain
<1>5. CASE Fails
  <2>1. Progress' /\ ~Running' /\ stage' # "ready"
      BY <1>5 DEF NodeInv, Progress, ItsChain, Fails, scanVars, Running, Later
  <2>. QED BY <1>8, <1>5, <2>1, NodeTypesKept DEF NodeInv, Listed, Written, ItsChain, Fails, scanVars
<1>6. CASE Shutdown
  <2>1. NodeTypes'
      BY <1>6 DEF NodeInv, NodeTypes, Shutdown, scanVars, NoChain
  <2>2. Progress' /\ ~Running' /\ stage' # "ready"
      BY <1>6 DEF NodeInv, Progress, ItsChain, Shutdown, scanVars, Running, Later
  <2>. QED BY <1>8, <2>1, <2>2 DEF NodeInv, Listed, Written, ItsChain
<1>7. CASE Boot
  <2>1. NodeTypes'
      BY <1>7 DEF NodeInv, NodeTypes, Boot, NoInfra, NoFile, NoScan
  <2>2. Progress' /\ ~Running' /\ stage' # "ready"
      BY <1>7 DEF NodeInv, Progress, ItsChain, Boot, Running, Later
  <2>. QED BY <1>8, <2>1, <2>2 DEF NodeInv, Listed, Written, ItsChain
<1>. QED BY <1>1, <1>2, <1>3, <1>4, <1>5, <1>6, <1>7

\* The transactions of main.
LEMMA SetUpKeeps == NodeInv /\ SetUp => NodeInv'
<1>. SUFFICES ASSUME NodeInv, SetUp PROVE NodeInv'
    OBVIOUS
<1>1. /\ stage \in SetupStages /\ rpcChain.up
      /\ stage' = Steps[StepOf(stage) + 1]
      /\ UNCHANGED <<ours, replaced, deployed, scan, deployedFile>>
    BY StepsInOrder DEF SetUp, scanVars
<1>2. NodeTypes
    BY DEF NodeInv
<1>3. Grows
  <2>1. rpcChain' \in {rpcChain, Send, Deploy, Register(infra.coinflip)}
        \/ rpcChain' = [Send EXCEPT !.paid = @ \cup {infra.host}]
      BY <1>1 DEF SetUp, Calls, SetupStages
  <2>. QED BY <1>2, <2>1, ChainGrows
<1>4. infra' = [token |-> infra'.token, host |-> infra'.host, coinflip |-> infra'.coinflip]
      /\ (stage # "token" => infra'.token = infra.token)
      /\ (stage = "token" => infra'.token = rpcChain.nonce)
      /\ (stage # "host" => infra'.host = infra.host)
      /\ (stage = "host" => infra'.host = rpcChain.nonce)
      /\ (stage # "coinflip" => infra'.coinflip = infra.coinflip)
  <2>1. DOMAIN infra = {"token", "host", "coinflip"}
      BY <1>2 DEF NodeTypes
  <2>2. infra' = infra \/ (stage \in DOMAIN infra /\ infra' = [infra EXCEPT ![stage] = rpcChain.nonce])
      BY Zenon DEF SetUp
  <2>3. stage \in DOMAIN infra => infra' = [infra EXCEPT ![stage] = rpcChain.nonce]
      BY Zenon DEF SetUp
  <2>. QED BY <1>2, <2>1, <2>2, <2>3 DEF NodeTypes
<1>5. stage \in {"token", "host"} => rpcChain.nonce \in rpcChain'.contracts
  <2>1. stage \in {"token", "host"} => rpcChain' = Deploy
      BY DEF SetUp
  <2>. QED BY <1>2, <2>1, Transactions DEF ChainIs
<1>6. stage = "register" /\ ~replaced => <<infra.host, infra.coinflip>> \in rpcChain'.registered
  <2>1. stage = "register" /\ ~replaced => rpcChain' = Register(infra.coinflip)
      BY DEF SetUp, Calls
  <2>. QED BY <1>2, <2>1, Transactions DEF ChainIs
<1>7. stage = "deposit" /\ ~replaced => infra.host \in rpcChain'.paid
  <2>1. stage = "deposit" /\ ~replaced => rpcChain' = [Send EXCEPT !.paid = @ \cup {infra.host}]
      BY DEF SetUp, Calls
  <2>. QED BY <1>2, <2>1, Transactions DEF ChainIs
<1>8. NodeTypes'
    BY <1>1, <1>2, <1>3, <1>4 DEF NodeTypes, Grows
<1>9. /\ stage = "router" => stage' = "token"
      /\ stage = "token" => stage' = "host"
      /\ stage = "host" => stage' = "coinflip"
      /\ stage = "coinflip" => stage' = "register"
      /\ stage = "register" => stage' = "mint"
      /\ stage = "mint" => stage' = "fund"
      /\ stage = "fund" => stage' = "deposit"
      /\ stage = "deposit" => stage' = "scan"
    BY <1>1, StepsInOrder
<1>10. deployed = [f \in Files |-> NoFile] /\ scan = NoScan
    BY <1>1 DEF NodeInv, Progress, SetupStages
<1>11. Progress'
  <2>1. stage' \in {"probe", "waiting", "scan", "ready", "down"} \cup SetupStages
      BY <1>1, <1>9 DEF SetupStages
  <2>2. ItsChain' /\ Later({"router", "token"})' => infra'.token \in rpcChain'.contracts
      BY <1>1, <1>3, <1>4, <1>5, <1>9 DEF NodeInv, Progress, ItsChain, SetupStages, Later, Grows
  <2>3. ItsChain' /\ Later({"router", "token", "host"})' => infra'.host \in rpcChain'.contracts
      BY <1>1, <1>3, <1>4, <1>5, <1>9 DEF NodeInv, Progress, ItsChain, SetupStages, Later, Grows
  <2>4. ItsChain' /\ Later({"router", "token", "host", "coinflip", "register"})' =>
          <<infra'.host, infra'.coinflip>> \in rpcChain'.registered
      BY <1>1, <1>3, <1>4, <1>6, <1>9 DEF NodeInv, Progress, ItsChain, SetupStages, Later, Grows
  <2>5. ItsChain' /\ Later(SetupStages)' => infra'.host \in rpcChain'.paid
      BY <1>1, <1>3, <1>4, <1>7, <1>9 DEF NodeInv, Progress, ItsChain, SetupStages, Later, Grows
  <2>. QED BY <1>1, <1>10, <2>1, <2>2, <2>3, <2>4, <2>5 DEF Progress
<1>13. Spawned'
    BY <1>1, <1>3, <1>9 DEF NodeInv, Spawned, Grows, SetupStages
<1>12. Listed' /\ Written'
    BY <1>1, <1>9, <1>10 DEF Listed, Written, OnHost, NoFile, NoScan, SetupStages
<1>. QED BY <1>8, <1>11, <1>12, <1>13 DEF NodeInv

\* Steps of a process that runs: the list's entries stay registered whatever
\* happens to the list.
LEMMA SyncKeeps ==
    ASSUME NodeInv, Running, Grows, NodeTypes', UNCHANGED <<ours, infra, replaced>>,
           stage' = stage \/ stage' = "ready",
           OnHost(scan.games) /\ ~replaced => OnHost(scan.games)',
           \A f \in Files : OnHost(deployed[f].games) /\ OnHost(scan.games)
                              => OnHost(deployed[f].games)',
           stage' = "ready" => \/ (UNCHANGED deployedFile /\ stage = "ready")
                               \/ (deployedFile' = writeDeployed /\ UNCHANGED deployed)
    PROVE  NodeInv'
<1>1. stage' \in {"scan", "ready"} /\ rpcChain'.up = rpcChain.up
    BY DEF Running, Grows
<1>6. Spawned'
    BY <1>1 DEF NodeInv, Spawned, Running
<1>2. Progress'
    BY <1>1 DEF NodeInv, Progress, ItsChain, Grows, Running, Later, SetupStages
<1>3. Listed'
    BY <1>1 DEF NodeInv, Listed, ItsChain
<1>4. \A games : OnHost(games) => OnHost(games)'
    BY DEF OnHost, Grows
<1>5. Written'
  <2>. SUFFICES ASSUME stage' = "ready", rpcChain'.up, ~replaced PROVE Written'
      BY DEF Written, ItsChain
  <2>1. CASE UNCHANGED deployedFile /\ stage = "ready"
      BY <1>1, <1>4, <2>1 DEF NodeInv, Written, ItsChain, OnHost
  <2>2. CASE deployedFile' = writeDeployed /\ UNCHANGED deployed
    <3>1. /\ deployedFile'.token = infra.token /\ deployedFile'.host = infra.host
          /\ deployedFile'.games = {[name |-> "CoinflipGame", address |-> infra.coinflip]}
                                  \cup UNION {deployed[f].games : f \in Files}
        BY <2>2 DEF writeDeployed, currentGames
    <3>2. <<infra.host, infra.coinflip>> \in rpcChain.registered
        BY <1>1 DEF NodeInv, Progress, ItsChain, Running, Later
    <3>3. \A f \in Files : OnHost(deployed[f].games)
        BY <1>1 DEF NodeInv, Listed, ItsChain
    <3>4. OnHost(deployedFile'.games)
        BY <3>1, <3>2, <3>3 DEF OnHost
    <3>. QED BY <1>4, <3>1, <3>4 DEF Written, OnHost, Grows
  <2>. QED BY <2>1, <2>2
<1>. QED BY <1>2, <1>3, <1>5, <1>6 DEF NodeInv

\* A sync passes over a file, or begins anew.
LEMMA ScanKeeps ==
    ASSUME NodeInv, Running, UNCHANGED <<rpcChain, bootVars, deployedFile>>,
           SyncBegins \/ ReadFile
    PROVE  NodeInv'
<1>1. NodeTypes
    BY DEF NodeInv
<1>2. /\ Grows /\ stage' = stage /\ infra' = infra /\ ours' = ours /\ replaced' = replaced
      /\ stage' = "ready" => UNCHANGED deployedFile /\ stage = "ready"
    BY <1>1, ChainGrows DEF bootVars
<1>3. CASE SyncBegins
  <2>1. PICK stale : deployed' = [f \in Files |-> IF f \in stale THEN NoFile ELSE deployed[f]]
      BY <1>3 DEF SyncBegins
  <2>2. DOMAIN scan' = {"on", "files", "changed", "file", "hash", "left", "fresh", "games"}
        /\ scan'.games = {}
      BY <1>3 DEF SyncBegins, NoScan
  <2>3. \A f \in Files : deployed'[f] = NoFile \/ deployed'[f] = deployed[f]
      BY <2>1
  <2>4. \A f \in Files : deployed'[f] = [hash |-> deployed'[f].hash, games |-> deployed'[f].games]
      BY <1>1, <2>3 DEF NodeTypes, NoFile
  <2>5. NodeTypes'
      BY <1>1, <1>2, <2>1, <2>2, <2>4 DEF NodeTypes
  <2>6. \A f \in Files : OnHost(deployed[f].games) => OnHost(deployed[f].games)'
      BY <1>2, <2>3 DEF OnHost, NoFile
  <2>7. OnHost(scan.games)'
      BY <2>2 DEF OnHost
  <2>8. stage' = stage \/ stage' = "ready"
      BY <1>2
  <2>9. UNCHANGED <<ours, infra, replaced>>
      BY <1>2
  <2>10. OnHost(scan.games) /\ ~replaced => OnHost(scan.games)'
      BY <2>7
  <2>11. \A f \in Files : OnHost(deployed[f].games) /\ OnHost(scan.games)
                              => OnHost(deployed[f].games)'
      BY <2>6
  <2>12. stage' = "ready" => \/ (UNCHANGED deployedFile /\ stage = "ready")
                               \/ (deployedFile' = writeDeployed /\ UNCHANGED deployed)
      BY <1>2
  <2>. QED BY <1>2, <2>5, <2>8, <2>9, <2>10, <2>11, <2>12, SyncKeeps, Zenon
<1>4. CASE ReadFile
  <2>1. DOMAIN scan' = {"on", "files", "changed", "file", "hash", "left", "fresh", "games"}
        /\ scan'.games = scan.games
      BY <1>1, <1>4 DEF ReadFile, NodeTypes
  <2>2. PICK f, hash : deployed' = deployed \/ deployed' = [deployed EXCEPT ![f].hash = hash]
      BY <1>4 DEF ReadFile
  <2>3. \A g \in Files : /\ deployed'[g] = [hash |-> deployed'[g].hash, games |-> deployed'[g].games]
                         /\ deployed'[g].games = deployed[g].games
    <3>1. DOMAIN deployed = Files /\ \A g \in Files :
            deployed[g] = [hash |-> deployed[g].hash, games |-> deployed[g].games]
        BY <1>1 DEF NodeTypes
    <3>2. \A g \in Files :
            /\ [deployed[g] EXCEPT !.hash = hash] = [hash |-> hash, games |-> deployed[g].games]
            /\ deployed'[g] = deployed[g] \/ deployed'[g] = [deployed[g] EXCEPT !.hash = hash]
        BY <2>2, <3>1
    <3>3. \A g \in Files : deployed'[g] = deployed[g]
                           \/ deployed'[g] = [hash |-> hash, games |-> deployed[g].games]
        BY <3>2, Zenon
    <3>. DEFINE Whole(x) == x = [hash |-> x.hash, games |-> x.games]
    <3>4. \A g \in Files : Whole([hash |-> hash, games |-> deployed[g].games])
        OBVIOUS
    <3>5. \A g \in Files : Whole(deployed[g])
        BY <3>1
    <3>. HIDE DEF Whole
    <3>6. \A g \in Files : Whole(deployed'[g])
        BY <3>3, <3>4, <3>5, Zenon
    <3>7. \A g \in Files : deployed'[g].games = deployed[g].games
      <4>1. \A g \in Files : [hash |-> hash, games |-> deployed[g].games].games = deployed[g].games
          OBVIOUS
      <4>. QED BY <3>3, <4>1, Zenon
    <3>. QED BY <3>6, <3>7 DEF Whole
  <2>4. NodeTypes'
      BY <1>1, <1>2, <2>1, <2>2, <2>3 DEF NodeTypes
  <2>5. OnHost(scan.games) /\ ~replaced => OnHost(scan.games)'
      BY <1>2, <2>1 DEF OnHost
  <2>6. \A g \in Files : OnHost(deployed[g].games) => OnHost(deployed[g].games)'
      BY <1>2, <2>3 DEF OnHost
  <2>7. stage' = stage \/ stage' = "ready"
      BY <1>2
  <2>8. UNCHANGED <<ours, infra, replaced>>
      BY <1>2
  <2>9. \A g \in Files : OnHost(deployed[g].games) /\ OnHost(scan.games)
                             => OnHost(deployed[g].games)'
      BY <2>6
  <2>10. stage' = "ready" => \/ (UNCHANGED deployedFile /\ stage = "ready")
                               \/ (deployedFile' = writeDeployed /\ UNCHANGED deployed)
      BY <1>2
  <2>. QED BY <1>2, <2>4, <2>5, <2>7, <2>8, <2>9, <2>10, SyncKeeps, Zenon
<1>. QED BY <1>3, <1>4

\* A game is deployed; it is registered, and only then counts.
LEMMA GameKeeps ==
    ASSUME NodeInv, Running, DeployGame \/ RegisterGame
    PROVE  NodeInv'
<1>1. NodeTypes
    BY DEF NodeInv
<1>2. UNCHANGED <<ours, stage, infra, replaced, deployed, deployedFile>>
    BY DEF DeployGame, RegisterGame, bootVars
<1>3. Grows
    BY <1>1, ChainGrows DEF DeployGame, RegisterGame, Calls
<1>4. DOMAIN scan' = {"on", "files", "changed", "file", "hash", "left", "fresh", "games"}
    BY <1>1 DEF NodeTypes, DeployGame, RegisterGame
<1>5. NodeTypes'
    BY <1>1, <1>2, <1>3, <1>4 DEF NodeTypes, Grows
<1>6. \A f \in Files : OnHost(deployed[f].games) => OnHost(deployed[f].games)'
    BY <1>2, <1>3 DEF OnHost, Grows
<1>7. OnHost(scan.games) /\ ~replaced => OnHost(scan.games)'
  <2>1. CASE DeployGame
    <3>1. scan'.games = scan.games
        BY <1>1, <2>1 DEF DeployGame, NodeTypes
    <3>. QED BY <1>2, <1>3, <3>1 DEF OnHost, Grows
  <2>2. CASE RegisterGame
    <3>1. scan'.games = scan.games \cup {[name |-> Head(scan.left), address |-> scan.fresh]}
        BY <1>1, <2>2 DEF RegisterGame, NodeTypes
    <3>2. ~replaced => <<infra.host, scan.fresh>> \in rpcChain'.registered
        BY <1>1, <2>2, Transactions DEF RegisterGame, Calls, ChainIs
    <3>. QED BY <1>2, <1>3, <3>1, <3>2 DEF OnHost, Grows
  <2>. QED BY <2>1, <2>2
<1>. QED BY <1>2, <1>3, <1>5, <1>6, <1>7, SyncKeeps DEF Running

\* A file is done, or given up.
LEMMA FileKeeps ==
    ASSUME NodeInv, Running, FileDeployed \/ FileFails
    PROVE  NodeInv'
<1>1. NodeTypes
    BY DEF NodeInv
<1>2. rpcChain' = rpcChain /\ deployedFile' = deployedFile /\ stage' = stage
      /\ infra' = infra /\ ours' = ours /\ replaced' = replaced
    BY DEF FileDeployed, FileFails, bootVars
<1>3. Grows /\ (stage' = "ready" => UNCHANGED deployedFile /\ stage = "ready")
    BY <1>1, <1>2, ChainGrows
<1>4. DOMAIN scan' = {"on", "files", "changed", "file", "hash", "left", "fresh", "games"}
      /\ scan'.games = {}
    BY <1>1 DEF NodeTypes, FileDeployed, FileFails
<1>5. PICK file, hash : \/ deployed' = [deployed EXCEPT ![file] = [hash |-> hash, games |-> scan.games]]
                        \/ deployed' = [deployed EXCEPT ![file].hash = hash]
    BY DEF FileDeployed, FileFails
<1>6. \A f \in Files :
        /\ deployed'[f] = [hash |-> deployed'[f].hash, games |-> deployed'[f].games]
        /\ deployed'[f].games = deployed[f].games \/ deployed'[f].games = scan.games
  <2>1. DOMAIN deployed = Files /\ \A g \in Files :
          deployed[g] = [hash |-> deployed[g].hash, games |-> deployed[g].games]
      BY <1>1 DEF NodeTypes
  <2>2. \A g \in Files :
          /\ [deployed[g] EXCEPT !.hash = hash] = [hash |-> hash, games |-> deployed[g].games]
          /\ \/ deployed'[g] = deployed[g] \/ deployed'[g] = [deployed[g] EXCEPT !.hash = hash]
             \/ deployed'[g] = [hash |-> hash, games |-> scan.games]
      BY <1>5, <2>1
  <2>3. \A g \in Files : \/ deployed'[g] = deployed[g]
                         \/ deployed'[g] = [hash |-> hash, games |-> deployed[g].games]
                         \/ deployed'[g] = [hash |-> hash, games |-> scan.games]
      BY <2>2, Zenon
  <2>. DEFINE Whole(x) == x = [hash |-> x.hash, games |-> x.games]
  <2>4. \A g \in Files : /\ Whole([hash |-> hash, games |-> deployed[g].games])
                         /\ Whole([hash |-> hash, games |-> scan.games])
      OBVIOUS
  <2>5. \A g \in Files : Whole(deployed[g])
      BY <2>1
  <2>. HIDE DEF Whole
  <2>6. \A g \in Files : Whole(deployed'[g])
      BY <2>3, <2>4, <2>5, Zenon
  <2>7. \A g \in Files : deployed'[g].games = deployed[g].games \/ deployed'[g].games = scan.games
    <3>1. \A g \in Files :
            /\ [hash |-> hash, games |-> deployed[g].games].games = deployed[g].games
            /\ [hash |-> hash, games |-> scan.games].games = scan.games
        OBVIOUS
    <3>. QED BY <2>3, <3>1, Zenon
  <2>. QED BY <2>6, <2>7 DEF Whole
<1>7. NodeTypes'
    BY <1>1, <1>2, <1>4, <1>5, <1>6 DEF NodeTypes
<1>8. OnHost(scan.games)'
    BY <1>4 DEF OnHost
<1>9. \A f \in Files :
        OnHost(deployed[f].games) /\ OnHost(scan.games) => OnHost(deployed[f].games)'
    BY <1>2, <1>6 DEF OnHost
<1>10. stage' = stage \/ stage' = "ready"
    BY <1>2
<1>11. UNCHANGED <<ours, infra, replaced>>
    BY <1>2
<1>12. OnHost(scan.games) /\ ~replaced => OnHost(scan.games)'
    BY <1>8
<1>13. stage' = "ready" => \/ (UNCHANGED deployedFile /\ stage = "ready")
                               \/ (deployedFile' = writeDeployed /\ UNCHANGED deployed)
    BY <1>3
<1>. QED BY <1>3, <1>7, <1>9, <1>10, <1>11, <1>12, <1>13, SyncKeeps, Zenon

LEMMA SyncEndsKeeps ==
    ASSUME NodeInv, Running, SyncEnds
    PROVE  NodeInv'
<1>1. NodeTypes
    BY DEF NodeInv
<1>2. UNCHANGED <<rpcChain, ours, infra, replaced, deployed>>
    BY DEF SyncEnds
<1>3. Grows
    BY <1>1, <1>2, ChainGrows
<1>4. DOMAIN scan' = {"on", "files", "changed", "file", "hash", "left", "fresh", "games"}
      /\ scan'.games = {} /\ stage' = "ready"
    BY DEF SyncEnds, NoScan
<1>5. NodeTypes'
    BY <1>1, <1>2, <1>4 DEF NodeTypes
<1>6. OnHost(scan.games)' /\ \A f \in Files : OnHost(deployed[f].games) => OnHost(deployed[f].games)'
    BY <1>2, <1>4 DEF OnHost
<1>7. \/ (UNCHANGED deployedFile /\ stage = "ready")
      \/ (deployedFile' = writeDeployed /\ UNCHANGED deployed)
    BY <1>2 DEF SyncEnds, Running
<1>. QED BY <1>2, <1>3, <1>4, <1>5, <1>6, <1>7, SyncKeeps

LEMMA NodeUntouched ==
    ASSUME NodeInv, UNCHANGED <<rpcChain, bootVars, deployed, scan, deployedFile>>
    PROVE  NodeInv'
BY DEF NodeInv, NodeTypes, Spawned, ItsChain, bootVars, Progress, Listed, Written, OnHost, Running, Later

LEMMA NodeStep == NodeInv /\ [StackNext]_stackVars => NodeInv'
<1>. SUFFICES ASSUME NodeInv, [StackNext]_stackVars PROVE NodeInv'
    OBVIOUS
<1>1. CASE Probe \/ Wait \/ ChainStarts \/ ChainExits \/ Fails \/ Shutdown \/ Boot
    BY <1>1, LifeKeeps
<1>2. CASE SetUp
    BY <1>2, SetUpKeeps
<1>3. CASE DebounceFires
    BY <1>3, NodeUntouched DEF DebounceFires, bootVars
<1>4. CASE SyncStep
  <2>1. CASE SyncBegins \/ ReadFile
      BY <1>4, <2>1, ScanKeeps DEF SyncStep, SyncBegins, ReadFile, bootVars
  <2>. QED BY <1>4, <2>1, GameKeeps, FileKeeps, SyncEndsKeeps DEF SyncStep
<1>5. CASE Running /\ FileFails
    BY <1>5, FileKeeps
<1>6. ASSUME NEW f \in Files, Edit(f) PROVE NodeInv'
    BY <1>6, NodeUntouched DEF Edit, bootVars
<1>7. CASE PollServed \/ start \/ StartEffect
    BY <1>7, NodeUntouched DEF PollServed, start, StartEffect, nodeVars, bootVars
<1>8. CASE SetGame
    BY <1>8, NodeUntouched DEF SetGame, bootVars, scanVars
<1>9. ASSUME NEW i \in DOMAIN polls, PollAnswered(i) PROVE NodeInv'
    BY <1>9, NodeUntouched DEF PollAnswered, nodeVars, bootVars
<1>10. ASSUME NEW s \in DOMAIN starts, Created(s) PROVE NodeInv'
  <2>1. Grows
      BY <1>10, ChainGrows DEF Created, RegisteredOnTheFly, NodeInv
  <2>. QED BY <1>10, <2>1, GrowthKeeps DEF Created, scanVars
<1>11. ASSUME NEW s \in DOMAIN starts, CreateFails(s) PROVE NodeInv'
    BY <1>11, NodeUntouched DEF CreateFails, scanVars
<1>12. CASE UNCHANGED stackVars
    BY <1>12, NodeUntouched DEF stackVars, nodeVars, bootVars
<1>. QED BY <1>1, <1>2, <1>3, <1>4, <1>5, <1>6, <1>7, <1>8, <1>9, <1>10, <1>11, <1>12
         DEF StackNext, NodeNext, ShellNext

\* Whatever deployed.json names can be played while its process runs: for any
\* folder, with chains that die and are replaced, calls that fail and a page that
\* registers games of its own; unless the process found its chain already running
\* and somebody replaced that one (ensureChain, which watches only its own).
THEOREM NodeSafety == StackSpec => []PublishedIsUsable
<1>1. StackInit => NodeInv
    BY NodeInitially DEF StackInit
<1>. QED BY <1>1, InvIsUsable, NodeStep, PTL DEF StackSpec

-----------------------------------------------------------------------------
\* The queue of transactions

Last(s) == s[Len(s)]

QueueTypes ==
    /\ sends \in [Batches -> {"none", "pending", "done", "failed"}]
    /\ queue \in Seq(Batches)
    /\ step \in [Batches -> Nat] /\ awaited \in [Batches -> Nat]
    /\ sent \in Seq([batch: Batches, action: Action])
    /\ mined \in Seq([batch: Batches, action: Action, allowance: Nat, success: BOOLEAN])
    /\ allowance \in Nat

\* Batches wait in the queue untouched, and each comes once.
Waiting ==
    /\ \A b \in Batches : sends[b] = "none" => step[b] = 1 /\ awaited[b] = 0
    /\ \A i \in 1..Len(queue) : sends[queue[i]] # "none"
    /\ \A i \in 2..Len(queue) : step[queue[i]] = 1 /\ awaited[queue[i]] = 0
    /\ \A i, j \in 1..Len(queue) : queue[i] = queue[j] => i = j
    /\ \A b \in Batches : awaited[b] # 0 => queue # <<>> /\ b = queue[1]

\* The batch whose turn it is awaits the last transaction of all, or has seen
\* the one before its next action succeed.
Turn ==
    queue # <<>> =>
      LET b == queue[1]
      IN  /\ step[b] \in 1..Len(ActionsOf[b])
          /\ awaited[b] # 0 => /\ awaited[b] = Len(sent)
                               /\ Last(sent).action = ActionsOf[b][step[b]]
          /\ awaited[b] = 0 /\ step[b] > 1 =>
               /\ Len(sent) = Len(mined) /\ Len(mined) > 0
               /\ Last(mined).success
               /\ Last(mined).action = ActionsOf[b][step[b] - 1]

\* What is opened was approved by the transaction before it, which is mined.
Approved ==
    /\ Len(mined) <= Len(sent)
    /\ \A i \in 1..Len(mined) : mined[i].action = sent[i].action
    /\ \A i \in 1..Len(sent) : sent[i].action.call = "open" =>
         /\ i > 1 /\ i - 1 <= Len(mined) /\ mined[i - 1].success
         /\ mined[i - 1].action = [sent[i].action EXCEPT !.call = "approve"]
    /\ Len(mined) > 0 /\ Last(mined).success /\ Last(mined).action.call = "approve"
         => allowance = Last(mined).action.amount

QueueInv ==
    /\ QueueTypes
    /\ Waiting
    /\ Turn
    /\ Approved
    /\ EachBetSpendsItsOwnApproval

LEMMA QueueInitially == QueueInit => QueueInv
<1>. SUFFICES ASSUME QueueInit PROVE QueueInv
    OBVIOUS
<1>1. queue = <<>> /\ sent = <<>> /\ mined = <<>>
    BY DEF QueueInit
<1>2. QueueTypes
    BY DEF QueueInit, QueueTypes
<1>3. Waiting /\ Turn /\ Approved /\ EachBetSpendsItsOwnApproval
    BY <1>1 DEF QueueInit, Waiting, Turn, Approved, EachBetSpendsItsOwnApproval
<1>. QED BY <1>2, <1>3 DEF QueueInv

\* The actions of a batch.
LEMMA ActionsFacts ==
    ASSUME NEW b \in Batches
    PROVE  /\ ActionsOf[b] \in Seq(Action)
           /\ Len(ActionsOf[b]) \in Nat /\ Len(ActionsOf[b]) > 0
           /\ \A i \in 1..Len(ActionsOf[b]) :
                /\ ActionsOf[b][i] \in Action
                /\ ActionsOf[b][i].call = "open" =>
                     i > 1 /\ ActionsOf[b][i - 1] = [ActionsOf[b][i] EXCEPT !.call = "approve"]
<1>1. ActionsOf[b] \in Seq(Action) /\ ActionsOf[b] # <<>>
    BY SendQueueAssumption
<1>2. Len(ActionsOf[b]) \in Nat /\ Len(ActionsOf[b]) > 0
      /\ DOMAIN ActionsOf[b] = 1..Len(ActionsOf[b])
    BY <1>1, EmptySeq, LenProperties
<1>3. \A i \in 1..Len(ActionsOf[b]) : ActionsOf[b][i] \in Action
    BY <1>1, <1>2, ElementOfSeq
<1>4. \A i \in 1..Len(ActionsOf[b]) : ActionsOf[b][i].call = "open" =>
        i > 1 /\ ActionsOf[b][i - 1] = [ActionsOf[b][i] EXCEPT !.call = "approve"]
    BY <1>2, SendQueueAssumption
<1>. QED BY <1>1, <1>2, <1>3, <1>4

\* A call of sendActions joins the queue at its end.
LEMMA JoinKeeps ==
    ASSUME QueueInv, NEW b \in Batches, sendActions(b)
    PROVE  QueueInv'
<1>1. /\ sends[b] = "none"
      /\ sends' = [sends EXCEPT ![b] = "pending"]
      /\ queue' = Append(queue, b)
      /\ UNCHANGED <<step, awaited, sent, mined, allowance, troubled, sendFaults>>
    BY DEF sendActions
<1>2. QueueTypes /\ Waiting /\ Turn /\ Approved /\ EachBetSpendsItsOwnApproval
    BY DEF QueueInv
<1>3. queue \in Seq(Batches) /\ Len(queue) \in Nat
    BY <1>2 DEF QueueTypes
<1>4. /\ queue' \in Seq(Batches)
      /\ Len(queue') = Len(queue) + 1
      /\ \A i \in 1..Len(queue) : queue'[i] = queue[i]
      /\ queue'[Len(queue) + 1] = b
    BY <1>1, <1>3, AppendProperties
<1>5. QueueTypes'
    BY <1>1, <1>2, <1>4 DEF QueueTypes
<1>6. step[b] = 1 /\ awaited[b] = 0
    BY <1>1, <1>2 DEF Waiting
<1>7. \A i \in 1..Len(queue) : queue[i] \in Batches /\ queue[i] # b
    BY <1>1, <1>2, <1>3 DEF Waiting
<1>8. queue' # <<>> /\ (queue # <<>> => queue'[1] = queue[1]) /\ (queue = <<>> => queue'[1] = b)
    BY <1>3, <1>4
<1>9. \A c \in Batches : sends'[c] = "none" => sends[c] = "none"
    BY <1>1, <1>2 DEF QueueTypes
<1>10. \A i \in 1..Len(queue') : sends'[queue'[i]] # "none"
    BY <1>1, <1>2, <1>3, <1>4, <1>7 DEF QueueTypes, Waiting
<1>11. \A i \in 2..Len(queue') : step[queue'[i]] = 1 /\ awaited[queue'[i]] = 0
    BY <1>2, <1>3, <1>4, <1>6 DEF Waiting
<1>12. \A i, j \in 1..Len(queue') : queue'[i] = queue'[j] => i = j
    BY <1>2, <1>3, <1>4, <1>7 DEF Waiting
<1>13. Waiting'
    BY <1>1, <1>2, <1>8, <1>9, <1>10, <1>11, <1>12 DEF Waiting
<1>14. Turn'
    <2>1. CASE queue = <<>>
        BY <1>1, <1>6, <1>8, <2>1, ActionsFacts DEF Turn
    <2>2. CASE queue # <<>>
        BY <1>1, <1>2, <1>8, <2>2 DEF Turn, Last
    <2>. QED BY <2>1, <2>2
<1>15. Approved' /\ EachBetSpendsItsOwnApproval'
    BY <1>1, <1>2 DEF Approved, EachBetSpendsItsOwnApproval, Last
<1>. QED BY <1>5, <1>13, <1>14, <1>15 DEF QueueInv

\* The batch whose turn it is sends its next action: what opens a session goes
\* out when its approval is the last that was mined.
LEMMA SentIsApproved ==
    ASSUME QueueInv, NEW b \in Batches, queue # <<>>, b = queue[1], awaited[b] = 0,
           sent' = Append(sent, Transaction(b)), UNCHANGED <<mined, allowance>>
    PROVE  /\ sent' \in Seq([batch: Batches, action: Action])
           /\ Len(sent') = Len(sent) + 1
           /\ Last(sent)'.action = ActionsOf[b][step[b]]
           /\ Approved'
<1>1. QueueTypes /\ Turn /\ Approved
    BY DEF QueueInv
<1>2. step[b] \in 1..Len(ActionsOf[b])
    BY <1>1 DEF Turn
<1>. DEFINE a == ActionsOf[b][step[b]]
<1>3. a \in Action
    BY <1>2, ActionsFacts
<1>4. Transaction(b) \in [batch: Batches, action: Action] /\ Transaction(b).action = a
    BY <1>3 DEF Transaction
<1>5. sent \in Seq([batch: Batches, action: Action]) /\ Len(sent) \in Nat
    BY <1>1 DEF QueueTypes
<1>6. mined \in Seq([batch: Batches, action: Action, allowance: Nat, success: BOOLEAN])
      /\ Len(mined) \in Nat
    BY <1>1 DEF QueueTypes
<1>7. /\ sent' \in Seq([batch: Batches, action: Action])
      /\ Len(sent') = Len(sent) + 1
      /\ \A i \in 1..Len(sent) : sent'[i] = sent[i]
      /\ sent'[Len(sent) + 1] = Transaction(b)
    BY <1>4, <1>5, AppendProperties
<1>8. a.call = "open" => /\ Len(sent) = Len(mined) /\ Len(mined) > 0
                         /\ mined[Len(mined)].success
                         /\ mined[Len(mined)].action = [a EXCEPT !.call = "approve"]
    <2>. SUFFICES ASSUME a.call = "open"
                  PROVE  /\ Len(sent) = Len(mined) /\ Len(mined) > 0
                         /\ mined[Len(mined)].success
                         /\ mined[Len(mined)].action = [a EXCEPT !.call = "approve"]
        OBVIOUS
    <2>1. step[b] > 1 /\ ActionsOf[b][step[b] - 1] = [a EXCEPT !.call = "approve"]
        BY <1>2, ActionsFacts
    <2>. QED BY <1>1, <2>1 DEF Turn, Last
<1>. HIDE DEF a
<1>9. \A i \in 1..Len(mined) : mined[i].action = sent'[i].action
    BY <1>1, <1>5, <1>6, <1>7 DEF Approved
<1>10. Len(mined) <= Len(sent')
    BY <1>1, <1>5, <1>6, <1>7 DEF Approved
<1>11. \A i \in 1..Len(sent') : sent'[i].action.call = "open" =>
         /\ i > 1 /\ i - 1 <= Len(mined) /\ mined[i - 1].success
         /\ mined[i - 1].action = [sent'[i].action EXCEPT !.call = "approve"]
    <2>. SUFFICES ASSUME NEW i \in 1..Len(sent'), sent'[i].action.call = "open"
                  PROVE  /\ i > 1 /\ i - 1 <= Len(mined) /\ mined[i - 1].success
                         /\ mined[i - 1].action = [sent'[i].action EXCEPT !.call = "approve"]
        OBVIOUS
    <2>1. CASE i = Len(sent) + 1
        <3>1. sent'[i].action = a
            BY <1>4, <1>7, <2>1
        <3>2. Len(sent) = Len(mined) /\ Len(mined) > 0 /\ i - 1 = Len(mined)
            BY <1>5, <1>6, <1>8, <2>1, <3>1
        <3>. QED BY <1>6, <1>8, <2>1, <3>1, <3>2
    <2>2. CASE i # Len(sent) + 1
        <3>1. i \in 1..Len(sent)
            BY <1>5, <1>7, <2>2
        <3>. QED BY <1>1, <1>7, <3>1 DEF Approved
    <2>. QED BY <2>1, <2>2
<1>12. Approved'
    BY <1>1, <1>9, <1>10, <1>11 DEF Approved, Last
<1>13. Last(sent)'.action = a
    BY <1>4, <1>5, <1>7 DEF Last
<1>. QED BY <1>7, <1>12, <1>13 DEF a

LEMMA BroadcastKeeps ==
    ASSUME QueueInv, NEW b \in Batches, Broadcast(b)
    PROVE  QueueInv'
<1>1. /\ queue # <<>> /\ b = Head(queue) /\ awaited[b] = 0
      /\ sent' = Append(sent, Transaction(b))
      /\ awaited' = [awaited EXCEPT ![b] = Len(sent) + 1]
      /\ UNCHANGED <<sends, queue, step, mined, allowance, troubled, sendFaults>>
    BY DEF Broadcast, HasTurn
<1>2. QueueTypes /\ Waiting /\ Turn /\ Approved /\ EachBetSpendsItsOwnApproval
    BY DEF QueueInv
<1>3. queue \in Seq(Batches) /\ Len(queue) \in Nat /\ Len(queue) > 0
      /\ b = queue[1] /\ Len(sent) \in Nat
    BY <1>1, <1>2, HeadTailProperties, EmptySeq, LenProperties DEF QueueTypes
<1>4. /\ sent' \in Seq([batch: Batches, action: Action])
      /\ Len(sent') = Len(sent) + 1
      /\ Last(sent)'.action = ActionsOf[b][step[b]]
      /\ Approved'
    BY <1>1, <1>3, SentIsApproved
<1>5. awaited' \in [Batches -> Nat] /\ awaited'[b] = Len(sent) + 1
      /\ \A c \in Batches : c # b => awaited'[c] = awaited[c]
    BY <1>1, <1>2, <1>3 DEF QueueTypes
<1>6. QueueTypes'
    BY <1>1, <1>2, <1>4, <1>5 DEF QueueTypes
<1>7. sends[b] # "none"
    BY <1>2, <1>3 DEF Waiting
<1>8. \A i \in 2..Len(queue) : queue[i] \in Batches /\ queue[i] # b
    BY <1>2, <1>3 DEF Waiting
<1>9. Waiting'
    BY <1>1, <1>2, <1>3, <1>5, <1>7, <1>8 DEF Waiting
<1>10. Turn'
    <2>1. awaited'[b] # 0
        BY <1>3, <1>5
    <2>2. step[b] \in 1..Len(ActionsOf[b])
        BY <1>1, <1>2, <1>3 DEF Turn
    <2>. QED BY <1>1, <1>3, <1>4, <1>5, <2>1, <2>2 DEF Turn
<1>11. EachBetSpendsItsOwnApproval'
    BY <1>1, <1>2 DEF EachBetSpendsItsOwnApproval
<1>. QED BY <1>4, <1>6, <1>9, <1>10, <1>11 DEF QueueInv

\* When a batch ends, the next one finds everything as it was called.
LEMMA EndKeeps ==
    ASSUME QueueTypes, Waiting, NEW b \in Batches, queue # <<>>, b = queue[1],
           NEW result \in {"done", "failed"}, Ends(b, result), UNCHANGED step
    PROVE  /\ queue' \in Seq(Batches) /\ sends' \in [Batches -> {"none", "pending", "done", "failed"}]
           /\ awaited' \in [Batches -> Nat]
           /\ Waiting'
           /\ Turn'
<1>1. /\ sends' = [sends EXCEPT ![b] = result]
      /\ queue' = Tail(queue)
      /\ awaited' = [awaited EXCEPT ![b] = 0]
      /\ step' = step
    BY DEF Ends
<1>2. /\ queue \in Seq(Batches) /\ Len(queue) \in Nat /\ Len(queue) > 0
    BY EmptySeq, LenProperties DEF QueueTypes
<1>3. /\ queue' \in Seq(Batches) /\ Len(queue') = Len(queue) - 1
      /\ \A i \in 1..Len(queue') : queue'[i] = queue[i + 1]
    BY <1>1, <1>2, HeadTailProperties
<1>4. /\ sends' \in [Batches -> {"none", "pending", "done", "failed"}]
      /\ awaited' \in [Batches -> Nat]
      /\ \A c \in Batches : sends'[c] = "none" => sends[c] = "none" /\ awaited'[c] = awaited[c]
      /\ \A c \in Batches : awaited'[c] = IF c = b THEN 0 ELSE awaited[c]
      /\ \A c \in Batches : c # b => sends'[c] = sends[c]
      /\ sends'[b] # "none"
    <2>1. sends[b] # "none"
        BY <1>2 DEF Waiting
    <2>. QED BY <1>1, <2>1 DEF QueueTypes
<1>5. \A i \in 1..Len(queue') : /\ i + 1 \in 2..Len(queue) /\ queue'[i] \in Batches
                                /\ queue'[i] = queue[i + 1]
    BY <1>2, <1>3
<1>6. \A i \in 1..Len(queue') : step[queue'[i]] = 1 /\ awaited'[queue'[i]] = 0
    BY <1>4, <1>5 DEF Waiting
<1>7. \A i \in 1..Len(queue') : sends'[queue'[i]] # "none"
    <2>. SUFFICES ASSUME NEW i \in 1..Len(queue') PROVE sends'[queue'[i]] # "none"
        OBVIOUS
    <2>1. i + 1 \in 1..Len(queue) /\ queue'[i] = queue[i + 1] /\ queue'[i] \in Batches
        BY <1>2, <1>5
    <2>. QED BY <1>4, <2>1 DEF Waiting
<1>8. \A i, j \in 1..Len(queue') : queue'[i] = queue'[j] => i = j
    <2>. SUFFICES ASSUME NEW i \in 1..Len(queue'), NEW j \in 1..Len(queue'),
                         queue'[i] = queue'[j]
                  PROVE  i = j
        OBVIOUS
    <2>1. i + 1 \in 1..Len(queue) /\ j + 1 \in 1..Len(queue) /\ queue[i + 1] = queue[j + 1]
        BY <1>2, <1>5
    <2>2. i + 1 = j + 1
        BY <2>1 DEF Waiting
    <2>. QED BY <2>2, <1>3, <1>2
<1>9. \A c \in Batches : awaited'[c] = 0
    BY <1>4 DEF Waiting
<1>10. \A i \in 2..Len(queue') : i \in 1..Len(queue')
    BY <1>2, <1>3
<1>11. Waiting'
    BY <1>1, <1>4, <1>6, <1>7, <1>8, <1>9, <1>10 DEF Waiting
<1>12. Turn'
    <2>. SUFFICES ASSUME queue' # <<>> PROVE Turn'
        BY DEF Turn
    <2>1. 1 \in 1..Len(queue')
        BY <1>3, EmptySeq, LenProperties
    <2>2. queue'[1] \in Batches /\ step'[queue'[1]] = 1 /\ awaited'[queue'[1]] = 0
        BY <1>1, <1>5, <1>6, <2>1
    <2>3. 1 \in 1..Len(ActionsOf[queue'[1]])
        BY <2>2, ActionsFacts
    <2>. QED BY <2>2, <2>3 DEF Turn
<1>. QED BY <1>3, <1>4, <1>11, <1>12

LEMMA ReceiptKeeps ==
    ASSUME QueueInv, NEW b \in Batches, ReceiptArrives(b)
    PROVE  QueueInv'
<1>1. /\ sends[b] = "pending" /\ awaited[b] \in DOMAIN mined
      /\ UNCHANGED <<sent, mined, allowance, troubled, sendFaults>>
    BY DEF ReceiptArrives
<1>2. QueueTypes /\ Waiting /\ Turn /\ Approved /\ EachBetSpendsItsOwnApproval
    BY DEF QueueInv
<1>3. /\ awaited[b] \in 1..Len(mined) /\ Len(mined) \in Nat /\ Len(sent) \in Nat
    BY <1>1, <1>2, LenProperties DEF QueueTypes
<1>4. queue # <<>> /\ b = queue[1]
    BY <1>2, <1>3 DEF Waiting
<1>5. Approved' /\ EachBetSpendsItsOwnApproval'
    BY <1>1, <1>2 DEF Approved, EachBetSpendsItsOwnApproval, Last
<1>6. ASSUME NEW result \in {"done", "failed"}, Ends(b, result), UNCHANGED step
      PROVE  QueueInv'
    <2>1. /\ queue' \in Seq(Batches)
          /\ sends' \in [Batches -> {"none", "pending", "done", "failed"}]
          /\ awaited' \in [Batches -> Nat]
          /\ Waiting' /\ Turn'
        BY <1>2, <1>4, <1>6, EndKeeps
    <2>2. QueueTypes'
        BY <1>1, <1>2, <1>6, <2>1 DEF QueueTypes
    <2>. QED BY <1>5, <2>1, <2>2 DEF QueueInv
<1>7. CASE ~mined[awaited[b]].success
    BY <1>6, <1>7 DEF ReceiptArrives
<1>8. CASE mined[awaited[b]].success /\ step[b] = Len(ActionsOf[b])
    BY <1>6, <1>8 DEF ReceiptArrives
<1>9. CASE mined[awaited[b]].success /\ step[b] # Len(ActionsOf[b])
    <2>1. /\ step' = [step EXCEPT ![b] = @ + 1] /\ awaited' = [awaited EXCEPT ![b] = 0]
          /\ UNCHANGED <<sends, queue>>
        BY <1>9 DEF ReceiptArrives
    <2>2. /\ step \in [Batches -> Nat] /\ awaited \in [Batches -> Nat]
          /\ step[b] \in 1..Len(ActionsOf[b]) /\ Len(ActionsOf[b]) \in Nat
        BY <1>2, <1>4, ActionsFacts DEF QueueTypes, Turn
    <2>3. /\ \A c \in Batches : c # b => step'[c] = step[c] /\ awaited'[c] = awaited[c]
          /\ step'[b] = step[b] + 1 /\ awaited'[b] = 0
          /\ step' \in [Batches -> Nat] /\ awaited' \in [Batches -> Nat]
        BY <2>1, <2>2
    <2>4. QueueTypes'
        BY <1>1, <1>2, <2>1, <2>3 DEF QueueTypes
    <2>5. queue \in Seq(Batches) /\ Len(queue) \in Nat /\ Len(queue) > 0
        BY <1>2, <1>4, EmptySeq, LenProperties DEF QueueTypes
    <2>6. \A i \in 2..Len(queue) : queue[i] \in Batches /\ queue[i] # b
        BY <1>2, <1>4, <2>5 DEF Waiting
    <2>7. Waiting'
        BY <1>1, <1>2, <2>1, <2>3, <2>5, <2>6 DEF Waiting
    <2>8. /\ awaited[b] = Len(sent) /\ sent[Len(sent)].action = ActionsOf[b][step[b]]
        BY <1>2, <1>3, <1>4 DEF Turn, Last
    <2>9. Len(sent) = Len(mined) /\ Len(mined) > 0
        BY <1>2, <1>3, <2>8 DEF Approved
    <2>10. mined[Len(mined)].success /\ mined[Len(mined)].action = ActionsOf[b][step[b]]
        BY <1>2, <1>3, <1>9, <2>8, <2>9 DEF Approved
    <2>11. step'[b] \in 1..Len(ActionsOf[b]) /\ step'[b] - 1 = step[b]
        <3>1. step[b] + 1 \in 1..Len(ActionsOf[b]) /\ (step[b] + 1) - 1 = step[b]
            BY <1>9, <2>2
        <3>. QED BY <2>3, <3>1
    <2>12. Turn'
        BY <1>1, <1>4, <2>1, <2>3, <2>9, <2>10, <2>11 DEF Turn, Last
    <2>. QED BY <1>5, <2>4, <2>7, <2>12 DEF QueueInv
<1>. QED BY <1>7, <1>8, <1>9

LEMMA FailKeeps ==
    ASSUME QueueInv, NEW b \in Batches, CallFails(b)
    PROVE  QueueInv'
<1>1. /\ queue # <<>> /\ b = Head(queue)
      /\ Ends(b, "failed")
      /\ UNCHANGED <<step, mined, allowance>>
      /\ sent' = sent \/ (awaited[b] = 0 /\ sent' = Append(sent, Transaction(b)))
    BY DEF CallFails, HasTurn
<1>2. QueueTypes /\ Waiting /\ Turn /\ Approved /\ EachBetSpendsItsOwnApproval
    BY DEF QueueInv
<1>3. b = queue[1]
    BY <1>1, <1>2, HeadTailProperties DEF QueueTypes
<1>4. /\ queue' \in Seq(Batches)
      /\ sends' \in [Batches -> {"none", "pending", "done", "failed"}]
      /\ awaited' \in [Batches -> Nat]
      /\ Waiting' /\ Turn'
    BY <1>1, <1>2, <1>3, EndKeeps
<1>5. sent' \in Seq([batch: Batches, action: Action]) /\ Approved'
    <2>1. CASE sent' = sent
        BY <1>1, <1>2, <2>1 DEF QueueTypes, Approved, Last
    <2>2. CASE awaited[b] = 0 /\ sent' = Append(sent, Transaction(b))
        BY <1>1, <1>3, <2>2, SentIsApproved
    <2>. QED BY <1>1, <2>1, <2>2
<1>6. QueueTypes'
    BY <1>1, <1>2, <1>4, <1>5 DEF QueueTypes
<1>7. EachBetSpendsItsOwnApproval'
    BY <1>1, <1>2 DEF EachBetSpendsItsOwnApproval
<1>. QED BY <1>4, <1>5, <1>6, <1>7 DEF QueueInv

LEMMA MineKeeps ==
    ASSUME QueueInv, Mine
    PROVE  QueueInv'
<1>. DEFINE n == Len(mined)
            a == sent[n + 1].action
            enough == a.call = "open" => allowance >= a.amount
<1>1. PICK success \in BOOLEAN :
        /\ success => enough
        /\ mined' = Append(mined, [batch |-> sent[n + 1].batch, action |-> a,
                                   allowance |-> allowance, success |-> success])
        /\ allowance' = IF ~success THEN allowance
                        ELSE IF a.call = "approve" THEN a.amount
                        ELSE IF a.call = "open" THEN allowance - a.amount
                        ELSE allowance
    BY DEF Mine
<1>2. n < Len(sent) /\ UNCHANGED <<sends, queue, step, awaited, sent>>
    BY DEF Mine
<1>3. QueueTypes /\ Waiting /\ Turn /\ Approved /\ EachBetSpendsItsOwnApproval
    BY DEF QueueInv
<1>4. /\ mined \in Seq([batch: Batches, action: Action, allowance: Nat, success: BOOLEAN])
      /\ sent \in Seq([batch: Batches, action: Action])
      /\ n \in Nat /\ Len(sent) \in Nat /\ n + 1 \in 1..Len(sent)
      /\ allowance \in Nat
    BY <1>2, <1>3 DEF QueueTypes
<1>5. sent[n + 1] \in [batch: Batches, action: Action]
    <2>. HIDE DEF n
    <2>. QED BY <1>4, ElementOfSeq
<1>6. a \in Action /\ a.amount \in Nat /\ a.call \in {"approve", "open", "other"}
    BY <1>5 DEF Action
<1>. DEFINE e == [batch |-> sent[n + 1].batch, action |-> a,
                  allowance |-> allowance, success |-> success]
<1>7. e \in [batch: Batches, action: Action, allowance: Nat, success: BOOLEAN]
      /\ e.action = a /\ e.allowance = allowance /\ e.success = success
    BY <1>4, <1>5, <1>6
<1>8. mined' = Append(mined, e)
    BY <1>1
<1>9. allowance' \in Nat
    BY <1>1, <1>4, <1>6
<1>. HIDE DEF a, e
<1>10. /\ mined' \in Seq([batch: Batches, action: Action, allowance: Nat, success: BOOLEAN])
       /\ Len(mined') = n + 1
       /\ \A i \in 1..n : mined'[i] = mined[i]
       /\ mined'[n + 1] = e
    BY <1>4, <1>7, <1>8, AppendProperties
<1>. HIDE DEF n
<1>11. QueueTypes'
    BY <1>2, <1>3, <1>9, <1>10 DEF QueueTypes
<1>12. Waiting'
    BY <1>2, <1>3 DEF Waiting
<1>13. Turn'
    BY <1>2, <1>3, <1>4 DEF Turn, Last, n
<1>14. Approved'
    <2>1. Len(mined') <= Len(sent')
        BY <1>2, <1>4, <1>10
    <2>2. \A i \in 1..Len(mined') : mined'[i].action = sent'[i].action
        <3>. SUFFICES ASSUME NEW i \in 1..(n + 1) PROVE mined'[i].action = sent[i].action
            BY <1>2, <1>10
        <3>1. CASE i = n + 1
            BY <1>7, <1>10, <3>1 DEF a
        <3>2. CASE i # n + 1
            <4>1. i \in 1..n
                BY <1>4, <3>2
            <4>. QED BY <1>3, <1>10, <4>1 DEF Approved, n
        <3>. QED BY <3>1, <3>2
    <2>3. \A i \in 1..Len(sent') : sent'[i].action.call = "open" =>
            /\ i > 1 /\ i - 1 <= Len(mined') /\ mined'[i - 1].success
            /\ mined'[i - 1].action = [sent'[i].action EXCEPT !.call = "approve"]
        <3>. SUFFICES ASSUME NEW i \in 1..Len(sent), sent[i].action.call = "open"
                      PROVE  /\ i > 1 /\ i - 1 <= n + 1 /\ mined'[i - 1].success
                             /\ mined'[i - 1].action = [sent[i].action EXCEPT !.call = "approve"]
            BY <1>2, <1>10
        <3>1. /\ i > 1 /\ i - 1 <= n /\ mined[i - 1].success
              /\ mined[i - 1].action = [sent[i].action EXCEPT !.call = "approve"]
            BY <1>3 DEF Approved, n
        <3>2. i - 1 \in 1..n
            BY <1>4, <3>1
        <3>. QED BY <1>4, <1>10, <3>1, <3>2, SMTT(30)
    <2>4. success /\ a.call = "approve" => allowance' = a.amount
        BY <1>1 DEF a, n
    <2>5. Last(mined)' = e
        BY <1>10 DEF Last
    <2>. QED BY <1>7, <2>1, <2>2, <2>3, <2>4, <2>5 DEF Approved
<1>15. EachBetSpendsItsOwnApproval'
    <2>. SUFFICES ASSUME NEW i \in 1..(n + 1), mined'[i].action.call = "open"
                  PROVE  mined'[i].allowance = mined'[i].action.amount
        BY <1>10, LenProperties DEF EachBetSpendsItsOwnApproval
    <2>1. CASE i = n + 1
        <3>1. a.call = "open"
            BY <1>7, <1>10, <2>1
        <3>2. /\ n + 1 > 1 /\ n <= n /\ mined[n].success
              /\ mined[n].action = [a EXCEPT !.call = "approve"]
            BY <1>3, <1>4, <3>1 DEF Approved, a, n
        <3>3. allowance = mined[n].action.amount
            <4>1. mined[n].action.call = "approve"
                BY <1>6, <3>2 DEF Action
            <4>. QED BY <1>3, <1>4, <3>2, <4>1 DEF Approved, Last, n
        <3>4. mined[n].action.amount = a.amount
            BY <1>6, <3>2 DEF Action
        <3>. QED BY <1>7, <1>10, <2>1, <3>3, <3>4
    <2>2. CASE i # n + 1
        <3>1. i \in 1..n /\ i \in DOMAIN mined
            BY <1>4, <2>2, LenProperties DEF n
        <3>. QED BY <1>3, <1>10, <3>1 DEF EachBetSpendsItsOwnApproval
    <2>. QED BY <2>1, <2>2
<1>. QED BY <1>11, <1>12, <1>13, <1>14, <1>15 DEF QueueInv

LEMMA QueueStep == QueueInv /\ [QueueNext]_queueVars => QueueInv'
<1>. SUFFICES ASSUME QueueInv, [QueueNext]_queueVars PROVE QueueInv'
    OBVIOUS
<1>1. CASE UNCHANGED queueVars
    BY <1>1 DEF queueVars, QueueInv, QueueTypes, Waiting, Turn, Approved,
                EachBetSpendsItsOwnApproval, Last
<1>2. CASE Mine
    BY <1>2, MineKeeps
<1>3. ASSUME NEW b \in Batches,
             sendActions(b) \/ Broadcast(b) \/ ReceiptArrives(b) \/ CallFails(b)
      PROVE  QueueInv'
    BY <1>3, JoinKeeps, BroadcastKeeps, ReceiptKeeps, FailKeeps
<1>. QED BY <1>1, <1>2, <1>3 DEF QueueNext

\* A session is opened with exactly the allowance its own bet approved: for any
\* number of bets of any amounts, whatever fails, is lost or reverts in between.
THEOREM ApprovalSafety == QueueSpec => []EachBetSpendsItsOwnApproval
<1>1. QueueInv => EachBetSpendsItsOwnApproval
    BY DEF QueueInv
<1>. QED BY <1>1, QueueInitially, QueueStep, PTL DEF QueueSpec
=============================================================================
