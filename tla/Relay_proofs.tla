------------------------------ MODULE Relay_proofs ------------------------------
(***************************************************************************)
(* Proofs about Relay for any sets of owners, calls and call data, any     *)
(* number of signed requests and restarts, and any failures of the node.   *)
(***************************************************************************)
EXTENDS Relay, TLAPS

\* The stages of a call before its transaction exists.
NotSentStages == {"idle", "recover", "verify", "queued", "rejected"}

InMempool(c) == \E i \in 1 .. Len(mempool) : mempool[i] = c

\* A call past "idle" carries a signed request.
CarriesSigned == \A c \in Calls : pc[c] # "idle" => msg[c] \in signed

\* No transaction is mined or pending for a call before its task broadcasts.
NotSent == \A c \in Calls :
             pc[c] \in NotSentStages => receipt[c] = "none" /\ ~InMempool(c)

\* A pending transaction has no receipt and is pending once.
PendingOnce ==
  /\ \A i \in 1 .. Len(mempool) : receipt[mempool[i]] = "none"
  /\ \A i, j \in 1 .. Len(mempool) : mempool[i] = mempool[j] => i = j

\* A 200 answer is given on a receipt.
SuccessMined == \A c \in Calls : pc[c] = "success" => receipt[c] = "ok"

\* The forwarder has passed the nonce of every request it has applied.
NoncePassed == \A c \in Calls : receipt[c] = "ok" => msg[c].nonce < fwdNonce[msg[c].from]

\* The inductive invariant.
RelayInv ==
  /\ TypeOK
  /\ CarriesSigned
  /\ NotSent
  /\ PendingOnce
  /\ SuccessMined
  /\ NoncePassed
  /\ AtMostOnce

--------------------------------------------------------------------------------
\* A successful call of the registry keeps the types of its two mappings.
LEMMA RegistryTypes ==
  ASSUME RegistryTypeOK, NEW sender, NEW data, RegistryCall(sender, data)
  PROVE  RegistryTypeOK'
  BY DEF RegistryTypeOK, RegistryCall, RegisterIdentity, SetProfileCID, SetClaim,
         RemoveClaim, RegisterData, SetProfileData, SetClaimData, RemoveData

\* Settling a task keeps the types of pc and of the queue.
LEMMA SettleTypes ==
  ASSUME TypeOK, NEW c \in Calls, NEW answer \in Answers, IsRunning(c), Settle(c, answer)
  PROVE  pc' \in [Calls -> Stages] /\ queue' \in Seq(Calls)
  BY DEF TypeOK, IsRunning, Settle, Stages

\* Using up a nonce keeps the type of the nonce table.
LEMMA NonceTypes ==
  ASSUME NEW f \in [Owners -> Nat], NEW x
  PROVE  [f EXCEPT ![x] = @ + 1] \in [Owners -> Nat]
<1>1. ASSUME NEW o \in Owners PROVE [f EXCEPT ![x] = @ + 1][o] \in Nat
  <2>1. CASE o = x
    BY <2>1
  <2>2. CASE o # x
    BY <2>2
  <2> QED
    BY <2>1, <2>2
<1> QED
  BY <1>1

\* The state has its type in every reachable state.
THEOREM TypeCorrect == Spec => []TypeOK
<1>1. Init => TypeOK
  BY RelayAssumption DEF Init, TypeOK, RegistryInit, RegistryTypeOK, Stages
<1>2. TypeOK /\ [Next]_vars => TypeOK'
  <2> SUFFICES ASSUME TypeOK, [Next]_vars PROVE TypeOK'
    OBVIOUS
  <2> USE DEF TypeOK, Stages, Answers
  <2>1. ASSUME NEW o \in Owners, NEW data \in WalletCalls[o], SignRequest(o, data)
        PROVE TypeOK'
    <3>1. [from |-> o, nonce |-> fwdNonce[o], deadline |-> now + TTL, data |-> data]
            \in Requests
      <4>1. now + TTL \in Nat /\ fwdNonce[o] \in Nat /\ data \in CallData
        BY RelayAssumption
      <4> QED
        BY <4>1 DEF Requests
    <3>2. signed' \subseteq Requests
      BY <2>1, <3>1 DEF SignRequest
    <3> QED
      BY <2>1, <3>2 DEF SignRequest, RegistryTypeOK
  <2>2. ASSUME NEW o \in Owners, NEW data \in WalletCalls[o], DirectTx(o, data)
        PROVE TypeOK'
    BY <2>2, RegistryTypes DEF DirectTx, relayVars
  <2>3. CASE Tick
    BY <2>3 DEF Tick, RegistryTypeOK
  <2>4. ASSUME NEW c \in Calls, NEW m \in signed, Submit(c, m) PROVE TypeOK'
    BY <2>4 DEF Submit, RegistryTypeOK
  <2>5. ASSUME NEW c \in Calls, RecoverSigner(c) PROVE TypeOK'
    BY <2>5 DEF RecoverSigner, RegistryTypeOK
  <2>6. ASSUME NEW c \in Calls, VerifyOnChain(c) PROVE TypeOK'
    <3>1. pc' \in [Calls -> Stages]
      BY <2>6 DEF VerifyOnChain
    <3>2. queue' = queue \/ queue' = Append(queue, c)
      <4>1. CASE ForwarderVerify(msg[c])
        BY <2>6, <4>1 DEF VerifyOnChain
      <4>2. CASE ~ForwarderVerify(msg[c])
        BY <2>6, <4>2 DEF VerifyOnChain
      <4> QED
        BY <4>1, <4>2
    <3>3. queue' \in Seq(Calls)
      <4>1. queue \in Seq(Calls) /\ Append(queue, c) \in Seq(Calls)
        OBVIOUS
      <4> QED
        BY <3>2, <4>1, Zenon
    <3> QED
      BY <2>6, <3>1, <3>3 DEF VerifyOnChain, RegistryTypeOK
  <2>7. ASSUME NEW c \in Calls, Broadcast(c) PROVE TypeOK'
    BY <2>7 DEF Broadcast, RegistryTypeOK
  <2>8. ASSUME NEW c \in Calls, EstimateFails(c) PROVE TypeOK'
    BY <2>8, SettleTypes DEF EstimateFails, RegistryTypeOK
  <2>9. ASSUME NEW c \in Calls, GetReceipt(c) PROVE TypeOK'
    BY <2>9, SettleTypes DEF GetReceipt, RegistryTypeOK
  <2>10. ASSUME NEW c \in Calls, RpcFails(c) PROVE TypeOK'
    BY <2>10, SettleTypes DEF RpcFails, RegistryTypeOK
  <2>11. ASSUME NEW c \in Calls, MineSuccess(c) PROVE TypeOK'
    <3>1. RegistryTypeOK'
      BY <2>11, RegistryTypes DEF MineSuccess, ForwarderExecute
    <3>2. fwdNonce' \in [Owners -> Nat]
      <4>1. fwdNonce' = [fwdNonce EXCEPT ![msg[c].from] = @ + 1]
        BY <2>11 DEF MineSuccess, ForwarderExecute
      <4> QED
        BY <4>1, NonceTypes DEF TypeOK
    <3>3. receipt' \in [Calls -> {"none", "ok", "reverted"}]
      BY <2>11 DEF MineSuccess
    <3>4. mempool' \in Seq(Calls)
      BY <2>11 DEF MineSuccess
    <3> QED
      BY <2>11, <3>1, <3>2, <3>3, <3>4 DEF MineSuccess
  <2>12. ASSUME NEW c \in Calls, MineRevert(c) PROVE TypeOK'
    BY <2>12 DEF MineRevert, RegistryTypeOK
  <2>13. CASE Crash
    BY <2>13 DEF Crash, RegistryTypeOK
  <2>14. CASE UNCHANGED vars
    BY <2>14 DEF vars, relayVars, RegistryTypeOK
  <2> QED
    BY <2>1, <2>2, <2>3, <2>4, <2>5, <2>6, <2>7, <2>8, <2>9, <2>10, <2>11, <2>12,
       <2>13, <2>14 DEF Next, HandlerStep, Mine
<1> QED
  BY <1>1, <1>2, PTL DEF Spec

--------------------------------------------------------------------------------
\* A step that mines nothing and broadcasts nothing, moves no call back before
\* its broadcast, and gives calls no other requests than signed ones.
QuietStep ==
  /\ UNCHANGED <<fwdNonce, mempool, receipt>>
  /\ signed \subseteq signed'
  /\ \A c \in Calls :
       /\ pc'[c] # "idle" => \/ pc[c] # "idle" /\ msg'[c] = msg[c]
                             \/ msg'[c] \in signed
       /\ pc'[c] \in NotSentStages => pc[c] \in NotSentStages
       /\ pc'[c] = "success" => pc[c] = "success" \/ receipt[c] = "ok"
       /\ msg'[c] = msg[c] \/ receipt[c] = "none"

LEMMA QuietSteps ==
  ASSUME RelayInv, TypeOK', QuietStep
  PROVE  RelayInv'
<1> USE DEF RelayInv
<1>1. CarriesSigned'
  BY DEF QuietStep, CarriesSigned
<1>2. NotSent'
  BY DEF QuietStep, NotSent, InMempool
<1>3. PendingOnce'
  BY DEF QuietStep, PendingOnce
<1>4. SuccessMined'
  BY DEF QuietStep, SuccessMined
<1>5. NoncePassed'
  BY DEF QuietStep, NoncePassed
<1>6. AtMostOnce'
  BY DEF QuietStep, AtMostOnce, RequestId
<1> QED
  BY <1>1, <1>2, <1>3, <1>4, <1>5, <1>6

\* Every step but a broadcast and the mining of a transaction is quiet.
LEMMA MostStepsAreQuiet ==
  ASSUME RelayInv, [Next]_vars
  PROVE  \/ QuietStep
         \/ \E c \in Calls : Broadcast(c) \/ MineSuccess(c) \/ MineRevert(c)
<1> USE DEF RelayInv, TypeOK, Stages, Answers, NotSentStages
<1>1. ASSUME NEW o \in Owners, NEW data \in WalletCalls[o], SignRequest(o, data)
      PROVE QuietStep
  BY <1>1 DEF SignRequest, QuietStep, CarriesSigned
<1>2. ASSUME NEW o \in Owners, NEW data \in WalletCalls[o], DirectTx(o, data)
      PROVE QuietStep
  BY <1>2 DEF DirectTx, relayVars, QuietStep, CarriesSigned
<1>3. CASE Tick
  BY <1>3 DEF Tick, QuietStep, CarriesSigned
<1>4. ASSUME NEW c \in Calls, NEW m \in signed, Submit(c, m) PROVE QuietStep
  BY <1>4 DEF Submit, QuietStep, CarriesSigned, NotSent
<1>5. ASSUME NEW c \in Calls, RecoverSigner(c) PROVE QuietStep
  BY <1>5 DEF RecoverSigner, QuietStep, CarriesSigned
<1>6. ASSUME NEW c \in Calls, VerifyOnChain(c) PROVE QuietStep
  BY <1>6 DEF VerifyOnChain, QuietStep, CarriesSigned
<1>7. ASSUME NEW c \in Calls, EstimateFails(c) PROVE QuietStep
  BY <1>7 DEF EstimateFails, Settle, QuietStep, CarriesSigned
<1>8. ASSUME NEW c \in Calls, GetReceipt(c) PROVE QuietStep
  BY <1>8 DEF GetReceipt, Settle, QuietStep, CarriesSigned
<1>9. ASSUME NEW c \in Calls, RpcFails(c) PROVE QuietStep
  BY <1>9 DEF RpcFails, Settle, QuietStep, CarriesSigned
<1>10. CASE Crash
  BY <1>10 DEF Crash, QuietStep, CarriesSigned
<1>11. CASE UNCHANGED vars
  BY <1>11 DEF vars, relayVars, QuietStep, CarriesSigned
<1> QED
  BY <1>1, <1>2, <1>3, <1>4, <1>5, <1>6, <1>7, <1>8, <1>9, <1>10, <1>11
  DEF Next, HandlerStep, Mine

\* A pending or mined call carries a signed request.
LEMMA SentIsSigned ==
  ASSUME RelayInv, NEW c \in Calls, receipt[c] = "ok" \/ InMempool(c)
  PROVE  msg[c] \in signed /\ msg[c] \in Requests
BY DEF RelayInv, TypeOK, CarriesSigned, NotSent, NotSentStages

LEMMA BroadcastKeepsInv ==
  ASSUME RelayInv, TypeOK', NEW c \in Calls, Broadcast(c)
  PROVE  RelayInv'
<1> USE DEF RelayInv, Broadcast
<1>1. /\ receipt[c] = "none" /\ ~InMempool(c)
      /\ mempool \in Seq(Calls) /\ mempool' = Append(mempool, c)
      /\ pc \in [Calls -> Stages] /\ pc' = [pc EXCEPT ![c] = "waiting"]
  BY DEF NotSent, NotSentStages, TypeOK
<1>2. CarriesSigned'
  BY <1>1 DEF CarriesSigned
<1>3. NotSent'
  BY <1>1 DEF NotSent, NotSentStages, InMempool
<1>4. PendingOnce'
  BY <1>1 DEF PendingOnce, InMempool
<1>5. SuccessMined'
  BY <1>1 DEF SuccessMined
<1>6. NoncePassed' /\ AtMostOnce'
  BY DEF NoncePassed, AtMostOnce, RequestId
<1> QED
  BY <1>2, <1>3, <1>4, <1>5, <1>6

\* Mining takes the head of the mempool: it had no receipt and is gone.
LEMMA MinedHead ==
  ASSUME RelayInv, NEW c \in Calls, mempool # <<>>, c = Head(mempool),
         mempool' = Tail(mempool)
  PROVE  /\ InMempool(c) /\ receipt[c] = "none"
         /\ ~InMempool(c)'
         /\ \A i \in 1 .. Len(mempool') : /\ i + 1 \in 1 .. Len(mempool)
                                          /\ mempool'[i] = mempool[i + 1]
                                          /\ mempool'[i] # c
<1>1. /\ mempool \in Seq(Calls) /\ Len(mempool) \in Nat /\ Len(mempool) > 0
      /\ mempool[1] = c /\ Len(mempool') = Len(mempool) - 1
  BY DEF RelayInv, TypeOK
<1>2. InMempool(c) /\ receipt[c] = "none"
  BY <1>1 DEF InMempool, RelayInv, PendingOnce
<1>3. ASSUME NEW i \in 1 .. Len(mempool')
      PROVE i + 1 \in 1 .. Len(mempool) /\ mempool'[i] = mempool[i + 1] /\ mempool'[i] # c
  <2>1. i + 1 \in 1 .. Len(mempool) /\ mempool'[i] = mempool[i + 1]
    BY <1>1
  <2>2. 1 \in 1 .. Len(mempool) /\ i + 1 # 1
    BY <1>1
  <2> QED
    BY <1>1, <2>1, <2>2 DEF RelayInv, PendingOnce
<1> QED
  BY <1>2, <1>3 DEF InMempool

\* A transaction that succeeds is the first one over its signer's nonce.
LEMMA MinedIsFresh ==
  ASSUME RelayInv, NEW c \in Calls, MineSuccess(c)
  PROVE  /\ msg[c] \in signed /\ msg[c] \in Requests
         /\ msg[c].nonce = fwdNonce[msg[c].from]
         /\ \A d \in Calls : receipt[d] = "ok" => RequestId(d) # RequestId(c)
<1>1. InMempool(c)
  BY MinedHead DEF MineSuccess
<1>2. msg[c] \in signed /\ msg[c] \in Requests
  BY <1>1, SentIsSigned
<1>3. msg[c].nonce = fwdNonce[msg[c].from]
  BY DEF MineSuccess, ForwarderExecute, Executable, ForwarderVerify
<1>4. ASSUME NEW d \in Calls, receipt[d] = "ok", RequestId(d) = RequestId(c)
      PROVE FALSE
  <2>1. msg[d] \in Requests
    BY <1>4, SentIsSigned
  <2>2. msg[d].from = msg[c].from /\ msg[d].nonce = msg[c].nonce
    BY <1>4 DEF RequestId
  <2>3. msg[d].nonce < fwdNonce[msg[d].from]
    BY <1>4 DEF RelayInv, NoncePassed
  <2>4. msg[c].nonce \in Nat
    BY <1>2 DEF Requests
  <2> QED
    BY <1>3, <2>2, <2>3, <2>4
<1> QED
  BY <1>2, <1>3, <1>4

LEMMA MiningKeepsInv ==
  ASSUME RelayInv, TypeOK', NEW c \in Calls, MineSuccess(c) \/ MineRevert(c)
  PROVE  RelayInv'
<1>1. /\ InMempool(c) /\ receipt[c] = "none" /\ ~InMempool(c)'
      /\ \A i \in 1 .. Len(mempool') : /\ i + 1 \in 1 .. Len(mempool)
                                       /\ mempool'[i] = mempool[i + 1]
                                       /\ mempool'[i] # c
  BY MinedHead DEF MineSuccess, MineRevert
<1>2. PICK r \in {"ok", "reverted"} : receipt' = [receipt EXCEPT ![c] = r]
  BY DEF MineSuccess, MineRevert
<1>3. UNCHANGED <<signed, pc, msg, queue>>
  BY DEF MineSuccess, MineRevert
<1>4. receipt \in [Calls -> {"none", "ok", "reverted"}]
  BY DEF RelayInv, TypeOK
<1>5. receipt'[c] = r /\ \A d \in Calls \ {c} : receipt'[d] = receipt[d]
  BY <1>2, <1>4
<1>6. pc[c] \notin NotSentStages
  BY <1>1 DEF RelayInv, NotSent
<1>7. CarriesSigned'
  BY <1>3 DEF RelayInv, CarriesSigned
<1>8. NotSent'
  <2>1. ASSUME NEW d \in Calls, pc'[d] \in NotSentStages
        PROVE receipt'[d] = "none" /\ ~InMempool(d)'
    <3>1. d # c /\ receipt[d] = "none" /\ ~InMempool(d)
      BY <1>3, <1>6, <2>1 DEF RelayInv, NotSent
    <3> QED
      BY <1>1, <1>5, <3>1 DEF InMempool
  <2> QED
    BY <2>1 DEF NotSent
<1>9. PendingOnce'
  <2>1. Len(mempool') \in Nat /\ mempool' \in Seq(Calls) /\ mempool \in Seq(Calls)
    BY DEF RelayInv, TypeOK
  <2>2. ASSUME NEW i \in 1 .. Len(mempool') PROVE receipt'[mempool'[i]] = "none"
    <3>1. mempool'[i] \in Calls \ {c} /\ i + 1 \in 1 .. Len(mempool)
          /\ mempool'[i] = mempool[i + 1]
      BY <1>1, <2>1
    <3> QED
      BY <1>5, <3>1 DEF RelayInv, PendingOnce
  <2>3. ASSUME NEW i \in 1 .. Len(mempool'), NEW j \in 1 .. Len(mempool'),
               mempool'[i] = mempool'[j]
        PROVE i = j
    <3>1. i + 1 = j + 1
      BY <1>1, <2>3 DEF RelayInv, PendingOnce
    <3> QED
      BY <2>1, <3>1
  <2> QED
    BY <2>2, <2>3 DEF PendingOnce
<1>10. SuccessMined'
  BY <1>1, <1>3, <1>5 DEF RelayInv, SuccessMined
<1>11. NoncePassed' /\ AtMostOnce'
  <2>1. CASE MineSuccess(c)
    <3>1. /\ msg[c] \in Requests /\ msg[c].nonce = fwdNonce[msg[c].from]
          /\ \A d \in Calls : receipt[d] = "ok" => RequestId(d) # RequestId(c)
      BY <2>1, MinedIsFresh
    <3>2. /\ fwdNonce \in [Owners -> Nat]
          /\ fwdNonce' = [fwdNonce EXCEPT ![msg[c].from] = @ + 1]
      BY <2>1 DEF MineSuccess, ForwarderExecute, RelayInv, TypeOK
    <3>3. msg[c].from \in Owners
      BY <3>1 DEF Requests
    <3>4. \A o \in Owners : fwdNonce[o] \in Nat /\ fwdNonce'[o] \in Nat
                            /\ fwdNonce[o] <= fwdNonce'[o]
      BY <3>2
    <3>5. msg[c].nonce < fwdNonce'[msg[c].from]
      BY <3>1, <3>2, <3>3
    <3>6. ASSUME NEW d \in Calls, receipt'[d] = "ok", d # c
          PROVE msg[d].nonce < fwdNonce'[msg[d].from]
      <4>1. receipt[d] = "ok"
        BY <1>5, <3>6
      <4>2. msg[d].from \in Owners /\ msg[d].nonce \in Nat
        BY <4>1, SentIsSigned DEF Requests
      <4>3. msg[d].nonce < fwdNonce[msg[d].from]
        BY <4>1 DEF RelayInv, NoncePassed
      <4> QED
        BY <3>4, <4>2, <4>3
    <3>7. NoncePassed'
      BY <1>3, <3>5, <3>6 DEF NoncePassed
    <3>8. ASSUME NEW d \in Calls, NEW e \in Calls, receipt'[d] = "ok",
                 receipt'[e] = "ok", RequestId(d) = RequestId(e)
          PROVE d = e
      BY <1>5, <3>1, <3>8 DEF RelayInv, AtMostOnce
    <3>9. AtMostOnce'
      BY <1>3, <3>8 DEF AtMostOnce, RequestId
    <3> QED
      BY <3>7, <3>9
  <2>2. CASE MineRevert(c)
    <3>1. r = "reverted" /\ fwdNonce' = fwdNonce
      BY <1>5, <2>2, <1>4 DEF MineRevert
    <3>2. \A d \in Calls : receipt'[d] = "ok" => receipt[d] = "ok"
      BY <1>5, <3>1
    <3> QED
      BY <1>3, <3>1, <3>2 DEF RelayInv, NoncePassed, AtMostOnce, RequestId
  <2> QED
    BY <2>1, <2>2
<1> QED
  BY <1>7, <1>8, <1>9, <1>10, <1>11 DEF RelayInv

LEMMA Invariance == Spec => []RelayInv
<1>1. Init => RelayInv
  <2> SUFFICES ASSUME Init PROVE RelayInv
    OBVIOUS
  <2>1. TypeOK
    BY RelayAssumption DEF Init, TypeOK, RegistryInit, RegistryTypeOK, Stages
  <2>2. /\ CarriesSigned /\ NotSent /\ PendingOnce /\ SuccessMined /\ NoncePassed
        /\ AtMostOnce
    BY DEF Init, CarriesSigned, NotSent, InMempool, PendingOnce, SuccessMined,
           NoncePassed, AtMostOnce
  <2> QED
    BY <2>1, <2>2 DEF RelayInv
<1>2. RelayInv /\ TypeOK' /\ [Next]_vars => RelayInv'
  BY MostStepsAreQuiet, QuietSteps, BroadcastKeepsInv, MiningKeepsInv
<1> QED
  BY <1>1, <1>2, TypeCorrect, PTL DEF Spec

\* However often signed requests are posted, queued, retried or left behind by
\* a crash, and whatever the node does, at most one of the calls that carry
\* requests over one nonce of one signer changes the registry.
THEOREM AppliedAtMostOnce == Spec => []AtMostOnce
<1>1. RelayInv => AtMostOnce
  BY DEF RelayInv
<1> QED
  BY <1>1, Invariance, PTL

\* A relay call answered with 200 changed the registry; one answered with 400
\* has sent no transaction and never will.
THEOREM TruthfulAnswers == Spec => []AnswersAreTruthful
<1>1. RelayInv => AnswersAreTruthful
  BY DEF RelayInv, AnswersAreTruthful, SuccessMined, NotSent, NotSentStages,
         InMempool, TypeOK
<1> QED
  BY <1>1, Invariance, PTL

--------------------------------------------------------------------------------
\* What is in flight, and what a failure means

\* A transaction in flight is that of the running task, which waits for it, or abandoned.
PendingRuns ==
  \A i \in 1 .. Len(mempool) :
    \/ IsRunning(mempool[i]) /\ pc[mempool[i]] = "waiting"
    \/ mempool[i] \in abandoned

\* A call that failed and was not abandoned has no transaction that was mined with
\* effect or is pending.
FailedIsOver ==
  \A c \in Calls : pc[c] = "failed" /\ c \notin abandoned =>
                      receipt[c] # "ok" /\ ~InMempool(c)

FlightInv == PendingRuns /\ FailedIsOver

\* A task settles that has nothing in flight, or is abandoned; as failed only without
\* effect, or abandoned.
LEMMA SettlingKeepsFlight ==
  ASSUME RelayInv, FlightInv, NEW c \in Calls, NEW answer \in Answers, IsRunning(c),
         Settle(c, answer), UNCHANGED <<mempool, receipt>>,
         abandoned \subseteq abandoned',
         c \in abandoned' \/ (~InMempool(c) /\ (answer = "failed" => receipt[c] # "ok"))
  PROVE  FlightInv'
<1>1. mempool \in Seq(Calls) /\ pc' = [pc EXCEPT ![c] = answer] /\ pc \in [Calls -> Stages]
  BY DEF RelayInv, TypeOK, Settle
<1>2. PendingRuns'
  <2>1. ASSUME NEW i \in 1 .. Len(mempool) PROVE mempool[i] \in abandoned'
    <3>1. mempool[i] = c \/ mempool[i] \in abandoned
      BY DEF FlightInv, PendingRuns, IsRunning
    <3> QED
      BY <3>1 DEF InMempool
  <2> QED
    BY <2>1 DEF PendingRuns
<1>3. ASSUME NEW d \in Calls, pc'[d] = "failed", d \notin abandoned'
      PROVE receipt[d] # "ok" /\ ~InMempool(d)
  <2>1. CASE d = c
    BY <1>1, <1>3, <2>1
  <2>2. CASE d # c
    BY <1>1, <1>3, <2>2 DEF FlightInv, FailedIsOver
  <2> QED
    BY <2>1, <2>2
<1>4. FailedIsOver'
  BY <1>3 DEF FailedIsOver, InMempool
<1> QED
  BY <1>2, <1>4 DEF FlightInv

LEMMA MiningKeepsFlight ==
  ASSUME RelayInv, FlightInv, NEW c \in Calls, Mine(c)
  PROVE  FlightInv'
<1>1. /\ InMempool(c) /\ ~InMempool(c)'
      /\ \A i \in 1 .. Len(mempool') : /\ i + 1 \in 1 .. Len(mempool)
                                       /\ mempool'[i] = mempool[i + 1]
  BY MinedHead DEF Mine, MineSuccess, MineRevert
<1>2. /\ UNCHANGED <<pc, queue, abandoned>>
      /\ \A d \in Calls \ {c} : receipt'[d] = receipt[d]
  BY DEF Mine, MineSuccess, MineRevert, RelayInv, TypeOK
<1>3. PendingRuns'
  BY <1>1, <1>2 DEF FlightInv, PendingRuns, IsRunning
<1>4. pc[c] = "waiting" \/ c \in abandoned
  BY <1>1 DEF InMempool, FlightInv, PendingRuns
<1>5. ASSUME NEW d \in Calls, pc'[d] = "failed", d \notin abandoned'
      PROVE receipt'[d] # "ok" /\ ~InMempool(d)'
  <2>1. d # c /\ pc[d] = "failed" /\ d \notin abandoned
    BY <1>2, <1>4, <1>5
  <2>2. receipt[d] # "ok" /\ ~InMempool(d)
    BY <2>1 DEF FlightInv, FailedIsOver
  <2>3. ~InMempool(d)'
    BY <1>1, <2>2 DEF InMempool
  <2> QED
    BY <1>2, <2>1, <2>2, <2>3
<1> QED
  BY <1>3, <1>5 DEF FlightInv, FailedIsOver

\* A step that neither mines nor broadcasts, and of calls that have been broadcast
\* settles none.
LEMMA OtherStepsKeepFlight ==
  ASSUME RelayInv, FlightInv, UNCHANGED <<mempool, receipt, abandoned>>,
         queue # <<>> => queue' # <<>> /\ Head(queue') = Head(queue),
         \A c \in Calls : /\ pc[c] = "waiting" => pc'[c] = "waiting"
                          /\ pc'[c] = "failed" => pc[c] \in {"failed", "recover", "verify"}
  PROVE  FlightInv'
<1>1. mempool \in Seq(Calls)
  BY DEF RelayInv, TypeOK
<1>2. PendingRuns'
  BY <1>1 DEF FlightInv, PendingRuns, IsRunning
<1>3. ASSUME NEW c \in Calls, pc'[c] = "failed", c \notin abandoned
      PROVE receipt[c] # "ok" /\ ~InMempool(c)
  BY <1>3 DEF FlightInv, FailedIsOver, RelayInv, NotSent, NotSentStages
<1>4. FailedIsOver'
  BY <1>3 DEF FailedIsOver, InMempool
<1> QED
  BY <1>2, <1>4 DEF FlightInv

\* A broadcast finds nothing in flight but what is abandoned.
LEMMA BroadcastKeepsFlight ==
  ASSUME RelayInv, FlightInv, NEW c \in Calls, Broadcast(c)
  PROVE  FlightInv'
<1>1. /\ IsRunning(c) /\ pc[c] = "queued" /\ UNCHANGED <<queue, receipt, abandoned>>
      /\ pc' = [pc EXCEPT ![c] = "waiting"] /\ mempool' = Append(mempool, c)
      /\ mempool \in Seq(Calls) /\ pc \in [Calls -> Stages]
  BY DEF Broadcast, RelayInv, TypeOK
<1>2. ASSUME NEW i \in 1 .. Len(mempool) PROVE mempool[i] \in abandoned
  BY <1>1 DEF FlightInv, PendingRuns, IsRunning
<1>3. \A i \in 1 .. Len(mempool') : mempool'[i] = c \/ mempool'[i] \in abandoned
  BY <1>1, <1>2
<1>4. PendingRuns'
  BY <1>1, <1>3 DEF PendingRuns, IsRunning
<1>5. ASSUME NEW d \in Calls, pc'[d] = "failed", d \notin abandoned'
      PROVE receipt'[d] # "ok" /\ ~InMempool(d)'
  <2>1. d # c /\ pc[d] = "failed" /\ d \notin abandoned
    BY <1>1, <1>5
  <2> QED
    BY <1>1, <1>3, <2>1 DEF FlightInv, FailedIsOver, InMempool
<1> QED
  BY <1>4, <1>5 DEF FlightInv, FailedIsOver

LEMMA FlightInvariance == Spec => []FlightInv
<1>1. Init => FlightInv
  BY DEF Init, FlightInv, PendingRuns, FailedIsOver
<1>2. RelayInv /\ FlightInv /\ [Next]_vars => FlightInv'
  <2> SUFFICES ASSUME RelayInv, FlightInv, [Next]_vars PROVE FlightInv'
    OBVIOUS
  <2>0. /\ mempool \in Seq(Calls) /\ queue \in Seq(Calls) /\ pc \in [Calls -> Stages]
        /\ receipt \in [Calls -> {"none", "ok", "reverted"}] /\ abandoned \subseteq Calls
    BY DEF RelayInv, TypeOK
  <2>1. ASSUME NEW o \in Owners, NEW data \in WalletCalls[o],
               SignRequest(o, data) \/ DirectTx(o, data)
        PROVE FlightInv'
    BY <2>1, OtherStepsKeepFlight DEF SignRequest, DirectTx, relayVars
  <2>2. CASE Tick \/ UNCHANGED vars
    BY <2>2, OtherStepsKeepFlight DEF Tick, vars, relayVars
  <2>3. ASSUME NEW c \in Calls, NEW m \in signed, Submit(c, m) PROVE FlightInv'
    BY <2>0, <2>3, OtherStepsKeepFlight DEF Submit
  <2>4. ASSUME NEW c \in Calls, RecoverSigner(c) PROVE FlightInv'
    BY <2>0, <2>4, OtherStepsKeepFlight DEF RecoverSigner
  <2>5. ASSUME NEW c \in Calls, VerifyOnChain(c) PROVE FlightInv'
    <3>1. queue' = queue \/ queue' = Append(queue, c)
      BY <2>5, Zenon DEF VerifyOnChain
    <3>2. queue # <<>> => queue' # <<>> /\ Head(queue') = Head(queue)
      BY <2>0, <3>1
    <3>3. /\ UNCHANGED <<mempool, receipt, abandoned>> /\ pc[c] = "verify"
          /\ \E stage \in {"queued", "rejected"} : pc' = [pc EXCEPT ![c] = stage]
      BY <2>5 DEF VerifyOnChain
    <3> QED
      BY <2>0, <3>2, <3>3, OtherStepsKeepFlight
  <2>6. ASSUME NEW c \in Calls, Broadcast(c) PROVE FlightInv'
    BY <2>6, BroadcastKeepsFlight
  <2>7. ASSUME NEW c \in Calls, EstimateFails(c) PROVE FlightInv'
    <3>1. ~InMempool(c) /\ receipt[c] = "none"
      BY <2>7 DEF EstimateFails, RelayInv, NotSent, NotSentStages
    <3> QED
      BY <2>7, <3>1, SettlingKeepsFlight DEF EstimateFails, Answers
  <2>8. ASSUME NEW c \in Calls, GetReceipt(c) PROVE FlightInv'
    <3>1. ~InMempool(c)
      BY <2>8 DEF GetReceipt, RelayInv, PendingOnce, InMempool
    <3> QED
      BY <2>8, <3>1, SettlingKeepsFlight DEF GetReceipt, Answers
  <2>9. ASSUME NEW c \in Calls, RpcFails(c) PROVE FlightInv'
    <3>1. CASE pc[c] \in {"recover", "verify"} /\ pc' = [pc EXCEPT ![c] = "failed"]
                 /\ UNCHANGED <<queue, abandoned>>
      BY <2>0, <2>9, <3>1, OtherStepsKeepFlight DEF RpcFails
    <3>2. CASE IsRunning(c) /\ pc[c] = "queued" /\ Settle(c, "failed") /\ UNCHANGED abandoned
      <4>1. ~InMempool(c) /\ receipt[c] = "none"
        BY <3>2 DEF RelayInv, NotSent, NotSentStages
      <4> QED
        BY <2>9, <3>2, <4>1, SettlingKeepsFlight DEF RpcFails, Answers
    <3>3. CASE IsRunning(c) /\ pc[c] = "waiting" /\ Settle(c, "failed")
                 /\ abandoned' = abandoned \cup {c}
      BY <2>9, <3>3, SettlingKeepsFlight DEF RpcFails, Answers
    <3> QED
      BY <2>9, <3>1, <3>2, <3>3 DEF RpcFails
  <2>10. ASSUME NEW c \in Calls, Mine(c) PROVE FlightInv'
    BY <2>10, MiningKeepsFlight
  <2>11. CASE Crash
    <3>1. /\ UNCHANGED <<mempool, receipt>>
          /\ abandoned' = abandoned \cup {c \in Calls : pc[c] = "waiting"}
          /\ \A c \in Calls : pc'[c] = "failed" => pc[c] = "failed"
      BY <2>0, <2>11 DEF Crash
    <3>2. PendingRuns'
      BY <2>0, <3>1 DEF FlightInv, PendingRuns
    <3>3. FailedIsOver'
      BY <3>1 DEF FlightInv, FailedIsOver, InMempool
    <3> QED
      BY <3>2, <3>3 DEF FlightInv
  <2> QED
    BY <2>1, <2>2, <2>3, <2>4, <2>5, <2>6, <2>7, <2>8, <2>9, <2>10, <2>11
    DEF Next, HandlerStep
<1> QED
  BY <1>1, <1>2, Invariance, PTL DEF Spec

\* The queue of the relay (TxQueue in metaTxController.js) keeps the relayer at one
\* transaction in flight that is still waited for, for any number of calls, restarts and
\* failures of the node.
THEOREM OneAtATime == Spec => []OneAwaitedInFlight
<1>1. RelayInv /\ FlightInv => OneAwaitedInFlight
  <2> SUFFICES ASSUME RelayInv, FlightInv, NEW i \in DOMAIN mempool, NEW j \in DOMAIN mempool,
                      mempool[i] \notin abandoned, mempool[j] \notin abandoned
               PROVE  i = j
    BY DEF OneAwaitedInFlight
  <2>1. i \in 1 .. Len(mempool) /\ j \in 1 .. Len(mempool)
    BY DEF RelayInv, TypeOK
  <2>2. mempool[i] = mempool[j]
    BY <2>1 DEF FlightInv, PendingRuns, IsRunning
  <2> QED
    BY <2>1, <2>2 DEF RelayInv, PendingOnce
<1> QED
  BY <1>1, Invariance, FlightInvariance, PTL

\* A call answered with 500 has changed nothing and never will, so that the pages may fall
\* back, unless the node failed while its transaction was awaited (relayMetaTx in
\* metaTxController.js), for any number of calls, restarts and failures.
THEOREM FailedHasNoEffect == Spec => []FailureMeansNoEffect
<1>1. RelayInv /\ FlightInv => FailureMeansNoEffect
  BY DEF RelayInv, TypeOK, FlightInv, FailedIsOver, InMempool, FailureMeansNoEffect
<1> QED
  BY <1>1, Invariance, FlightInvariance, PTL

--------------------------------------------------------------------------------
\* Refinement

Used == {RequestId(c) : c \in {d \in Calls : receipt[d] = "ok"}}

\* The registry of the abstract specification is the registry.
LEMMA SameRegistry ==
  ASSUME NEW sender, NEW data, RegistryCall(sender, data)
  PROVE  Abstract!RegistryCall(sender, data)
BY DEF RegistryCall, RegisterIdentity, SetProfileCID, SetClaim, RemoveClaim, OnlySelf,
       RegisterData, SetProfileData, SetClaimData, RemoveData, Abstract!RegistryCall,
       Abstract!RegisterIdentity, Abstract!SetProfileCID, Abstract!SetClaim,
       Abstract!RemoveClaim, Abstract!OnlySelf, Abstract!RegisterData,
       Abstract!SetProfileData, Abstract!SetClaimData, Abstract!RemoveData

LEMMA SameCallData == CallData = Abstract!CallData
BY DEF CallData, RegisterData, SetProfileData, SetClaimData, RemoveData,
       Abstract!CallData, Abstract!RegisterData, Abstract!SetProfileData,
       Abstract!SetClaimData, Abstract!RemoveData

LEMMA UsedKept ==
  ASSUME \A d \in Calls : receipt'[d] = "ok" <=> receipt[d] = "ok",
         \A d \in Calls : receipt[d] = "ok" => msg'[d] = msg[d]
  PROVE  Used' = Used
BY DEF Used, RequestId

LEMMA QuietKeepsUsed == RelayInv /\ QuietStep => Used' = Used
BY UsedKept DEF QuietStep

\* A quiet step signs, is a wallet's own transaction, or is not visible.
LEMMA QuietImplements ==
  ASSUME RelayInv, TypeOK', [Next]_vars, QuietStep, Used' = Used
  PROVE  [Abstract!AbsNext]_(Abstract!absVars)
<1>1. ASSUME NEW o \in Owners, NEW data \in WalletCalls[o], SignRequest(o, data)
      PROVE Abstract!Sign
  BY <1>1 DEF SignRequest, Abstract!Sign, QuietStep, TypeOK, Used
<1>2. ASSUME NEW o \in Owners, NEW data \in WalletCalls[o], DirectTx(o, data)
      PROVE Abstract!OwnWrite(o, data)
  BY <1>2, SameRegistry DEF DirectTx, relayVars, Abstract!OwnWrite, Used
<1>3. ASSUME NEW o \in Owners, NEW data \in WalletCalls[o], DirectTx(o, data)
      PROVE Abstract!AbsNext
  BY <1>2, <1>3, RelayAssumption, SameCallData DEF Abstract!AbsNext
<1>4. ASSUME UNCHANGED <<profileCID, claims, signed>> PROVE UNCHANGED Abstract!absVars
  BY <1>4 DEF Abstract!absVars, Used
<1>5. \/ UNCHANGED <<profileCID, claims, signed>>
      \/ \E o \in Owners : \E data \in WalletCalls[o] : SignRequest(o, data) \/ DirectTx(o, data)
      \/ \E c \in Calls : MineSuccess(c)
  BY DEF Next, HandlerStep, Mine, Tick, Submit, RecoverSigner, VerifyOnChain,
         Broadcast, EstimateFails, GetReceipt, RpcFails, MineRevert, Crash, vars, relayVars
<1>6. ~(\E c \in Calls : MineSuccess(c))
  <2> SUFFICES ASSUME NEW c \in Calls, MineSuccess(c) PROVE FALSE
    OBVIOUS
  <2>1. receipt[c] = "none" /\ receipt \in [Calls -> {"none", "ok", "reverted"}]
    BY MinedHead DEF MineSuccess, RelayInv, TypeOK
  <2> QED
    BY <2>1 DEF MineSuccess, QuietStep
<1> QED
  BY <1>1, <1>3, <1>4, <1>5, <1>6 DEF Abstract!AbsNext

\* A transaction that succeeds applies a signed request over an unused nonce.
LEMMA MiningImplements ==
  ASSUME RelayInv, TypeOK', NEW c \in Calls, MineSuccess(c)
  PROVE  Abstract!AbsNext
<1>1. /\ msg[c] \in signed
      /\ \A d \in Calls : receipt[d] = "ok" => RequestId(d) # RequestId(c)
  BY MinedIsFresh
<1>2. /\ receipt \in [Calls -> {"none", "ok", "reverted"}]
      /\ receipt' = [receipt EXCEPT ![c] = "ok"] /\ UNCHANGED <<msg, signed>>
      /\ RegistryCall(msg[c].from, msg[c].data)
  BY DEF MineSuccess, ForwarderExecute, RelayInv, TypeOK
<1>3. \A d \in Calls : receipt'[d] = "ok" <=> (receipt[d] = "ok" \/ d = c)
  BY <1>2
<1>4. Used' = Used \cup {RequestId(c)}
  BY <1>2, <1>3 DEF Used, RequestId
<1>5. RequestId(c) \notin Used
  BY <1>1 DEF Used
<1>6. Abstract!Apply(msg[c])
  BY <1>2, <1>4, <1>5, SameRegistry DEF Abstract!Apply, Used, RequestId
<1>7. \E m \in signed : Abstract!Apply(m)
  <2>1. msg[c] \in signed
    BY <1>1
  <2> QED
    BY <1>6, <2>1 DEF Abstract!Apply
<1> QED
  BY <1>7 DEF Abstract!AbsNext

\* The relayer implements AuthorizedWrites: whatever the clients, the queue, the
\* node and restarts do, the registry changes only by requests their owner
\* signed, once per nonce, and by the owner's own transactions.
THEOREM RelayImplements == Spec => ImplementsAuthorizedWrites
<1>1. Init => Abstract!AbsInit
  <2> SUFFICES ASSUME Init PROVE Abstract!AbsInit
    OBVIOUS
  <2>1. {RequestId(c) : c \in {d \in Calls : receipt[d] = "ok"}} = {}
    BY DEF Init
  <2>2. Abstract!RegistryInit
    BY DEF Init, RegistryInit, Abstract!RegistryInit
  <2>3. signed = {}
    BY DEF Init
  <2> QED
    BY <2>1, <2>2, <2>3 DEF Abstract!AbsInit
<1>2. RelayInv /\ TypeOK' /\ [Next]_vars => [Abstract!AbsNext]_(Abstract!absVars)
  <2> SUFFICES ASSUME RelayInv, TypeOK', [Next]_vars
               PROVE  [Abstract!AbsNext]_(Abstract!absVars)
    OBVIOUS
  <2>1. CASE QuietStep
    BY <2>1, QuietKeepsUsed, QuietImplements
  <2>2. ASSUME NEW c \in Calls, MineSuccess(c) PROVE Abstract!AbsNext
    BY <2>2, MiningImplements
  <2>3. ASSUME NEW c \in Calls, Broadcast(c) PROVE UNCHANGED Abstract!absVars
    BY <2>3, UsedKept DEF Broadcast, Abstract!absVars, Used
  <2>4. ASSUME NEW c \in Calls, MineRevert(c) PROVE UNCHANGED Abstract!absVars
    <3>1. receipt[c] = "none" /\ receipt \in [Calls -> {"none", "ok", "reverted"}]
      BY <2>4, MinedHead DEF MineRevert, RelayInv, TypeOK
    <3>2. \A d \in Calls : receipt'[d] = "ok" <=> receipt[d] = "ok"
      BY <2>4, <3>1 DEF MineRevert
    <3>3. Used' = Used
      BY <2>4, <3>2, UsedKept DEF MineRevert
    <3> QED
      BY <2>4, <3>3 DEF MineRevert, Abstract!absVars, Used
  <2> QED
    BY <2>1, <2>2, <2>3, <2>4, MostStepsAreQuiet
<1> QED
  BY <1>1, <1>2, Invariance, TypeCorrect, PTL DEF Spec, ImplementsAuthorizedWrites,
     Abstract!AbsSpec
================================================================================
