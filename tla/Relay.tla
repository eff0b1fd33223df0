--------------------------------- MODULE Relay ---------------------------------
(***************************************************************************)
(* The gasless path: the wallet signs an EIP-712 forward request           *)
(* (frontend/src/app/services/metaTx.service.ts), POST /meta/relay checks  *)
(* it, the relayer's TxQueue serialises execute() calls                    *)
(* (backend/src/controllers/metaTxController.js), and the ERC2771          *)
(* forwarder runs the call on the registry.  One action per stretch of     *)
(* handler code between two awaits; the chain mines and the clock ticks in *)
(* between.                                                                *)
(***************************************************************************)
EXTENDS IdentityRegistry, Naturals, Sequences, FiniteSets

CONSTANTS Calls,        \* POST /meta/relay requests, each used once
          WalletCalls,  \* for each owner the call data put before its wallet
          TTL,          \* deadline - signing time (3600 s in the code)
          MaxTime,      \* bound of the clock
          MaxSigned,    \* bound of the number of signed requests
          MaxCrashes,   \* bound of backend restarts
          RpcMayFail,   \* may a JSON-RPC request of the backend throw?
          Unsent        \* "request" of a call that was not submitted

ASSUME RelayAssumption ==
  /\ TTL \in Nat /\ MaxTime \in Nat /\ MaxSigned \in Nat /\ MaxCrashes \in Nat
  /\ RpcMayFail \in BOOLEAN
  /\ WalletCalls \in [Owners -> SUBSET CallData]

Requests == [from : Owners, nonce : Nat, deadline : Nat, data : CallData]

ASSUME UnsentAssumption == Unsent \notin Requests

VARIABLES now,          \* block time
          fwdNonce,     \* forwarder: nonces(owner)
          signed,       \* requests signed by a wallet
          pc,           \* stage, then answer, of a relay call
          msg,          \* the request a call carries
          queue,        \* TxQueue: accepted calls, the head is the running task
          mempool,      \* broadcast relayer transactions, in account-nonce order
          receipt,      \* outcome of a call's transaction
          abandoned,    \* calls in flight when their wait was rejected or cut off
          crashes       \* number of backend restarts (bound only)

relayVars == <<now, fwdNonce, signed, pc, msg, queue, mempool, receipt, abandoned, crashes>>
vars == <<profileCID, claims, relayVars>>

Answers == {"success", "rejected", "failed", "lost"}
Stages  == {"idle", "recover", "verify", "queued", "waiting"} \cup Answers

TypeOK ==
  /\ RegistryTypeOK
  /\ now \in Nat
  /\ fwdNonce \in [Owners -> Nat]
  /\ signed \subseteq Requests
  /\ pc \in [Calls -> Stages]
  /\ msg \in [Calls -> Requests \cup {Unsent}]
  /\ queue \in Seq(Calls)
  /\ mempool \in Seq(Calls)
  /\ receipt \in [Calls -> {"none", "ok", "reverted"}]
  /\ abandoned \subseteq Calls
  /\ crashes \in Nat

Init ==
  /\ RegistryInit
  /\ now = 0
  /\ fwdNonce = [o \in Owners |-> 0]
  /\ signed = {}
  /\ pc = [c \in Calls |-> "idle"]
  /\ msg = [c \in Calls |-> Unsent]
  /\ queue = <<>>
  /\ mempool = <<>>
  /\ receipt = [c \in Calls |-> "none"]
  /\ abandoned = {}
  /\ crashes = 0

--------------------------------------------------------------------------------
\* Wallets and chain

\* buildAndSignMetaTx: the nonce and the clock are read, then the wallet signs.
SignRequest(o, data) ==
  /\ Cardinality(signed) < MaxSigned
  /\ signed' = signed \cup {[from |-> o, nonce |-> fwdNonce[o],
                             deadline |-> now + TTL, data |-> data]}
  /\ UNCHANGED <<profileCID, claims, now, fwdNonce, pc, msg, queue, mempool,
                 receipt, abandoned, crashes>>

\* The regular (non gasless) path: the wallet sends the call itself.
DirectTx(o, data) ==
  /\ RegistryCall(o, data)
  /\ UNCHANGED relayVars

Tick ==
  /\ now < MaxTime
  /\ now' = now + 1
  /\ UNCHANGED <<profileCID, claims, fwdNonce, signed, pc, msg, queue, mempool,
                 receipt, abandoned, crashes>>

\* ERC2771Forwarder.verify: active, and signed over the signer's next nonce.
ForwarderVerify(m) ==
  /\ now <= m.deadline
  /\ m.nonce = fwdNonce[m.from]

\* execute() succeeds: a valid request whose inner call does not revert.
Executable(m) == ForwarderVerify(m) /\ OnlySelf(m.from, m.data)

\* Seeded bug: the nonce is checked and not used up.
ForwarderExecute_NonceKept(m) ==
  /\ Executable(m)
  /\ UNCHANGED fwdNonce
  /\ RegistryCall(m.from, m.data)

\* Seeded bug: the registry takes msg.sender, not the signer, for its caller.
ForwarderExecute_RawSender(m) ==
  /\ Executable(m)
  /\ fwdNonce' = [fwdNonce EXCEPT ![m.from] = @ + 1]
  /\ \E o \in Owners \ {m.from} : RegistryCall(o, m.data)

\* ERC2771Forwarder._execute: use the nonce, call the registry as the signer.
ForwarderExecute(m) ==
  /\ Executable(m)
  /\ fwdNonce' = [fwdNonce EXCEPT ![m.from] = @ + 1]
  /\ RegistryCall(m.from, m.data)

MineSuccess(c) ==
  /\ mempool # <<>> /\ c = Head(mempool)
  /\ ForwarderExecute(msg[c])
  /\ mempool' = Tail(mempool)
  /\ receipt' = [receipt EXCEPT ![c] = "ok"]
  /\ UNCHANGED <<now, signed, pc, msg, queue, abandoned, crashes>>

MineRevert(c) ==
  /\ mempool # <<>> /\ c = Head(mempool)
  /\ ~Executable(msg[c])
  /\ mempool' = Tail(mempool)
  /\ receipt' = [receipt EXCEPT ![c] = "reverted"]
  /\ UNCHANGED <<profileCID, claims, now, fwdNonce, signed, pc, msg, queue,
                 abandoned, crashes>>

--------------------------------------------------------------------------------
\* relayMetaTx

\* A client posts a signed request; the same one may be posted more than once
\* (a double click, a resend).
Submit(c, m) ==
  /\ pc[c] = "idle"
  /\ pc' = [pc EXCEPT ![c] = "recover"]
  /\ msg' = [msg EXCEPT ![c] = m]
  /\ UNCHANGED <<profileCID, claims, now, fwdNonce, signed, queue, mempool,
                 receipt, abandoned, crashes>>

\* nonces(from), eip712Domain(), verifyTypedData over the nonce just read.
RecoverSigner(c) ==
  /\ pc[c] = "recover"
  /\ pc' = [pc EXCEPT ![c] = IF msg[c].nonce = fwdNonce[msg[c].from]
                              THEN "verify" ELSE "rejected"]
  /\ UNCHANGED <<profileCID, claims, now, fwdNonce, signed, msg, queue, mempool,
                 receipt, abandoned, crashes>>

\* forwarder.verify(), then txQueue.enqueue() with no await in between.
VerifyOnChain(c) ==
  /\ pc[c] = "verify"
  /\ IF ForwarderVerify(msg[c])
       THEN /\ pc' = [pc EXCEPT ![c] = "queued"]
            /\ queue' = Append(queue, c)
       ELSE /\ pc' = [pc EXCEPT ![c] = "rejected"]
            /\ UNCHANGED queue
  /\ UNCHANGED <<profileCID, claims, now, fwdNonce, signed, msg, mempool,
                 receipt, abandoned, crashes>>

\* Seeded bug: tasks are started without waiting for the one before.
IsRunning_NoQueue(c) == c \in {queue[i] : i \in DOMAIN queue}

IsRunning(c) == queue # <<>> /\ c = Head(queue)

\* Seeded bug: a rejected task leaves the chain of promises rejected.
Settle_FailureBlocks(c, answer) ==
  /\ pc' = [pc EXCEPT ![c] = answer]
  /\ queue' = IF answer = "failed" THEN queue ELSE Tail(queue)

\* A task settles: the handler answers and the queue's next .then() runs.
Settle(c, answer) ==
  /\ pc' = [pc EXCEPT ![c] = answer]
  /\ queue' = Tail(queue)

\* getFeeData() and forwarder.execute(): gas estimation simulates the call on
\* the latest block and throws if it would revert, otherwise it is broadcast.
Broadcast(c) ==
  /\ IsRunning(c) /\ pc[c] = "queued"
  /\ Executable(msg[c])
  /\ pc' = [pc EXCEPT ![c] = "waiting"]
  /\ mempool' = Append(mempool, c)
  /\ UNCHANGED <<profileCID, claims, now, fwdNonce, signed, msg, queue, receipt,
                 abandoned, crashes>>

EstimateFails(c) ==
  /\ IsRunning(c) /\ pc[c] = "queued"
  /\ ~Executable(msg[c])
  /\ Settle(c, "failed")
  /\ UNCHANGED <<profileCID, claims, now, fwdNonce, signed, msg, mempool,
                 receipt, abandoned, crashes>>

\* Seeded bugs: the status of the receipt is returned as it is, is not looked
\* at, or is not waited for.
GetReceipt_RawStatus(c) ==
  /\ IsRunning(c) /\ pc[c] = "waiting" /\ receipt[c] # "none"
  /\ Settle(c, receipt[c])
  /\ UNCHANGED <<profileCID, claims, now, fwdNonce, signed, msg, mempool,
                 receipt, abandoned, crashes>>

GetReceipt_StatusIgnored(c) ==
  /\ IsRunning(c) /\ pc[c] = "waiting" /\ receipt[c] # "none"
  /\ Settle(c, "success")
  /\ UNCHANGED <<profileCID, claims, now, fwdNonce, signed, msg, mempool,
                 receipt, abandoned, crashes>>

GetReceipt_NotAwaited(c) ==
  /\ IsRunning(c) /\ pc[c] = "waiting"
  /\ Settle(c, IF receipt[c] = "ok" THEN "success" ELSE "failed")
  /\ UNCHANGED <<profileCID, claims, now, fwdNonce, signed, msg, mempool,
                 receipt, abandoned, crashes>>

\* tx.wait() resolves with the receipt, or rejects if it reports a revert.
GetReceipt(c) ==
  /\ IsRunning(c) /\ pc[c] = "waiting" /\ receipt[c] # "none"
  /\ Settle(c, IF receipt[c] = "ok" THEN "success" ELSE "failed")
  /\ UNCHANGED <<profileCID, claims, now, fwdNonce, signed, msg, mempool,
                 receipt, abandoned, crashes>>

\* A JSON-RPC request throws: the catch block answers 500.  Before the enqueue
\* only this call is concerned; inside the task the queue moves on as well,
\* even when the transaction is already in the mempool.
RpcFails(c) ==
  /\ RpcMayFail
  /\ \/ /\ pc[c] \in {"recover", "verify"}
        /\ pc' = [pc EXCEPT ![c] = "failed"]
        /\ UNCHANGED <<queue, abandoned>>
     \/ /\ IsRunning(c) /\ pc[c] = "queued"
        /\ Settle(c, "failed")
        /\ UNCHANGED abandoned
     \/ /\ IsRunning(c) /\ pc[c] = "waiting"
        /\ Settle(c, "failed")
        /\ abandoned' = abandoned \cup {c}
  /\ UNCHANGED <<profileCID, claims, now, fwdNonce, signed, msg, mempool,
                 receipt, crashes>>

\* The queue lives in memory: a restart forgets it and drops the connections.
Crash ==
  /\ crashes < MaxCrashes
  /\ crashes' = crashes + 1
  /\ pc' = [c \in Calls |-> IF pc[c] \in Answers \cup {"idle"} THEN pc[c]
                                                              ELSE "lost"]
  /\ queue' = <<>>
  /\ abandoned' = abandoned \cup {c \in Calls : pc[c] = "waiting"}
  /\ UNCHANGED <<profileCID, claims, now, fwdNonce, signed, msg, mempool,
                 receipt>>

HandlerStep(c) ==
  RecoverSigner(c) \/ VerifyOnChain(c) \/ Broadcast(c) \/ EstimateFails(c)
    \/ GetReceipt(c)

Mine(c) == MineSuccess(c) \/ MineRevert(c)

Next ==
  \/ \E o \in Owners : \E data \in WalletCalls[o] : SignRequest(o, data) \/ DirectTx(o, data)
  \/ Tick
  \/ \E c \in Calls, m \in signed : Submit(c, m)
  \/ \E c \in Calls : HandlerStep(c) \/ RpcFails(c) \/ Mine(c)
  \/ Crash

Spec == Init /\ [][Next]_vars

\* The event loop goes on with what can go on, and the chain keeps mining.
Fairness ==
  /\ WF_vars(\E c \in Calls : HandlerStep(c))
  /\ WF_vars(\E c \in Calls : Mine(c))

FairSpec == Spec /\ Fairness
--------------------------------------------------------------------------------
\* Properties

RequestId(c) == <<msg[c].from, msg[c].nonce>>

\* However often a signed request is posted, queued behind others, retried
\* after an error or left in the mempool by a crash, it changes the registry at
\* most once, and so does any set of requests signed over one nonce.
AtMostOnce ==
  \A c, d \in Calls :
    (receipt[c] = "ok" /\ receipt[d] = "ok" /\ RequestId(c) = RequestId(d)) => c = d

\* A 200 answer is only given for a request that changed the registry, and a
\* 400 answer means that no transaction of this call was or will be sent.
AnswersAreTruthful ==
  \A c \in Calls :
    /\ pc[c] = "success" => receipt[c] = "ok"
    /\ pc[c] = "rejected" => receipt[c] = "none" /\ c \notin {mempool[i] : i \in DOMAIN mempool}

\* Unless the node fails while a transaction is awaited, a 500 answer too means
\* that this call changed nothing, now or later, whatever the other calls met:
\* retrying it on the regular path cannot apply the same write twice.
FailureMeansNoEffect ==
  \A c \in Calls :
    pc[c] = "failed" /\ c \notin abandoned =>
      receipt[c] # "ok" /\ c \notin {mempool[i] : i \in DOMAIN mempool}

\* "Each transaction waits until the previous one is mined": the relayer wallet
\* never has two transactions in flight.
OneTxInFlight == Len(mempool) <= 1

\* What of that the queue keeps through failing nodes and restarts: whatever was
\* left behind in the mempool, at most one transaction is in flight that nobody
\* has given up waiting for.
OneAwaitedInFlight ==
  \A i, j \in DOMAIN mempool :
    mempool[i] \notin abandoned /\ mempool[j] \notin abandoned => i = j

\* Every relay request is answered: a task that fails or is abandoned frees the
\* queue for the next one, as long as broadcast transactions are mined.  An
\* answer is never taken back, so that what is asked is a time without open calls.
EveryCallAnswered ==
  (\E c \in Calls : pc[c] \notin Answers \cup {"idle"}) ~>
    (\A c \in Calls : pc[c] \in Answers \cup {"idle"})

\* The relayer, its queue and its failures implement AuthorizedWrites.
Abstract == INSTANCE AuthorizedWrites
  WITH used <- {RequestId(c) : c \in {d \in Calls : receipt[d] = "ok"}}

ImplementsAuthorizedWrites == Abstract!AbsSpec
================================================================================
