-------------------------------- MODULE Browser --------------------------------
(***************************************************************************)
(* What the pages of the wallet application have in common: the connected  *)
(* account, and requests whose answers come in any order.  The requests a  *)
(* page waits for are a sequence; any of them may be answered next.        *)
(***************************************************************************)
EXTENDS Naturals, Sequences, SequencesExt, FiniteSets

CONSTANTS Accounts,    \* accounts of the wallet
          None,        \* null, '' or undefined
          MaxCalls,    \* bound: requests of one kind under way
          NetMayFail   \* may a call fail or its answer be lost?

ASSUME BrowserAssumption ==
  /\ None \notin Accounts
  /\ MaxCalls \in Nat \ {0}
  /\ NetMayFail \in BOOLEAN

VARIABLE address       \* WalletService.address$

\* A request is sent; one that is answered or fails leaves the sequence.
Sent(calls, c)  == Len(calls) < MaxCalls /\ calls' = Append(calls, c)
Taken(calls, i) == calls' = RemoveAt(calls, i)
================================================================================
