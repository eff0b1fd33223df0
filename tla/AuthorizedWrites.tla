--------------------------- MODULE AuthorizedWrites ---------------------------
(***************************************************************************)
(* What the gasless path promises, without relayer, queue or mempool: an   *)
(* address signs write requests, each carrying one of its forwarder        *)
(* nonces; a signed request may be applied to the registry, at most one    *)
(* request per nonce is, and nobody else writes an owner's slots.          *)
(***************************************************************************)
EXTENDS IdentityRegistry, Naturals

CONSTANT Requests       \* the signed requests there may be

VARIABLES signed,       \* requests a wallet has signed
          used          \* pairs <<from, nonce>> that have been applied

absVars == <<profileCID, claims, signed, used>>

AbsInit == RegistryInit /\ signed = {} /\ used = {}

Sign ==
  /\ signed \subseteq signed' /\ signed' \subseteq Requests
  /\ UNCHANGED <<profileCID, claims, used>>

Apply(m) ==
  /\ <<m.from, m.nonce>> \notin used
  /\ used' = used \cup {<<m.from, m.nonce>>}
  /\ RegistryCall(m.from, m.data)
  /\ UNCHANGED signed

\* A transaction the owner sends from its own wallet.
OwnWrite(o, data) ==
  /\ RegistryCall(o, data)
  /\ UNCHANGED <<signed, used>>

AbsNext ==
  \/ Sign
  \/ \E m \in signed : Apply(m)
  \/ \E o \in Owners, data \in CallData : OwnWrite(o, data)

AbsSpec == AbsInit /\ [][AbsNext]_absVars
===============================================================================
