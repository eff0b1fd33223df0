-------------------------------- MODULE MCRelay --------------------------------
(***************************************************************************)
(* Relay on two owners, each with a wallet, and three calls.               *)
(***************************************************************************)
EXTENDS Relay

CONSTANTS a, b, c1, k1, h1

MCOwners   == {a, b}
MCCids     == {c1}
MCClaimIds == {k1}
MCHashes   == {h1}

ToRegister(x)   == [fn |-> "registerIdentity", cid |-> x]
ToClaim(o)      == [fn |-> "setClaim", owner |-> o, claimId |-> k1, claimHash |-> h1]

\* a anchors a claim; b registers, and tries a's claim.
ClaimCalls == [o \in Owners |-> IF o = a THEN {ToClaim(a)} ELSE {ToClaim(a), ToRegister(c1)}]
================================================================================
