------------------------------- MODULE MCProfile -------------------------------
(***************************************************************************)
(* Instances of Profile: an owner with a wallet and the account of the     *)
(* backend's own key, a few sessions and two claims.                       *)
(***************************************************************************)
EXTENDS Profile, TLC

CONSTANTS alice, app, k1, k2, s1, s2, s3

MCCredentialOf == [s \in Cids |-> <<"vc", s>>]
MCHashes == {<<"vc", s>> : s \in Cids} \cup {<<"old", k1>>}
MCClaims == {k1, k2}

\* A create may bring a credential that no session has anchored.
MCBodies == {{}, {[claim |-> k1, hash |-> <<"old", k1>>]}}

For(kind, o, k) == [kind |-> kind, owner |-> o, claim |-> k]

\* Every flow for the account whose slot the backend's key may write (in hybrid
\* mode it is an owner like any other), and flows of an owner whose slot the
\* backend cannot write.
AllJobs ==
  {For("create", app, k1), For("issue", app, k1), For("issue", app, k2),
   For("erase", app, k1), For("gdprErase", app, k1), For("register", app, k1),
   For("create", alice, k1), For("upsert", alice, k1)}

\* Any two flows together with an erasure.
LifecycleJobs ==
  [s \in Cids |-> IF s = s3 THEN {For("erase", app, k1)} ELSE AllJobs]

WalletJobs == [s \in Cids |-> {For("create", alice, k1), For("erase", alice, k1)}]

\* The first two sessions do not differ.
Symmetry == Permutations({s1, s2})

BothModes == {TRUE, FALSE}
HybridOnly == {TRUE}
================================================================================
