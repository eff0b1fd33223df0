-------------------------------- MODULE MCConsent --------------------------------
(***************************************************************************)
(* Consent on one claim of one subject and a clock of one tick.            *)
(***************************************************************************)
EXTENDS Consent

CONSTANTS alice, email, work, kyc

OneSubject == {alice}
MCClaims   == {email}
MCWords    == {work}
MCPurposes == {kyc}

Plain(w) == [word |-> w, upper |-> FALSE, mark |-> "plain"]
Kyc      == [word |-> kyc, upper |-> FALSE]

\* A consent that expires and one that does not, and their revocation.
ExpiringForm == [subject : {alice}, claim : {email}, purpose : {Kyc}, ctx : {Plain(work)},
                 expires : {1, Never}]
PlainRevoke  == [subject : {alice}, claim : {email}, purpose : {NoFilter}, ctx : {Plain(work)}]
================================================================================
