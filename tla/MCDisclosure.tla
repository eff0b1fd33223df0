------------------------------ MODULE MCDisclosure ------------------------------
(***************************************************************************)
(* Disclosure on one subject, two claims and three credentials, one of     *)
(* them of another context.  Contexts are plain, as in the application's   *)
(* list; purposes differ in capitals.                                      *)
(***************************************************************************)
EXTENDS Disclosure, TLC

CONSTANTS alice, email, job, work, home, kyc, k1, k2, k3

MCSubjects    == {alice}
MCClaims      == {email, job}
MCWords       == {work, home}
MCPurposes    == {kyc}
MCCredentials == {k1, k2, k3}

Plain(w) == [word |-> w, upper |-> FALSE, mark |-> "plain"]
Kyc(up)  == [word |-> kyc, upper |-> up]

Upper(w) == [word |-> w, upper |-> TRUE, mark |-> "plain"]

Grant(c, x, e) == [subject |-> alice, claim |-> c, purpose |-> Kyc(FALSE), ctx |-> x,
                   expires |-> e]
\* Two grants of one claim in different spellings of the context, one with an expiry.
MCGrants    == {Grant(email, Plain(work), 1), Grant(email, Upper(work), Never),
                Grant(job, Plain(work), Never)}
MCRevokes   == {[subject |-> alice, claim |-> email, purpose |-> NoFilter,
                 ctx |-> Plain(work)]}

At(k, c) == [cid |-> k, claim |-> c]

MCVc == k1 :> [ctx |-> Plain(work), proof |-> TRUE, data |-> TRUE]
     @@ k2 :> [ctx |-> [Plain(work) EXCEPT !.upper = TRUE], proof |-> TRUE, data |-> TRUE]
     @@ k3 :> [ctx |-> Plain(home), proof |-> TRUE, data |-> TRUE]

Live(es)   == [erased |-> FALSE, credentials |-> es]
Tombstone  == [erased |-> TRUE, credentials |-> {}]
MCProfiles == {Live({At(k1, email), At(k2, job), At(k3, email)}),
               Live({At(k2, job)}), Tombstone}

Ask(es)   == [subject |-> alice, purpose |-> Kyc(TRUE), ctx |-> Plain(work),
              credentials |-> es]
MCVerify  == {Ask(<<At(k1, email), At(k2, job)>>), Ask(<<At(k3, email), At(k1, email)>>)}

Symmetry == Permutations(Grants)
================================================================================
