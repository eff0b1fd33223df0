------------------------------ MODULE MCConsentPage ------------------------------
(***************************************************************************)
(* One account, two contexts; in the first one two claims share an         *)
(* attribute, and one of them is anchored, so that a credential that       *)
(* cannot be fetched leaves it to the second one.                          *)
(***************************************************************************)
EXTENDS ConsentPage

CONSTANTS alice, contact, email, mail, phone, work, home, kyc

MCSubjects   == {alice}
MCClaims     == {contact, email}
MCWords      == {work, home}
MCPurposes   == {kyc}
MCAttributes == {mail, phone}

Plain(w) == [word |-> w, upper |-> FALSE, mark |-> "plain"]
Kyc      == [word |-> kyc, upper |-> FALSE]

MCContexts == {Plain(work), Plain(home)}
MCLinked   == {[claim |-> contact, ctx |-> Plain(work), attrs |-> {mail, phone}],
               [claim |-> email, ctx |-> Plain(work), attrs |-> {mail}]}
MCAnchored == {email}
MCIdentity == Plain(home)
MCPagePurposes == {Kyc}
MCForms    == [subject : {alice}, claim : MCClaims, purpose : {Kyc}, ctx : MCContexts,
               expires : {1, 2}]
MCOther    == {[subject |-> alice, claim |-> email, purpose |-> Kyc, ctx |-> Plain(home),
                expires |-> 1]}
MCRevokes  == {[subject |-> alice, claim |-> contact, purpose |-> NoFilter, ctx |-> Plain(work)]}

Symmetry == Permutations(Grants) \cup Permutations(Loads)
================================================================================
