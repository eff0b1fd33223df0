------------------------------- MODULE MCSession -------------------------------
(***************************************************************************)
(* Session with two accounts, users and verifiers, and few clicks.         *)
(***************************************************************************)
EXTENDS Session, TLC

CONSTANTS user, verifier, vault, verifierPage, profile, gdpr

MCRoles       == {user, verifier}
MCHome        == user :> vault @@ verifier :> verifierPage
MCAllowed     == vault :> {user} @@ verifierPage :> {verifier} @@ profile :> {user, verifier}
MCReturnPages == user :> {gdpr} @@ verifier :> {}

Symmetry == Permutations(Accounts) \cup Permutations(Connects)
================================================================================
