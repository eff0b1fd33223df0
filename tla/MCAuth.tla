--------------------------------- MODULE MCAuth ---------------------------------
(***************************************************************************)
(* Auth on two addresses, two challenges and two of the three roles.  A    *)
(* challenge and a token each live one tick.                               *)
(***************************************************************************)
EXTENDS Auth

CONSTANTS alice, bob, USER, VERIFIER, n1, n2

MCAddrs  == {alice, bob}
MCRoles  == {USER, VERIFIER}
MCNonces == {n1, n2}

OneAddr  == {alice}
OneRole  == {USER}
OneNonce == {n1}
================================================================================
