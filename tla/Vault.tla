---------------------------------- MODULE Vault ----------------------------------
(***************************************************************************)
(* The status of the vault as the browser knows it: the flags of           *)
(* ProfileStateService, the marker that an erasure leaves in               *)
(* sessionStorage, the vault page that checks and creates profiles         *)
(* (vault.component.ts) and the page that erases them (gdpr.component.ts). *)
(***************************************************************************)
EXTENDS Browser

VARIABLES status,        \* what the registry has for each account
          vaultPage,     \* "vault", "gdpr" or "other"
          profileExists, isErased,
          erasedDid,     \* sessionStorage
          subscription,  \* of the vault page that is shown: "none", "opening" or "live"
          orphan,        \* of a vault page that was left while it was opening
          vaultLoading,
          checks,        \* getProfile calls under way
          creating,      \* the account a profile is being created for, by the page that is shown?
          erasing,       \* the account that is being erased, and whether it is yet
          alreadyErased,
          erasureShown,  \* "form", "done" or "error"
          erasedHere,    \* history: accounts whose erasure this tab has reported
          late           \* history: did an erasure end with a check or a creation under way?

stateVars == <<profileExists, isErased>>
pageVars  == <<vaultPage, subscription, orphan, vaultLoading>>
gdprVars  == <<erasing, alreadyErased, erasureShown>>
vaultVars == <<status, stateVars, erasedDid, pageVars, checks, creating, gdprVars, erasedHere, late>>

Check == [account : Accounts, pc : {"sent", "found", "not found"}, here : BOOLEAN]

VaultTypeOK ==
  /\ status \in [Accounts -> {"none", "active", "erased"}]
  /\ vaultPage \in {"vault", "gdpr", "other"}
  /\ subscription \in {"none", "opening", "live"} /\ orphan \in {"none", "opening", "live"}
  /\ {profileExists, isErased, vaultLoading, alreadyErased, late} \subseteq BOOLEAN
  /\ erasedDid \in Accounts \cup {None}
  /\ creating \in [account : Accounts, here : BOOLEAN] \cup {None}
  /\ checks \in Seq(Check)
  /\ erasing \in [account : Accounts, mined : BOOLEAN] \cup {None}
  /\ erasureShown \in {"form", "done", "error"} /\ erasedHere \subseteq Accounts

VaultInit ==
  /\ status \in [Accounts -> {"none", "active"}]
  /\ vaultPage = "other" /\ subscription = "none" /\ orphan = "none" /\ vaultLoading = FALSE
  /\ profileExists = FALSE /\ isErased = FALSE /\ erasedDid = None
  /\ checks = <<>> /\ creating = None
  /\ erasing = None /\ alreadyErased = FALSE /\ erasureShown = "form"
  /\ erasedHere = {} /\ late = FALSE

--------------------------------------------------------------------------------
\* setProfileStatus
SetProfileStatus(exists, erased) == profileExists' = exists /\ isErased' = erased

\* checkProfile for account a, up to the request: what is known is not asked again.
CheckProfile(a, here) ==
  IF profileExists \/ isErased
    THEN UNCHANGED checks /\ vaultLoading' = (vaultLoading /\ ~here)
    ELSE /\ Sent(checks, [account |-> a, pc |-> "sent", here |-> here])
         /\ vaultLoading' = (vaultLoading \/ here)

\* What a subscription does with an address: the marker goes, the profile is checked.
OnAddress(a, here) == erasedDid' = None /\ CheckProfile(a, here)

\* The wallet connects on the login or the erasure page; a vault page that was left
\* while it was opening still listens.
VaultConnect(a) ==
  /\ address = None /\ vaultPage # "vault"
  /\ address' = a
  /\ IF orphan = "live" THEN OnAddress(a, FALSE) ELSE UNCHANGED <<erasedDid, checks, vaultLoading>>
  /\ alreadyErased' \in {alreadyErased, alreadyErased \/ (vaultPage = "gdpr" /\ erasedDid' = a)}
  /\ UNCHANGED <<status, stateVars, vaultPage, subscription, orphan, creating, erasing,
                 erasureShown, erasedHere, late>>

\* Leaving the vault page: ngOnDestroy has nothing to unsubscribe while the page
\* is opening.
LeavePage ==
  /\ subscription' = "none" /\ vaultLoading' = FALSE
  /\ orphan' = IF subscription = "opening" /\ orphan = "none" THEN "opening" ELSE orphan
  /\ checks' = [i \in DOMAIN checks |-> [checks[i] EXCEPT !.here = FALSE]]
  /\ creating' = IF creating = None THEN None ELSE [creating EXCEPT !.here = FALSE]

\* The wallet disconnects; a session ends with it and the vault page is left.
VaultDisconnect ==
  /\ address # None
  /\ address' = None
  /\ IF vaultPage = "vault" THEN vaultPage' = "other" /\ LeavePage
                            ELSE UNCHANGED <<pageVars, checks, creating>>
  /\ UNCHANGED <<status, stateVars, erasedDid, gdprVars, erasedHere, late>>

\* Seeded bug: the marker is not looked at.
VisitVault_IgnoresMarker ==
  /\ address # None /\ vaultPage # "vault"
  /\ vaultPage' = "vault" /\ subscription' = "opening" /\ vaultLoading' = FALSE
  /\ UNCHANGED <<address, status, stateVars, erasedDid, orphan, checks, creating, gdprVars,
                 erasedHere, late>>

\* ngOnInit of the vault page, up to its first await.
VisitVault ==
  /\ address # None /\ vaultPage # "vault"
  /\ vaultPage' = "vault" /\ subscription' = "opening" /\ vaultLoading' = FALSE
  /\ IF erasedDid # None THEN SetProfileStatus(FALSE, TRUE) ELSE UNCHANGED stateVars
  /\ UNCHANGED <<address, status, erasedDid, orphan, checks, creating, gdprVars, erasedHere, late>>

\* The key and the settings are there: the page subscribes, and gets the address.
VaultOpened ==
  /\ subscription = "opening"
  /\ subscription' = "live"
  /\ OnAddress(address, TRUE)
  /\ UNCHANGED <<address, status, stateVars, vaultPage, orphan, creating, gdprVars, erasedHere, late>>

OrphanOpened ==
  /\ orphan = "opening"
  /\ orphan' = "live"
  /\ IF address # None THEN OnAddress(address, FALSE)
                       ELSE UNCHANGED <<erasedDid, checks, vaultLoading>>
  /\ UNCHANGED <<address, status, stateVars, vaultPage, subscription, creating, gdprVars,
                 erasedHere, late>>

\* Another page; the erasure page looks at the marker, whoever's it is.
VisitOther(p) ==
  /\ p \in {"gdpr", "other"} /\ vaultPage # p
  /\ vaultPage' = p
  /\ LeavePage
  /\ IF p = "gdpr" THEN alreadyErased' = (erasedDid # None) /\ erasureShown' = "form"
                   ELSE UNCHANGED <<alreadyErased, erasureShown>>
  /\ UNCHANGED <<address, status, stateVars, erasedDid, erasing, erasedHere, late>>

--------------------------------------------------------------------------------
\* "Refresh Status"
Refresh ==
  /\ vaultPage = "vault" /\ ~vaultLoading
  /\ CheckProfile(address, TRUE)
  /\ UNCHANGED <<address, status, stateVars, erasedDid, vaultPage, subscription, orphan, creating,
                 gdprVars, erasedHere, late>>

ServeCheck(i) ==
  /\ checks[i].pc = "sent"
  /\ checks' = [checks EXCEPT ![i].pc =
                  IF status[checks[i].account] = "active" THEN "found" ELSE "not found"]
  /\ UNCHANGED <<address, status, stateVars, erasedDid, pageVars, creating, gdprVars, erasedHere, late>>

\* The answer, for the account of then.  ApiService turns every error into one
\* without a status, so that 410 and 404 change nothing.
GotCheck(i) ==
  /\ checks[i].pc # "sent" \/ NetMayFail
  /\ IF checks[i].pc = "found" THEN SetProfileStatus(TRUE, FALSE) ELSE UNCHANGED stateVars
  /\ vaultLoading' = (vaultLoading /\ ~checks[i].here)
  /\ Taken(checks, i)
  /\ UNCHANGED <<address, status, erasedDid, vaultPage, subscription, orphan, creating, gdprVars,
                 erasedHere, late>>

\* createProfile, gasless or not, up to the request.
CreateProfile ==
  /\ vaultPage = "vault" /\ ~vaultLoading /\ ~isErased /\ ~profileExists
  /\ creating = None /\ creating' = [account |-> address, here |-> TRUE]
  /\ vaultLoading' = TRUE
  /\ UNCHANGED <<address, status, stateVars, erasedDid, vaultPage, subscription, orphan, checks,
                 gdprVars, erasedHere, late>>

\* The transaction is mined and its answer here; checkProfile finds the flag set, or
\* no address.
CreateDone ==
  /\ creating # None
  /\ status' = [status EXCEPT ![creating.account] = "active"]
  /\ erasedHere' = erasedHere \ {creating.account}
  /\ SetProfileStatus(address # None, FALSE)
  /\ vaultLoading' = (vaultLoading /\ ~creating.here)
  /\ creating' = None
  /\ UNCHANGED <<address, erasedDid, vaultPage, subscription, orphan, checks, gdprVars, late>>

\* A refusal, a failed relay or an answer that is lost: the profile may be there.
CreateFails ==
  /\ creating # None
  /\ status' \in {status} \cup IF NetMayFail THEN {[status EXCEPT ![creating.account] = "active"]} ELSE {}
  /\ erasedHere' = erasedHere \ {creating.account}
  /\ vaultLoading' = (vaultLoading /\ ~creating.here)
  /\ creating' = None
  /\ UNCHANGED <<address, stateVars, erasedDid, vaultPage, subscription, orphan, checks, gdprVars, late>>

--------------------------------------------------------------------------------
\* erase, up to the request.
Erase ==
  /\ vaultPage = "gdpr" /\ address # None /\ ~alreadyErased /\ erasureShown = "form"
  /\ erasing = None
  /\ erasing' = [account |-> address, mined |-> FALSE]
  /\ UNCHANGED <<address, status, stateVars, erasedDid, pageVars, checks, creating, alreadyErased,
                 erasureShown, erasedHere, late>>

EraseMined ==
  /\ erasing # None /\ ~erasing.mined /\ status[erasing.account] = "active"
  /\ status' = [status EXCEPT ![erasing.account] = "erased"]
  /\ erasing' = [erasing EXCEPT !.mined = TRUE]
  /\ UNCHANGED <<address, stateVars, erasedDid, pageVars, checks, creating, alreadyErased,
                 erasureShown, erasedHere, late>>

\* The confirmation, which needs a connected wallet: the marker is set, and then
\* the wallet disconnected, whoever's it is by now.
EraseConfirmed ==
  /\ erasing # None /\ erasing.mined /\ address # None
  /\ erasedDid' = erasing.account
  /\ erasedHere' = IF status[erasing.account] = "erased" THEN erasedHere \cup {erasing.account}
                                                         ELSE erasedHere
  /\ late' = (late \/ checks # <<>> \/ creating # None)
  /\ erasing' = None
  /\ erasureShown' = IF vaultPage = "gdpr" THEN "done" ELSE erasureShown
  /\ address' = None
  /\ IF vaultPage = "vault" THEN vaultPage' = "other" /\ LeavePage
                            ELSE UNCHANGED <<pageVars, checks, creating>>
  /\ UNCHANGED <<status, stateVars, alreadyErased>>

\* A refusal (410 for what is erased), or no confirmation in time.
EraseFails ==
  /\ erasing # None
  /\ alreadyErased' = (alreadyErased \/
                         (vaultPage = "gdpr" /\ ~erasing.mined /\ status[erasing.account] = "erased"))
  /\ erasureShown' = IF vaultPage = "gdpr" THEN "error" ELSE erasureShown
  /\ erasing' = None
  /\ UNCHANGED <<address, status, stateVars, erasedDid, pageVars, checks, creating, erasedHere, late>>

VaultNext ==
  \/ \E a \in Accounts : VaultConnect(a)
  \/ VaultDisconnect \/ VisitVault \/ VaultOpened \/ OrphanOpened
  \/ \E p \in {"gdpr", "other"} : VisitOther(p)
  \/ Refresh \/ CreateProfile \/ CreateDone \/ CreateFails
  \/ \E i \in DOMAIN checks : ServeCheck(i) \/ GotCheck(i)
  \/ Erase \/ EraseMined \/ EraseConfirmed \/ EraseFails

--------------------------------------------------------------------------------
\* Properties

\* "This allows UI to show that the DID was erased": a tab that has confirmed an
\* erasure does not go on to call that account's vault active, over any visits and
\* changes of account, although the flags are global, are not asked again once set, and the
\* marker goes with the next address.  Two races escape: a check or a creation that
\* was under way when the erasure ended, and a vault page left while it waited for
\* the key, which never unsubscribes and takes the marker away.
ErasedIsNotActive ==
  (vaultPage = "vault" /\ address \in erasedHere /\ ~late /\ orphan = "none") => ~profileExists
================================================================================
