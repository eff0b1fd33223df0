--------------------------------- MODULE Profile ---------------------------------
(***************************************************************************)
(* The life of a profile: created or merged (POST /api/profile), extended  *)
(* with a credential (POST /api/vc/issueSigned and the page that anchors   *)
(* it), overwritten with a DID document (POST /api/did/register), erased   *)
(* (DELETE /api/profile/erase and /api/gdpr/erase), and its database rows. *)
(* Each run of one of these flows, in the browser and in the backend, is a *)
(* session; a session uploads at most one profile document, so the CIDs    *)
(* name the sessions.  A relayed write is taken from AuthorizedWrites,     *)
(* which Relay implements: once signed it may be applied at any later      *)
(* time, also after the relay has answered with an error.                  *)
(***************************************************************************)
EXTENDS IdentityRegistry

CONSTANTS Backend,      \* the account of the backend's own key
          Jobs,         \* what a session may be started for (subset of Job)
          Modes,        \* subset of BOOLEAN: HYBRID_MODE of the deployment
          MayFail,      \* may gateways, pinning, relay and database fail?
          CredentialOf, \* the hash of the credential a session issues
          Bodies,       \* what "credentials" in the body of a create may hold
          NoDoc         \* nothing is uploaded under a CID

VARIABLES hybrid,       \* isHybridMode(): wallets sign, not the backend
          doc,          \* IPFS: the profile document of a CID
          pins,         \* CIDs of profiles and credentials kept by the pinning service
          rows,         \* owners with rows in table profiles
          erasures,     \* GDPR_ERASURE rows of table disclosures, by session
          pc,           \* stage, then outcome, of a session
          job,          \* what a session is for
          base,         \* the CID its document is built from, or unpins
          sent,         \* signed writes that may still be mined: session and part
          mined,        \* writes that were applied
          posted        \* history: owner and entry of what create bodies have brought

offChain == <<pins, rows, erasures>>
writeVars == <<sent, mined, posted>>
vars == <<registryVars, hybrid, doc, offChain, pc, job, base, writeVars>>

Kinds == {"create", "issue", "erase", "gdprErase", "register", "upsert"}
Job   == [kind : Kinds, owner : Owners, claim : ClaimIds]

\* A profile document and the credentials it lists; a credential is named by the
\* hash of its CID.
Entry == [claim : ClaimIds, hash : Hashes]
Doc   == [erased : BOOLEAN, entries : SUBSET Entry]

ASSUME ProfileAssumption ==
  /\ Backend \in Owners
  /\ Jobs \in [Cids -> SUBSET Job] /\ NoDoc \notin Doc \cup Job
  /\ Modes \subseteq BOOLEAN /\ MayFail \in BOOLEAN
  /\ CredentialOf \in [Cids -> Hashes]
  /\ Bodies \subseteq SUBSET Entry
  /\ \A s, t \in Cids : CredentialOf[s] = CredentialOf[t] => s = t
  /\ Cids \cap Hashes = {}

Outcomes == {"done", "refused", "failed"}
Stages == {"idle", "prefetch", "prepare", "tombstone", "backendTx", "cleanup",
           "logErasure", "signClaim", "claimSent", "signProfile", "profileSent",
           "fallback", "directSent"} \cup Outcomes

Parts == {"claim", "profile", "direct"}

TypeOK ==
  /\ RegistryTypeOK
  /\ hybrid \in BOOLEAN
  /\ doc \in [Cids -> Doc \cup {NoDoc}]
  /\ pins \subseteq Cids \cup Hashes
  /\ rows \subseteq Owners
  /\ erasures \subseteq Cids
  /\ pc \in [Cids -> Stages]
  /\ job \in [Cids -> Job \cup {NoDoc}]
  /\ base \in [Cids -> Cids \cup {NoCid}]
  /\ sent \subseteq Cids \X Parts
  /\ mined \subseteq Cids \X Parts
  /\ posted \subseteq Owners \X Entry
  /\ \A s \in Cids : pc[s] # "idle" => job[s] \in Jobs[s]
  /\ \A o \in Owners : profileCID[o] # NoCid => doc[profileCID[o]] # NoDoc
  /\ \A s \in Cids : base[s] # NoCid => doc[base[s]] # NoDoc

Init ==
  /\ RegistryInit
  /\ hybrid \in Modes
  /\ doc = [s \in Cids |-> NoDoc]
  /\ pins = {} /\ rows = {} /\ erasures = {}
  /\ pc = [s \in Cids |-> "idle"]
  /\ job = [s \in Cids |-> NoDoc]
  /\ base = [s \in Cids |-> NoCid]
  /\ sent = {} /\ mined = {} /\ posted = {}

--------------------------------------------------------------------------------
\* Helpers

Goto(s, stage) == pc' = [pc EXCEPT ![s] = stage]
Slot(s) == profileCID[job[s].owner]
IsErased(c) == c # NoCid /\ doc[c].erased
EntriesOf(c) == IF c = NoCid THEN {} ELSE doc[c].entries

\* A profile's own CID and those of its credentials.
Listed(c) == {c} \cup {e.hash : e \in EntriesOf(c)}

Tombstone == [erased |-> TRUE, entries |-> {}]
Blank     == [erased |-> FALSE, entries |-> {}]

\* The entry of the credential that a session issues.
Issued(s) == [claim |-> job[s].claim, hash |-> CredentialOf[s]]

\* Seeded bug: the document it is built from is unpinned before the slot moves.
Upload_UnpinsBase(s, content) ==
  /\ doc' = [doc EXCEPT ![s] = content]
  /\ pins' = (pins \ {base[s]}) \cup {s}

\* pinJSONToIPFS: the document gets a CID of its own, it carries a timestamp.
Upload(s, content) ==
  /\ doc' = [doc EXCEPT ![s] = content]
  /\ pins' = pins \cup {s}

\* The call data of a session's writes.
SetProfile(s) == [fn |-> "setProfileCID", owner |-> job[s].owner, cid |-> s]
Anchor(s)     == [fn |-> "setClaim", owner |-> job[s].owner, claimId |-> job[s].claim,
                  claimHash |-> CredentialOf[s]]

--------------------------------------------------------------------------------
\* Browser and backend, step by step

\* A page starts a flow; the client of POST /api/profile may name the CID it
\* last read from the registry, or none (the vault page names none).
Start(s, j, known) ==
  /\ pc[s] = "idle"
  /\ known \in {NoCid, profileCID[j.owner]}
  /\ j.kind # "create" => known = NoCid
  /\ Goto(s, IF j.kind = "issue" THEN "prefetch" ELSE "prepare")
  /\ job' = [job EXCEPT ![s] = j]
  /\ base' = [base EXCEPT ![s] = known]
  /\ UNCHANGED <<registryVars, hybrid, doc, offChain, writeVars>>

\* issueVC: GET /api/profile/:address; without a profile (404), with an erased
\* one (410) or after a failure the page goes on without a CID.
Prefetch(s) ==
  /\ pc[s] = "prefetch"
  /\ Goto(s, "prepare")
  /\ \E c \in IF MayFail THEN {NoCid, Slot(s)} ELSE {Slot(s)} :
       base' = [base EXCEPT ![s] = IF IsErased(c) THEN NoCid ELSE c]
  /\ UNCHANGED <<registryVars, hybrid, doc, offChain, job, writeVars>>

\* Seeded bug: a profile that cannot be fetched counts as an empty one.
IssueBase_OrEmpty(s) == {base[s]} \cup (IF MayFail THEN {NoCid} ELSE {})

\* fetchJSON(currentProfileCid), without a catch of its own.
IssueBase(s) == {base[s]}

\* issueSignedVC: the credential is uploaded, then a profile with the entry of
\* its claim id replaced; a failure of the second is skipped.
PrepareIssue(s) ==
  /\ pc[s] = "prepare" /\ job[s].kind = "issue"
  /\ Goto(s, "signClaim")
  /\ \/ \E b \in IssueBase(s) :
          /\ doc' = [doc EXCEPT ![s] =
               [erased |-> IsErased(b),
                entries |-> {e \in EntriesOf(b) : e.claim # job[s].claim} \cup {Issued(s)}]]
          /\ pins' = pins \cup {s, CredentialOf[s]}
     \/ /\ MayFail
        /\ pins' = pins \cup {CredentialOf[s]}
        /\ UNCHANGED doc
  /\ UNCHANGED <<registryVars, hybrid, rows, erasures, job, base, writeVars>>

\* createOrUpdateProfile: the client's CID (hybrid) or the slot; an erased
\* document is refused, one that cannot be fetched is taken for an empty one.  The
\* body's credentials are appended as they are, anchored or not.
PrepareCreate(s) ==
  /\ pc[s] = "prepare" /\ job[s].kind = "create"
  /\ base' = [base EXCEPT ![s] = IF hybrid THEN @ ELSE Slot(s)]
  /\ \/ /\ IsErased(base'[s])
        /\ Goto(s, "refused")
        /\ UNCHANGED <<doc, pins, posted>>
     \/ /\ \E b \in IF MayFail THEN {base'[s], NoCid} ELSE {base'[s]}, body \in Bodies :
             /\ ~IsErased(b)
             /\ Upload(s, [erased |-> FALSE, entries |-> EntriesOf(b) \cup body])
             /\ posted' = posted \cup {<<job[s].owner, e>> : e \in body}
        /\ Goto(s, IF hybrid THEN "signProfile" ELSE "backendTx")
  /\ UNCHANGED <<registryVars, hybrid, rows, erasures, job, sent, mined>>

\* eraseProfile, first part: the slot is read; a document that cannot be
\* fetched is not checked.
EraseCheck(s) ==
  /\ pc[s] = "prepare" /\ job[s].kind = "erase"
  /\ base' = [base EXCEPT ![s] = Slot(s)]
  /\ \/ IsErased(Slot(s)) /\ Goto(s, "refused")
     \/ (MayFail \/ ~IsErased(Slot(s))) /\ Goto(s, "tombstone")
  /\ UNCHANGED <<registryVars, hybrid, doc, offChain, job, writeVars>>

\* A backend that signs writes the registry next; in hybrid mode the wallet
\* does so after the answer, and the rest of the handler runs before that.
AfterTombstone == IF hybrid THEN "cleanup" ELSE "backendTx"

\* The old document is unpinned, if possible, then the tombstone is uploaded.
UploadTombstone(s) ==
  /\ pc[s] = "tombstone" /\ job[s].kind = "erase"
  /\ \E old \in IF MayFail THEN {{}, {base[s]}} ELSE {{base[s]}} :
       \/ /\ doc' = [doc EXCEPT ![s] = Tombstone]
          /\ pins' = (pins \ old) \cup {s}
          /\ Goto(s, AfterTombstone)
       \/ /\ MayFail
          /\ pins' = pins \ old
          /\ Goto(s, "failed")
          /\ UNCHANGED doc
  /\ UNCHANGED <<registryVars, hybrid, rows, erasures, job, base, writeVars>>

\* gdprController.eraseProfile, first part: the slot is read and its document
\* fetched; an erased one is not told from another.
GdprCheck(s) ==
  /\ pc[s] = "prepare" /\ job[s].kind = "gdprErase"
  /\ base' = [base EXCEPT ![s] = Slot(s)]
  /\ Goto(s, IF Slot(s) = NoCid THEN "refused" ELSE "tombstone")
  /\ UNCHANGED <<registryVars, hybrid, doc, offChain, job, writeVars>>

\* Profile and credentials are unpinned one by one, if possible, before the
\* document without data is uploaded and the contract called; in hybrid mode
\* the contract is read-only and throws.
GdprErase(s) ==
  /\ pc[s] = "tombstone" /\ job[s].kind = "gdprErase"
  /\ \E gone \in IF MayFail THEN SUBSET Listed(base[s]) ELSE {Listed(base[s])} :
       \/ /\ doc' = [doc EXCEPT ![s] = Blank]
          /\ pins' = (pins \ gone) \cup {s}
          /\ Goto(s, IF hybrid THEN "failed" ELSE "backendTx")
       \/ /\ MayFail
          /\ pins' = pins \ gone
          /\ Goto(s, "failed")
          /\ UNCHANGED doc
  /\ UNCHANGED <<registryVars, hybrid, rows, erasures, job, base, writeVars>>

\* Seeded bug: the registry is written before the upload is known to be there.
PrepareRegister_NotUploaded(s) ==
  /\ pc[s] = "prepare" /\ job[s].kind = "register"
  /\ Goto(s, IF hybrid THEN "failed" ELSE "backendTx")
  /\ UNCHANGED <<registryVars, hybrid, doc, offChain, job, base, writeVars>>

\* registerDID: the DID document goes to the same slot, whatever is in it.
PrepareRegister(s) ==
  /\ pc[s] = "prepare" /\ job[s].kind = "register"
  /\ Upload(s, Blank)
  /\ Goto(s, IF hybrid THEN "failed" ELSE "backendTx")
  /\ UNCHANGED <<registryVars, hybrid, rows, erasures, job, base, writeVars>>

\* upsertDbProfile: INSERT .. ON CONFLICT DO UPDATE, whose answer may be lost.
UpsertRow(s) ==
  /\ pc[s] = "prepare" /\ job[s].kind = "upsert"
  /\ rows' = rows \cup {job[s].owner}
  /\ Goto(s, "done") \/ (MayFail /\ Goto(s, "failed"))
  /\ UNCHANGED <<registryVars, hybrid, doc, pins, erasures, job, base, writeVars>>

\* DELETE FROM profiles; an error is caught.
Cleanup(s) ==
  /\ pc[s] = "cleanup"
  /\ \/ rows' = rows \ {job[s].owner}
     \/ MayFail /\ UNCHANGED rows
  /\ Goto(s, "logErasure")
  /\ UNCHANGED <<registryVars, hybrid, doc, pins, erasures, job, base, writeVars>>

\* INSERT INTO disclosures; an error, which may come after the effect, is caught by
\* one handler and answered with 500 by the other.  With the answer the wallet gets
\* its transaction.
LogErasure(s) ==
  /\ pc[s] = "logErasure"
  /\ \/ erasures' = erasures \cup {s}
     \/ MayFail /\ UNCHANGED erasures
  /\ \/ /\ job[s].kind = "erase" \/ s \in erasures'
        /\ Goto(s, IF hybrid THEN "signProfile" ELSE "done")
     \/ /\ MayFail /\ job[s].kind = "gdprErase"
        /\ Goto(s, "failed")
  /\ UNCHANGED <<registryVars, hybrid, doc, pins, rows, job, base, writeVars>>

\* A call of the handler to node, gateways or database throws: a 500 answer.
ServerFails(s) ==
  /\ MayFail
  /\ pc[s] \in {"prepare", "backendTx"}
  /\ Goto(s, "failed")
  /\ UNCHANGED <<registryVars, hybrid, doc, offChain, job, base, writeVars>>

--------------------------------------------------------------------------------
\* Writes to the registry

Send(s, part) ==
  /\ sent' = sent \cup {<<s, part>>}
  /\ UNCHANGED <<registryVars, hybrid, doc, offChain, job, base, mined, posted>>

\* The backend's key is not the owner: gas estimation meets onlySelf.
BackendTx(s) ==
  /\ pc[s] = "backendTx"
  /\ \/ /\ OnlySelf(Backend, SetProfile(s))
        /\ Goto(s, "profileSent")
        /\ Send(s, "profile")
     \/ /\ ~OnlySelf(Backend, SetProfile(s))
        /\ Goto(s, "failed")
        /\ UNCHANGED <<registryVars, hybrid, doc, offChain, job, base, writeVars>>

\* The wallet signs a request for the relay, or a transaction of its own.
SignClaim(s)   == pc[s] = "signClaim" /\ Goto(s, "claimSent") /\ Send(s, "claim")
SignProfile(s) == pc[s] = "signProfile" /\ Goto(s, "profileSent") /\ Send(s, "profile")
DirectClaim(s) == pc[s] = "fallback" /\ Goto(s, "directSent") /\ Send(s, "direct")

Mine(s, part) ==
  /\ <<s, part>> \in sent
  /\ RegistryCall(job[s].owner, IF part = "profile" THEN SetProfile(s) ELSE Anchor(s))
  /\ sent' = sent \ {<<s, part>>}
  /\ mined' = mined \cup {<<s, part>>}
  /\ UNCHANGED <<hybrid, doc, offChain, pc, job, base, posted>>

\* Seeded bug: the page does not wait for the claim to be anchored.
ClaimWritten_NotAwaited(s) ==
  /\ pc[s] = "claimSent"
  /\ Goto(s, IF doc[s] = NoDoc THEN "done" ELSE "signProfile")
  /\ UNCHANGED <<registryVars, hybrid, doc, offChain, job, base, writeVars>>

\* The relay has answered and waitForTx has returned; the profile comes second.
ClaimWritten(s) ==
  /\ pc[s] = "claimSent" /\ <<s, "claim">> \in mined
  /\ Goto(s, IF doc[s] = NoDoc THEN "done" ELSE "signProfile")
  /\ UNCHANGED <<registryVars, hybrid, doc, offChain, job, base, writeVars>>

\* Seeded bug: the transaction is not waited for.
ProfileWritten_NotAwaited(s) ==
  /\ pc[s] = "profileSent"
  /\ Goto(s, IF hybrid \/ job[s].kind \in {"create", "issue", "register"} THEN "done"
             ELSE IF job[s].kind = "erase" THEN "cleanup" ELSE "logErasure")
  /\ UNCHANGED <<registryVars, hybrid, doc, offChain, job, base, writeVars>>

\* The relay's answer, or tx.wait(); a backend that signed goes on from there.
ProfileWritten(s) ==
  /\ pc[s] = "profileSent" /\ <<s, "profile">> \in mined
  /\ Goto(s, IF hybrid \/ job[s].kind \in {"create", "issue", "register"} THEN "done"
             ELSE IF job[s].kind = "erase" THEN "cleanup" ELSE "logErasure")
  /\ UNCHANGED <<registryVars, hybrid, doc, offChain, job, base, writeVars>>

DirectWritten(s) ==
  /\ pc[s] = "directSent" /\ <<s, "direct">> \in mined
  /\ Goto(s, "done")
  /\ UNCHANGED <<registryVars, hybrid, doc, offChain, job, base, writeVars>>

\* The user rejects, the relay answers with an error or the wait is given up:
\* the credential page offers a regular transaction of the claim; the vault
\* page starts again with a new request, which is another session.
WriteFails(s) ==
  /\ \/ pc[s] \in {"signClaim", "signProfile", "fallback"}
     \/ MayFail /\ pc[s] \in {"claimSent", "profileSent", "directSent"}
  /\ Goto(s, IF job[s].kind = "issue" /\ pc[s] \notin {"fallback", "directSent"}
               THEN "fallback" ELSE "failed")
  /\ UNCHANGED <<registryVars, hybrid, doc, offChain, job, base, writeVars>>

SessionStep(s) ==
  \/ Prefetch(s) \/ PrepareIssue(s) \/ PrepareCreate(s)
  \/ EraseCheck(s) \/ UploadTombstone(s) \/ Cleanup(s) \/ LogErasure(s)
  \/ GdprCheck(s) \/ GdprErase(s) \/ PrepareRegister(s) \/ UpsertRow(s) \/ ServerFails(s)
  \/ BackendTx(s) \/ SignClaim(s) \/ SignProfile(s) \/ DirectClaim(s)
  \/ ClaimWritten(s) \/ ProfileWritten(s) \/ DirectWritten(s) \/ WriteFails(s)

Next ==
  \/ \E s \in Cids, known \in Cids \cup {NoCid} : \E j \in Jobs[s] : Start(s, j, known)
  \/ \E s \in Cids : SessionStep(s)
  \/ \E s \in Cids, part \in Parts : Mine(s, part)

Spec == Init /\ [][Next]_vars

--------------------------------------------------------------------------------
\* Properties

\* GET /api/profile/:address: the credentials of a 200 answer; without a profile
\* (404) or with an erased one (410) there are none.
GetProfile(o) ==
  LET c == profileCID[o]
  IN  IF c = NoCid \/ IsErased(c) THEN {} ELSE EntriesOf(c)

\* POST /api/vc/validate: the hash of the credential's CID is the one on chain.
ValidateRawVC(o, cred) == claims[o][cred.claim] = cred.hash

\* GET /api/did/:address: 404, the document, or 500 if nobody pins it any more.
ResolveDID(o) ==
  IF profileCID[o] = NoCid THEN "missing"
  ELSE IF profileCID[o] \in pins THEN "document" ELSE "error"

\* Hashes that issuances of a claim have written to the registry.
Anchored(o, k) ==
  {CredentialOf[s] : s \in {t \in Cids : /\ pc[t] # "idle" /\ job[t].owner = o /\ job[t].claim = k
                                        /\ {<<t, "claim">>, <<t, "direct">>} \cap mined # {}}}

\* The credential is valid on chain, or another one of its claim has replaced it.
ValidOrReplaced(o, cred) ==
  /\ cred.hash \in Anchored(o, cred.claim)
  /\ ValidateRawVC(o, cred) \/ claims[o][cred.claim] \in Anchored(o, cred.claim) \ {cred.hash}

\* A credential that a profile shows was brought by the body of a create, which
\* nobody checks, or it has been anchored and validates until another one of its
\* claim replaces it on chain, whichever write of its issuance failed, was relayed
\* late or repeated, and whatever other flows rewrote the profile.
AnchoredBeforeListed ==
  \A o \in Owners : \A cred \in GetProfile(o) :
    <<o, cred>> \in posted \/ ValidOrReplaced(o, cred)

\* An owner's DID resolves until an erasure of its owner that read the slot as it
\* is: no flow unpins what another one has installed.
PinnedUntilErased ==
  \A o \in Owners :
    ResolveDID(o) = "error" =>
      \E s \in Cids : /\ pc[s] # "idle" /\ job[s].owner = o
                     /\ job[s].kind \in {"erase", "gdprErase"}
                     /\ base[s] = profileCID[o]

\* An issuance whose profile replaces the one it was built from loses no
\* credential of another claim.
IssueKeepsOthers ==
  \A s \in Cids :
    LET o == job[s].owner IN
    (/\ pc[s] # "idle" /\ job[s].kind = "issue"
     /\ profileCID[o] = base[s] /\ profileCID'[o] = s) =>
      {e \in EntriesOf(base[s]) : e.claim # job[s].claim} \subseteq EntriesOf(s)

CredentialsKept == [][IssueKeepsOthers]_profileCID

\* "Profile created", "permanently erased", "credential anchored" and the 200
\* answers of a backend that signs are only given for a write on chain, and a
\* credential that was issued validates until another one of its claim is anchored.
DoneIsOnChain ==
  \A s \in Cids :
    (pc[s] = "done" /\ job[s].kind # "upsert") =>
      IF job[s].kind = "issue"
        THEN ValidOrReplaced(job[s].owner, Issued(s))
        ELSE <<s, "profile">> \in mined

\* "Profile erased under GDPR Art.17 and cannot be recreated": POST /api/profile
\* prepares no document for an owner whose slot names a tombstone.
RecreationRefused ==
  [][\A s \in Cids :
       (pc[s] = "prepare" /\ job[s].kind = "create" /\ IsErased(Slot(s))) =>
         doc'[s] = NoDoc]_doc
================================================================================
