------------------------------- MODULE Disclosure -------------------------------
(***************************************************************************)
(* Selective disclosure: POST /api/vc/verify                               *)
(* (verifyVC in backend/src/controllers/vcController.js) against consents  *)
(* that are granted, revoked and expire, and a profile slot that its owner *)
(* rewrites, while the handler waits for the chain, IPFS and the database. *)
(* Profile documents and credentials are content-addressed: a CID stands   *)
(* for one content, so the slot holds the document itself.                 *)
(***************************************************************************)
EXTENDS Consent, Sequences

CONSTANTS Verifiers,    \* POST /verify requests, each used once
          VerifyForms,  \* bodies of these requests
          Credentials,  \* CIDs of credentials
          Vc,           \* what is stored under a credential CID
          Profiles,     \* profile documents the owners write
          NoProfile,    \* the slot is empty
          NetMayFail    \* may the node or the gateways fail?

VARIABLES profile,      \* the profile a subject's registry slot names
          vpc,          \* stage, then answer, of a verify request
          vform,        \* body of a verify request
          doc,          \* the profile a request has fetched
          pos,          \* the entry the loop is at
          disclosed,    \* claims collected for the answer
          log,          \* table disclosures: request and entry of each row
          dead,         \* history: consents that were not in force at submission
          offered       \* history: entries the subject's profile listed at
                        \* submission or later

requestVars == <<vpc, vform, doc, pos, disclosed>>
historyVars == <<dead, offered>>
verifyVars  == <<profile, requestVars, log, historyVars>>
vars        == <<now, consentVars, verifyVars>>

Entry      == [cid : Credentials, claim : Claims]
Profile    == [erased : BOOLEAN, credentials : SUBSET Entry]
VcContent  == [ctx : Context, proof : BOOLEAN, data : BOOLEAN]
VerifyForm == [subject : Subjects, purpose : Purpose, ctx : Context,
               credentials : Seq(Entry)]

ASSUME DisclosureAssumption ==
  /\ Vc \in [Credentials -> VcContent]
  /\ Profiles \subseteq Profile /\ NoProfile \notin Profile
  /\ \A f \in VerifyForms : f \in VerifyForm
  /\ NoFilter \notin VerifyForms
  /\ NetMayFail \in BOOLEAN

VerifyAnswers == {"disclosed", "denied", "error"}
VerifyStages  == {"idle", "pointer", "fetch", "entry", "vc", "consent", "log"}
                   \cup VerifyAnswers

TypeOK ==
  /\ ConsentTypeOK
  /\ profile \in [Subjects -> Profiles \cup {NoProfile}]
  /\ vpc \in [Verifiers -> VerifyStages]
  /\ vform \in [Verifiers -> VerifyForms \cup {NoFilter}]
  /\ doc \in [Verifiers -> Profiles \cup {NoProfile}]
  /\ pos \in [Verifiers -> Nat \ {0}]
  /\ disclosed \in [Verifiers -> SUBSET Claims]
  /\ log \subseteq Verifiers \X Nat
  /\ dead \in [Verifiers -> SUBSET Grants]
  /\ offered \in [Verifiers -> SUBSET Entry]
  /\ \A v \in Verifiers : /\ vpc[v] # "idle" => vform[v] \in VerifyForms
                          /\ vpc[v] \in {"vc", "consent", "log"} =>
                               /\ doc[v] # NoProfile
                               /\ pos[v] <= Len(vform[v].credentials)

Init ==
  /\ ConsentInit
  /\ profile = [s \in Subjects |-> NoProfile]
  /\ vpc = [v \in Verifiers |-> "idle"]
  /\ vform = [v \in Verifiers |-> NoFilter]
  /\ doc = [v \in Verifiers |-> NoProfile]
  /\ pos = [v \in Verifiers |-> 1]
  /\ disclosed = [v \in Verifiers |-> {}]
  /\ log = {}
  /\ dead = [v \in Verifiers |-> {}]
  /\ offered = [v \in Verifiers |-> {}]

--------------------------------------------------------------------------------
\* Consents and profiles change at any moment.

Listed(p) == IF p = NoProfile THEN {} ELSE p.credentials

\* setProfileCID is mined: a new credential, one less, or a tombstone.
SetProfile(s, p) ==
  /\ profile' = [profile EXCEPT ![s] = p]
  /\ offered' = [v \in Verifiers |->
                   IF vpc[v] # "idle" /\ vform[v].subject = s
                     THEN offered[v] \cup Listed(p) ELSE offered[v]]
  /\ UNCHANGED <<now, consentVars, requestVars, log, dead>>

--------------------------------------------------------------------------------
\* verifyVC

Current(v) == vform[v].credentials[pos[v]]
Goto(v, stage) == vpc' = [vpc EXCEPT ![v] = stage]
Continue(v) == Goto(v, "entry") /\ pos' = [pos EXCEPT ![v] = @ + 1]

Expired(r) == r.expires # Never /\ r.expires <= now

\* What the consent page shows as granted: it drops the expired ones itself.
ShownConsents(s, ctx) == {r \in ActiveConsents(s, ctx) : ~Expired(r)}

SubmitVerify(v, f) ==
  /\ vpc[v] = "idle"
  /\ Goto(v, "pointer")
  /\ vform' = [vform EXCEPT ![v] = f]
  /\ dead' = [dead EXCEPT ![v] = {r.id : r \in rows \ ShownConsents(f.subject, NoFilter)}]
  /\ offered' = [offered EXCEPT ![v] = Listed(profile[f.subject])]
  /\ UNCHANGED <<now, consentVars, profile, doc, pos, disclosed, log>>

\* Seeded bug: a subject without a profile is not refused.
ReadPointer_EmptyAccepted(v) ==
  /\ vpc[v] = "pointer"
  /\ doc' = [doc EXCEPT ![v] = profile[vform[v].subject]]
  /\ Goto(v, "vc")
  /\ UNCHANGED <<now, consentVars, profile, vform, pos, disclosed, log, historyVars>>

\* await getProfileCID(subjectAddress)
ReadPointer(v) ==
  /\ vpc[v] = "pointer"
  /\ doc' = [doc EXCEPT ![v] = profile[vform[v].subject]]
  /\ Goto(v, IF doc'[v] = NoProfile THEN "denied" ELSE "fetch")
  /\ UNCHANGED <<now, consentVars, profile, vform, pos, disclosed, log, historyVars>>

\* await fetchJSON(profileCid), then the erasure check.
FetchProfile(v) ==
  /\ vpc[v] = "fetch"
  /\ Goto(v, IF doc[v].erased THEN "denied" ELSE "entry")
  /\ UNCHANGED <<now, consentVars, profile, vform, doc, pos, disclosed, log, historyVars>>

FetchProfileFails(v) ==
  /\ NetMayFail
  /\ vpc[v] = "fetch"
  /\ Goto(v, "denied")
  /\ UNCHANGED <<now, consentVars, profile, vform, doc, pos, disclosed, log, historyVars>>

\* Seeded bug: the credential need not be listed any more.
NextEntry_Unlisted(v) ==
  /\ vpc[v] = "entry"
  /\ pos[v] <= Len(vform[v].credentials)
  /\ Goto(v, "vc")
  /\ UNCHANGED <<now, consentVars, profile, vform, doc, pos, disclosed, log, historyVars>>

\* The head of the loop: the entry must be listed in the fetched profile.
NextEntry(v) ==
  /\ vpc[v] = "entry"
  /\ pos[v] <= Len(vform[v].credentials)
  /\ IF Current(v) \in Listed(doc[v]) THEN Goto(v, "vc") /\ UNCHANGED pos
                                      ELSE Continue(v)
  /\ UNCHANGED <<now, consentVars, profile, vform, doc, disclosed, log, historyVars>>

\* await fetchJSON(cid): signature, then the context of the credential, which is
\* compared with the requested one in lower case.
FetchVc(v) ==
  /\ vpc[v] = "vc"
  /\ LET vc == Vc[Current(v).cid]
     IN  IF vc.proof /\ Lower(vc.ctx) = Lower(vform[v].ctx)
           THEN Goto(v, "consent") /\ UNCHANGED pos
           ELSE Continue(v)
  /\ UNCHANGED <<now, consentVars, profile, vform, doc, disclosed, log, historyVars>>

\* Seeded bugs: the SELECT forgets revoked_at, or compares purposes as they are.
Covering_RevokedToo(v) ==
  {r \in rows : /\ r.subject = vform[v].subject
                /\ r.claim = Current(v).claim
                /\ Lower(r.purpose) = Lower(vform[v].purpose)
                /\ r.ctx = vform[v].ctx
                /\ ~Expired(r)}

Covering_ExactPurpose(v) ==
  {r \in rows : /\ r.subject = vform[v].subject
                /\ r.claim = Current(v).claim
                /\ r.purpose = vform[v].purpose
                /\ r.ctx = vform[v].ctx
                /\ ~r.revoked /\ ~Expired(r)}

\* Seeded bug: the consents are those of the moment the request arrived.
Covering_AsSubmitted(v) ==
  {r \in rows : /\ r.subject = vform[v].subject
                /\ r.claim = Current(v).claim
                /\ Lower(r.purpose) = Lower(vform[v].purpose)
                /\ r.ctx = vform[v].ctx
                /\ r.id \notin dead[v]}

\* The consents that answer the SELECT: purpose in lower case, context as it was
\* sent.  No grant sets verifier_did, so every consent holds for every verifier.
Covering(v) ==
  {r \in rows : /\ r.subject = vform[v].subject
                /\ r.claim = Current(v).claim
                /\ Lower(r.purpose) = Lower(vform[v].purpose)
                /\ r.ctx = vform[v].ctx
                /\ ~r.revoked /\ ~Expired(r)}

CheckConsent(v) ==
  /\ vpc[v] = "consent"
  /\ IF Covering(v) # {} /\ Vc[Current(v).cid].data
       THEN /\ Goto(v, "log")
            /\ disclosed' = [disclosed EXCEPT ![v] = @ \cup {Current(v).claim}]
            /\ UNCHANGED pos
       ELSE Continue(v) /\ UNCHANGED disclosed
  /\ UNCHANGED <<now, consentVars, profile, vform, doc, log, historyVars>>

\* The INSERT; its answer may be lost with the connection after it took effect.
LogDisclosure(v) ==
  /\ vpc[v] = "log"
  /\ log' = log \cup {<<v, pos[v]>>}
  /\ Continue(v) \/ (DbMayFail /\ Goto(v, "error") /\ UNCHANGED pos)
  /\ UNCHANGED <<now, consentVars, profile, vform, doc, disclosed, historyVars>>

\* 200 with the collected claims, 403 if there are none.
AnswerVerify(v) ==
  /\ vpc[v] = "entry"
  /\ pos[v] > Len(vform[v].credentials)
  /\ Goto(v, IF disclosed[v] = {} THEN "denied" ELSE "disclosed")
  /\ UNCHANGED <<now, consentVars, profile, vform, doc, pos, disclosed, log, historyVars>>

\* Any other await that rejects ends in the catch block: 500 and no claims.
VerifyFails(v) ==
  /\ \/ NetMayFail /\ vpc[v] \in {"pointer", "vc"}
     \/ DbMayFail /\ vpc[v] \in {"consent", "log"}
  /\ Goto(v, "error")
  /\ UNCHANGED <<now, consentVars, profile, vform, doc, pos, disclosed, log, historyVars>>

VerifyStep(v) ==
  ReadPointer(v) \/ FetchProfile(v) \/ NextEntry(v) \/ FetchVc(v)
    \/ CheckConsent(v) \/ LogDisclosure(v) \/ AnswerVerify(v)

Next ==
  \/ ConsentNext /\ UNCHANGED verifyVars
  \/ ConsentTick /\ UNCHANGED <<consentVars, verifyVars>>
  \/ \E s \in Subjects, p \in Profiles : SetProfile(s, p)
  \/ \E v \in Verifiers, f \in VerifyForms : SubmitVerify(v, f)
  \/ \E v \in Verifiers : VerifyStep(v) \/ FetchProfileFails(v) \/ VerifyFails(v)

Spec == Init /\ [][Next]_vars

--------------------------------------------------------------------------------
\* Properties

\* A consent that was revoked or had expired before the request was sent opens
\* nothing: every disclosure rests on a consent of the subject, for that claim,
\* purpose and context, that was still in force then or was given later.
NoDisclosureAfterRevocation ==
  \A x \in log :
    LET f == vform[x[1]]
    IN  \E r \in rows : /\ r.id \notin dead[x[1]]
                        /\ r.subject = f.subject
                        /\ r.claim = f.credentials[x[2]].claim
                        /\ r.purpose.word = f.purpose.word
                        /\ r.ctx = f.ctx

\* A credential that the subject's profile did not list when the request was
\* sent, nor later, is not disclosed: removing it from the profile and erasing
\* the profile both end its use, however the requests in flight interleave.
OnlyOfferedIsDisclosed ==
  \A x \in log : vform[x[1]].credentials[x[2]] \in offered[x[1]]

\* The consent check and the consent page agree: a consent shown as granted in
\* the context the verifier writes is found, for its purpose however that is
\* capitalised, and nothing the page does not show as granted answers the check.
ConsentIsFound ==
  \A v \in Verifiers :
    vpc[v] = "consent" =>
      LET f == vform[v]
      IN  /\ \A r \in ShownConsents(f.subject, f.ctx) :
               (r.claim = Current(v).claim /\ gform[r.id].ctx = f.ctx
                  /\ gform[r.id].purpose.word = f.purpose.word) => r \in Covering(v)
          /\ Covering(v) \subseteq ShownConsents(f.subject, NoFilter)

\* What ConsentedDisclosure sees of the state; purposes are compared in lower case.
InForce ==
  {[subject |-> r.subject, claim |-> r.claim, purpose |-> Lower(r.purpose), ctx |-> r.ctx] :
     r \in {q \in rows : ~q.revoked /\ ~Expired(q)}}

Listing == [s \in Subjects |-> Listed(profile[s])]

Asked(f) == [subject |-> f.subject, purpose |-> Lower(f.purpose), ctx |-> f.ctx,
             entries |-> {f.credentials[i] : i \in 1..Len(f.credentials)}]

Asking == [v \in Verifiers |-> IF vpc[v] = "idle" THEN NoFilter ELSE Asked(vform[v])]

Recorded == {<<x[1], vform[x[1]].credentials[x[2]].claim>> : x \in log}

Standing == [v \in Verifiers |-> IF vpc[v] = "idle" THEN "unsent"
                                 ELSE IF vpc[v] \in VerifyAnswers THEN vpc[v] ELSE "open"]

Promise == INSTANCE ConsentedDisclosure
  WITH Requests <- Verifiers, Forms <- {Asked(f) : f \in VerifyForms}, NoForm <- NoFilter,
       inForce <- InForce, listed <- Listing, request <- Asking, released <- disclosed,
       recorded <- Recorded, answer <- Standing

\* The handler with its awaits implements ConsentedDisclosure.  A claim is released
\* where the consent check finds it, so a consent that covers it is in force at that
\* very moment, though its row and the answer come later.
ImplementsConsentedDisclosure == Promise!AbsSpec
================================================================================
