------------------------------ MODULE VerifierPage ------------------------------
(***************************************************************************)
(* The verifier page (verifier.component.ts): a form with one row per      *)
(* credential, the request it sends to verifyVC, and the audit trail of    *)
(* the verifier that is typed in.                                          *)
(***************************************************************************)
EXTENDS DisclosureLog, ContextNames

CONSTANTS VerifierContexts, \* contexts of ContextService
          SuggestedFor,     \* suggestable claims of each account
          ClaimIds, Cids,
          TypedCids,        \* CIDs that are typed
          NotADid,          \* input that does not start with "did:"
          MaxRows           \* bound of the form

ClaimSuggestion == [claim : ClaimIds, cid : Cids \cup {None}, ctx : Context]
CredentialRow   == [claim : ClaimIds \cup {None}, cid : Cids \cup {None}]

ASSUME VerifierPageAssumption ==
  /\ VerifierContexts \subseteq Context /\ LogContexts \subseteq Context
  /\ \A c \in VerifierContexts : NormalizeContext(c) \in LogContexts
  /\ TypedCids \subseteq Cids
  /\ SuggestedFor \in [Accounts -> SUBSET ClaimSuggestion]
  /\ None \notin Context \cup ClaimIds \cup Cids \cup LogVerifiers
  /\ NotADid \notin LogVerifiers \cup {None}
  /\ MaxRows \in Nat

VARIABLES subject, verifierDid, disclosureContext, selectedVerifierContext,
          credentials,        \* rows of the form
          claimSuggestions, suggestionCalls,
          verifyCall,         \* the request under way, or None
          verifierAudit, auditLoading, auditError, auditCalls,
          auditStale,         \* history: was another verifier's trail still to come, or has one failed?
          crossed,            \* history: was a claim chosen again, or above the last row?
          typedCids           \* history: CIDs that were typed

requestVars == <<subject, disclosureContext, selectedVerifierContext, credentials, claimSuggestions,
                 suggestionCalls, verifyCall, crossed, typedCids>>
auditVars   == <<verifierDid, verifierAudit, auditLoading, auditError, auditCalls, auditStale>>
verifierVars == <<requestVars, auditVars>>

VerifyCall == [subject : Accounts, verifier : LogVerifiers, ctx : Context,
               credentials : Seq(CredentialRow)]

VerifierTypeOK ==
  /\ subject \in Accounts \cup {None} /\ verifierDid \in LogVerifiers \cup {None, NotADid}
  /\ disclosureContext \in Context \cup {None} /\ selectedVerifierContext \in Context \cup {None}
  /\ credentials \in Seq(CredentialRow)
  /\ claimSuggestions \subseteq ClaimSuggestion /\ suggestionCalls \in Seq(Accounts)
  /\ verifyCall = None \/ verifyCall \in VerifyCall
  /\ verifierAudit \subseteq DOMAIN log /\ auditCalls \in Seq(LogVerifiers)
  /\ {auditLoading, auditError, auditStale, crossed} \subseteq BOOLEAN
  /\ typedCids \subseteq Cids

VerifierInit ==
  /\ subject = None /\ verifierDid = None
  /\ disclosureContext = None /\ selectedVerifierContext = None
  /\ credentials = <<>> /\ claimSuggestions = {} /\ suggestionCalls = <<>>
  /\ verifyCall = None
  /\ verifierAudit = {} /\ auditLoading = FALSE /\ auditError = FALSE /\ auditCalls = <<>>
  /\ auditStale = FALSE /\ crossed = FALSE /\ typedCids = {}

--------------------------------------------------------------------------------
\* The address arrives: the account becomes the subject, and its claims are
\* asked for, whoever is typed in as subject later.
VerifierAddress(a) ==
  /\ address' = a
  /\ \/ a = None /\ UNCHANGED <<subject, suggestionCalls>>
     \/ a # None /\ subject' = a /\ Sent(suggestionCalls, a)
  /\ UNCHANGED <<log, disclosureContext, selectedVerifierContext, credentials, claimSuggestions,
                 verifyCall, crossed, typedCids, auditVars>>

\* loadSuggestions: the answer, or the error that leaves the old ones.
GotClaimSuggestions(i) ==
  /\ claimSuggestions' \in {SuggestedFor[suggestionCalls[i]]} \cup
                            IF NetMayFail THEN {claimSuggestions} ELSE {}
  /\ Taken(suggestionCalls, i)
  /\ UNCHANGED <<address, log, subject, disclosureContext, selectedVerifierContext, credentials,
                 verifyCall, crossed, typedCids, auditVars>>

TypeSubject(a) ==
  /\ address # None
  /\ subject' = a
  /\ UNCHANGED <<address, log, disclosureContext, selectedVerifierContext, credentials,
                 claimSuggestions, suggestionCalls, verifyCall, crossed, typedCids, auditVars>>

\* filteredClaimIdsByContext
FilteredClaims ==
  {s \in claimSuggestions :
     selectedVerifierContext # None =>
       NormalizeContext(s.ctx) = NormalizeContext(selectedVerifierContext)}

EmptyRow == [claim |-> None, cid |-> None]

\* The context changes: the form gets it normalised and its first row; rows
\* there are stay.
ChooseContext(c) ==
  /\ address # None
  /\ selectedVerifierContext' = c
  /\ disclosureContext' = IF c = None THEN None ELSE NormalizeContext(c)
  /\ credentials' = IF c # None /\ credentials = <<>> THEN <<EmptyRow>> ELSE credentials
  /\ UNCHANGED <<address, log, subject, claimSuggestions, suggestionCalls, verifyCall,
                 crossed, typedCids, auditVars>>

\* addCredential
AddCredential ==
  /\ address # None /\ disclosureContext # None /\ FilteredClaims # {}
  /\ Len(credentials) < MaxRows
  /\ credentials' = Append(credentials, EmptyRow)
  /\ UNCHANGED <<address, log, subject, disclosureContext, selectedVerifierContext, claimSuggestions,
                 suggestionCalls, verifyCall, crossed, typedCids, auditVars>>

\* removeCredential
RemoveCredential(i) ==
  /\ address # None
  /\ credentials' = RemoveAt(credentials, i)
  /\ UNCHANGED <<address, log, subject, disclosureContext, selectedVerifierContext, claimSuggestions,
                 suggestionCalls, verifyCall, crossed, typedCids, auditVars>>

\* Seeded bug: the first row is taken for the latest.
AutoFillCid_FirstRow(cs, cid) ==
  IF cid = None THEN cs ELSE [cs EXCEPT ![1].cid = cid]

\* autoFillCid: into the last row, whichever row the claim is chosen in.
AutoFillCid(cs, cid) ==
  IF cid = None THEN cs ELSE [cs EXCEPT ![Len(cs)].cid = cid]

\* A claim is chosen in row i.  The select reports the option that is chosen and
\* then the one that is left, and autoFillCid is called for both.
ChooseClaim(i, s) ==
  /\ address # None
  /\ LET left   == {t \in FilteredClaims : t.claim = credentials[i].claim} \ {s}
         chosen == AutoFillCid([credentials EXCEPT ![i].claim = s.claim], s.cid)
     IN  credentials' \in IF left = {} THEN {chosen} ELSE {AutoFillCid(chosen, t.cid) : t \in left}
  /\ crossed' = (crossed \/ i # Len(credentials) \/ credentials[i].claim # None)
  /\ UNCHANGED <<address, log, subject, disclosureContext, selectedVerifierContext, claimSuggestions,
                 suggestionCalls, verifyCall, typedCids, auditVars>>

\* The CID is an input like any other.
TypeCid(i, cid) ==
  /\ address # None
  /\ credentials' = [credentials EXCEPT ![i].cid = cid]
  /\ typedCids' = typedCids \cup ({cid} \ {None})
  /\ UNCHANGED <<address, log, subject, disclosureContext, selectedVerifierContext, claimSuggestions,
                 suggestionCalls, verifyCall, crossed, auditVars>>

--------------------------------------------------------------------------------
\* The validators: every field is there, and nobody verifies themselves.
FormValid ==
  /\ subject # None /\ verifierDid \in LogVerifiers /\ subject # verifierDid
  /\ disclosureContext # None /\ credentials # <<>>
  /\ \A i \in DOMAIN credentials : credentials[i].claim # None /\ credentials[i].cid # None

\* submit, up to the request; the user has entered a purpose and ticked the box.
SubmitRequest ==
  /\ address # None /\ FormValid /\ verifyCall = None
  /\ verifyCall' = [subject |-> subject, verifier |-> verifierDid,
                    ctx |-> NormalizeContext(disclosureContext), credentials |-> credentials]
  /\ UNCHANGED <<address, log, subject, disclosureContext, selectedVerifierContext, credentials,
                 claimSuggestions, suggestionCalls, crossed, typedCids, auditVars>>

\* verifyVC logs what it discloses; a request that fails may have logged some of it.
VerifyAnswered ==
  /\ verifyCall # None
  /\ \E n \in 0..Len(verifyCall.credentials) :
       /\ Len(log) + n <= MaxLog
       /\ log' = log \o [k \in 1..n |-> [subject |-> verifyCall.subject,
                                         verifier |-> verifyCall.verifier, ctx |-> verifyCall.ctx]]
  /\ verifyCall' = None
  /\ UNCHANGED <<address, subject, disclosureContext, selectedVerifierContext, credentials,
                 claimSuggestions, suggestionCalls, crossed, typedCids, auditVars>>

--------------------------------------------------------------------------------
\* Each change of the verifier's DID asks for its trail; other text clears it.
TypeVerifier(d) ==
  /\ address # None
  /\ verifierDid' = d
  /\ \/ /\ d \in LogVerifiers
        /\ auditLoading' = TRUE /\ auditError' = FALSE
        /\ Sent(auditCalls, d)
        /\ UNCHANGED verifierAudit
     \/ /\ d \notin LogVerifiers
        /\ verifierAudit' = {}
        /\ UNCHANGED <<auditLoading, auditError, auditCalls>>
  /\ auditStale' = (auditCalls # <<>>)
  /\ UNCHANGED <<address, log, requestVars>>

\* Seeded bug: rows are added to those that are shown.
GotAudit_Appends(i) ==
  /\ verifierAudit' = verifierAudit \cup SelectByVerifier(auditCalls[i])
  /\ auditLoading' = FALSE
  /\ Taken(auditCalls, i)
  /\ UNCHANGED <<address, log, requestVars, verifierDid, auditError, auditStale>>

\* loadVerifierAuditTrail, the answer ...
GotAudit(i) ==
  /\ verifierAudit' = SelectByVerifier(auditCalls[i])
  /\ auditLoading' = FALSE
  /\ Taken(auditCalls, i)
  /\ UNCHANGED <<address, log, requestVars, verifierDid, auditError, auditStale>>

\* ... and the error, which leaves the trail that was shown.
AuditFails(i) ==
  /\ NetMayFail
  /\ auditError' = TRUE /\ auditLoading' = FALSE
  /\ Taken(auditCalls, i)
  /\ auditStale' = TRUE
  /\ UNCHANGED <<address, log, requestVars, verifierDid, verifierAudit>>

FormNext ==
  \/ \E a \in Accounts \cup {None} : a # address /\ VerifierAddress(a)
  \/ \E i \in DOMAIN suggestionCalls : GotClaimSuggestions(i)
  \/ \E a \in Accounts : a # subject /\ TypeSubject(a)
  \/ \E c \in VerifierContexts \cup {None} : c # selectedVerifierContext /\ ChooseContext(c)
  \/ AddCredential
  \/ \E i \in DOMAIN credentials :
       \/ RemoveCredential(i)
       \/ \E s \in FilteredClaims : ChooseClaim(i, s)
       \/ \E cid \in TypedCids \cup {None} : cid # credentials[i].cid /\ TypeCid(i, cid)
  \/ SubmitRequest \/ VerifyAnswered

AuditNext ==
  \/ \E d \in LogVerifiers \cup {NotADid} : d # verifierDid /\ TypeVerifier(d)
  \/ \E i \in DOMAIN auditCalls : GotAudit(i) \/ AuditFails(i)

VerifierNext == FormNext \/ AuditNext

--------------------------------------------------------------------------------
\* Properties

\* "Disclosures you have received as a verifier": the trail is that of the verifier in the
\* form, unless a trail was still under way when the DID was changed, or one
\* could not be loaded, which leaves the trail of the verifier before.
AuditIsOfVerifier ==
  (~auditLoading /\ ~auditStale) => \A r \in verifierAudit : log[r].verifier = verifierDid

\* "CID will auto-fill": each row, and so the request, names a claim with the CID of a
\* suggestion for that claim or one that the user has typed, over any changes of account,
\* subject and context, as long as claims are chosen once and in the last row.  A claim
\* chosen above it, or chosen again, leaves its row with the CID of another claim.
CidsBelongToClaims ==
  ~crossed =>
    \A i \in DOMAIN credentials :
      credentials[i].claim # None /\ credentials[i].cid \notin typedCids \cup {None} =>
        \E s \in UNION {SuggestedFor[b] : b \in Accounts} :
          s.claim = credentials[i].claim /\ s.cid = credentials[i].cid
================================================================================
