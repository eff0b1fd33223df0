--------------------------------- MODULE Consent ---------------------------------
(***************************************************************************)
(* The consent registry: table consents with its partial unique index      *)
(* (backend/db/schema.sql), POST /api/consent/grant and /revoke            *)
(* (backend/src/controllers/consentController.js).  A grant is a SELECT    *)
(* and an INSERT with an await in between; a revocation is one UPDATE.     *)
(***************************************************************************)
EXTENDS ContextNames, Naturals, FiniteSets

CONSTANTS Subjects,     \* normalised addresses
          Claims,       \* claim ids
          Purposes,     \* purposes, apart from how they are written
          Grants,       \* POST /grant requests, each used once; also the id of
                        \* the row a request inserts
          GrantForms,   \* bodies of grant requests (subset of GrantForm)
          RevokeForms,  \* bodies of revoke requests (subset of RevokeForm)
          Never,        \* expires_at IS NULL
          MaxTime,      \* bound of the clock
          DbMayFail     \* may a query be rejected for outside reasons?

VARIABLES now,          \* database time
          rows,         \* table consents
          gpc,          \* stage, then answer, of a grant request
          gform         \* body of a grant request

consentVars == <<rows, gpc, gform>>

--------------------------------------------------------------------------------
Purpose    == [word : Purposes, upper : BOOLEAN]
GrantForm  == [subject : Subjects, claim : Claims, purpose : Purpose, ctx : Context,
               expires : Nat \cup {Never}]
RevokeForm == [subject : Subjects, claim : Claims,
               purpose : Purpose \cup {NoFilter}, ctx : Context \cup {NoFilter}]

ASSUME ConsentAssumption ==
  /\ GrantForms \subseteq GrantForm
  /\ RevokeForms \subseteq RevokeForm
  /\ Never \notin Nat
  /\ MaxTime \in Nat /\ DbMayFail \in BOOLEAN
  /\ NoFilter \notin Purpose \cup GrantForm

Row == [id : Grants, subject : Subjects, claim : Claims, purpose : Purpose,
        ctx : Context, expires : Nat \cup {Never}, revoked : BOOLEAN]

GrantAnswers == {"granted", "conflict", "error"}

ConsentTypeOK ==
  /\ now \in Nat
  /\ rows \subseteq Row
  /\ gpc \in [Grants -> {"idle", "select", "insert"} \cup GrantAnswers]
  /\ gform \in [Grants -> GrantForms \cup {NoFilter}]
  /\ \A g \in Grants : gpc[g] # "idle" => gform[g] \in GrantForms

ConsentInit ==
  /\ now = 0
  /\ rows = {}
  /\ gpc = [g \in Grants |-> "idle"]
  /\ gform = [g \in Grants |-> NoFilter]

ConsentTick ==
  /\ now < MaxTime
  /\ now' = now + 1

--------------------------------------------------------------------------------
\* grantConsent

\* Unrevoked rows of a grant's (subject, claim, stored context).
Blocking(g) ==
  {r \in rows : /\ r.subject = gform[g].subject
                /\ r.claim = gform[g].claim
                /\ r.ctx = MiddlewareContext(gform[g].ctx)
                /\ ~r.revoked}

NewRow(g) ==
  [id |-> g, subject |-> gform[g].subject, claim |-> gform[g].claim,
   purpose |-> gform[g].purpose, ctx |-> MiddlewareContext(gform[g].ctx),
   expires |-> gform[g].expires, revoked |-> FALSE]

SubmitGrant(g, f) ==
  /\ gpc[g] = "idle"
  /\ gpc' = [gpc EXCEPT ![g] = "select"]
  /\ gform' = [gform EXCEPT ![g] = f]
  /\ UNCHANGED <<now, rows>>

\* The SELECT looks at revoked_at and not at expires_at.
CheckDuplicate(g) ==
  /\ gpc[g] = "select"
  /\ gpc' = [gpc EXCEPT ![g] = IF Blocking(g) = {} THEN "insert" ELSE "conflict"]
  /\ UNCHANGED <<now, rows, gform>>

\* Seeded bugs: without uniq_active_consent; a conflict of the INSERT is reported
\* as success.
InsertConsent_NoIndex(g) ==
  /\ gpc[g] = "insert"
  /\ rows' = rows \cup {NewRow(g)}
  /\ gpc' = [gpc EXCEPT ![g] = "granted"]
  /\ UNCHANGED <<now, gform>>

InsertConsent_DoNothing(g) ==
  /\ gpc[g] = "insert"
  /\ rows' = IF Blocking(g) = {} THEN rows \cup {NewRow(g)} ELSE rows
  /\ gpc' = [gpc EXCEPT ![g] = "granted"]
  /\ UNCHANGED <<now, gform>>

\* The INSERT throws if it would put a second entry into uniq_active_consent.  The
\* answer of one that is committed may be lost with the connection: the handler throws
\* and answers 500, and the row is there.
InsertConsent(g) ==
  /\ gpc[g] = "insert"
  /\ \/ /\ Blocking(g) = {}
        /\ rows' = rows \cup {NewRow(g)}
        /\ \E answer \in {"granted"} \cup IF DbMayFail THEN {"error"} ELSE {} :
             gpc' = [gpc EXCEPT ![g] = answer]
     \/ /\ Blocking(g) # {}
        /\ gpc' = [gpc EXCEPT ![g] = "error"]
        /\ UNCHANGED rows
  /\ UNCHANGED <<now, gform>>

\* A statement that is rejected without effect.
GrantDbFails(g) ==
  /\ DbMayFail
  /\ gpc[g] \in {"select", "insert"}
  /\ gpc' = [gpc EXCEPT ![g] = "error"]
  /\ UNCHANGED <<now, rows, gform>>

--------------------------------------------------------------------------------
\* revokeConsent

RevokeHits(f, r) ==
  /\ r.subject = f.subject /\ r.claim = f.claim /\ ~r.revoked
  /\ f.purpose # NoFilter => r.purpose = f.purpose
  /\ SanitizeContext(f.ctx) # NoFilter => r.ctx = SanitizeContext(f.ctx)

\* Seeded bug: a consent is withdrawn by deleting its row.
Revoke_Deletes(f) ==
  /\ \E r \in rows : RevokeHits(f, r)
  /\ rows' = {r \in rows : ~RevokeHits(f, r)}
  /\ UNCHANGED <<now, gpc, gform>>

\* UPDATE consents SET revoked_at = NOW() WHERE ..; no hit is a 404.
Revoke(f) ==
  /\ \E r \in rows : RevokeHits(f, r)
  /\ rows' = {IF RevokeHits(f, r) THEN [r EXCEPT !.revoked = TRUE] ELSE r : r \in rows}
  /\ UNCHANGED <<now, gpc, gform>>

--------------------------------------------------------------------------------
\* getActiveConsents: unrevoked rows, expired or not, of a context if one is named.
ActiveConsents(s, ctx) ==
  {r \in rows : /\ r.subject = s /\ ~r.revoked
                /\ SanitizeContext(ctx) # NoFilter => r.ctx = SanitizeContext(ctx)}

--------------------------------------------------------------------------------
GrantStep(g) == CheckDuplicate(g) \/ InsertConsent(g)

ConsentNext ==
  \/ \E g \in Grants, f \in GrantForms : SubmitGrant(g, f)
  \/ \E g \in Grants : GrantStep(g) \/ GrantDbFails(g)
  \/ \E f \in RevokeForms : Revoke(f)

ConsentSpec ==
  ConsentInit /\ [][ConsentNext \/ (ConsentTick /\ UNCHANGED consentVars)]_<<now, consentVars>>

--------------------------------------------------------------------------------
\* Properties

\* However grants race, expire and are revoked in between, a subject has one
\* unrevoked consent per claim and context.
OneActiveConsent ==
  \A r, s \in rows :
    (/\ r.subject = s.subject /\ r.claim = s.claim /\ r.ctx = s.ctx
     /\ ~r.revoked /\ ~s.revoked) => r = s

\* A grant that answers 200 has stored its consent, whole and once; one that answers 409
\* has stored nothing and met another consent of the same triple, which may be that of
\* an earlier try; and one that answers 500, which may have stored its consent or not,
\* has stored it whole and once if at all.
GrantAnswersAreTruthful ==
  \A g \in Grants :
    /\ gpc[g] = "granted" => \E r \in rows : r.id = g
    /\ \A r \in rows : r.id = g =>
         /\ gpc[g] \in {"granted", "error"}
         /\ [r EXCEPT !.revoked = FALSE] = NewRow(g)
         /\ \A s \in rows : s.id = g => s = r
    /\ gpc[g] = "conflict" =>
         \E r \in rows : /\ r.id # g
                         /\ r.subject = gform[g].subject /\ r.claim = gform[g].claim
                         /\ r.ctx = MiddlewareContext(gform[g].ctx)

RowsKept ==
  \A r \in rows : r \in rows' \/ (~r.revoked /\ [r EXCEPT !.revoked = TRUE] \in rows')

\* A consent is never deleted, rewritten or un-revoked: what was agreed, and
\* that it was withdrawn, stays on record.
ConsentHistoryKept == [][RowsKept]_rows

\* "Active consent already exists": a grant is refused with 409 only if the
\* consent in its way has not expired.
ConflictMeansActive ==
  [][\A g \in Grants :
       (gpc[g] = "select" /\ gpc'[g] = "conflict") =>
         \E r \in Blocking(g) : r.expires = Never \/ r.expires > now]_gpc
================================================================================
