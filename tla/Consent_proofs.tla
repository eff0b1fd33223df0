----------------------------- MODULE Consent_proofs -----------------------------
(***************************************************************************)
(* Proofs about Consent for any number of grant requests and any bodies.   *)
(* Revoking a row and inserting one are looked at apart: a revocation maps *)
(* every row to its revoked form, an insertion adds the row of its grant.  *)
(***************************************************************************)
EXTENDS Consent, TLAPS

\* A row is stored by the grant whose id it has, with the body of that grant, whose
\* answer may have been lost.
RowIsOfItsGrant ==
  \A r \in rows : /\ gpc[r.id] \in {"granted", "error"}
                  /\ [r EXCEPT !.revoked = FALSE] = NewRow(r.id)

\* A grant inserts one row and a revocation splits none.
OneRowPerGrant == \A r, s \in rows : r.id = s.id => r = s

\* The triple of a row is the one its grant names.
SameTriple(r, s) == r.subject = s.subject /\ r.claim = s.claim /\ r.ctx = s.ctx

ConflictHasCause ==
  \A g \in Grants : gpc[g] = "conflict" =>
    \E r \in rows : /\ r.id # g
                    /\ r.subject = gform[g].subject /\ r.claim = gform[g].claim
                    /\ r.ctx = MiddlewareContext(gform[g].ctx)

GrantedIsStored ==
  \A g \in Grants : gpc[g] = "granted" => \E r \in rows : r.id = g

ConsentInv ==
  /\ ConsentTypeOK
  /\ RowIsOfItsGrant
  /\ OneRowPerGrant
  /\ GrantedIsStored
  /\ ConflictHasCause
  /\ OneActiveConsent

--------------------------------------------------------------------------------
\* A stored context is a context.
LEMMA MiddlewareContextType ==
  ASSUME NEW c \in Context
  PROVE  MiddlewareContext(c) \in Context
<1> USE DEF Lower, Context
<1>1. CASE c.mark = "dashes"
  BY <1>1 DEF MiddlewareContext
<1>2. CASE c.mark = "long"
  BY <1>2 DEF MiddlewareContext
<1>3. CASE c.mark # "dashes" /\ c.mark # "long"
  BY <1>3 DEF MiddlewareContext
<1> QED
  BY <1>1, <1>2, <1>3

\* The row of a submitted grant is a row of the table.
LEMMA NewRowType ==
  ASSUME ConsentTypeOK, NEW g \in Grants, gpc[g] # "idle"
  PROVE  /\ NewRow(g) \in Row
         /\ NewRow(g).id = g /\ ~NewRow(g).revoked
         /\ NewRow(g).subject = gform[g].subject
         /\ NewRow(g).claim = gform[g].claim
         /\ NewRow(g).ctx = MiddlewareContext(gform[g].ctx)
         /\ [NewRow(g) EXCEPT !.revoked = FALSE] = NewRow(g)
<1>1. gform[g] \in GrantForm
  BY ConsentAssumption DEF ConsentTypeOK
<1>2. MiddlewareContext(gform[g].ctx) \in Context
  BY <1>1, MiddlewareContextType DEF GrantForm
<1>3. /\ gform[g].subject \in Subjects /\ gform[g].claim \in Claims
      /\ gform[g].purpose \in Purpose /\ gform[g].expires \in Nat \cup {Never}
  BY <1>1 DEF GrantForm
<1>4. NewRow(g) \in Row
  BY <1>2, <1>3 DEF NewRow, Row
<1>5. \A r \in Row : ~r.revoked => [r EXCEPT !.revoked = FALSE] = r
  BY DEF Row
<1> QED
  BY <1>1, <1>4, <1>5 DEF NewRow

\* Revoking a row changes nothing else of it.
LEMMA RevokedRow ==
  ASSUME NEW r \in Row
  PROVE  LET s == [r EXCEPT !.revoked = TRUE]
         IN  /\ s \in Row /\ s.revoked
             /\ s.id = r.id /\ SameTriple(s, r)
             /\ [s EXCEPT !.revoked = FALSE] = [r EXCEPT !.revoked = FALSE]
BY DEF Row, SameTriple

\* Queries that neither store nor revoke.
LEMMA ConsentQuiet ==
  ASSUME ConsentInv, ConsentTypeOK', UNCHANGED rows,
         \A g \in Grants : gpc'[g] = "granted" => gpc[g] = "granted",
         \A g \in Grants : gpc[g] \in {"granted", "error"} =>
                             gpc'[g] = gpc[g] /\ gform'[g] = gform[g],
         \A g \in Grants : gpc'[g] = "conflict" =>
           \/ gpc[g] = "conflict" /\ gform'[g] = gform[g]
           \/ gform'[g] = gform[g] /\ Blocking(g) # {} /\ gpc[g] = "select"
  PROVE  ConsentInv'
<1> USE DEF ConsentInv
<1>1. \A r \in rows : r.id \in Grants
  BY DEF ConsentTypeOK, Row
<1>2. RowIsOfItsGrant'
  BY <1>1 DEF RowIsOfItsGrant, NewRow
<1>3. GrantedIsStored'
  BY DEF GrantedIsStored
<1>4. OneActiveConsent' /\ OneRowPerGrant'
  BY DEF OneActiveConsent, OneRowPerGrant
<1>5. ASSUME NEW g \in Grants, gpc'[g] = "conflict"
      PROVE \E r \in rows : /\ r.id # g
                    /\ r.subject = gform'[g].subject /\ r.claim = gform'[g].claim
                    /\ r.ctx = MiddlewareContext(gform'[g].ctx)
  <2>1. CASE gpc[g] = "conflict" /\ gform'[g] = gform[g]
    BY <2>1 DEF ConflictHasCause
  <2>2. CASE gform'[g] = gform[g] /\ Blocking(g) # {} /\ gpc[g] = "select"
    <3>1. PICK r \in rows : /\ r.subject = gform[g].subject /\ r.claim = gform[g].claim
                            /\ r.ctx = MiddlewareContext(gform[g].ctx)
      BY <2>2 DEF Blocking
    <3>2. r.id # g
      BY <2>2 DEF RowIsOfItsGrant
    <3> QED
      BY <2>2, <3>1, <3>2
  <2> QED
    BY <1>5, <2>1, <2>2
<1>6. ConflictHasCause'
  BY <1>5 DEF ConflictHasCause
<1> QED
  BY <1>2, <1>3, <1>4, <1>6

\* A grant that inserts its row.
LEMMA InsertKeepsInv ==
  ASSUME ConsentInv, NEW g \in Grants, gpc[g] = "insert", Blocking(g) = {},
         rows' = rows \cup {NewRow(g)},
         NEW answer \in {"granted", "error"}, gpc' = [gpc EXCEPT ![g] = answer],
         UNCHANGED <<now, gform>>
  PROVE  ConsentInv'
<1> USE DEF ConsentInv
<1>1. /\ NewRow(g) \in Row
      /\ NewRow(g).id = g /\ ~NewRow(g).revoked
      /\ NewRow(g).subject = gform[g].subject
      /\ NewRow(g).claim = gform[g].claim
      /\ NewRow(g).ctx = MiddlewareContext(gform[g].ctx)
      /\ [NewRow(g) EXCEPT !.revoked = FALSE] = NewRow(g)
  BY NewRowType
<1>2. ConsentTypeOK'
  BY <1>1 DEF ConsentTypeOK, GrantAnswers
<1>3. gpc \in [Grants -> {"idle", "select", "insert"} \cup GrantAnswers]
      /\ gpc'[g] = answer /\ \A h \in Grants \ {g} : gpc'[h] = gpc[h]
  BY DEF ConsentTypeOK
<1>4. \A r \in rows : r.id \in Grants \ {g}
  BY DEF ConsentTypeOK, Row, RowIsOfItsGrant
<1>5. RowIsOfItsGrant'
  <2>1. ASSUME NEW r \in rows
        PROVE gpc'[r.id] \in {"granted", "error"} /\ [r EXCEPT !.revoked = FALSE] = NewRow(r.id)
    BY <1>3, <1>4 DEF RowIsOfItsGrant
  <2>2. gpc'[NewRow(g).id] \in {"granted", "error"}
        /\ [NewRow(g) EXCEPT !.revoked = FALSE] = NewRow(NewRow(g).id)
    BY <1>1, <1>3
  <2>3. \A h : NewRow(h)' = NewRow(h)
    BY DEF NewRow
  <2> QED
    BY <2>1, <2>2, <2>3 DEF RowIsOfItsGrant
<1>6. GrantedIsStored'
  BY <1>1, <1>3 DEF GrantedIsStored
<1>7. ConflictHasCause'
  BY <1>3 DEF ConflictHasCause
<1>8. ASSUME NEW r \in rows, SameTriple(r, NewRow(g)), ~r.revoked PROVE FALSE
  BY <1>1, <1>8 DEF Blocking, SameTriple
<1>9. OneActiveConsent'
  BY <1>8 DEF OneActiveConsent, SameTriple
<1>10. OneRowPerGrant'
  BY <1>1, <1>4 DEF OneRowPerGrant
<1> QED
  BY <1>2, <1>5, <1>6, <1>7, <1>9, <1>10

\* A revocation, row by row.
LEMMA RevokeImage ==
  ASSUME ConsentInv, NEW f, Revoke(f)
  PROVE  /\ rows' \subseteq Row
         /\ \A s \in rows' : \E r \in rows :
              /\ s = r \/ (~r.revoked /\ s.revoked)
              /\ s.id = r.id /\ SameTriple(s, r)
              /\ [s EXCEPT !.revoked = FALSE] = [r EXCEPT !.revoked = FALSE]
         /\ \A r \in rows :
              /\ r \in rows' \/ (~r.revoked /\ [r EXCEPT !.revoked = TRUE] \in rows')
              /\ \E s \in rows' : s.id = r.id /\ SameTriple(s, r)
         /\ OneRowPerGrant'
<1>1. rows \subseteq Row
  BY DEF ConsentInv, ConsentTypeOK
<1>2. rows' = {IF RevokeHits(f, r) THEN [r EXCEPT !.revoked = TRUE] ELSE r : r \in rows}
  BY DEF Revoke
<1>3. \A r \in rows : RevokeHits(f, r) => ~r.revoked
  BY DEF RevokeHits
<1>4. ASSUME NEW s \in rows'
      PROVE  /\ s \in Row
             /\ \E r \in rows :
                  /\ s = r \/ (~r.revoked /\ s.revoked)
                  /\ s.id = r.id /\ SameTriple(s, r)
                  /\ [s EXCEPT !.revoked = FALSE] = [r EXCEPT !.revoked = FALSE]
  <2>1. PICK r \in rows : s = IF RevokeHits(f, r) THEN [r EXCEPT !.revoked = TRUE] ELSE r
    BY <1>2
  <2>2. CASE RevokeHits(f, r)
    BY <1>1, <1>3, <2>1, <2>2, RevokedRow
  <2>3. CASE ~RevokeHits(f, r)
    BY <1>1, <2>1, <2>3 DEF SameTriple
  <2> QED
    BY <2>2, <2>3
<1>5. ASSUME NEW r \in rows
      PROVE  /\ r \in rows' \/ (~r.revoked /\ [r EXCEPT !.revoked = TRUE] \in rows')
             /\ \E s \in rows' : s.id = r.id /\ SameTriple(s, r)
  <2>1. CASE RevokeHits(f, r)
    <3>1. [r EXCEPT !.revoked = TRUE] \in rows'
      BY <1>2, <2>1
    <3> QED
      BY <1>1, <1>3, <2>1, <3>1, RevokedRow
  <2>2. CASE ~RevokeHits(f, r)
    <3>1. r \in rows'
      BY <1>2, <2>2
    <3> QED
      BY <3>1 DEF SameTriple
  <2> QED
    BY <2>1, <2>2
<1>6. OneRowPerGrant'
  <2> DEFINE Image(r) == IF RevokeHits(f, r) THEN [r EXCEPT !.revoked = TRUE] ELSE r
  <2>1. rows' = {Image(r) : r \in rows}
    BY <1>2
  <2>2. \A r \in rows : Image(r).id = r.id
    BY <1>1 DEF Row
  <2> HIDE DEF Image
  <2> QED
    BY <2>1, <2>2 DEF ConsentInv, OneRowPerGrant
<1> QED
  BY <1>4, <1>5, <1>6

LEMMA RevokeKeepsInv ==
  ASSUME ConsentInv, NEW f, Revoke(f)
  PROVE  ConsentInv'
<1> USE DEF ConsentInv
<1>1. /\ rows' \subseteq Row
      /\ \A s \in rows' : \E r \in rows :
           /\ s = r \/ (~r.revoked /\ s.revoked)
           /\ s.id = r.id /\ SameTriple(s, r)
           /\ [s EXCEPT !.revoked = FALSE] = [r EXCEPT !.revoked = FALSE]
      /\ \A r \in rows : \E s \in rows' : s.id = r.id /\ SameTriple(s, r)
      /\ OneRowPerGrant'
  BY RevokeImage
<1>2. UNCHANGED <<now, gpc, gform>>
  BY DEF Revoke
<1>3. ConsentTypeOK'
  BY <1>1, <1>2 DEF ConsentTypeOK
<1>4. RowIsOfItsGrant'
  <2>1. ASSUME NEW s \in rows'
        PROVE  gpc[s.id] \in {"granted", "error"} /\ [s EXCEPT !.revoked = FALSE] = NewRow(s.id)
    <3>1. PICK r \in rows : /\ s.id = r.id
                            /\ [s EXCEPT !.revoked = FALSE] = [r EXCEPT !.revoked = FALSE]
      BY <1>1
    <3> QED
      BY <3>1 DEF RowIsOfItsGrant
  <2>2. \A h : NewRow(h)' = NewRow(h)
    BY <1>2 DEF NewRow
  <2> QED
    BY <1>2, <2>1, <2>2 DEF RowIsOfItsGrant
<1>5. GrantedIsStored'
  BY <1>1, <1>2 DEF GrantedIsStored
<1>6. ConflictHasCause'
  BY <1>1, <1>2 DEF ConflictHasCause, SameTriple
<1>7. OneActiveConsent'
  <2> SUFFICES ASSUME NEW s \in rows', NEW t \in rows', SameTriple(s, t),
                      ~s.revoked, ~t.revoked
               PROVE  s = t
    BY DEF OneActiveConsent, SameTriple
  <2>1. s \in rows /\ t \in rows
    BY <1>1
  <2> QED
    BY <2>1 DEF OneActiveConsent, SameTriple
<1> QED
  BY <1>1, <1>3, <1>4, <1>5, <1>6, <1>7

\* Every step of the registry keeps the invariant.
LEMMA ConsentStep ==
  ASSUME ConsentInv,
         [ConsentNext \/ (ConsentTick /\ UNCHANGED consentVars)]_<<now, consentVars>>
  PROVE  ConsentInv'
<1> USE DEF GrantAnswers
<1>1. ASSUME NEW g \in Grants, NEW f \in GrantForms, SubmitGrant(g, f)
      PROVE ConsentInv'
  <2>1. ConsentTypeOK'
    BY <1>1, ConsentAssumption DEF SubmitGrant, ConsentInv, ConsentTypeOK
  <2> QED
    BY <1>1, <2>1, ConsentQuiet DEF SubmitGrant, ConsentInv, ConsentTypeOK
<1>2. ASSUME NEW g \in Grants, CheckDuplicate(g) PROVE ConsentInv'
  <2>1. ConsentTypeOK'
    BY <1>2 DEF CheckDuplicate, ConsentInv, ConsentTypeOK
  <2> QED
    BY <1>2, <2>1, ConsentQuiet DEF CheckDuplicate, ConsentInv, ConsentTypeOK
<1>3. ASSUME NEW g \in Grants, InsertConsent(g) PROVE ConsentInv'
  <2>1. CASE Blocking(g) = {}
    <3>1. PICK answer \in {"granted", "error"} : gpc' = [gpc EXCEPT ![g] = answer]
      BY <1>3, <2>1 DEF InsertConsent
    <3>2. /\ gpc[g] = "insert" /\ rows' = rows \cup {NewRow(g)}
          /\ UNCHANGED <<now, gform>>
      BY <1>3, <2>1 DEF InsertConsent
    <3> QED
      BY <2>1, <3>1, <3>2, InsertKeepsInv
  <2>2. CASE Blocking(g) # {}
    <3>1. /\ gpc[g] = "insert" /\ gpc' = [gpc EXCEPT ![g] = "error"]
          /\ UNCHANGED <<now, rows, gform>>
      BY <1>3, <2>2 DEF InsertConsent
    <3>2. ConsentTypeOK'
      BY <3>1 DEF ConsentInv, ConsentTypeOK
    <3> QED
      BY <3>1, <3>2, ConsentQuiet DEF ConsentInv, ConsentTypeOK
  <2> QED
    BY <2>1, <2>2
<1>4. ASSUME NEW g \in Grants, GrantDbFails(g) PROVE ConsentInv'
  <2>1. ConsentTypeOK'
    BY <1>4 DEF GrantDbFails, ConsentInv, ConsentTypeOK
  <2> QED
    BY <1>4, <2>1, ConsentQuiet DEF GrantDbFails, ConsentInv, ConsentTypeOK
<1>5. ASSUME NEW f \in RevokeForms, Revoke(f) PROVE ConsentInv'
  BY <1>5, RevokeKeepsInv
<1>6. ASSUME UNCHANGED consentVars, now' \in Nat PROVE ConsentInv'
  <2>1. ConsentTypeOK'
    BY <1>6 DEF consentVars, ConsentInv, ConsentTypeOK
  <2> QED
    BY <1>6, <2>1, ConsentQuiet DEF consentVars
<1>7. ConsentTick => now' \in Nat
  BY DEF ConsentTick, ConsentInv, ConsentTypeOK
<1>8. now' = now => now' \in Nat
  BY DEF ConsentInv, ConsentTypeOK
<1> QED
  BY <1>1, <1>2, <1>3, <1>4, <1>5, <1>6, <1>7, <1>8
  DEF ConsentNext, GrantStep

LEMMA ConsentStart == ConsentInit => ConsentInv
BY ConsentAssumption DEF ConsentInit, ConsentInv, ConsentTypeOK, RowIsOfItsGrant,
   OneRowPerGrant, GrantedIsStored, ConflictHasCause, OneActiveConsent

LEMMA ConsentInvariance == ConsentSpec => []ConsentInv
<1>1. ConsentInit => ConsentInv
  BY ConsentStart
<1>2. ConsentInv /\ [ConsentNext \/ (ConsentTick /\ UNCHANGED consentVars)]_<<now, consentVars>>
        => ConsentInv'
  BY ConsentStep
<1> QED
  BY <1>1, <1>2, PTL DEF ConsentSpec

--------------------------------------------------------------------------------
\* The consent table and the grant requests have their types in every state.
THEOREM ConsentTypeCorrect == ConsentSpec => []ConsentTypeOK
<1>1. ConsentInv => ConsentTypeOK
  BY DEF ConsentInv
<1> QED
  BY <1>1, ConsentInvariance, PTL

\* For any number of concurrent grants and revocations a subject never has two
\* unrevoked consents for one claim and context.
THEOREM ActiveConsentIsUnique == ConsentSpec => []OneActiveConsent
<1>1. ConsentInv => OneActiveConsent
  BY DEF ConsentInv
<1> QED
  BY <1>1, ConsentInvariance, PTL

\* For any number of requests, bodies and revocations: a grant answered with 200 has
\* stored its consent, one answered with 409 has not and met another consent of its
\* triple, and whatever a grant has stored, be its answer 200 or a 500 that may come after
\* the INSERT took effect, is one row with what was asked.
THEOREM TruthfulGrants == ConsentSpec => []GrantAnswersAreTruthful
<1>1. ConsentInv => GrantAnswersAreTruthful
  <2> SUFFICES ASSUME ConsentInv, NEW g \in Grants
               PROVE  /\ gpc[g] = "granted" => \E r \in rows : r.id = g
                      /\ \A r \in rows : r.id = g =>
                           /\ gpc[g] \in {"granted", "error"}
                           /\ [r EXCEPT !.revoked = FALSE] = NewRow(g)
                           /\ \A s \in rows : s.id = g => s = r
                      /\ gpc[g] = "conflict" =>
                           \E r \in rows : /\ r.id # g
                                           /\ r.subject = gform[g].subject
                                           /\ r.claim = gform[g].claim
                                           /\ r.ctx = MiddlewareContext(gform[g].ctx)
    BY DEF GrantAnswersAreTruthful
  <2>1. gpc[g] = "granted" => \E r \in rows : r.id = g
    BY DEF ConsentInv, GrantedIsStored
  <2>2. ASSUME NEW r \in rows, r.id = g
        PROVE  /\ gpc[g] \in {"granted", "error"}
               /\ [r EXCEPT !.revoked = FALSE] = NewRow(g)
               /\ \A s \in rows : s.id = g => s = r
    <3>1. gpc[r.id] \in {"granted", "error"} /\ [r EXCEPT !.revoked = FALSE] = NewRow(r.id)
      BY DEF ConsentInv, RowIsOfItsGrant
    <3>2. \A s \in rows : s.id = g => s = r
      BY <2>2 DEF ConsentInv, OneRowPerGrant
    <3> QED
      BY <2>2, <3>1, <3>2
  <2>3. gpc[g] = "conflict" => \E r \in rows : /\ r.id # g
                                               /\ r.subject = gform[g].subject
                                               /\ r.claim = gform[g].claim
                                               /\ r.ctx = MiddlewareContext(gform[g].ctx)
    BY DEF ConsentInv, ConflictHasCause
  <2> QED
    BY <2>1, <2>2, <2>3
<1> QED
  BY <1>1, ConsentInvariance, PTL

\* No step deletes, rewrites or un-revokes a consent.
THEOREM HistoryKept == ConsentSpec => ConsentHistoryKept
<1>1. ConsentInv /\ [ConsentNext \/ (ConsentTick /\ UNCHANGED consentVars)]_<<now, consentVars>>
        => [RowsKept]_rows
  <2> SUFFICES ASSUME ConsentInv,
                 [ConsentNext \/ (ConsentTick /\ UNCHANGED consentVars)]_<<now, consentVars>>
               PROVE  [RowsKept]_rows
    OBVIOUS
  <2>1. ASSUME NEW f \in RevokeForms, Revoke(f) PROVE RowsKept
    BY <2>1, RevokeImage DEF RowsKept
  <2>2. ASSUME NEW g \in Grants, InsertConsent(g) PROVE RowsKept
    BY <2>2 DEF InsertConsent, RowsKept
  <2> QED
    BY <2>1, <2>2 DEF ConsentNext, GrantStep, SubmitGrant, CheckDuplicate,
       GrantDbFails, consentVars
<1> QED
  BY <1>1, ConsentInvariance, PTL DEF ConsentSpec, ConsentHistoryKept
================================================================================
