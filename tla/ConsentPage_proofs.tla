--------------------------- MODULE ConsentPage_proofs ---------------------------
(***************************************************************************)
(* Proofs about the consent page for any accounts, contexts, credentials   *)
(* and any number of requests: what the list shows, what is revoked, and   *)
(* what the loop of grants has recorded when it reports success.           *)
(***************************************************************************)
EXTENDS ConsentPage, Consent_proofs, SequenceTheorems, FiniteSetTheorems

\* A consent, as an agreement, is on record.
OnRecord(a) ==
  \E r \in rows : /\ r.subject = Owner
                  /\ [claim |-> r.claim, purpose |-> r.purpose, ctx |-> r.ctx] = a

\* What can be ticked belongs to a context, what is typed is offered, and everything
\* that the suggestions are computed from is finite.
FormInv ==
  /\ purposeValue \in PagePurposes \cup {NoFilter}
  /\ suggestedClaims = NoFilter \/ selectedContext = NoFilter => selectedAttributes = {}
  /\ suggestedClaims = NoFilter \/ IsFiniteSet(suggestedClaims)
  /\ IsFiniteSet(rows)
  /\ now <= MaxTime

\* Answers hold rows; without an overlap a GET that is under way is for the selected
\* context, and so are its answer and the list.
ListInv ==
  /\ lctx \in [Loads -> PageContexts \cup {NoFilter}]
  /\ lrows \in [Loads -> SUBSET Shown]
  /\ (~overlap /\ selectedContext # NoFilter) =>
       \A l \in Loads :
         /\ lpc[l] = "sent" => lctx[l] = selectedContext
         /\ lpc[l] = "served" => \A c \in lrows[l] : c.ctx = MiddlewareContext(selectedContext)
  /\ ShownForContext

\* The entry that is being revoked is of the context that is sent with it.
RevocationInv ==
  (op \in {"revoke", "hit", "miss"} /\ ~overlap) => call[1].ctx = MiddlewareContext(call[2])

\* While nothing has disturbed the loop, the request under way is for a group that was
\* asked for, and each such group is still ahead, has the claim of this request, or
\* is on record; when the loop is through, all of them are.
GroupIsServed(x) ==
  \/ \E i \in 1..Len(groups) : groups[i] = x
  \/ x.claim = gform[call].claim
  \/ OnRecord(Agreement(x))

LoopInv ==
  ~disturbed =>
    /\ op = "grant" =>
         /\ purposeValue # NoFilter
         /\ asked = {Agreement(x) : x \in {y \in GroupedAttributes : AskedFor(y)}}
         /\ \A i \in 1..Len(groups) : groups[i] \in GroupedAttributes
         /\ \E x \in GroupedAttributes : AskedFor(x) /\ gform[call].claim = x.claim
         /\ gform[call].subject = Owner /\ gform[call].purpose = purposeValue
         /\ gform[call].ctx = selectedContext
         /\ \A x \in GroupedAttributes : AskedFor(x) => GroupIsServed(x)
    /\ op = "reload" => \A a \in asked : OnRecord(a)

PageInv == ConsentInv /\ TypeOK /\ FormInv /\ ListInv /\ RevocationInv /\ LoopInv

--------------------------------------------------------------------------------
\* The registry under the page

\* What a step of the page or of the other tab does to the registry.
RegistryMove ==
  \/ UNCHANGED registryVars
  \/ ConsentTick /\ UNCHANGED consentVars
  \/ \E g \in Grants, f \in GrantForms : SubmitGrant(g, f)
  \/ \E g \in Grants : GrantStep(g) \/ GrantDbFails(g)
  \/ \E f \in RevokeForms \cup {RevocationForm} : Revoke(f)

\* It keeps the registry's invariant, what is on record, and a request that was sent.
RegistryKept ==
  /\ ConsentInv' /\ IsFiniteSet(rows)' /\ (now <= MaxTime)'
  /\ \A a : OnRecord(a) => OnRecord(a)'
  /\ \A g \in Grants : gpc[g] # "idle" => gpc'[g] # "idle" /\ gform'[g] = gform[g]

\* The agreement of a row survives as long as its id, triple and body do.
LEMMA RecordKept ==
  ASSUME \A r \in rows : \E s \in rows' : /\ s.subject = r.subject /\ s.claim = r.claim
                                          /\ s.purpose = r.purpose /\ s.ctx = r.ctx
  PROVE  \A a : OnRecord(a) => OnRecord(a)'
BY DEF OnRecord

LEMMA RegistryMoveKeeps ==
  ASSUME ConsentInv, IsFiniteSet(rows), now <= MaxTime, RegistryMove
  PROVE  RegistryKept
<1> USE ConsentAssumption
<1>0. ConsentTypeOK
  BY DEF ConsentInv
<1>1. CASE UNCHANGED registryVars
  <2>1. UNCHANGED <<now, rows, gpc, gform>>
    BY <1>1 DEF registryVars, consentVars
  <2>2. ConsentInv'
    BY <2>1, ConsentStep DEF consentVars
  <2>3. \A a : OnRecord(a) => OnRecord(a)'
    BY <2>1 DEF OnRecord
  <2> QED
    BY <2>1, <2>2, <2>3 DEF RegistryKept
<1>2. CASE ConsentTick /\ UNCHANGED consentVars
  <2>1. UNCHANGED <<rows, gpc, gform>> /\ (now <= MaxTime)'
    BY <1>0, <1>2 DEF ConsentTick, consentVars, ConsentTypeOK
  <2>2. ConsentInv'
    BY <1>2, ConsentStep
  <2>3. \A a : OnRecord(a) => OnRecord(a)'
    BY <2>1 DEF OnRecord
  <2> QED
    BY <2>1, <2>2, <2>3 DEF RegistryKept
<1>3. ASSUME NEW g \in Grants, NEW f \in GrantForms, SubmitGrant(g, f) PROVE RegistryKept
  <2>1. ConsentInv'
    BY <1>3, ConsentStep DEF ConsentNext
  <2>2. UNCHANGED <<now, rows>>
    BY <1>3 DEF SubmitGrant
  <2>3. \A h \in Grants : gpc[h] # "idle" => gpc'[h] # "idle" /\ gform'[h] = gform[h]
    BY <1>0, <1>3 DEF SubmitGrant, ConsentTypeOK
  <2>4. \A a : OnRecord(a) => OnRecord(a)'
    BY <2>2 DEF OnRecord
  <2> QED
    BY <2>1, <2>2, <2>3, <2>4 DEF RegistryKept
<1>4. ASSUME NEW g \in Grants, GrantStep(g) \/ GrantDbFails(g) PROVE RegistryKept
  <2>1. ConsentInv'
    BY <1>4, ConsentStep DEF ConsentNext
  <2>2. now' = now /\ (rows' = rows \/ rows' = rows \cup {NewRow(g)})
    BY <1>4 DEF GrantStep, CheckDuplicate, InsertConsent, GrantDbFails
  <2>3. IsFiniteSet(rows')
    BY <2>2, FS_AddElement
  <2>4. \A h \in Grants : gpc[h] # "idle" => gpc'[h] # "idle" /\ gform'[h] = gform[h]
    BY <1>0, <1>4 DEF GrantStep, CheckDuplicate, InsertConsent, GrantDbFails, ConsentTypeOK
  <2>5. \A a : OnRecord(a) => OnRecord(a)'
    BY <2>2 DEF OnRecord
  <2> QED
    BY <2>1, <2>2, <2>3, <2>4, <2>5 DEF RegistryKept
<1>5. ASSUME NEW f, Revoke(f) PROVE RegistryKept
  <2>1. ConsentInv'
    BY <1>5, RevokeKeepsInv
  <2>2. UNCHANGED <<now, gpc, gform>>
    BY <1>5 DEF Revoke
  <2>3. IsFiniteSet(rows')
    <3> DEFINE F == [r \in rows |-> IF RevokeHits(f, r) THEN [r EXCEPT !.revoked = TRUE] ELSE r]
    <3>1. F \in Surjection(rows, rows')
      BY <1>5 DEF Revoke, Surjection
    <3> HIDE DEF F
    <3> QED
      BY <3>1, FS_Surjection
  <2>4. \A r \in rows : \E s \in rows' : /\ s.subject = r.subject /\ s.claim = r.claim
                                         /\ s.purpose = r.purpose /\ s.ctx = r.ctx
    <3>1. \A r \in rows : r \in rows' \/ [r EXCEPT !.revoked = TRUE] \in rows'
      BY <1>5, RevokeImage
    <3>2. \A r \in rows : LET s == [r EXCEPT !.revoked = TRUE]
                         IN  /\ s.subject = r.subject /\ s.claim = r.claim
                             /\ s.purpose = r.purpose /\ s.ctx = r.ctx
      BY <1>0 DEF ConsentTypeOK, Row
    <3> QED
      BY <3>1, <3>2
  <2>5. \A a : OnRecord(a) => OnRecord(a)'
    BY <2>4, RecordKept
  <2> QED
    BY <2>1, <2>2, <2>3, <2>5 DEF RegistryKept
<1>6. ASSUME Revoke(RevocationForm) PROVE RegistryKept
  <2>1. PICK f : f = RevocationForm
    OBVIOUS
  <2>2. Revoke(f)
    BY <1>6, <2>1 DEF Revoke, RevokeHits
  <2> QED
    BY <1>5, <2>2
<1> QED
  BY <1>1, <1>2, <1>3, <1>4, <1>5, <1>6 DEF RegistryMove

--------------------------------------------------------------------------------
\* What a step that leaves form, list and loop alone does not change

\* The groups and what a click would ask for depend on form, list and time alone.
LEMMA SelectionRests ==
  ASSUME UNCHANGED <<now, selectedContext, selectedAttributes, purposeValue, suggestedClaims,
                     activeConsents>>
  PROVE  /\ GroupedAttributes' = GroupedAttributes
         /\ \A x : AskedFor(x)' <=> AskedFor(x)
         /\ \A x : Agreement(x)' = Agreement(x)
<1>1. GroupedAttributes' = GroupedAttributes
  BY DEF GroupedAttributes
<1>2. \A x : Agreement(x)' = Agreement(x)
  BY DEF Agreement
<1>3. \A a : ClaimIdsCovering(a)' = ClaimIdsCovering(a)
  BY DEF ClaimIdsCovering
<1>4. \A a : HasActiveConsent(a)' <=> HasActiveConsent(a)
  BY <1>3 DEF HasActiveConsent
<1>5. \A x : HasGroupConsent(x)' <=> HasGroupConsent(x)
  BY <1>4 DEF HasGroupConsent
<1>6. \A x : AskedFor(x)' <=> AskedFor(x)
  BY <1>5 DEF AskedFor
<1> QED
  BY <1>1, <1>2, <1>6

\* A step that is not one of the loop leaves it honest if it changes nothing the loop
\* reads, or disturbs it.
LEMMA LoopRests ==
  ASSUME TypeOK, LoopInv, RegistryKept, UNCHANGED <<op, call, groups, asked>>,
         disturbed => disturbed',
         (op = "grant" /\ ~disturbed') =>
           UNCHANGED <<now, selectedContext, selectedAttributes, purposeValue,
                       suggestedClaims, activeConsents>>
  PROVE  LoopInv'
<1> SUFFICES ASSUME ~disturbed', ~disturbed PROVE LoopInv'
  BY DEF LoopInv
<1>1. ASSUME op = "reload" PROVE \A a \in asked' : OnRecord(a)'
  BY <1>1 DEF LoopInv, RegistryKept
<1>2. CASE op = "grant"
  <2>1. UNCHANGED <<now, selectedContext, selectedAttributes, purposeValue,
                    suggestedClaims, activeConsents>>
    BY <1>2
  <2>2. /\ GroupedAttributes' = GroupedAttributes
        /\ \A x : AskedFor(x)' <=> AskedFor(x)
        /\ \A x : Agreement(x)' = Agreement(x)
    BY <2>1, SelectionRests
  <2>3. gform'[call'] = gform[call]
    BY <1>2 DEF TypeOK, RegistryKept
  <2>4. \A x : GroupIsServed(x) => GroupIsServed(x)'
    BY <2>2, <2>3 DEF GroupIsServed, RegistryKept
  <2>5. asked' = {Agreement(x) : x \in {y \in GroupedAttributes : AskedFor(y)}}'
    <3>1. asked = {Agreement(x) : x \in {y \in GroupedAttributes : AskedFor(y)}}
      BY <1>2 DEF LoopInv
    <3> QED
      BY <2>2, <3>1
  <2>6. /\ (purposeValue # NoFilter)'
        /\ \A i \in 1..Len(groups') : groups'[i] \in GroupedAttributes'
        /\ \E x \in GroupedAttributes' : AskedFor(x)' /\ gform'[call'].claim = x.claim
        /\ gform'[call'].subject = Owner /\ gform'[call'].purpose = purposeValue'
        /\ gform'[call'].ctx = selectedContext'
    BY <1>2, <2>1, <2>2, <2>3 DEF LoopInv
  <2>7. \A x \in GroupedAttributes' : AskedFor(x)' => GroupIsServed(x)'
    BY <1>2, <2>2, <2>4 DEF LoopInv
  <2> QED
    BY <1>2, <2>5, <2>6, <2>7 DEF LoopInv
<1> QED
  BY <1>1, <1>2 DEF LoopInv

\* A step that is not of the loop's either ends an operation or is a revocation's.
LEMMA NoLoop ==
  ASSUME op' \notin {"grant", "reload"}
  PROVE  LoopInv'
BY DEF LoopInv

\* The invariant of the lists, when nothing it speaks of changes.
LEMMA ListRests ==
  ASSUME ListInv, UNCHANGED <<lctx, lrows, lpc, overlap, selectedContext>>,
         activeConsents' \subseteq activeConsents
  PROVE  ListInv'
BY DEF ListInv, ShownForContext

LEMMA RevocationRests ==
  ASSUME RevocationInv, UNCHANGED <<call, op>>, overlap => overlap'
  PROVE  RevocationInv'
BY DEF RevocationInv

--------------------------------------------------------------------------------
\* The page's own steps, one lemma each

\* From the parts to the whole.
LEMMA PageParts ==
  ASSUME RegistryKept, TypeOK', FormInv', ListInv', RevocationInv', LoopInv'
  PROVE  PageInv'
BY DEF PageInv, RegistryKept

\* A registry that rests, and one that its own step moves.
LEMMA RegistryRests ==
  ASSUME PageInv, RegistryMove
  PROVE  RegistryKept
BY RegistryMoveKeeps DEF PageInv, FormInv

LEMMA GotAttributesKeeps == PageInv /\ GotAttributes => PageInv'
<1> SUFFICES ASSUME PageInv, GotAttributes PROVE PageInv'
  OBVIOUS
<1> USE DEF PageInv, GotAttributes, registryVars, consentVars, formVars, listVars, opVars, askVars
<1>1. RegistryKept
  BY RegistryRests DEF RegistryMove
<1>2. TypeOK'
  <2>0. attributeCalls' \in Nat
    BY DEF TypeOK
  <2>1. loadingAttributes' \in BOOLEAN
    OBVIOUS
  <2>2. UNCHANGED <<registryVars, formVars, suggestedClaims, listVars, opVars, askVars>>
    OBVIOUS
  <2> HIDE DEF GotAttributes
  <2> QED
    BY <1>1, <2>0, <2>1, <2>2 DEF TypeOK, RegistryKept, ConsentInv
<1>3. FormInv'
  BY DEF FormInv
<1>4. ListInv' /\ RevocationInv'
  BY ListRests, RevocationRests
<1>5. LoopInv'
  BY <1>1, LoopRests
<1> QED
  BY <1>1, <1>2, <1>3, <1>4, <1>5, PageParts

LEMMA ConfirmKeeps == PageInv /\ ConfirmExplicitly => PageInv'
<1> SUFFICES ASSUME PageInv, ConfirmExplicitly PROVE PageInv'
  OBVIOUS
<1> USE DEF PageInv, ConfirmExplicitly, registryVars, consentVars, listVars, attrVars, opVars, askVars
<1>1. RegistryKept
  BY RegistryRests DEF RegistryMove
<1>2. TypeOK'
  BY <1>1 DEF TypeOK, RegistryKept, ConsentInv
<1>3. FormInv'
  BY DEF FormInv
<1>4. ListInv' /\ RevocationInv'
  BY ListRests, RevocationRests
<1>5. LoopInv'
  BY <1>1, LoopRests
<1> QED
  BY <1>1, <1>2, <1>3, <1>4, <1>5, PageParts

LEMMA EnterPurposeKeeps ==
  ASSUME PageInv, NEW p \in PagePurposes, EnterPurpose(p)
  PROVE  PageInv'
<1> USE DEF PageInv, EnterPurpose, registryVars, consentVars, listVars, attrVars, opVars, Disturb
<1>1. RegistryKept
  BY RegistryRests DEF RegistryMove
<1>2. TypeOK'
  BY <1>1, ConsentPageAssumption DEF TypeOK, RegistryKept, ConsentInv
<1>3. FormInv'
  BY DEF FormInv
<1>4. ListInv' /\ RevocationInv'
  BY ListRests, RevocationRests
<1>5. LoopInv'
  BY <1>1, LoopRests
<1> QED
  BY <1>1, <1>2, <1>3, <1>4, <1>5, PageParts

LEMMA ToggleGroupKeeps ==
  ASSUME PageInv, NEW x \in GroupedAttributes, ToggleGroup(x)
  PROVE  PageInv'
<1> USE DEF PageInv, registryVars, consentVars, listVars, attrVars, opVars, Disturb
<1>0. /\ UNCHANGED <<registryVars, selectedContext, purposeValue, explicitConsent, suggestedClaims,
                     listVars, attrVars, opVars, asked>>
      /\ selectedAttributes' \subseteq selectedAttributes \cup x.attrs
      /\ disturbed' = (disturbed \/ op = "grant")
  BY DEF ToggleGroup
<1>1. RegistryKept
  BY <1>0, RegistryRests DEF RegistryMove
<1>2. /\ suggestedClaims # NoFilter /\ selectedContext # NoFilter
      /\ x \in Suggestion
  BY DEF GroupedAttributes, TypeOK
<1>3. TypeOK'
  <2>1. selectedAttributes' \subseteq Attributes \cup Claims
    BY <1>0, <1>2 DEF TypeOK, Suggestion
  <2> QED
    BY <1>0, <1>1, <2>1 DEF TypeOK, RegistryKept, ConsentInv
<1>4. FormInv'
  BY <1>0, <1>2 DEF FormInv
<1>5. ListInv' /\ RevocationInv'
  BY <1>0, ListRests, RevocationRests
<1>6. LoopInv'
  BY <1>0, <1>1, LoopRests
<1> QED
  BY <1>1, <1>3, <1>4, <1>5, <1>6, PageParts

\* The clock.
LEMMA TickKeeps == PageInv /\ Tick => PageInv'
<1> SUFFICES ASSUME PageInv, Tick PROVE PageInv'
  OBVIOUS
<1> USE DEF PageInv, Tick, formVars, listVars, attrVars, opVars, Disturb
<1>1. RegistryKept
  BY RegistryRests DEF RegistryMove
<1>2. TypeOK'
  BY <1>1 DEF TypeOK, RegistryKept, ConsentInv, consentVars
<1>3. FormInv'
  BY <1>1 DEF FormInv, RegistryKept
<1>4. ListInv' /\ RevocationInv'
  BY ListRests, RevocationRests
<1>5. LoopInv'
  BY <1>1, LoopRests
<1> QED
  BY <1>1, <1>2, <1>3, <1>4, <1>5, PageParts

\* Requests of the page and of the other tab go on, and the other tab grants and revokes.
LEMMA ElsewhereKeeps == PageInv /\ Elsewhere => PageInv'
<1> SUFFICES ASSUME PageInv, Elsewhere PROVE PageInv'
  OBVIOUS
<1> USE DEF PageInv, pageVars, formVars, listVars, attrVars, opVars, askVars
<1>0. UNCHANGED pageVars /\ now' = now
  BY DEF Elsewhere, GrantStep, CheckDuplicate, InsertConsent, GrantDbFails, SubmitGrant, Revoke
<1>1. RegistryKept
  <2>1. OtherGrants \subseteq GrantForms
    BY ConsentPageAssumption
  <2>2. RegistryMove
    BY <2>1 DEF Elsewhere, RegistryMove
  <2> QED
    BY <2>2, RegistryRests
<1>2. TypeOK'
  BY <1>0, <1>1 DEF TypeOK, RegistryKept, ConsentInv
<1>3. FormInv'
  BY <1>0, <1>1 DEF FormInv, RegistryKept
<1>4. ListInv' /\ RevocationInv'
  BY <1>0, ListRests, RevocationRests
<1>5. LoopInv'
  BY <1>0, <1>1, LoopRests
<1> QED
  BY <1>1, <1>2, <1>3, <1>4, <1>5, PageParts

\* A page that is left alone.
LEMMA PageStutters == PageInv /\ UNCHANGED vars => PageInv'
<1> SUFFICES ASSUME PageInv, UNCHANGED vars PROVE PageInv'
  OBVIOUS
<1> USE DEF PageInv, vars, registryVars, consentVars, pageVars, formVars, listVars, attrVars, opVars,
            askVars
<1>1. RegistryKept
  BY RegistryRests DEF RegistryMove
<1>2. TypeOK'
  BY <1>1 DEF TypeOK, RegistryKept, ConsentInv
<1>3. FormInv'
  BY DEF FormInv
<1>4. ListInv' /\ RevocationInv'
  BY ListRests, RevocationRests
<1>5. LoopInv'
  BY <1>1, LoopRests
<1> QED
  BY <1>1, <1>2, <1>3, <1>4, <1>5, PageParts

--------------------------------------------------------------------------------
\* Lists of consents

\* Cleaned for storage or for a query, a context is none; and they agree on every
\* context that a stored row can have.
LEMMA PageContextNames ==
  ASSUME NEW c \in PageContexts
  PROVE  /\ c \in Context /\ c # NoFilter
         /\ SanitizeContext(c) # NoFilter
         /\ \A d \in Context : MiddlewareContext(d) = SanitizeContext(c) =>
                                  SanitizeContext(c) = MiddlewareContext(c)
<1>1. c \in Context /\ c.mark \notin {"blank", "foreign"}
  BY ConsentPageAssumption
<1>2. SanitizeContext(c) = Lower(c) /\ Lower(c) \in Context /\ Lower(c).mark = c.mark
  BY <1>1, ContextNamesAssumption DEF SanitizeContext, Lower, Context
<1>3. ASSUME NEW d \in Context PROVE MiddlewareContext(d).mark \notin {"dashes", "long"}
  <2>1. CASE d.mark = "dashes"
    BY <2>1 DEF MiddlewareContext, Lower, Context
  <2>2. CASE d.mark = "long"
    BY <2>2 DEF MiddlewareContext, Lower, Context
  <2>3. CASE d.mark \notin {"dashes", "long"}
    BY <2>3 DEF MiddlewareContext, Lower, Context
  <2> QED
    BY <2>1, <2>2, <2>3
<1>4. c.mark \notin {"dashes", "long"} => MiddlewareContext(c) = Lower(c)
  BY DEF MiddlewareContext
<1> QED
  BY <1>1, <1>2, <1>3, <1>4, ContextNamesAssumption

\* A row is what the body of its grant says, with the context as the middleware stores it.
LEMMA RowBody ==
  ASSUME ConsentInv, NEW r \in rows
  PROVE  /\ r.id \in Grants /\ gform[r.id] \in GrantForm
         /\ r.subject = gform[r.id].subject /\ r.claim = gform[r.id].claim
         /\ r.purpose = gform[r.id].purpose /\ r.ctx = MiddlewareContext(gform[r.id].ctx)
<1>1. r \in Row /\ gpc[r.id] \in {"granted", "error"} /\ [r EXCEPT !.revoked = FALSE] = NewRow(r.id)
  BY DEF ConsentInv, ConsentTypeOK, RowIsOfItsGrant
<1>2. r.id \in Grants
  BY <1>1 DEF Row
<1>3. gform[r.id] \in GrantForm
  BY <1>1, <1>2, ConsentAssumption DEF ConsentInv, ConsentTypeOK
<1>4. LET s == [r EXCEPT !.revoked = FALSE]
      IN  s.subject = r.subject /\ s.claim = r.claim /\ s.purpose = r.purpose /\ s.ctx = r.ctx
  BY <1>1 DEF Row
<1> QED
  BY <1>1, <1>2, <1>3, <1>4 DEF NewRow

\* The context of a row is what the middleware made of a context.
LEMMA RowContext ==
  ASSUME ConsentInv, NEW r \in rows
  PROVE  \E d \in Context : r.ctx = MiddlewareContext(d)
BY RowBody DEF GrantForm

\* The backend answers a GET for a context with rows of what that context is stored as.
LEMMA ServeConsentsKeeps ==
  ASSUME PageInv, NEW l \in Loads, ServeConsents(l)
  PROVE  PageInv'
<1> DEFINE found == {[claim |-> r.claim, purpose |-> r.purpose, ctx |-> r.ctx, expires |-> r.expires] :
                       r \in ActiveConsents(Owner, lctx[l])}
<1>0. /\ lpc[l] = "sent" /\ lpc' = [lpc EXCEPT ![l] = "served"]
      /\ lrows' = [lrows EXCEPT ![l] = found]
      /\ UNCHANGED <<registryVars, formVars, suggestedClaims, activeConsents, lctx,
                     loadingConsents, overlap, attrVars, opVars, askVars>>
  BY DEF ServeConsents
<1> USE DEF PageInv, registryVars, consentVars, formVars, attrVars, opVars, askVars
<1>1. RegistryKept
  BY <1>0, RegistryRests DEF RegistryMove
<1>2. found \subseteq Shown
  BY DEF ActiveConsents, Shown, ConsentInv, ConsentTypeOK, Row
<1>3. ASSUME NEW c \in found, lctx[l] = selectedContext, selectedContext # NoFilter
      PROVE  c.ctx = MiddlewareContext(selectedContext)
  <2>1. selectedContext \in PageContexts
    BY <1>3 DEF TypeOK
  <2>2. PICK r \in rows : c.ctx = r.ctx /\ (SanitizeContext(lctx[l]) # NoFilter =>
                                              r.ctx = SanitizeContext(lctx[l]))
    BY DEF ActiveConsents
  <2>3. PICK d \in Context : r.ctx = MiddlewareContext(d)
    BY RowContext
  <2>4. PICK s \in PageContexts : s = selectedContext
    BY <2>1
  <2>5. MiddlewareContext(s) = r.ctx
    BY <1>3, <2>2, <2>3, <2>4, PageContextNames
  <2> QED
    BY <2>2, <2>4, <2>5
<1> HIDE DEF found
<1>4. TypeOK'
  <2>1. lpc' \in [Loads -> {"idle", "sent", "served", "done"}]
    BY <1>0 DEF TypeOK
  <2>2. op = "reload" => lpc'[call] \in {"sent", "served"}
    BY <1>0 DEF TypeOK
  <2> QED
    BY <1>0, <1>1, <2>1, <2>2 DEF TypeOK, RegistryKept, ConsentInv
<1>5. FormInv'
  BY <1>0 DEF FormInv
<1>6. ListInv'
  <2>1. lrows' \in [Loads -> SUBSET Shown]
    BY <1>0, <1>2 DEF ListInv
  <2>2. ASSUME ~overlap', selectedContext' # NoFilter, NEW k \in Loads
        PROVE  /\ lpc'[k] = "sent" => lctx'[k] = selectedContext'
               /\ lpc'[k] = "served" =>
                    \A c \in lrows'[k] : c.ctx = MiddlewareContext(selectedContext)'
    <3>1. CASE k = l
      <4>1. lrows'[l] = found /\ lpc'[l] = "served"
        BY <1>0 DEF ListInv, TypeOK
      <4>2. lctx[l] = selectedContext /\ selectedContext # NoFilter
        BY <1>0, <2>2 DEF ListInv
      <4>3. MiddlewareContext(selectedContext)' = MiddlewareContext(selectedContext)
        BY <1>0 DEF MiddlewareContext, Lower
      <4> QED
        BY <1>3, <3>1, <4>1, <4>2, <4>3
    <3>2. CASE k # l
      BY <1>0, <2>2, <3>2 DEF ListInv, TypeOK
    <3> QED
      BY <3>1, <3>2
  <2>3. ShownForContext'
    BY <1>0 DEF ListInv, ShownForContext
  <2> QED
    BY <1>0, <2>1, <2>2, <2>3 DEF ListInv
<1>7. RevocationInv'
  BY <1>0, RevocationRests
<1>8. LoopInv'
  BY <1>0, <1>1, LoopRests
<1> QED
  BY <1>1, <1>4, <1>5, <1>6, <1>7, <1>8, PageParts

\* Asking for the list of the selected context empties the list; only one more GET under
\* way can be for another context.
LEMMA LoadKeepsLists ==
  ASSUME TypeOK, ListInv, NEW l \in Loads, NEW c \in PageContexts \cup {NoFilter},
         LoadActiveConsents(l, c), selectedContext' = c
  PROVE  /\ ListInv'
         /\ overlap => overlap'
         /\ lpc' \in [Loads -> {"idle", "sent", "served", "done"}] /\ lpc'[l] = "sent"
         /\ \A k \in Loads : lpc[k] # "idle" => lpc'[k] = lpc[k]
         /\ loadingConsents' \in BOOLEAN /\ activeConsents' = {}
         /\ overlap' \in BOOLEAN
<1>0. /\ lpc[l] = "idle" /\ lpc' = [lpc EXCEPT ![l] = "sent"]
      /\ lctx' = [lctx EXCEPT ![l] = c] /\ activeConsents' = {}
      /\ overlap' = (overlap \/ LoadsInFlight # {}) /\ UNCHANGED lrows
  BY DEF LoadActiveConsents
<1>1. lpc \in [Loads -> {"idle", "sent", "served", "done"}]
      /\ lctx \in [Loads -> PageContexts \cup {NoFilter}] /\ lrows \in [Loads -> SUBSET Shown]
  BY DEF TypeOK, ListInv
<1>2. /\ lpc' \in [Loads -> {"idle", "sent", "served", "done"}] /\ lpc'[l] = "sent"
      /\ \A k \in Loads : lpc[k] # "idle" => lpc'[k] = lpc[k]
  BY <1>0, <1>1
<1>3. lctx' \in [Loads -> PageContexts \cup {NoFilter}] /\ lctx'[l] = c
      /\ \A k \in Loads \ {l} : lctx'[k] = lctx[k] /\ lpc'[k] = lpc[k]
  BY <1>0, <1>1
<1>4. ASSUME ~overlap', NEW k \in Loads
      PROVE  /\ lpc'[k] = "sent" => lctx'[k] = selectedContext'
             /\ lpc'[k] = "served" =>
                  \A x \in lrows'[k] : x.ctx = MiddlewareContext(selectedContext)'
  <2>1. LoadsInFlight = {}
    BY <1>0, <1>4
  <2>2. lpc[k] \notin {"sent", "served"}
    BY <2>1 DEF LoadsInFlight
  <2>3. lpc'[k] \in {"sent", "served"} => k = l
    BY <1>3, <2>2
  <2> QED
    BY <1>2, <1>3, <2>3
<1>5. ShownForContext'
  BY <1>0 DEF ShownForContext
<1>6. ListInv'
  BY <1>0, <1>1, <1>3, <1>4, <1>5 DEF ListInv
<1>7. loadingConsents' \in BOOLEAN
  BY DEF LoadActiveConsents
<1>8. overlap' \in BOOLEAN
  BY <1>0
<1>9. overlap => overlap'
  BY <1>0
<1> QED
  BY <1>0, <1>2, <1>6, <1>7, <1>8, <1>9

\* The button beside the heading.
LEMMA RefreshKeeps == PageInv /\ Refresh => PageInv'
<1> SUFFICES ASSUME PageInv, Refresh PROVE PageInv'
  OBVIOUS
<1> USE DEF PageInv, registryVars, consentVars, formVars, attrVars, opVars
<1>1. PICK l \in Loads : LoadActiveConsents(l, selectedContext)
  BY DEF Refresh
<1>2. UNCHANGED <<registryVars, formVars, suggestedClaims, attrVars, opVars, asked>>
      /\ disturbed' = (disturbed \/ op = "grant")
  BY DEF Refresh, Disturb
<1>3. PICK c \in PageContexts \cup {NoFilter} : c = selectedContext
  BY DEF TypeOK
<1>4. LoadActiveConsents(l, c)
  BY <1>1, <1>3 DEF LoadActiveConsents
<1>5. RegistryKept
  BY <1>2, RegistryRests DEF RegistryMove
<1>6. /\ ListInv'
      /\ overlap => overlap'
      /\ lpc' \in [Loads -> {"idle", "sent", "served", "done"}] /\ lpc'[l] = "sent"
      /\ \A k \in Loads : lpc[k] # "idle" => lpc'[k] = lpc[k]
      /\ loadingConsents' \in BOOLEAN /\ activeConsents' = {}
      /\ overlap' \in BOOLEAN
  BY <1>2, <1>3, <1>4, LoadKeepsLists
<1>7. TypeOK'
  <2>1. op' = "reload" => call' \in Loads /\ lpc'[call'] \in {"sent", "served"}
    BY <1>2, <1>6 DEF TypeOK
  <2>2. disturbed' \in BOOLEAN
    BY <1>2
  <2> QED
    BY <1>2, <1>5, <1>6, <2>1, <2>2 DEF TypeOK, RegistryKept, ConsentInv
<1>8. FormInv'
  BY <1>2 DEF FormInv
<1>9. RevocationInv'
  BY <1>2, <1>6, RevocationRests
<1>10. LoopInv'
  BY <1>2, <1>5, LoopRests
<1> QED
  BY <1>5, <1>6, <1>7, <1>8, <1>9, <1>10, PageParts

\* Another context is chosen, or none.
LEMMA OnContextChangeKeeps ==
  ASSUME PageInv, NEW c \in PageContexts \cup {NoFilter}, OnContextChange(c)
  PROVE  PageInv'
<1> USE DEF PageInv, registryVars, consentVars, opVars
<1>1. /\ selectedContext' = c /\ c # selectedContext
      /\ selectedAttributes' = {} /\ purposeValue' = NoFilter /\ explicitConsent' = FALSE
      /\ disturbed' = (disturbed \/ op = "grant")
      /\ UNCHANGED <<registryVars, suggestedClaims, opVars, asked>>
  BY DEF OnContextChange, Disturb
<1>2. RegistryKept
  BY <1>1, RegistryRests DEF RegistryMove
<1>3. /\ ListInv'
      /\ overlap => overlap'
      /\ lpc' \in [Loads -> {"idle", "sent", "served", "done"}]
      /\ \A k \in Loads : lpc[k] # "idle" => lpc'[k] = lpc[k]
      /\ activeConsents' = {}
  <2>1. CASE c = NoFilter /\ activeConsents' = {} /\ UNCHANGED <<lpc, lctx, lrows, overlap>>
    <3>1. ListInv'
      BY <1>1, <2>1 DEF ListInv, ShownForContext
    <3> QED
      BY <2>1, <3>1 DEF TypeOK
  <2>2. CASE c # NoFilter /\ \E l \in Loads : LoadActiveConsents(l, c)
    BY <1>1, <2>2, LoadKeepsLists
  <2> QED
    BY <2>1, <2>2 DEF OnContextChange
<1>4. loadingConsents' \in BOOLEAN
  BY DEF OnContextChange, LoadActiveConsents, TypeOK
<1>5. overlap' \in BOOLEAN
  BY DEF OnContextChange, LoadActiveConsents, TypeOK
<1>6. loadingAttributes' \in BOOLEAN
  BY DEF OnContextChange, LoadAttributes, attrVars, TypeOK
<1>7. attributeCalls' \in Nat
  BY DEF OnContextChange, LoadAttributes, attrVars, TypeOK
<1>8. explicitConsent' \in BOOLEAN
  BY <1>1
<1>9. disturbed' \in BOOLEAN
  BY <1>1
<1>10. TypeOK'
  <2>1. op' = "reload" => call' \in Loads /\ lpc'[call'] \in {"sent", "served"}
    BY <1>1, <1>3 DEF TypeOK
  <2>2. /\ selectedContext' \in PageContexts \cup {NoFilter}
        /\ selectedAttributes' \subseteq Attributes \cup Claims
        /\ purposeValue' \in Purpose \cup {NoFilter}
        /\ activeConsents' \subseteq Shown
    BY <1>1, <1>3
  <2> QED
    BY <1>1, <1>2, <1>3, <1>4, <1>5, <1>6, <1>7, <1>8, <1>9, <2>1, <2>2
    DEF TypeOK, RegistryKept, ConsentInv
<1>11. FormInv'
  BY <1>1 DEF FormInv
<1>12. RevocationInv'
  BY <1>1, <1>3, RevocationRests
<1>13. LoopInv'
  BY <1>1, <1>2, LoopRests
<1> QED
  BY <1>2, <1>3, <1>10, <1>11, <1>12, <1>13, PageParts

\* An answer, or an error, shows its list whatever is selected by now; the grant that
\* waited for it ends.
LEMMA FinishLoadKeeps ==
  ASSUME PageInv, NEW l \in Loads, lpc[l] \in {"sent", "served"}, NEW shown \in SUBSET Shown,
         (~overlap /\ selectedContext # NoFilter) =>
            \A c \in shown : c.ctx = MiddlewareContext(selectedContext),
         FinishLoad(l, shown)
  PROVE  PageInv'
<1> USE DEF PageInv, registryVars, consentVars
<1>1. /\ lpc' = [lpc EXCEPT ![l] = "done"]
      /\ lctx' = [lctx EXCEPT ![l] = NoFilter] /\ lrows' = [lrows EXCEPT ![l] = {}]
      /\ activeConsents' = shown
      /\ loadingConsents' = FALSE
      /\ UNCHANGED <<registryVars, selectedContext, suggestedClaims, overlap, groups>>
  BY DEF FinishLoad
<1>2. \/ /\ op = "reload" /\ call = l
         /\ selectedAttributes' = {} /\ purposeValue' = NoFilter
         /\ explicitConsent' = FALSE
         /\ LoadAttributes
         /\ loading' = FALSE /\ op' = "none" /\ call' = NoFilter
         /\ asked' = {} /\ disturbed' = FALSE
      \/ /\ ~(op = "reload" /\ call = l)
         /\ disturbed' = (disturbed \/ op = "grant")
         /\ UNCHANGED <<selectedAttributes, purposeValue, explicitConsent, attrVars,
                        loading, op, call, asked>>
  BY DEF FinishLoad, Forget, Disturb
<1>3. RegistryKept
  BY <1>1, RegistryRests DEF RegistryMove
<1>4. ListInv'
  <2>1. /\ lctx' \in [Loads -> PageContexts \cup {NoFilter}]
        /\ lrows' \in [Loads -> SUBSET Shown]
        /\ \A k \in Loads : lpc'[k] \in {"sent", "served"} =>
                              lpc'[k] = lpc[k] /\ lctx'[k] = lctx[k] /\ lrows'[k] = lrows[k]
    BY <1>1 DEF ListInv, TypeOK
  <2>2. MiddlewareContext(selectedContext)' = MiddlewareContext(selectedContext)
    BY <1>1 DEF MiddlewareContext, Lower
  <2> QED
    BY <1>1, <2>1, <2>2 DEF ListInv, ShownForContext
<1>5. lpc' \in [Loads -> {"idle", "sent", "served", "done"}]
      /\ \A k \in Loads \ {l} : lpc'[k] = lpc[k]
  BY <1>1 DEF TypeOK
<1>6. loadingConsents' \in BOOLEAN
  BY <1>1
<1>7. CASE /\ selectedAttributes' = {} /\ purposeValue' = NoFilter
           /\ explicitConsent' = FALSE
           /\ LoadAttributes
           /\ loading' = FALSE /\ op' = "none" /\ call' = NoFilter
           /\ asked' = {} /\ disturbed' = FALSE
  <2>1. loadingAttributes' \in BOOLEAN
    BY <1>7 DEF LoadAttributes
  <2>2. attributeCalls' \in Nat
    BY <1>7 DEF LoadAttributes, TypeOK
  <2>3. explicitConsent' \in BOOLEAN
    BY <1>7
  <2>4. loading' \in BOOLEAN
    BY <1>7
  <2>5. disturbed' \in BOOLEAN
    BY <1>7
  <2>6. /\ op' = "none" /\ selectedAttributes' = {} /\ purposeValue' = NoFilter /\ asked' = {}
    BY <1>7
  <2>7. TypeOK'
    BY <1>1, <1>3, <1>5, <1>6, <2>1, <2>2, <2>3, <2>4, <2>5, <2>6
    DEF TypeOK, RegistryKept, ConsentInv, Operations
  <2>8. FormInv' /\ RevocationInv'
    BY <1>1, <1>7 DEF FormInv, RevocationInv
  <2>9. LoopInv'
    BY <1>7, NoLoop
  <2> QED
    BY <1>3, <1>4, <2>7, <2>8, <2>9, PageParts
<1>8. CASE /\ ~(op = "reload" /\ call = l)
           /\ disturbed' = (disturbed \/ op = "grant")
           /\ UNCHANGED <<selectedAttributes, purposeValue, explicitConsent, attrVars,
                          loading, op, call, asked>>
  <2>1. disturbed' \in BOOLEAN
    BY <1>8
  <2>2. op' = "reload" => call' \in Loads /\ lpc'[call'] \in {"sent", "served"}
    BY <1>5, <1>8 DEF TypeOK
  <2>3. TypeOK'
    BY <1>1, <1>3, <1>5, <1>6, <1>8, <2>1, <2>2 DEF TypeOK, RegistryKept, ConsentInv, attrVars
  <2>4. FormInv' /\ RevocationInv'
    BY <1>1, <1>8 DEF FormInv, RevocationInv
  <2>5. LoopInv'
    BY <1>1, <1>3, <1>8, LoopRests
  <2> QED
    BY <1>3, <1>4, <2>3, <2>4, <2>5, PageParts
<1> QED
  BY <1>2, <1>7, <1>8

LEMMA GotConsentsKeeps ==
  ASSUME PageInv, NEW l \in Loads, GotConsents(l) \/ ConsentsFail(l)
  PROVE  PageInv'
<1> USE DEF PageInv
<1>1. CASE GotConsents(l)
  <2>1. lpc[l] = "served" /\ FinishLoad(l, lrows[l])
    BY <1>1 DEF GotConsents
  <2>2. PICK shown \in SUBSET Shown : shown = lrows[l]
    BY DEF ListInv
  <2>3. FinishLoad(l, shown)
    BY <2>1, <2>2 DEF FinishLoad
  <2>4. (~overlap /\ selectedContext # NoFilter) =>
          \A c \in shown : c.ctx = MiddlewareContext(selectedContext)
    BY <2>1, <2>2 DEF ListInv
  <2> QED
    BY <2>1, <2>3, <2>4, FinishLoadKeeps
<1>2. CASE ConsentsFail(l)
  <2>1. lpc[l] \in {"sent", "served"} /\ FinishLoad(l, {})
    BY <1>2 DEF ConsentsFail, LoadsInFlight
  <2> QED
    BY <2>1, FinishLoadKeeps
<1> QED
  BY <1>1, <1>2

--------------------------------------------------------------------------------
\* Suggestions

\* With the anchored claims that are not among them, finitely many links stay finite.
LEMMA AnchoredType ==
  ASSUME NEW L \in SUBSET Linked
  PROVE  WithAnchored(L) \subseteq Suggestion /\ IsFiniteSet(WithAnchored(L))
<1> DEFINE A == Anchored \ {x.claim : x \in L}
           F == [c \in A |-> [claim |-> c, ctx |-> Identity, attrs |-> {c}]]
<1>1. WithAnchored(L) = L \cup {F[c] : c \in A}
  BY DEF WithAnchored
<1>2. IsFiniteSet(L) /\ L \subseteq Suggestion
  BY ConsentPageAssumption, FS_Subset
<1>3. IsFiniteSet(A) /\ A \subseteq Claims
  BY ConsentPageAssumption, FS_Subset
<1>4. F \in Surjection(A, {F[c] : c \in A})
  BY DEF Surjection
<1>5. {F[c] : c \in A} \subseteq Suggestion
  BY <1>3, ConsentPageAssumption DEF Suggestion
<1> HIDE DEF F, A
<1>6. IsFiniteSet({F[c] : c \in A})
  BY <1>3, <1>4, FS_Surjection
<1>7. IsFiniteSet(L \cup {F[c] : c \in A})
  BY <1>2, <1>6, FS_Union
<1> QED
  BY <1>1, <1>2, <1>5, <1>7

\* So they do with the claims of old consents.
LEMMA OldType ==
  ASSUME ConsentTypeOK, IsFiniteSet(rows), NEW K \in SUBSET Suggestion, IsFiniteSet(K),
         NEW S \in WithOld(K)
  PROVE  S \subseteq Suggestion /\ IsFiniteSet(S)
<1> DEFINE R == {x \in rows : x.subject = Owner}
           G == [r \in R |-> r.claim]
           old == OldClaims(K)
<1>1. old \subseteq {G[r] : r \in R}
  BY DEF OldClaims
<1>2. IsFiniteSet(R)
  BY FS_Subset
<1>3. G \in Surjection(R, {G[r] : r \in R})
  BY DEF Surjection
<1>4. IsFiniteSet({G[r] : r \in R})
  <2> HIDE DEF G, R
  <2> QED
    BY <1>2, <1>3, FS_Surjection
<1>5. IsFiniteSet(old)
  <2> HIDE DEF G, R, old
  <2> QED
    BY <1>1, <1>4, FS_Subset
<1>6. PICK h \in OldRows(old) :
        S = K \cup {[claim |-> c, ctx |-> h[c].ctx, attrs |-> {c}] : c \in old}
  BY DEF WithOld
<1> DEFINE H == [c \in old |-> [claim |-> c, ctx |-> h[c].ctx, attrs |-> {c}]]
<1>7. S = K \cup {H[c] : c \in old}
  BY <1>6
<1>8. {H[c] : c \in old} \subseteq Suggestion
  <2>1. \A r \in rows : r.claim \in Claims /\ r.ctx \in Context
    BY DEF ConsentTypeOK, Row
  <2>2. old \subseteq Claims
    BY <2>1 DEF OldClaims
  <2>3. \A c \in old : h[c].ctx \in Context
    BY <2>1, <1>6 DEF OldRows
  <2> HIDE DEF old
  <2> QED
    BY <2>2, <2>3 DEF Suggestion
<1>9. H \in Surjection(old, {H[c] : c \in old})
  BY DEF Surjection
<1> HIDE DEF H, old
<1>10. IsFiniteSet({H[c] : c \in old})
  BY <1>5, <1>9, FS_Surjection
<1>11. IsFiniteSet(K \cup {H[c] : c \in old})
  BY <1>10, FS_Union
<1> QED
  BY <1>7, <1>8, <1>11

\* Whatever can be fetched, there are finitely many suggestions.
LEMMA SuggestionsType ==
  ASSUME ConsentTypeOK, IsFiniteSet(rows), NEW S \in Suggestable
  PROVE  S \subseteq Suggestion /\ IsFiniteSet(S)
<1>1. PICK L \in FetchedLinks : S \in WithOld(WithAnchored(L))
  BY DEF Suggestable
<1>2. L \in SUBSET Linked
  BY DEF FetchedLinks
<1>3. WithAnchored(L) \in SUBSET Suggestion /\ IsFiniteSet(WithAnchored(L))
  BY <1>2, AnchoredType
<1> QED
  BY <1>1, <1>3, OldType

LEMMA GotSuggestionsKeeps == PageInv /\ GotSuggestions => PageInv'
<1> SUFFICES ASSUME PageInv, GotSuggestions PROVE PageInv'
  OBVIOUS
<1> USE DEF PageInv, registryVars, consentVars, formVars, listVars, attrVars, opVars, askVars
<1>1. /\ suggestedClaims = NoFilter
      /\ UNCHANGED <<registryVars, formVars, listVars, attrVars, opVars, askVars>>
  BY DEF GotSuggestions
<1>2. suggestedClaims' \subseteq Suggestion /\ IsFiniteSet(suggestedClaims')
  <2>1. CASE suggestedClaims' = {}
    <3>1. IsFiniteSet({})
      BY FS_EmptySet
    <3> QED
      BY <2>1, <3>1
  <2>2. CASE suggestedClaims' \in Suggestable
    <3>1. PICK S \in Suggestable : S = suggestedClaims'
      BY <2>2
    <3> QED
      BY <3>1, SuggestionsType DEF ConsentInv, FormInv
  <2> QED
    BY <2>1, <2>2 DEF GotSuggestions
<1>3. RegistryKept
  BY <1>1, RegistryRests DEF RegistryMove
<1>4. TypeOK'
  BY <1>1, <1>2, <1>3 DEF TypeOK, RegistryKept, ConsentInv
<1>5. FormInv'
  BY <1>1, <1>2 DEF FormInv
<1>6. ListInv' /\ RevocationInv'
  BY <1>1, ListRests, RevocationRests
<1>7. (op = "grant" /\ ~disturbed) => FALSE
  BY <1>1 DEF LoopInv, GroupedAttributes
<1>8. LoopInv'
  BY <1>1, <1>3, <1>7, LoopRests
<1> QED
  BY <1>3, <1>4, <1>5, <1>6, <1>8, PageParts

--------------------------------------------------------------------------------
\* Revocation

\* A click keeps the entry together with the selected context.
LEMMA ConfirmAndRevokeKeeps ==
  ASSUME PageInv, NEW c \in activeConsents, ConfirmAndRevoke(c)
  PROVE  PageInv'
<1> USE DEF PageInv, registryVars, consentVars, formVars, listVars, attrVars, askVars
<1>1. /\ selectedContext # NoFilter
      /\ loading' = TRUE /\ op' = "revoke" /\ call' = <<c, selectedContext>>
      /\ UNCHANGED <<registryVars, formVars, suggestedClaims, listVars, attrVars, groups, askVars>>
  BY DEF ConfirmAndRevoke
<1>2. RegistryKept
  BY <1>1, RegistryRests DEF RegistryMove
<1>3. TypeOK'
  <2>1. call' \in Shown \X PageContexts
    BY <1>1 DEF TypeOK
  <2>2. loading' \in BOOLEAN
    BY <1>1
  <2>3. op' = "revoke" /\ loading'
    BY <1>1
  <2> QED
    BY <1>1, <1>2, <2>1, <2>2, <2>3 DEF TypeOK, RegistryKept, ConsentInv, Operations
<1>4. FormInv'
  BY <1>1 DEF FormInv
<1>5. ListInv'
  BY <1>1, ListRests
<1>6. RevocationInv'
  <2>1. ~overlap => c.ctx = MiddlewareContext(selectedContext)
    BY <1>1 DEF ListInv, ShownForContext
  <2>2. call'[1] = c /\ call'[2] = selectedContext
    BY <1>1
  <2>3. MiddlewareContext(call[2])' = MiddlewareContext(selectedContext)
    BY <2>2 DEF MiddlewareContext, Lower
  <2> QED
    BY <1>1, <2>1, <2>2, <2>3 DEF RevocationInv
<1>7. LoopInv'
  BY <1>1, NoLoop
<1> QED
  BY <1>2, <1>3, <1>4, <1>5, <1>6, <1>7, PageParts

LEMMA ServeRevocationKeeps == PageInv /\ ServeRevocation => PageInv'
<1> SUFFICES ASSUME PageInv, ServeRevocation PROVE PageInv'
  OBVIOUS
<1> USE DEF PageInv, formVars, listVars, attrVars, askVars
<1>1. /\ op = "revoke" /\ op' \in {"hit", "miss"}
      /\ UNCHANGED <<now, formVars, suggestedClaims, listVars, attrVars, loading, call, groups, askVars>>
      /\ Revoke(RevocationForm) \/ UNCHANGED consentVars
  BY DEF ServeRevocation
<1>2. RegistryKept
  <2>1. RegistryMove
    BY <1>1 DEF RegistryMove, registryVars, consentVars
  <2> QED
    BY <2>1, RegistryRests
<1>3. TypeOK'
  BY <1>1, <1>2 DEF TypeOK, RegistryKept, ConsentInv, Operations
<1>4. FormInv'
  BY <1>1, <1>2 DEF FormInv, RegistryKept
<1>5. ListInv'
  BY <1>1, ListRests
<1>6. RevocationInv'
  BY <1>1 DEF RevocationInv, MiddlewareContext, Lower
<1>7. LoopInv'
  BY <1>1, NoLoop
<1> QED
  BY <1>2, <1>3, <1>4, <1>5, <1>6, <1>7, PageParts

\* The answer, or its loss, ends the revocation and can only shorten the list.
LEMMA RevocationEndsKeeps == PageInv /\ (RevocationDone \/ RevocationFails) => PageInv'
<1> SUFFICES ASSUME PageInv, RevocationDone \/ RevocationFails PROVE PageInv'
  OBVIOUS
<1> USE DEF PageInv, registryVars, consentVars, formVars, listVars, attrVars, askVars
<1>1. /\ op' = "none" /\ (loading' = loading \/ loading' = FALSE)
      /\ activeConsents' \subseteq activeConsents
      /\ UNCHANGED <<registryVars, formVars, suggestedClaims, loadingConsents, lpc, lctx, lrows,
                     overlap, attrVars, groups, askVars>>
  BY DEF RevocationDone, RevocationFails
<1>2. RegistryKept
  BY <1>1, RegistryRests DEF RegistryMove
<1>3. TypeOK'
  <2>1. loading' \in BOOLEAN
    BY <1>1 DEF TypeOK
  <2> QED
    BY <1>1, <1>2, <2>1 DEF TypeOK, RegistryKept, ConsentInv, Operations
<1>4. FormInv'
  BY <1>1 DEF FormInv
<1>5. ListInv'
  BY <1>1, ListRests
<1>6. RevocationInv'
  BY <1>1 DEF RevocationInv
<1>7. LoopInv'
  BY <1>1, NoLoop
<1> QED
  BY <1>2, <1>3, <1>4, <1>5, <1>6, <1>7, PageParts

--------------------------------------------------------------------------------
\* The loop of grants

\* What the page sends is a body of Consent as long as something is selected.
LEMMA PageGrantType ==
  ASSUME PageInv, NEW claim \in Claims, purposeValue # NoFilter, selectedAttributes # {}
  PROVE  PageGrant(claim) \in GrantForms
<1>1. purposeValue \in PagePurposes /\ selectedContext \in PageContexts
  BY DEF PageInv, FormInv, TypeOK
<1>2. now + Lifetime \in Lifetime..(MaxTime + Lifetime)
  BY ConsentPageAssumption, ConsentAssumption DEF PageInv, FormInv, ConsentInv, ConsentTypeOK
<1> QED
  BY <1>1, <1>2, ConsentPageAssumption DEF PageGrant

\* Where the loop goes from gs: to the list, to the catch block, or to its first group
\* that has to be granted.
LEMMA NextGroupCases ==
  ASSUME PageInv, NEW gs \in Seq(Suggestion), NextGroup(gs)
  PROVE  \/ /\ \A i \in 1..Len(gs) : ~ToBeGranted(gs[i])
            /\ op' = "reload" /\ groups' = <<>> /\ loading' = TRUE
            /\ \E l \in Loads : LoadActiveConsents(l, selectedContext) /\ call' = l
            /\ UNCHANGED consentVars
         \/ GrantEnds
         \/ /\ purposeValue # NoFilter /\ op' = "grant" /\ loading' = TRUE
            /\ \E i \in 1..Len(gs), g \in Grants :
                 /\ ToBeGranted(gs[i]) /\ \A j \in 1..Len(gs) : ToBeGranted(gs[j]) => i <= j
                 /\ groups' = SubSeq(gs, i + 1, Len(gs))
                 /\ SubmitGrant(g, PageGrant(gs[i].claim)) /\ call' = g
            /\ UNCHANGED listVars
BY DEF NextGroup

\* A row of this body is the agreement with a group of this claim.
LEMMA GrantedIsOnRecord ==
  ASSUME PageInv, op = "grant", ~disturbed, gpc[call] = "granted", NEW x,
         x.claim = gform[call].claim
  PROVE  OnRecord(Agreement(x))
<1>1. call \in Grants
  BY DEF PageInv, TypeOK
<1>2. PICK r \in rows : r.id = call
  BY <1>1 DEF PageInv, ConsentInv, GrantedIsStored
<1>3. /\ r.subject = gform[call].subject /\ r.claim = gform[call].claim
      /\ r.purpose = gform[call].purpose /\ r.ctx = MiddlewareContext(gform[call].ctx)
  BY <1>2, RowBody DEF PageInv
<1>4. /\ gform[call].subject = Owner /\ gform[call].purpose = purposeValue
      /\ gform[call].ctx = selectedContext
  BY DEF PageInv, LoopInv
<1>5. Agreement(x) = [claim |-> r.claim, purpose |-> r.purpose, ctx |-> r.ctx]
  BY <1>3, <1>4 DEF Agreement
<1> QED
  BY <1>3, <1>4, <1>5 DEF OnRecord

\* The catch block, whatever becomes of what was asked.
LEMMA GrantEndsKeeps ==
  ASSUME PageInv, GrantEnds, UNCHANGED <<now, formVars, suggestedClaims, attrVars>>,
         asked' \subseteq Agreed, disturbed' \in BOOLEAN
  PROVE  PageInv'
<1> USE DEF PageInv, formVars, attrVars
<1>1. /\ op' = "none" /\ loading' = FALSE /\ call' = NoFilter /\ groups' = <<>>
      /\ UNCHANGED <<consentVars, listVars>>
  BY DEF GrantEnds
<1>2. RegistryKept
  BY <1>1, RegistryRests DEF RegistryMove, registryVars
<1>3. loading' \in BOOLEAN
  BY <1>1
<1>4. TypeOK'
  <2>1. groups' \in Seq(Suggestion) /\ op' = "none" /\ op' \in Operations
    BY <1>1 DEF Operations
  <2> QED
    BY <1>1, <1>2, <1>3, <2>1 DEF TypeOK, RegistryKept, ConsentInv, listVars
<1>5. FormInv'
  BY <1>1 DEF FormInv, consentVars
<1>6. ListInv'
  BY <1>1, ListRests DEF listVars
<1>7. RevocationInv' /\ LoopInv'
  BY <1>1 DEF RevocationInv, LoopInv
<1> QED
  BY <1>2, <1>4, <1>5, <1>6, <1>7, PageParts

\* A step of the loop over gs, from the button or after an answer.  While the loop is
\* undisturbed, gs are groups of the context, and what was asked for is among them or on
\* record.
LEMMA NextGroupKeeps ==
  ASSUME PageInv, NEW gs \in Seq(Suggestion), NextGroup(gs),
         UNCHANGED <<now, formVars, suggestedClaims, attrVars>>,
         asked' \subseteq Agreed, disturbed' \in BOOLEAN,
         ~disturbed' =>
           /\ asked' = {Agreement(x) : x \in {y \in GroupedAttributes : AskedFor(y)}}
           /\ \A i \in 1..Len(gs) : gs[i] \in GroupedAttributes
           /\ \A x \in GroupedAttributes : AskedFor(x) =>
                (\E i \in 1..Len(gs) : gs[i] = x) \/ OnRecord(Agreement(x))
  PROVE  PageInv'
<1> USE DEF PageInv, formVars, attrVars
<1>a. /\ UNCHANGED <<now, selectedContext, selectedAttributes, purposeValue, explicitConsent,
                     suggestedClaims, loadingAttributes, attributeCalls>>
      /\ \A x : AskedFor(x) <=> ToBeGranted(x)
  BY DEF AskedFor, ToBeGranted
<1>1. CASE /\ \A i \in 1..Len(gs) : ~ToBeGranted(gs[i])
           /\ op' = "reload" /\ groups' = <<>> /\ loading' = TRUE
           /\ \E l \in Loads : LoadActiveConsents(l, selectedContext) /\ call' = l
           /\ UNCHANGED consentVars
  <2>1. PICK l \in Loads : LoadActiveConsents(l, selectedContext) /\ call' = l
    BY <1>1
  <2>2. PICK c \in PageContexts \cup {NoFilter} : c = selectedContext
    BY DEF TypeOK
  <2>3. LoadActiveConsents(l, c)
    BY <2>1, <2>2 DEF LoadActiveConsents
  <2>4. /\ ListInv'
        /\ lpc' \in [Loads -> {"idle", "sent", "served", "done"}] /\ lpc'[l] = "sent"
        /\ loadingConsents' \in BOOLEAN /\ activeConsents' = {}
        /\ overlap' \in BOOLEAN
    BY <1>a, <2>2, <2>3, LoadKeepsLists
  <2>5. RegistryKept
    BY <1>1, <1>a, RegistryRests DEF RegistryMove, registryVars
  <2>6. loading' \in BOOLEAN
    BY <1>1
  <2>7. groups' \in Seq(Suggestion)
    BY <1>1
  <2>8. TypeOK'
    <3>1. op' = "reload" /\ loading' /\ call' \in Loads /\ lpc'[call'] \in {"sent", "served"}
      BY <1>1, <2>1, <2>4
    <3>2. op' \in Operations
      BY <1>1 DEF Operations
    <3>3. activeConsents' \subseteq Shown
      BY <2>4
    <3> QED
      BY <1>a, <2>4, <2>5, <2>6, <2>7, <3>1, <3>2, <3>3 DEF TypeOK, RegistryKept, ConsentInv
  <2>9. FormInv'
    BY <1>1, <1>a DEF FormInv, consentVars
  <2>10. RevocationInv'
    BY <1>1 DEF RevocationInv
  <2>11. LoopInv'
    <3>1. ASSUME ~disturbed', NEW a \in asked' PROVE OnRecord(a)'
      <4>1. PICK x \in GroupedAttributes : AskedFor(x) /\ a = Agreement(x)
        BY <3>1
      <4>2. OnRecord(a)
        BY <1>1, <1>a, <3>1, <4>1
      <4> QED
        BY <2>5, <4>2 DEF RegistryKept
    <3> QED
      BY <1>1, <3>1 DEF LoopInv
  <2> QED
    BY <2>4, <2>5, <2>8, <2>9, <2>10, <2>11, PageParts
<1>2. CASE GrantEnds
  BY <1>2, GrantEndsKeeps
<1>3. CASE /\ purposeValue # NoFilter /\ op' = "grant" /\ loading' = TRUE
           /\ \E i \in 1..Len(gs), g \in Grants :
                /\ ToBeGranted(gs[i]) /\ \A j \in 1..Len(gs) : ToBeGranted(gs[j]) => i <= j
                /\ groups' = SubSeq(gs, i + 1, Len(gs))
                /\ SubmitGrant(g, PageGrant(gs[i].claim)) /\ call' = g
           /\ UNCHANGED listVars
  <2>1. PICK i \in 1..Len(gs), g \in Grants :
          /\ ToBeGranted(gs[i]) /\ \A j \in 1..Len(gs) : ToBeGranted(gs[j]) => i <= j
          /\ groups' = SubSeq(gs, i + 1, Len(gs))
          /\ SubmitGrant(g, PageGrant(gs[i].claim)) /\ call' = g
    BY <1>3
  <2>2. gs[i] \in Suggestion /\ gs[i].claim \in Claims
    <3>1. gs[i] \in Suggestion
      BY ElementOfSeq
    <3> QED
      BY <3>1 DEF Suggestion
  <2>3. PICK f \in GrantForms : f = PageGrant(gs[i].claim)
    <3>1. selectedAttributes # {}
      BY <2>1 DEF ToBeGranted
    <3> QED
      BY <1>3, <2>2, <3>1, PageGrantType
  <2>4. SubmitGrant(g, f)
    BY <2>1, <2>3 DEF SubmitGrant
  <2>5. RegistryKept
    BY <2>4, RegistryRests DEF RegistryMove
  <2>6. gform'[g] = f /\ gpc'[g] = "select" /\ UNCHANGED <<now, rows>>
    BY <2>4 DEF SubmitGrant, ConsentInv, ConsentTypeOK
  <2>7. /\ groups' \in Seq(Suggestion) /\ Len(groups') = Len(gs) - i
        /\ \A k \in 1..(Len(gs) - i) : groups'[k] = gs[i + k]
    BY <2>1, SubSeqProperties
  <2>8. loading' \in BOOLEAN
    BY <1>3
  <2>9. TypeOK'
    <3>1. op' = "grant" /\ op' \in Operations /\ loading' /\ call' \in Grants /\ gpc'[call'] # "idle"
      BY <1>3, <2>1, <2>6 DEF Operations
    <3> QED
      BY <1>3, <1>a, <2>5, <2>7, <2>8, <3>1 DEF TypeOK, RegistryKept, ConsentInv, listVars
  <2>10. FormInv'
    BY <1>a, <2>6 DEF FormInv
  <2>11. ListInv'
    BY <1>3, <1>a, ListRests DEF listVars
  <2>12. RevocationInv'
    BY <1>3 DEF RevocationInv
  <2>13. LoopInv'
    <3> SUFFICES ASSUME ~disturbed' PROVE LoopInv'
      BY DEF LoopInv
    <3>1. /\ GroupedAttributes' = GroupedAttributes
          /\ \A x : AskedFor(x)' <=> AskedFor(x)
          /\ \A x : Agreement(x)' = Agreement(x)
      BY <1>a, <1>3, SelectionRests DEF listVars
    <3>2. asked' = {Agreement(x) : x \in {y \in GroupedAttributes : AskedFor(y)}}'
      BY <3>1
    <3>3. \A k \in 1..Len(groups') : groups'[k] \in GroupedAttributes'
      BY <2>7, <3>1
    <3>4. /\ gform'[call'].claim = gs[i].claim /\ gform'[call'].subject = Owner
          /\ gform'[call'].purpose = purposeValue' /\ gform'[call'].ctx = selectedContext'
      BY <1>a, <2>1, <2>3, <2>6 DEF PageGrant
    <3>5. gs[i] \in GroupedAttributes' /\ AskedFor(gs[i])'
      BY <1>a, <2>1, <3>1
    <3>6. ASSUME NEW x \in GroupedAttributes', AskedFor(x)' PROVE GroupIsServed(x)'
      <4>1. (\E j \in 1..Len(gs) : gs[j] = x) \/ OnRecord(Agreement(x))
        BY <3>1, <3>6
      <4>2. CASE OnRecord(Agreement(x))
        BY <2>5, <3>1, <4>2 DEF GroupIsServed, RegistryKept
      <4>3. ASSUME NEW j \in 1..Len(gs), gs[j] = x PROVE GroupIsServed(x)'
        <5>1. i <= j
          BY <1>a, <2>1, <3>1, <3>6, <4>3
        <5>2. CASE i = j
          BY <3>4, <4>3, <5>2 DEF GroupIsServed
        <5>3. CASE i < j
          <6>1. j - i \in 1..Len(groups') /\ groups'[j - i] = x
            BY <2>7, <4>3, <5>3
          <6> QED
            BY <6>1 DEF GroupIsServed
        <5> QED
          BY <5>1, <5>2, <5>3
      <4> QED
        BY <4>1, <4>2, <4>3
    <3> QED
      BY <1>3, <1>a, <3>2, <3>3, <3>4, <3>5, <3>6 DEF LoopInv
  <2> QED
    BY <2>5, <2>9, <2>10, <2>11, <2>12, <2>13, PageParts
<1> QED
  BY <1>1, <1>2, <1>3, NextGroupCases

\* The button puts every group of the context on the list of the loop.
LEMMA GroupsListed ==
  ASSUME PageInv, NEW gs \in SetToSeqs(GroupedAttributes)
  PROVE  /\ gs \in Seq(Suggestion)
         /\ \A i \in 1..Len(gs) : gs[i] \in GroupedAttributes
         /\ \A x \in GroupedAttributes : \E i \in 1..Len(gs) : gs[i] = x
<1>1. GroupedAttributes \subseteq Suggestion
  BY DEF PageInv, TypeOK, GroupedAttributes
<1>2. IsFiniteSet(GroupedAttributes)
  <2>1. CASE suggestedClaims = NoFilter \/ selectedContext = NoFilter
    <3>1. IsFiniteSet({})
      BY FS_EmptySet
    <3> QED
      BY <2>1, <3>1 DEF GroupedAttributes
  <2>2. CASE ~(suggestedClaims = NoFilter \/ selectedContext = NoFilter)
    <3>1. IsFiniteSet(suggestedClaims) /\ GroupedAttributes \subseteq suggestedClaims
      BY <2>2 DEF PageInv, FormInv, GroupedAttributes
    <3> QED
      BY <3>1, FS_Subset
  <2> QED
    BY <2>1, <2>2
<1>3. PICK S : S = GroupedAttributes
  OBVIOUS
<1>4. PICK n \in Nat : n = Cardinality(S)
  BY <1>2, <1>3, FS_CardinalityType
<1>5. gs \in [1..n -> S] /\ \A i, j \in 1..n : i # j => gs[i] # gs[j]
  BY <1>3, <1>4 DEF SetToSeqs
<1>6. gs \in Seq(S) /\ Len(gs) = n
  BY <1>5
<1>7. gs \in Injection(1..n, S)
  BY <1>5 DEF Injection, IsInjective
<1>8. IsFiniteSet(1..n) /\ Cardinality(1..n) = n
  BY FS_Interval
<1>9. gs \in Surjection(1..n, S)
  BY <1>2, <1>3, <1>4, <1>7, <1>8, FS_Injection
<1>10. \A x \in S : \E i \in 1..n : gs[i] = x
  BY <1>9 DEF Surjection
<1>11. gs \in Seq(Suggestion)
  BY <1>1, <1>3, <1>5
<1> QED
  BY <1>3, <1>5, <1>6, <1>10, <1>11

LEMMA GrantConsentKeeps == PageInv /\ GrantConsent => PageInv'
<1> SUFFICES ASSUME PageInv, GrantConsent PROVE PageInv'
  OBVIOUS
<1>1. PICK gs \in SetToSeqs(GroupedAttributes) : NextGroup(gs)
  BY DEF GrantConsent
<1>2. /\ asked' = {Agreement(x) : x \in {y \in GroupedAttributes : AskedFor(y)}}
      /\ disturbed' = FALSE /\ purposeValue # NoFilter
      /\ UNCHANGED <<now, formVars, suggestedClaims, attrVars>>
  BY DEF GrantConsent
<1>3. /\ gs \in Seq(Suggestion)
      /\ \A i \in 1..Len(gs) : gs[i] \in GroupedAttributes
      /\ \A x \in GroupedAttributes : \E i \in 1..Len(gs) : gs[i] = x
  BY GroupsListed
<1>4. asked' \subseteq Agreed
  <2>1. ASSUME NEW x \in GroupedAttributes PROVE Agreement(x) \in Agreed
    <3>1. x \in Suggestion /\ selectedContext \in PageContexts
      BY DEF GroupedAttributes, PageInv, TypeOK
    <3>2. MiddlewareContext(selectedContext) \in Context
      <4>1. PICK c \in Context : c = selectedContext
        BY <3>1, ConsentPageAssumption
      <4>2. MiddlewareContext(c) \in Context
        BY MiddlewareContextType
      <4> QED
        BY <4>1, <4>2
    <3>3. purposeValue \in Purpose
      BY <1>2 DEF PageInv, TypeOK
    <3> QED
      BY <3>1, <3>2, <3>3 DEF Agreement, Agreed, Suggestion
  <2> QED
    BY <1>2, <2>1
<1>5. disturbed' \in BOOLEAN
  BY <1>2
<1> QED
  BY <1>1, <1>2, <1>3, <1>4, <1>5, NextGroupKeeps

LEMMA GrantAnsweredKeeps == PageInv /\ GrantAnswered => PageInv'
<1> SUFFICES ASSUME PageInv, GrantAnswered PROVE PageInv'
  OBVIOUS
<1>1. op = "grant" /\ UNCHANGED <<now, formVars, suggestedClaims, attrVars>>
  BY DEF GrantAnswered
<1>2. CASE gpc[call] = "granted" /\ NextGroup(groups) /\ UNCHANGED askVars
  <2>1. PICK gs \in Seq(Suggestion) : gs = groups
    BY DEF PageInv, TypeOK
  <2>2. NextGroup(gs)
    BY <1>2, <2>1 DEF NextGroup
  <2>3. asked' = asked /\ disturbed' = disturbed
    BY <1>2 DEF askVars
  <2>4. asked' \subseteq Agreed
    BY <2>3 DEF PageInv, TypeOK
  <2>5. disturbed' \in BOOLEAN
    BY <2>3 DEF PageInv, TypeOK
  <2>6. ASSUME ~disturbed'
        PROVE  /\ asked' = {Agreement(x) : x \in {y \in GroupedAttributes : AskedFor(y)}}
               /\ \A i \in 1..Len(gs) : gs[i] \in GroupedAttributes
               /\ \A x \in GroupedAttributes : AskedFor(x) => GroupIsServed(x)
    BY <1>1, <2>1, <2>3, <2>6 DEF PageInv, LoopInv
  <2>7. ASSUME ~disturbed', NEW x \in GroupedAttributes, AskedFor(x)
        PROVE  (\E i \in 1..Len(gs) : gs[i] = x) \/ OnRecord(Agreement(x))
    <3>1. GroupIsServed(x)
      BY <2>6, <2>7
    <3>2. x.claim = gform[call].claim => OnRecord(Agreement(x))
      BY <1>1, <1>2, <2>3, <2>7, GrantedIsOnRecord
    <3> QED
      BY <2>1, <3>1, <3>2 DEF GroupIsServed
  <2> QED
    BY <1>1, <2>2, <2>4, <2>5, <2>6, <2>7, NextGroupKeeps
<1>3. CASE GrantEnds /\ Forget
  <2>1. asked' = {} /\ disturbed' = FALSE
    BY <1>3 DEF Forget
  <2>2. disturbed' \in BOOLEAN
    BY <2>1
  <2> QED
    BY <1>1, <1>3, <2>1, <2>2, GrantEndsKeeps
<1> QED
  BY <1>2, <1>3 DEF GrantAnswered

--------------------------------------------------------------------------------
\* All steps

LEMMA PageStart == Init => PageInv
<1> SUFFICES ASSUME Init PROVE PageInv
  OBVIOUS
<1> USE DEF Init
<1>1. ConsentInv
  BY ConsentStart
<1>2. IsFiniteSet({})
  BY FS_EmptySet
<1>3. rows = {} /\ now = 0
  BY DEF ConsentInit
<1>4. {loading, loadingConsents, loadingAttributes, disturbed, overlap, explicitConsent} = {FALSE}
  OBVIOUS
<1>5. loading \in BOOLEAN /\ loadingConsents \in BOOLEAN /\ loadingAttributes \in BOOLEAN
  BY <1>4
<1>6. disturbed \in BOOLEAN /\ overlap \in BOOLEAN /\ explicitConsent \in BOOLEAN
  BY <1>4
<1>7. TypeOK
  BY <1>1, <1>5, <1>6 DEF TypeOK, ConsentInv, Operations
<1>8. FormInv
  BY <1>2, <1>3, ConsentAssumption DEF FormInv
<1>9. ListInv
  BY DEF ListInv, ShownForContext
<1>10. RevocationInv /\ LoopInv
  BY DEF RevocationInv, LoopInv
<1> QED
  BY <1>1, <1>7, <1>8, <1>9, <1>10 DEF PageInv

LEMMA PageStep == PageInv /\ [Next]_vars => PageInv'
<1> SUFFICES ASSUME PageInv, [Next]_vars PROVE PageInv'
  OBVIOUS
<1>1. CASE UNCHANGED vars
  BY <1>1, PageStutters
<1>2. CASE GotSuggestions \/ GotAttributes
  BY <1>2, GotSuggestionsKeeps, GotAttributesKeeps
<1>3. ASSUME NEW l \in Loads, ServeConsents(l) \/ GotConsents(l) \/ ConsentsFail(l) PROVE PageInv'
  BY <1>3, ServeConsentsKeeps, GotConsentsKeeps
<1>4. ASSUME NEW c \in PageContexts \cup {NoFilter}, OnContextChange(c) PROVE PageInv'
  BY <1>4, OnContextChangeKeeps
<1>5. ASSUME \E x \in GroupedAttributes : ToggleGroup(x) PROVE PageInv'
  BY <1>5, ToggleGroupKeeps
<1>6. ASSUME NEW p \in PagePurposes, EnterPurpose(p) PROVE PageInv'
  BY <1>6, EnterPurposeKeeps
<1>7. CASE ConfirmExplicitly \/ Refresh
  BY <1>7, ConfirmKeeps, RefreshKeeps
<1>8. CASE GrantConsent \/ GrantAnswered
  BY <1>8, GrantConsentKeeps, GrantAnsweredKeeps
<1>9. ASSUME \E c \in activeConsents : ConfirmAndRevoke(c) PROVE PageInv'
  BY <1>9, ConfirmAndRevokeKeeps
<1>10. CASE ServeRevocation \/ RevocationDone \/ RevocationFails
  BY <1>10, ServeRevocationKeeps, RevocationEndsKeeps
<1>11. CASE Tick \/ Elsewhere
  BY <1>11, TickKeeps, ElsewhereKeeps
<1> QED
  BY <1>1, <1>2, <1>3, <1>4, <1>5, <1>6, <1>7, <1>8, <1>9, <1>10, <1>11 DEF Next

LEMMA PageInvariance == Spec => []PageInv
<1>1. Init => PageInv
  BY PageStart
<1>2. PageInv /\ [Next]_vars => PageInv'
  BY PageStep
<1> QED
  BY <1>1, <1>2, PTL DEF Spec

--------------------------------------------------------------------------------
\* The page, its requests and the registry have their types in every state: an
\* operation under way has its request, and nothing is awaited that was not sent.
THEOREM ConsentPageTyped == Spec => []TypeOK
<1>1. PageInv => TypeOK
  BY DEF PageInv
<1> QED
  BY <1>1, PageInvariance, PTL

\* Until two GETs of consents have overlapped, the list under the heading of a context
\* holds consents of that context only.
THEOREM ListIsOfItsContext == Spec => []ShownForContext
<1>1. PageInv => ShownForContext
  BY DEF PageInv, ListInv
<1> QED
  BY <1>1, PageInvariance, PTL

\* What an undisturbed loop of grants sends was confirmed with the click, and when it
\* reports success everything that was asked for is on record.
THEOREM LoopIsHonest == Spec => []GrantLoopIsHonest
<1>1. PageInv => GrantLoopIsHonest
  <2> SUFFICES ASSUME PageInv, ~disturbed
               PROVE  /\ op = "grant" =>
                           [claim |-> gform[call].claim, purpose |-> gform[call].purpose,
                            ctx |-> MiddlewareContext(gform[call].ctx)] \in asked
                      /\ op = "reload" => \A a \in asked : OnRecord(a)
    BY DEF GrantLoopIsHonest, OnRecord
  <2>1. ASSUME op = "grant"
        PROVE  [claim |-> gform[call].claim, purpose |-> gform[call].purpose,
                ctx |-> MiddlewareContext(gform[call].ctx)] \in asked
    <3>1. PICK x \in GroupedAttributes : AskedFor(x) /\ gform[call].claim = x.claim
      BY <2>1 DEF PageInv, LoopInv
    <3>2. /\ gform[call].purpose = purposeValue /\ gform[call].ctx = selectedContext
          /\ asked = {Agreement(y) : y \in {z \in GroupedAttributes : AskedFor(z)}}
      BY <2>1 DEF PageInv, LoopInv
    <3>3. Agreement(x) \in asked
      BY <3>1, <3>2
    <3> QED
      BY <3>1, <3>2, <3>3 DEF Agreement
  <2> QED
    BY <2>1 DEF PageInv, LoopInv
<1> QED
  BY <1>1, PageInvariance, PTL

\* A revocation, also one whose answer is lost, withdraws the owner's consent to the
\* claim of the entry that was clicked and, until two GETs have overlapped, in the
\* context of that entry.
THEOREM RevocationIsMeant == Spec => RevokesWhatIsShown
<1>1. PageInv /\ [Next]_vars
        => [(op = "revoke" /\ op' # op) =>
              \A r \in rows \ rows' :
                /\ r.subject = Owner /\ r.claim = call[1].claim
                /\ ~overlap => r.ctx = call[1].ctx]_<<rows, op>>
  <2> SUFFICES ASSUME PageInv, [Next]_vars, op = "revoke", op' # op, NEW r \in rows \ rows'
               PROVE  /\ r.subject = Owner /\ r.claim = call[1].claim
                      /\ ~overlap => r.ctx = call[1].ctx
    OBVIOUS
  <2>1. ServeRevocation
    <3>1. loading /\ rows' # rows
      BY DEF PageInv, TypeOK
    <3>2. ~GrantConsent /\ ~GrantAnswered /\ ~RevocationFails /\ ~RevocationDone /\ ~Elsewhere
      BY <3>1 DEF GrantConsent, GrantAnswered, RevocationFails, RevocationDone, Elsewhere,
         pageVars, opVars, registryVars, consentVars
    <3> QED
      BY <3>1, <3>2 DEF Next, vars, pageVars, opVars, registryVars, consentVars, GotSuggestions,
         GotAttributes, ServeConsents, GotConsents, ConsentsFail, FinishLoad, OnContextChange,
         ToggleGroup, EnterPurpose, ConfirmExplicitly, Refresh, ConfirmAndRevoke, Tick
  <2>2. Revoke(RevocationForm)
    BY <2>1 DEF ServeRevocation, consentVars
  <2>3. RevokeHits(RevocationForm, r)
    BY <2>2 DEF Revoke
  <2>4. call \in Shown \X PageContexts
    BY DEF PageInv, TypeOK
  <2>5. r.subject = Owner /\ r.claim = call[1].claim
        /\ (SanitizeContext(call[2]) # NoFilter => r.ctx = SanitizeContext(call[2]))
    BY <2>3 DEF RevokeHits, RevocationForm
  <2>6. ASSUME ~overlap PROVE r.ctx = call[1].ctx
    <3>1. PICK c \in PageContexts : c = call[2]
      BY <2>4
    <3>2. PICK d \in Context : r.ctx = MiddlewareContext(d)
      BY RowContext DEF PageInv
    <3>3. r.ctx = SanitizeContext(c) /\ SanitizeContext(c) = MiddlewareContext(c)
      BY <2>5, <3>1, <3>2, PageContextNames
    <3>4. call[1].ctx = MiddlewareContext(c)
      BY <2>6, <3>1 DEF PageInv, RevocationInv
    <3> QED
      BY <3>3, <3>4
  <2> QED
    BY <2>5, <2>6
<1> QED
  BY <1>1, PageInvariance, PTL DEF Spec, RevokesWhatIsShown

--------------------------------------------------------------------------------
\* The page implements the registry

\* A page's revocation names the owner, a claim and the context that was selected.
PageRevocations == [subject : {Owner}, claim : Claims, purpose : {NoFilter}, ctx : PageContexts]

\* The registry that is asked by this page, too.
Registry == INSTANCE Consent WITH RevokeForms <- RevokeForms \cup PageRevocations

LEMMA LoopMovesRegistry ==
  ASSUME PageInv, NEW gs \in Seq(Suggestion), NextGroup(gs), now' = now
  PROVE  UNCHANGED registryVars \/ \E g \in Grants, f \in GrantForms : SubmitGrant(g, f)
<1>1. ASSUME NEW i \in 1..Len(gs), NEW g \in Grants, ToBeGranted(gs[i]), purposeValue # NoFilter,
             SubmitGrant(g, PageGrant(gs[i].claim))
      PROVE  \E f \in GrantForms : SubmitGrant(g, f)
  <2>1. gs[i].claim \in Claims
    <3>1. gs[i] \in Suggestion
      BY ElementOfSeq
    <3> QED
      BY <3>1 DEF Suggestion
  <2>2. selectedAttributes # {}
    BY <1>1 DEF ToBeGranted
  <2> QED
    BY <1>1, <2>1, <2>2, PageGrantType
<1> QED
  BY <1>1, NextGroupCases DEF GrantEnds, registryVars, consentVars

\* Each step of the page is one of the registry, or none.
LEMMA PageMovesRegistry ==
  ASSUME PageInv, [Next]_vars
  PROVE  \/ UNCHANGED registryVars
         \/ ConsentTick /\ UNCHANGED consentVars
         \/ \E g \in Grants, f \in GrantForms : SubmitGrant(g, f)
         \/ \E g \in Grants : GrantStep(g) \/ GrantDbFails(g)
         \/ \E f \in RevokeForms \cup PageRevocations : Revoke(f)
<1>1. CASE UNCHANGED vars
  BY <1>1 DEF vars
<1>2. ASSUME Next, ~GrantConsent, ~GrantAnswered, ~ServeRevocation, ~Tick, ~Elsewhere
      PROVE  UNCHANGED registryVars
  BY <1>2 DEF Next, GotSuggestions, GotAttributes, ServeConsents, GotConsents, ConsentsFail,
     FinishLoad, OnContextChange, ToggleGroup, EnterPurpose, ConfirmExplicitly, Refresh,
     ConfirmAndRevoke, RevocationDone, RevocationFails
<1>3. ASSUME GrantConsent
      PROVE  UNCHANGED registryVars \/ \E g \in Grants, f \in GrantForms : SubmitGrant(g, f)
  BY <1>3, GroupsListed, LoopMovesRegistry DEF GrantConsent
<1>4. ASSUME GrantAnswered
      PROVE  UNCHANGED registryVars \/ \E g \in Grants, f \in GrantForms : SubmitGrant(g, f)
  <2>1. CASE NextGroup(groups)
    <3>1. PICK gs \in Seq(Suggestion) : gs = groups
      BY DEF PageInv, TypeOK
    <3>2. NextGroup(gs)
      BY <2>1, <3>1 DEF NextGroup
    <3> QED
      BY <1>4, <3>2, LoopMovesRegistry DEF GrantAnswered
  <2>2. CASE GrantEnds
    BY <1>4, <2>2 DEF GrantAnswered, GrantEnds, registryVars
  <2> QED
    BY <1>4, <2>1, <2>2 DEF GrantAnswered
<1>5. ASSUME ServeRevocation
      PROVE  UNCHANGED registryVars \/ \E f \in PageRevocations : Revoke(f)
  <2>1. RevocationForm \in PageRevocations
    <3>1. call \in Shown \X PageContexts
      BY <1>5 DEF ServeRevocation, PageInv, TypeOK
    <3> QED
      BY <3>1 DEF RevocationForm, PageRevocations, Shown
  <2>2. PICK f \in PageRevocations : f = RevocationForm
    BY <2>1
  <2>3. Revoke(RevocationForm) => Revoke(f)
    BY <2>2 DEF Revoke, RevokeHits
  <2> QED
    BY <1>5, <2>3 DEF ServeRevocation, registryVars
<1>6. ASSUME Tick PROVE ConsentTick /\ UNCHANGED consentVars
  BY <1>6 DEF Tick
<1>7. ASSUME Elsewhere
      PROVE  \/ \E g \in Grants, f \in GrantForms : SubmitGrant(g, f)
             \/ \E g \in Grants : GrantStep(g) \/ GrantDbFails(g)
             \/ \E f \in RevokeForms : Revoke(f)
  BY <1>7, ConsentPageAssumption DEF Elsewhere
<1> QED
  BY <1>1, <1>2, <1>3, <1>4, <1>5, <1>6, <1>7

\* Whatever its user and its answers do, the page only asks the registry for grants and
\* revocations it knows: all that is proved of the registry holds under the page.
THEOREM PageImplementsRegistry == Spec => Registry!ConsentSpec
<1>1. Init => Registry!ConsentInit
  BY DEF Init, ConsentInit, Registry!ConsentInit
<1>2. PageInv /\ [Next]_vars =>
        [Registry!ConsentNext \/ (Registry!ConsentTick /\ UNCHANGED Registry!consentVars)]_<<now,
          Registry!consentVars>>
  <2> SUFFICES ASSUME PageInv, [Next]_vars
               PROVE  \/ Registry!ConsentNext
                      \/ Registry!ConsentTick /\ UNCHANGED Registry!consentVars
                      \/ UNCHANGED <<now, Registry!consentVars>>
    OBVIOUS
  <2>1. CASE UNCHANGED registryVars
    BY <2>1 DEF registryVars, consentVars, Registry!consentVars
  <2>2. CASE ConsentTick /\ UNCHANGED consentVars
    BY <2>2 DEF ConsentTick, consentVars, Registry!ConsentTick, Registry!consentVars
  <2>3. ASSUME NEW g \in Grants, NEW f \in GrantForms, SubmitGrant(g, f)
        PROVE  Registry!ConsentNext
    BY <2>3 DEF SubmitGrant, Registry!SubmitGrant, Registry!ConsentNext
  <2>4. ASSUME NEW g \in Grants, GrantStep(g) \/ GrantDbFails(g)
        PROVE  Registry!ConsentNext
    <3>1. Blocking(g) = Registry!Blocking(g) /\ NewRow(g) = Registry!NewRow(g)
      BY DEF Blocking, Registry!Blocking, NewRow, Registry!NewRow, MiddlewareContext,
         Registry!MiddlewareContext, Lower, Registry!Lower
    <3>2. Registry!GrantStep(g) \/ Registry!GrantDbFails(g)
      BY <2>4, <3>1 DEF GrantStep, CheckDuplicate, InsertConsent, GrantDbFails, Registry!GrantStep,
         Registry!CheckDuplicate, Registry!InsertConsent, Registry!GrantDbFails
    <3> QED
      BY <3>2 DEF Registry!ConsentNext
  <2>5. ASSUME NEW f \in RevokeForms \cup PageRevocations, Revoke(f)
        PROVE  Registry!ConsentNext
    <3>1. \A r : RevokeHits(f, r) <=> Registry!RevokeHits(f, r)
      BY DEF RevokeHits, Registry!RevokeHits, SanitizeContext, Registry!SanitizeContext, Lower,
         Registry!Lower
    <3>2. Registry!Revoke(f)
      BY <2>5, <3>1 DEF Revoke, Registry!Revoke
    <3> QED
      BY <3>2 DEF Registry!ConsentNext
  <2> QED
    BY <2>1, <2>2, <2>3, <2>4, <2>5, PageMovesRegistry
<1> QED
  BY <1>1, <1>2, PageInvariance, PTL DEF Spec, Registry!ConsentSpec
================================================================================
