------------------------------- MODULE ConsentPage -------------------------------
(***************************************************************************)
(* The consent page of the wallet application (consent.component.ts) on    *)
(* top of the consent registry: the user chooses a context, ticks groups   *)
(* of attributes, enters a purpose and grants, or revokes a consent of the *)
(* list, while answers come in any order, and another tab of the same      *)
(* account does the same.  Every action is the code between two awaits.    *)
(***************************************************************************)
EXTENDS Consent, SequencesExt

CONSTANTS Owner,        \* the connected account
          PageContexts, \* contexts of ContextService
          PagePurposes, \* what the user types as purpose
          Attributes,   \* attribute names
          Linked,       \* suggestions from the profile's credentials
          Anchored,     \* common claim ids with a hash in the registry
          Identity,     \* the context "identity"
          Lifetime,     \* a consent holds for 30 days
          OtherGrants,  \* bodies of the other tab's grants
          Loads,        \* GETs of the active consents, each used once
          NetMayFail    \* may a call fail or its answer be lost?

VARIABLES selectedContext, selectedAttributes, purposeValue, explicitConsent,
          suggestedClaims,  \* NoFilter until the answer has come
          activeConsents,   \* the list that is shown
          loading,          \* a grant or a revocation is under way
          loadingConsents, loadingAttributes,
          attributeCalls,   \* GETs of the profile under way
          lpc, lctx, lrows, \* stage, context and answer of a GET of consents
          op,               \* what the running operation waits for
          call,             \* the request it has sent
          groups,           \* groups the loop has not come to
          asked,            \* history: what the last click agreed to
          disturbed,        \* history: has form, list or time changed under the loop?
          overlap           \* history: have two GETs of consents run at a time?

formVars  == <<selectedContext, selectedAttributes, purposeValue, explicitConsent>>
listVars  == <<activeConsents, loadingConsents, lpc, lctx, lrows, overlap>>
attrVars  == <<loadingAttributes, attributeCalls>>
opVars    == <<loading, op, call, groups>>
askVars   == <<asked, disturbed>>
pageVars  == <<formVars, suggestedClaims, listVars, attrVars, opVars, askVars>>
registryVars == <<now, consentVars>>
vars         == <<registryVars, pageVars>>

Suggestion == [claim : Claims, ctx : Context, attrs : SUBSET (Attributes \cup Claims)]
Shown      == [claim : Claims, purpose : Purpose, ctx : Context, expires : Nat \cup {Never}]
Agreed     == [claim : Claims, purpose : Purpose, ctx : Context]
Operations == {"none", "grant", "reload", "revoke", "hit", "miss"}

\* The bodies the page sends are among those of Consent; and no name that
\* ContextService offers has a blank or no letters (ContextsMeet in Contexts).
ASSUME ConsentPageAssumption ==
  /\ Owner \in Subjects
  /\ PageContexts \subseteq {c \in Context : c.mark \notin {"blank", "foreign"}}
  /\ PagePurposes \subseteq Purpose
  /\ [subject : {Owner}, claim : Claims, purpose : PagePurposes, ctx : PageContexts,
      expires : Lifetime..(MaxTime + Lifetime)] \subseteq GrantForms
  /\ Linked \subseteq Suggestion /\ IsFiniteSet(Linked)
  /\ \A x, y \in Linked : x.claim = y.claim => x = y
  /\ Anchored \subseteq Claims /\ IsFiniteSet(Anchored)
  /\ Identity \in Context
  /\ Lifetime \in Nat
  /\ OtherGrants \subseteq GrantForms
  /\ NetMayFail \in BOOLEAN

TypeOK ==
  /\ ConsentTypeOK
  /\ selectedContext \in PageContexts \cup {NoFilter}
  /\ selectedAttributes \subseteq Attributes \cup Claims
  /\ purposeValue \in Purpose \cup {NoFilter}
  /\ explicitConsent \in BOOLEAN
  /\ suggestedClaims = NoFilter \/ suggestedClaims \subseteq Suggestion
  /\ activeConsents \subseteq Shown
  /\ loading \in BOOLEAN /\ loadingConsents \in BOOLEAN /\ loadingAttributes \in BOOLEAN
  /\ disturbed \in BOOLEAN /\ overlap \in BOOLEAN
  /\ attributeCalls \in Nat
  /\ lpc \in [Loads -> {"idle", "sent", "served", "done"}]
  /\ op \in Operations
  /\ op # "none" => loading
  /\ op = "grant" => call \in Grants /\ gpc[call] # "idle"
  /\ op = "reload" => call \in Loads /\ lpc[call] \in {"sent", "served"}
  /\ op \in {"revoke", "hit", "miss"} => call \in Shown \X PageContexts
  /\ groups \in Seq(Suggestion)
  /\ asked \subseteq Agreed

Init ==
  /\ ConsentInit
  /\ selectedContext = NoFilter /\ selectedAttributes = {}
  /\ purposeValue = NoFilter /\ explicitConsent = FALSE
  /\ suggestedClaims = NoFilter
  /\ activeConsents = {} /\ loadingConsents = FALSE /\ overlap = FALSE
  /\ lpc = [l \in Loads |-> "idle"]
  /\ lctx = [l \in Loads |-> NoFilter]
  /\ lrows = [l \in Loads |-> {}]
  /\ loadingAttributes = FALSE /\ attributeCalls = 0
  /\ loading = FALSE /\ op = "none" /\ call = NoFilter /\ groups = <<>>
  /\ asked = {} /\ disturbed = FALSE

--------------------------------------------------------------------------------
\* What the page computes from its state.

\* getSuggestableClaims, one suggestion per claim id: credentials of the profile
\* that can be fetched, then anchored claims, then the claims of old consents
\* (the newest row of a claim, which one is left open).
FetchedLinks == IF NetMayFail THEN SUBSET Linked ELSE {Linked}

WithAnchored(L) ==
  L \cup {[claim |-> c, ctx |-> Identity, attrs |-> {c}] : c \in Anchored \ {x.claim : x \in L}}

OldClaims(K) == {r.claim : r \in {x \in rows : x.subject = Owner}} \ {x.claim : x \in K}

OldRows(C) ==
  {h \in [C -> rows] : \A c \in C : h[c].claim = c /\ h[c].subject = Owner}

WithOld(K) ==
  {K \cup {[claim |-> c, ctx |-> h[c].ctx, attrs |-> {c}] : c \in OldClaims(K)} :
     h \in OldRows(OldClaims(K))}

Suggestable == UNION {WithOld(WithAnchored(L)) : L \in FetchedLinks}

\* One group per suggestion of the selected context.
GroupedAttributes ==
  IF suggestedClaims = NoFilter \/ selectedContext = NoFilter THEN {}
  ELSE {x \in suggestedClaims : Lower(x.ctx) = Lower(selectedContext)}

ClaimIdsCovering(attr) == {x.claim : x \in {y \in suggestedClaims : attr \in y.attrs}} \cup {attr}

HasActiveConsent(attr) ==
  \E c \in activeConsents : /\ Lower(c.ctx) = Lower(selectedContext)
                            /\ c.expires = Never \/ c.expires > now
                            /\ c.claim \in ClaimIdsCovering(attr)

HasGroupConsent(x) == \A attr \in x.attrs : HasActiveConsent(attr)
IsGroupSelected(x) == x.attrs \subseteq selectedAttributes

\* Seeded bug: groups are not compared with the selection.
ToBeGranted_All(x) == ~HasGroupConsent(x)

\* The loop takes a group as soon as one of its attributes is selected.
ToBeGranted(x) == x.attrs \cap selectedAttributes # {} /\ ~HasGroupConsent(x)

\* What a click asks for: the groups the loop would take at that moment.
AskedFor(x) == x.attrs \cap selectedAttributes # {} /\ ~HasGroupConsent(x)

Agreement(x) == [claim |-> x.claim, purpose |-> purposeValue, ctx |-> MiddlewareContext(selectedContext)]

--------------------------------------------------------------------------------
\* Loading

\* The history variables speak of the running grant.
Forget == asked' = {} /\ disturbed' = FALSE
Disturb == disturbed' = (disturbed \/ op = "grant")

LoadsInFlight == {l \in Loads : lpc[l] \in {"sent", "served"}}

\* loadActiveConsents, up to the request.
LoadActiveConsents(l, ctx) ==
  /\ lpc[l] = "idle"
  /\ lpc' = [lpc EXCEPT ![l] = "sent"]
  /\ lctx' = [lctx EXCEPT ![l] = ctx]
  /\ loadingConsents' = TRUE
  /\ activeConsents' = {}
  /\ overlap' = (overlap \/ LoadsInFlight # {})
  /\ UNCHANGED lrows

\* loadAttributesForContext, up to the request.
LoadAttributes == loadingAttributes' = TRUE /\ attributeCalls' = attributeCalls + 1

\* loadSuggestions
GotSuggestions ==
  /\ suggestedClaims = NoFilter
  /\ \/ suggestedClaims' \in Suggestable
     \/ (NetMayFail \/ DbMayFail) /\ suggestedClaims' = {}
  /\ UNCHANGED <<registryVars, formVars, listVars, attrVars, opVars, askVars>>

\* The profile of the context, or the error: either ends the spinner.
GotAttributes ==
  /\ attributeCalls > 0
  /\ attributeCalls' = attributeCalls - 1
  /\ loadingAttributes' = FALSE
  /\ UNCHANGED <<registryVars, formVars, suggestedClaims, listVars, opVars, askVars>>

\* The backend answers a GET with the rows of that moment.
ServeConsents(l) ==
  /\ lpc[l] = "sent"
  /\ lpc' = [lpc EXCEPT ![l] = "served"]
  /\ lrows' = [lrows EXCEPT ![l] =
        {[claim |-> r.claim, purpose |-> r.purpose, ctx |-> r.ctx, expires |-> r.expires] :
           r \in ActiveConsents(Owner, lctx[l])}]
  /\ UNCHANGED <<registryVars, formVars, suggestedClaims, activeConsents, lctx,
                 loadingConsents, overlap, attrVars, opVars, askVars>>

\* After the list has come, or could not be fetched, a grant that waits for it
\* resets the form and ends.
FinishLoad(l, shown) ==
  /\ lpc' = [lpc EXCEPT ![l] = "done"]
  /\ lctx' = [lctx EXCEPT ![l] = NoFilter] /\ lrows' = [lrows EXCEPT ![l] = {}]
  /\ activeConsents' = shown
  /\ loadingConsents' = FALSE
  /\ IF op = "reload" /\ call = l
       THEN /\ selectedAttributes' = {} /\ purposeValue' = NoFilter
            /\ explicitConsent' = FALSE
            /\ LoadAttributes
            /\ loading' = FALSE /\ op' = "none" /\ call' = NoFilter
            /\ Forget
       ELSE /\ Disturb
            /\ UNCHANGED <<selectedAttributes, purposeValue, explicitConsent, attrVars,
                           loading, op, call, asked>>
  /\ UNCHANGED <<registryVars, selectedContext, suggestedClaims, overlap, groups>>

\* Whatever context is selected by now.
GotConsents(l) == lpc[l] = "served" /\ FinishLoad(l, lrows[l])

ConsentsFail(l) ==
  /\ NetMayFail \/ DbMayFail
  /\ l \in LoadsInFlight
  /\ FinishLoad(l, {})

--------------------------------------------------------------------------------
\* The form

\* Seeded bug: choosing a context leaves the old list and asks for no new one.
OnContextChange_KeepsList(c) ==
  /\ ~loadingAttributes /\ c # selectedContext
  /\ selectedContext' = c
  /\ selectedAttributes' = {} /\ purposeValue' = NoFilter /\ explicitConsent' = FALSE
  /\ Disturb
  /\ UNCHANGED <<registryVars, suggestedClaims, listVars, attrVars, opVars, asked>>

\* onContextChange; the field is disabled while the attributes load.
OnContextChange(c) ==
  /\ ~loadingAttributes /\ c # selectedContext
  /\ selectedContext' = c
  /\ selectedAttributes' = {} /\ purposeValue' = NoFilter /\ explicitConsent' = FALSE
  /\ Disturb
  /\ \/ /\ c = NoFilter
        /\ activeConsents' = {}
        /\ UNCHANGED <<loadingConsents, lpc, lctx, lrows, overlap, attrVars>>
     \/ /\ c # NoFilter
        /\ LoadAttributes
        /\ \E l \in Loads : LoadActiveConsents(l, c)
  /\ UNCHANGED <<registryVars, suggestedClaims, opVars, asked>>

\* toggleGroup
ToggleGroup(x) ==
  /\ ~loadingAttributes /\ x \in GroupedAttributes /\ ~HasGroupConsent(x)
  /\ selectedAttributes' = IF IsGroupSelected(x) THEN selectedAttributes \ x.attrs
                           ELSE selectedAttributes \cup {a \in x.attrs : ~HasActiveConsent(a)}
  /\ Disturb
  /\ UNCHANGED <<registryVars, selectedContext, purposeValue, explicitConsent, suggestedClaims,
                 listVars, attrVars, opVars, asked>>

\* The card with purpose and confirmation is shown while something is selected.
EnterPurpose(p) ==
  /\ selectedAttributes # {} /\ purposeValue # p
  /\ purposeValue' = p
  /\ Disturb
  /\ UNCHANGED <<registryVars, selectedContext, selectedAttributes, explicitConsent, suggestedClaims,
                 listVars, attrVars, opVars, asked>>

ConfirmExplicitly ==
  /\ selectedAttributes # {}
  /\ explicitConsent' = ~explicitConsent
  /\ UNCHANGED <<registryVars, selectedContext, selectedAttributes, purposeValue, suggestedClaims,
                 listVars, attrVars, opVars, askVars>>

\* The button beside the heading.
Refresh ==
  /\ selectedContext # NoFilter /\ ~loadingConsents
  /\ \E l \in Loads : LoadActiveConsents(l, selectedContext)
  /\ Disturb
  /\ UNCHANGED <<registryVars, formVars, suggestedClaims, attrVars, opVars, asked>>

--------------------------------------------------------------------------------
\* grantConsent

\* The catch block: the form and the list stay as they are.
GrantEnds ==
  /\ op' = "none" /\ loading' = FALSE /\ call' = NoFilter /\ groups' = <<>>
  /\ UNCHANGED <<consentVars, listVars>>

\* The body of a grant of the page.
PageGrant(claim) == [subject |-> Owner, claim |-> claim, purpose |-> purposeValue,
                     ctx |-> selectedContext, expires |-> now + Lifetime]

\* From the head of the loop to the next request: the next group of gs that is
\* selected, with the purpose and the context the form has by now, or, when there
\* is none, the list of consents.  An empty purpose is answered with 400.
NextGroup(gs) ==
  LET Next == {i \in 1..Len(gs) : ToBeGranted(gs[i])}
  IN  \/ /\ Next = {}
         /\ op' = "reload" /\ groups' = <<>> /\ loading' = TRUE
         /\ \E l \in Loads : LoadActiveConsents(l, selectedContext) /\ call' = l
         /\ UNCHANGED consentVars
      \/ Next # {} /\ purposeValue = NoFilter /\ GrantEnds
      \/ /\ purposeValue # NoFilter
         /\ op' = "grant" /\ loading' = TRUE
         /\ \E i \in Next, g \in Grants :
              /\ \A j \in Next : i <= j
              /\ groups' = SubSeq(gs, i + 1, Len(gs))
              /\ SubmitGrant(g, PageGrant(gs[i].claim))
              /\ call' = g
         /\ UNCHANGED listVars

\* The button; the groups are sorted by a date of issue that is left open.
GrantConsent ==
  /\ ~loading /\ explicitConsent /\ purposeValue # NoFilter /\ selectedAttributes # {}
  /\ asked' = {Agreement(x) : x \in {y \in GroupedAttributes : AskedFor(y)}}
  /\ disturbed' = FALSE
  /\ \E gs \in SetToSeqs(GroupedAttributes) : NextGroup(gs)
  /\ UNCHANGED <<now, formVars, suggestedClaims, attrVars>>

\* Seeded bug: a group that fails is passed over.
GrantAnswered_GoesOn ==
  /\ op = "grant" /\ gpc[call] \in GrantAnswers
  /\ NextGroup(groups)
  /\ UNCHANGED <<now, formVars, suggestedClaims, attrVars, askVars>>

GrantAnswered ==
  /\ op = "grant"
  /\ \/ gpc[call] = "granted" /\ NextGroup(groups) /\ UNCHANGED askVars
     \/ /\ gpc[call] \in {"conflict", "error"} \/ NetMayFail
        /\ GrantEnds /\ Forget
  /\ UNCHANGED <<now, formVars, suggestedClaims, attrVars>>

--------------------------------------------------------------------------------
\* confirmAndRevoke

\* Seeded bug: the page does not mark itself as busy.
ConfirmAndRevoke_NotBusy(c) ==
  /\ ~loading /\ ~loadingConsents /\ c \in activeConsents /\ selectedContext # NoFilter
  /\ op' = "revoke" /\ call' = <<c, selectedContext>>
  /\ UNCHANGED <<registryVars, formVars, suggestedClaims, listVars, attrVars, loading, groups,
                 askVars>>

\* A consent of the list, and the selected context whatever the consent's own is.
ConfirmAndRevoke(c) ==
  /\ ~loading /\ ~loadingConsents /\ c \in activeConsents /\ selectedContext # NoFilter
  /\ loading' = TRUE /\ op' = "revoke" /\ call' = <<c, selectedContext>>
  /\ UNCHANGED <<registryVars, formVars, suggestedClaims, listVars, attrVars, groups, askVars>>

\* Seeded bug: the context is not sent.
RevocationForm_NoContext ==
  [subject |-> Owner, claim |-> call[1].claim, purpose |-> NoFilter, ctx |-> NoFilter]

RevocationForm ==
  [subject |-> Owner, claim |-> call[1].claim, purpose |-> NoFilter, ctx |-> call[2]]

\* A failure may come after the effect: the UPDATE is committed and its answer lost.
ServeRevocation ==
  /\ op = "revoke"
  /\ \/ /\ Revoke(RevocationForm)
        /\ op' \in {"hit"} \cup IF DbMayFail THEN {"miss"} ELSE {}
     \/ /\ DbMayFail \/ ~\E r \in rows : RevokeHits(RevocationForm, r)
        /\ op' = "miss"
        /\ UNCHANGED consentVars
  /\ UNCHANGED <<now, formVars, suggestedClaims, listVars, attrVars, loading, call, groups, askVars>>

\* next and complete: every entry of the claim leaves the list.
RevocationDone ==
  /\ op = "hit"
  /\ activeConsents' = {c \in activeConsents : c.claim # call[1].claim}
  /\ loading' = FALSE /\ op' = "none" /\ call' = NoFilter
  /\ UNCHANGED <<registryVars, formVars, suggestedClaims, loadingConsents, lpc, lctx, lrows,
                 overlap, attrVars, groups, askVars>>

\* error: complete is not called, so loading stays set until the page is left.
RevocationFails ==
  /\ op = "miss" \/ (NetMayFail /\ op \in {"revoke", "hit"})
  /\ op' = "none" /\ call' = NoFilter
  /\ UNCHANGED <<registryVars, formVars, suggestedClaims, listVars, attrVars, loading, groups, askVars>>

--------------------------------------------------------------------------------
\* The registry's own steps, and another tab of the same account.
Tick ==
  /\ ConsentTick /\ Disturb
  /\ UNCHANGED <<consentVars, formVars, suggestedClaims, listVars, attrVars, opVars, asked>>

Elsewhere ==
  /\ \/ \E g \in Grants : GrantStep(g) \/ GrantDbFails(g)
     \/ \E g \in Grants, f \in OtherGrants : SubmitGrant(g, f)
     \/ \E f \in RevokeForms : Revoke(f)
  /\ UNCHANGED pageVars

Next ==
  \/ GotSuggestions \/ GotAttributes
  \/ \E l \in Loads : ServeConsents(l) \/ GotConsents(l) \/ ConsentsFail(l)
  \/ \E c \in PageContexts \cup {NoFilter} : OnContextChange(c)
  \/ \E x \in GroupedAttributes : ToggleGroup(x)
  \/ \E p \in PagePurposes : EnterPurpose(p)
  \/ ConfirmExplicitly \/ Refresh
  \/ GrantConsent \/ GrantAnswered
  \/ \E c \in activeConsents : ConfirmAndRevoke(c)
  \/ ServeRevocation \/ RevocationDone \/ RevocationFails
  \/ Tick \/ Elsewhere

Spec == Init /\ [][Next]_vars

--------------------------------------------------------------------------------
\* Properties

\* "Active Consents for {{ selectedContext() }}": however a grant's reload, the
\* refresh button and the choice of a context follow each other, the list holds
\* consents of the selected context only, as long as no two GETs have overlapped;
\* after that a late answer may put the consents of the context left under the
\* heading of the new one.
ShownForContext ==
  (~overlap /\ selectedContext # NoFilter) =>
    \A c \in activeConsents : c.ctx = MiddlewareContext(selectedContext)

\* A click on "Revoke" withdraws the owner's consent to that claim in the context
\* of the entry and no other, whatever was granted, revoked or selected since;
\* after overlapping GETs it may be the consent of another context.
RevokesWhatIsShown ==
  [][(op = "revoke" /\ op' # op) =>
       \A r \in rows \ rows' :
         /\ r.subject = Owner /\ r.claim = call[1].claim
         /\ ~overlap => r.ctx = call[1].ctx]_<<rows, op>>

\* What the page records is what its user has confirmed: claim, purpose and
\* context were on the form when "Grant Consent" was clicked; and "Consent granted
\* successfully!" is told only when each consent that was asked for is on record,
\* although they are sent one by one and a failure in the middle ends the loop.
\* When form or list change while the loop is running it goes on with the new values.
GrantLoopIsHonest ==
  ~disturbed =>
    /\ op = "grant" =>
         [claim |-> gform[call].claim, purpose |-> gform[call].purpose,
          ctx |-> MiddlewareContext(gform[call].ctx)] \in asked
    /\ op = "reload" =>
         \A a \in asked : \E r \in rows :
           /\ r.subject = Owner
           /\ [claim |-> r.claim, purpose |-> r.purpose, ctx |-> r.ctx] = a
================================================================================
