------------------------------ MODULE ProfilePages ------------------------------
(***************************************************************************)
(* The tabs of the profile page, over the table profiles: the overview of  *)
(* one context (profile-overview.component.ts), the form that replaces a   *)
(* row (profile-edit.component.ts), and the consents and the erasure       *)
(* request (profile-privacy.component.ts).                                 *)
(***************************************************************************)
EXTENDS Browser

CONSTANTS ProfileContexts, ProfileContext, \* all contexts, and 'profile'
          Fields, FieldValues,             \* gender, pronouns, bio and the links
          MaxListeners,                    \* bound: subscriptions of one page
          MaxHeld                          \* bound of the table

ASSUME ProfilePagesAssumption ==
  /\ ProfileContext \in ProfileContexts
  /\ None \notin FieldValues /\ MaxListeners \in Nat \ {0} /\ MaxHeld \in Nat

VARIABLES rows,             \* profiles: for each account and context a row or None
          \* overview
          selectedContext, profile, profileError, profileLoading,
          profileCalls, profileListeners,
          profileOverlap,   \* history: have requests of two loads been under way?
          profileFailed,    \* history: has one failed since?
          \* edit
          form, formContext, editLoading, editCall, saving,
          loaded,           \* history: what the form was loaded with, or None
          edited,           \* history: fields the user has changed since
          overtaken,        \* history: was its row written elsewhere since?
          \* privacy
          consentsOf,       \* the account whose consents are listed, None before any
          watchers,         \* for each subscription the account it waits for, or None
          privacyError, privacyLoading, revoking, erasingProfile

overviewVars == <<selectedContext, profile, profileError, profileLoading, profileCalls,
                  profileListeners, profileOverlap, profileFailed>>
editVars     == <<form, formContext, editLoading, editCall, saving, loaded, edited, overtaken>>
privacyVars  == <<consentsOf, watchers, privacyError, privacyLoading, revoking, erasingProfile>>
profileVars  == <<rows, overviewVars, editVars, privacyVars>>

Row      == [Fields -> FieldValues \cup {None}]
RowName  == [account : Accounts, ctx : ProfileContexts]
NoRow    == [f \in Fields |-> None]

ProfilePagesTypeOK ==
  /\ rows \in [RowName -> Row \cup {None}]
  /\ selectedContext \in ProfileContexts /\ profile \in RowName \cup {None}
  /\ profileCalls \in Seq(RowName) /\ profileListeners \in 0..MaxListeners
  /\ {profileError, profileLoading, profileOverlap, profileFailed, editLoading, privacyError,
      privacyLoading, overtaken} \subseteq BOOLEAN
  /\ form \in Row /\ formContext \in ProfileContexts
  /\ editCall \in RowName \cup {None}
  /\ saving = None \/ saving \in [name : RowName, row : Row]
  /\ loaded = None \/ loaded \in [name : RowName, row : Row]
  /\ edited \subseteq Fields
  /\ consentsOf \in Accounts \cup {None} /\ watchers \in Seq(Accounts \cup {None})
  /\ revoking \in Accounts \cup {None} /\ erasingProfile \in Accounts \cup {None}

\* Every account is a user; a page is created while one is connected.
ProfilePagesInit ==
  /\ \E r \in FieldValues, n \in [Accounts -> BOOLEAN] :
       rows = [m \in RowName |-> IF n[m.account] /\ m.ctx = ProfileContext
                                  THEN [f \in Fields |-> r] ELSE None]
  /\ selectedContext = ProfileContext /\ profile = None
  /\ profileError = (address = None) /\ profileLoading = (address # None)
  /\ profileCalls = IF address = None THEN <<>>
                    ELSE <<[account |-> address, ctx |-> ProfileContext]>>
  /\ profileListeners = 1 /\ profileOverlap = FALSE /\ profileFailed = FALSE
  /\ form = NoRow /\ formContext = ProfileContext /\ editLoading = (address # None)
  /\ editCall = IF address = None THEN None ELSE [account |-> address, ctx |-> ProfileContext]
  /\ saving = None /\ loaded = None /\ edited = {} /\ overtaken = FALSE
  /\ consentsOf = None /\ watchers = <<address>>
  /\ privacyError = (address = None) /\ privacyLoading = (address # None)
  /\ revoking = None /\ erasingProfile = None

--------------------------------------------------------------------------------
\* The overview

\* n requests for the selected context, one of each listener.
Ask(n, a, c) ==
  /\ Len(profileCalls) + n <= MaxCalls
  /\ profileCalls' = profileCalls \o [k \in 1..n |-> [account |-> a, ctx |-> c]]
  /\ profileFailed' = FALSE

\* Seeded bug: the profile of before stays until the answer comes.
LoadProfile_KeepsProfile(c) ==
  /\ profileListeners < MaxListeners /\ profileListeners' = profileListeners + 1
  /\ UNCHANGED profile
  /\ selectedContext' = c /\ profileOverlap' = (profileCalls # <<>>)
  /\ IF address = None
       THEN profileError' = TRUE /\ profileLoading' = FALSE /\ UNCHANGED <<profileCalls, profileFailed>>
       ELSE profileError' = FALSE /\ profileLoading' = TRUE /\ Ask(1, address, c)

\* loadProfile: another listener of the address, which hears of it at once.
LoadProfile(c) ==
  /\ profileListeners < MaxListeners /\ profileListeners' = profileListeners + 1
  /\ profile' = None
  /\ selectedContext' = c /\ profileOverlap' = (profileCalls # <<>>)
  /\ IF address = None
       THEN profileError' = TRUE /\ profileLoading' = FALSE /\ UNCHANGED <<profileCalls, profileFailed>>
       ELSE profileError' = FALSE /\ profileLoading' = TRUE /\ Ask(1, address, c)

\* A context is chosen, or the profile loaded again.
ChooseProfileContext(c) ==
  /\ LoadProfile(c)
  /\ UNCHANGED <<address, rows, editVars, privacyVars>>

\* The answer; a row that is not there is an error like any other.
GotProfile(i) ==
  /\ \/ /\ rows[profileCalls[i]] # None
        /\ profile' = profileCalls[i]
        /\ UNCHANGED <<profileError, profileFailed>>
     \/ /\ NetMayFail \/ rows[profileCalls[i]] = None
        /\ profileError' = TRUE /\ profileFailed' = TRUE
        /\ UNCHANGED profile
  /\ profileLoading' = FALSE
  /\ Taken(profileCalls, i)
  /\ UNCHANGED <<address, rows, selectedContext, profileListeners, profileOverlap, editVars,
                 privacyVars>>

\* The listeners of the overview hear of an address: without one it is an error, and
\* the profile stays.
OverviewAddress(a) ==
  /\ address' = a
  /\ profileOverlap' = (profileOverlap \/ profileCalls # <<>>)
  /\ IF a = None THEN profileError' = TRUE /\ profileLoading' = FALSE
                      /\ UNCHANGED <<profileCalls, profileFailed>>
                 ELSE Ask(profileListeners, a, selectedContext)
                      /\ UNCHANGED <<profileError, profileLoading>>
  /\ UNCHANGED <<rows, selectedContext, profile, profileListeners, editVars, privacyVars>>

--------------------------------------------------------------------------------
\* The form

\* The browser goes to the overview; when the tab is chosen again it has a new form.
NewForm ==
  /\ form' = NoRow /\ formContext' = ProfileContext /\ editLoading' = (address # None)
  /\ editCall' = IF address = None THEN None ELSE [account |-> address, ctx |-> ProfileContext]
  /\ loaded' = None /\ edited' = {} /\ overtaken' = FALSE

\* cancel; the request of a form that is left is of no use.
Cancel ==
  /\ ~editLoading /\ saving = None
  /\ NewForm
  /\ UNCHANGED <<address, rows, saving, overviewVars, privacyVars>>

\* Seeded bug: a field is not filled in.
PatchValue_Forgets(r) == [r EXCEPT ![CHOOSE f \in Fields : TRUE] = None]

PatchValue(r) == r

\* loadCurrentProfile, of the account that was connected when the page was created; what
\* cannot be loaded leaves the form empty, as what is not there.
GotForm ==
  /\ editCall # None
  /\ \/ /\ rows[editCall] # None
        /\ form' = PatchValue(rows[editCall]) /\ formContext' = editCall.ctx
        /\ loaded' = [name |-> editCall, row |-> rows[editCall]]
     \/ /\ NetMayFail \/ rows[editCall] = None
        /\ UNCHANGED <<form, formContext, loaded>>
  /\ editLoading' = FALSE /\ editCall' = None
  /\ UNCHANGED <<address, rows, saving, edited, overtaken, overviewVars, privacyVars>>

\* The form is shown to a connected wallet when it has loaded.
EditField(f, v) ==
  /\ ~editLoading /\ address # None
  /\ form' = [form EXCEPT ![f] = v] /\ edited' = edited \cup {f}
  /\ UNCHANGED <<address, rows, formContext, editLoading, editCall, saving, loaded, overtaken,
                 overviewVars, privacyVars>>

EditContext(c) ==
  /\ ~editLoading /\ address # None
  /\ formContext' = c
  /\ UNCHANGED <<address, rows, form, editLoading, editCall, saving, loaded, edited, overtaken,
                 overviewVars, privacyVars>>

\* onSubmit: every field, for whoever is connected by now.
Submit ==
  /\ ~editLoading /\ saving = None /\ address # None
  /\ saving' = [name |-> [account |-> address, ctx |-> formContext], row |-> form]
  /\ UNCHANGED <<address, rows, form, formContext, editLoading, editCall, loaded, edited, overtaken,
                 overviewVars, privacyVars>>

\* upsertDbProfile: all fields of the row are replaced.
Upsert(m, r) ==
  /\ rows' = [rows EXCEPT ![m] = r]
  /\ Cardinality({o \in RowName : rows'[o] # None}) <= MaxHeld

\* The answer; the browser goes on to the overview.
Upserted ==
  /\ saving # None
  /\ Upsert(saving.name, saving.row)
  /\ saving' = None
  /\ NewForm
  /\ UNCHANGED <<address, overviewVars, privacyVars>>

\* An error, or an answer that is lost: the row may be replaced all the same.
SaveFails ==
  /\ saving # None /\ NetMayFail
  /\ Upsert(saving.name, saving.row) \/ UNCHANGED rows
  /\ saving' = None
  /\ UNCHANGED <<address, form, formContext, editLoading, editCall, loaded, edited, overtaken,
                 overviewVars, privacyVars>>

EditAddress(a) == address' = a /\ UNCHANGED profileVars

--------------------------------------------------------------------------------
\* The privacy tab

\* loadConsents: another subscription, which hears of the address at once.
LoadConsents ==
  /\ Len(watchers) < MaxListeners
  /\ watchers' = Append(watchers, address)
  /\ privacyError' = (address = None) /\ privacyLoading' = (address # None)
  /\ UNCHANGED consentsOf

\* The page's buttons: "Refresh" and "Retry".
RefreshConsents ==
  /\ LoadConsents
  /\ UNCHANGED <<address, rows, revoking, erasingProfile, overviewVars, editVars>>

\* Seeded bug: a request that waits is not given up for the next.
Switched_Merges(a) == [i \in DOMAIN watchers |-> IF watchers[i] = None THEN a ELSE watchers[i]]

\* switchMap: each subscription gives its request up for the next one.
Switched(a) == [i \in DOMAIN watchers |-> a]

PrivacyAddress(a) ==
  /\ address' = a
  /\ watchers' = Switched(a)
  /\ IF a = None THEN privacyError' = TRUE /\ privacyLoading' = FALSE
                 ELSE UNCHANGED <<privacyError, privacyLoading>>
  /\ UNCHANGED <<rows, consentsOf, revoking, erasingProfile, overviewVars, editVars>>

GotConsents(i) ==
  /\ watchers[i] # None
  /\ consentsOf' = watchers[i] /\ privacyLoading' = FALSE
  /\ watchers' = [watchers EXCEPT ![i] = None]
  /\ UNCHANGED <<address, rows, privacyError, revoking, erasingProfile, overviewVars, editVars>>

\* An error ends the subscription.
ConsentsFail(i) ==
  /\ NetMayFail /\ watchers[i] # None
  /\ privacyError' = TRUE /\ privacyLoading' = FALSE
  /\ watchers' = RemoveAt(watchers, i)
  /\ UNCHANGED <<address, rows, consentsOf, revoking, erasingProfile, overviewVars, editVars>>

\* The list is shown: nothing loads, no error stands, a wallet is connected.
ListShown == ~privacyLoading /\ ~privacyError /\ address # None /\ consentsOf # None

\* revokeConsent, for whoever is connected; success loads the list again.
Revoke ==
  /\ ListShown /\ revoking = None
  /\ revoking' = address
  /\ UNCHANGED <<address, rows, consentsOf, watchers, privacyError, privacyLoading, erasingProfile,
                 overviewVars, editVars>>

Revoked ==
  /\ revoking # None /\ revoking' = None
  /\ \/ LoadConsents
     \/ UNCHANGED <<consentsOf, watchers, privacyError, privacyLoading>>
  /\ UNCHANGED <<address, rows, erasingProfile, overviewVars, editVars>>

\* requestErasure, up to the request.
RequestErasure ==
  /\ ~privacyLoading /\ ~privacyError /\ address # None /\ erasingProfile = None
  /\ erasingProfile' = address
  /\ UNCHANGED <<address, rows, consentsOf, watchers, privacyError, privacyLoading, revoking,
                 overviewVars, editVars>>

\* The answer: the rows are deleted, or the server has caught that they are not; the
\* transaction in it is never signed.
ErasureSubmitted ==
  /\ erasingProfile # None /\ erasingProfile' = None
  /\ rows' \in {rows, [m \in RowName |-> IF m.account = erasingProfile THEN None ELSE rows[m]]}
  /\ UNCHANGED <<address, consentsOf, watchers, privacyError, privacyLoading, revoking,
                 overviewVars, editVars>>

--------------------------------------------------------------------------------
OverviewNext ==
  \/ \E c \in ProfileContexts : ChooseProfileContext(c)
  \/ \E i \in DOMAIN profileCalls : GotProfile(i)
  \/ \E a \in Accounts \cup {None} : a # address /\ OverviewAddress(a)

EditNext ==
  \/ GotForm \/ Cancel \/ Submit \/ Upserted \/ SaveFails
  \/ \E f \in Fields, v \in FieldValues \cup {None} : EditField(f, v)
  \/ \E c \in ProfileContexts : c # formContext /\ EditContext(c)
  \/ \E a \in Accounts \cup {None} : a # address /\ EditAddress(a)

PrivacyNext ==
  \/ RefreshConsents \/ Revoke \/ Revoked \/ RequestErasure \/ ErasureSubmitted
  \/ \E i \in DOMAIN watchers : GotConsents(i) \/ ConsentsFail(i)
  \/ \E a \in Accounts \cup {None} : a # address /\ PrivacyAddress(a)

\* What other tabs and devices do to the table meanwhile.
RowElsewhere(m, r) ==
  /\ Upsert(m, r)
  /\ overtaken' = (overtaken \/ (loaded # None /\ loaded.name = m))
  /\ UNCHANGED <<address, form, formContext, editLoading, editCall, saving, loaded, edited,
                 overviewVars, privacyVars>>

--------------------------------------------------------------------------------
\* Properties

\* The overview shows the profile of the selected context, and of the connected account,
\* although each load leaves a listener behind that asks again with every address.
\* Overlapping requests of two loads may leave another context, and a request that fails
\* after a change of account leaves the profile of the account before.
OverviewIsOfContext ==
  (profile # None /\ profileCalls = <<>> /\ ~profileOverlap /\ address # None) =>
    /\ profile.ctx = selectedContext
    /\ ~profileFailed => profile.account = address

\* The consents that are listed are the connected account's, over any changes of
\* account, retries and reloads after revocations.
ConsentsAreOfAccount ==
  (ListShown /\ \A i \in DOMAIN watchers : watchers[i] = None) => consentsOf = address

\* "Profile updated": every field of the row is replaced, but a form that was loaded for
\* it changes only the fields that the user has edited: of what was loaded in any case, and
\* of what is in the row by then, over saves whose answer is lost, unless the row was
\* written elsewhere in the meantime: that write is then lost as a whole.  A form whose
\* profile could not be loaded, or that is saved for another account or context than it was
\* loaded for, replaces whatever is there.
SaveKeepsTheRest ==
  (saving # None /\ loaded # None /\ saving.name = loaded.name) =>
    \A f \in Fields :
      /\ saving.row[f] # loaded.row[f] => f \in edited
      /\ ~overtaken /\ saving.row[f] # rows[saving.name][f] => f \in edited
================================================================================
