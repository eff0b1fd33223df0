# PIMV: a verification development in TLA+

PIMV (Personal Identity Management Vault) lets a person keep a profile and
verifiable credentials (VCs) on IPFS, anchor them in a registry contract, and
disclose single claims to verifiers under consents that can be withdrawn. This
directory holds TLA+ modules of its backend, its contracts and the part of the
wallet application that drives them, TLC configurations that check them, and
proofs that TLAPS checks. Paths below are relative to the repository.

## 1. The system

| Part | Code | State it keeps | Operations |
| --- | --- | --- | --- |
| Registry | `backend/contracts/IdentityRegistryMeta.sol` | one profile CID and a table of claim hashes per address | `registerIdentity`, `setProfileCID`, `setClaim`, `removeClaim`; all but the first name an owner and are `onlySelf` |
| Forwarder | `backend/contracts/Forwarder.sol` (OpenZeppelin `ERC2771Forwarder`) | a nonce per signer | `verify`, `execute` |
| Gasless relay | `backend/src/controllers/metaTxController.js`, `frontend/.../services/metaTx.service.ts` | `TxQueue`, a chain of promises in memory; the relayer's transactions | sign a forward request, `POST /meta/relay` |
| Sign-in | `backend/src/controllers/authController.js`, `backend/middleware/auth.js` | tables `nonces`, `users`, `login_audit`; JWTs held by clients | challenge, verify, bearer check of every API request |
| Consent registry | `backend/src/controllers/consentController.js`, `backend/middleware/context.js` | table `consents` with the partial unique index `uniq_active_consent` | grant, revoke, list, suggest |
| Selective disclosure | `verifyVC` in `backend/src/controllers/vcController.js` | table `disclosures` | verify credentials against profile, signature, context and consent |
| Profiles and erasure | `profileController.js`, `gdprController.js`, `didController.js`, `issueSignedVC`, `utils/pinata.js`, `utils/contract.js` | the CID in the registry, documents on IPFS and their pins, table `profiles` | create or merge, issue a VC, erase (two handlers), register a DID, upsert |
| Browser session | `wallet.service.ts`, `auth.service.ts`, `role.guard.ts`, `app.routes.ts`, `login.component.ts` in `frontend/src/app` (Angular) | provider, signer and address; token and role; the page and the navigation under way | connect, disconnect, sign in, log out, navigate |
| Encrypted store and settings | `storage.service.ts`, the settings of `vault.component.ts` | a key in memory, IndexedDB, the fields of the page | derive the key, load, save, clear |
| Vault status and erasure page | `profile-state.service.ts`, `vault.component.ts`, `gdpr.component.ts` | global flags, a marker in `sessionStorage` | check, create, refresh, erase |
| Consent page | `consent.component.ts` | context, ticks, purpose, the list of consents | choose, tick, grant one by one, revoke, refresh |
| Contexts | `context.service.ts`, `contexts.component.ts`, the field on the credentials page | the list of contexts, the groups shown | add, select, load |
| Verifier page | `verifier.component.ts` | a form with one row per credential, the verifier's trail | suggest, fill in, submit, list |
| Disclosure history | `disclosureController.js`, `disclosures.component.ts` | table `disclosures`; filter, page and total | list, export, filter, turn pages |
| Profile tabs | `pages/profile/*` | one subscription per load; the edit form | show, edit, list and revoke consents, ask for an erasure |
| Advanced tools | `advanced.component.ts` | one result under one heading | resolve a DID, verify a credential |
| The flows behind them | `credentials.component.ts`, `vault.component.ts`, `gdpr.component.ts`, `metaTx.service.ts` | the requests under way | call the API, sign requests and transactions, wait and fall back |

### How the parts interact

* The pages call the API over HTTP with a JWT from sign-in. What goes on chain
  is signed by the user's wallet (`HYBRID_MODE`), as a relayed forward request
  or as a transaction of its own; without that mode the backend signs with its
  own key.
* The registry is the only state that several handlers share across accounts:
  profile handlers and `verifyVC` read the slot over JSON-RPC, the relay and the
  wallets write it. The documents behind it are content-addressed and never
  change; only whether they stay pinned does.
* In the browser, `AuthService` subscribes to the wallet's address: without one it
  ends the session and asks the router for the login page. The guard reads token
  and role when the router gets there.
* The consent table is written by its controller and read by `verifyVC`, which
  writes `disclosures`. The erasure handlers write there too, and the disclosure
  history and the verifier's trail read it.
* The pages share the wallet's address, the flags of `ProfileStateService`, the list
  of contexts and the key of the store; all of these outlive a page, and some of a
  page's subscriptions do, too.

### What makes it hard

* **Interleaving.** Every handler is asynchronous: between two `await`s the Node
  process runs other handlers, so each SQL statement, JSON-RPC request and IPFS
  request is a point at which everything else may happen. Nothing in the backend
  uses a database transaction. The queue of the relay is the only lock.
* **Volatile state.** That queue lives in memory; a restart forgets it while
  broadcast transactions stay in the mempool.
* **Failure after effect.** `tx.wait()` may reject for a transaction that will be
  mined; a statement may be committed and its answer lost; a loop may fail after it has logged; a document may be unpinned for an
  erasure that never reaches the chain.
* **Several writes for one operation.** Issuing a credential is an upload, a
  second upload, a claim on chain and a slot on chain; erasing is an unpin, an
  upload, two statements and a slot.
* **Stale reads.** A nonce, a slot, a consent and a duplicate check are read at
  one await and used at a later one.
* **Answers out of order.** A page may wait for several answers of one kind, and
  puts each one where it belongs by what is selected when it comes. Few pages give
  up a request for the next one.
* **State that outlives its owner.** The store's key, the vault's flags and the
  erasure marker are one for the whole tab, whichever account is connected.
* **Pages of a growing table.** An offset means another row after each insertion,
  and the total is counted by a statement of its own.
* **Two normalisations.** Contexts pass through `contextMiddleware` when they are
  granted and through `sanitizeContext` when they are revoked.

`PROJECT.json` lists these hazards at their lines with the properties that cover
them.

### What makes each part correct

* Registry and relay: the registry changes only as an owner authorised; a signed
  request takes effect at most once; answers tell the truth; every call is
  answered; the relayer has one transaction in flight that is still waited for.
* Sign-in: a nonce that was used lets nobody in again; one row per address; every
  session leaves a trace; a fresh challenge is not refused without a cause. That a
  bad signature is refused is promised, and not so.
* Consent: one unrevoked consent per subject, claim and context; truthful
  answers; no history lost. That a revocation hits the context it names is promised,
  and holds for the names the pages offer but two kinds.
* Disclosure: nothing without a consent and a listing that were in force; what is
  returned is logged; the check and the consent page agree on what is in force.
* Profiles: what a profile shows was posted by its owner or is anchored and validates;
  an issuance keeps the other credentials of the profile it was built from; the current
  document stays pinned until an erasure; success is only reported for a write on chain.
  That a creation merges and that an erasure is logged after its write are promised,
  and hold for a backend that signs.
* Browser session: the wallet is there or not as a whole; a session is that of
  the account for which its login was started; a guarded page belongs to a session of
  its role.
* Pages: what is shown belongs to the selection and, where the page listens to the
  address or loads again, to the account; what is sent means to the API what the page
  has shown; what is saved stays, and stays its owner's; an erased vault is not called
  active; a consent that is told to be granted is on record as it was confirmed, and a
  revocation hits the entry that was clicked. Each of these has windows, which section 3
  lists.

## 2. Modules

| Module | Models | Uses |
| --- | --- | --- |
| `IdentityRegistry` | the contract: two mappings, `onlySelf`, the write functions | |
| `AuthorizedWrites` | abstract specification: signed requests, each applied at most once per nonce, and an owner's own transactions | `IdentityRegistry` |
| `Relay` | wallet signature, relay handler, `TxQueue`, mempool, forwarder, registry; implements `AuthorizedWrites` | `IdentityRegistry`, `AuthorizedWrites` |
| `Auth` | challenge, verify, bearer check, three tables | |
| `ContextNames` | what a context's name is, and both normalisations | |
| `Consent` | grant and revoke, table `consents` | `ContextNames` |
| `ConsentedDisclosure` | abstract specification of disclosure: a claim is released at a moment at which a consent is in force, of an entry listed since the request, and recorded before the answer | |
| `Disclosure` | `verifyVC` composed with the consent registry and owners who rewrite their profile; implements `ConsentedDisclosure` | `Consent`, `ConsentedDisclosure` |
| `Profile` | every flow that writes a profile slot, with IPFS, pins and database, composed with the registry | `IdentityRegistry` |
| `Session` | `WalletService`, `AuthService`, router and guard in the browser | |
| `ConsentPage` | the consent page over the consent registry | `Consent` |
| `Browser` | the connected account, calls that are answered in any order | |
| `DisclosureLog` | table `disclosures` and the statements that read it | |
| `History`, `Contexts`, `VerifierPage`, `Tools`, `Settings`, `Vault`, `ProfilePages` | one page, or a few that share their state | `Browser`; `ContextNames`, `DisclosureLog` |
| `Pages` | those pages, each in a tab, and what other tabs do to their tables | the seven above |
| `MC...` | instances for TLC: owners, CIDs, request bodies | the module each is named after |
| `Relay_proofs`, `Auth_proofs`, `Consent_proofs`, `Disclosure_proofs`, `Profile_proofs`, `Session_proofs`, `ConsentPage_proofs`, `Pages_proofs` | theorems and proofs | the module each is named after, TLAPS |

Conventions. One action is the stretch of handler code between two awaits; where
an await only reads something immutable (a document by its CID) it is merged with
the one before. A running request has a stage `pc` whose last value is its
answer. Request bodies are model values and records from small sets. A
definition with an underscore in its name (`Settle_FailureBlocks`) is a seeded
bug: it stands before the definition it would replace and no specification uses
it; `PROJECT.json` says which property fails when it takes that definition's
place.

### Relay

| Code | Definition |
| --- | --- |
| `buildAndSignMetaTx` | `SignRequest` |
| `signAndSendTransaction` | `DirectTx` |
| `relayMetaTx`, up to `recoverSigner` / up to `forwarder.verify` and `enqueue` | `RecoverSigner`, `VerifyOnChain` |
| the queued task: `execute`, `tx.wait()` | `Broadcast`, `EstimateFails`, `GetReceipt`, `RpcFails` |
| `TxQueue` | `queue`, `IsRunning`, `Settle` |
| process restart | `Crash` |
| block production, the forwarder | `MineSuccess`, `MineRevert`, `ForwarderVerify`, `ForwarderExecute` |

Requests may be posted any number of times. `execute` estimates gas first, which
simulates the call: a request that would revert is not broadcast, one that
becomes invalid while in the mempool is mined as a revert. `MineSuccess` is where
the refinement applies the request. `abandoned` is history: the calls whose transaction
was in flight when the wait for it was rejected (`RpcFails`) or cut off (`Crash`).

### Auth

One action per SQL statement of `verifySignature` (`CheckNonce`, `DeleteNonce`,
`LookupUser`, `InsertUser`, `UpdateUser`, `AuditLogin`), `IssueToken` for the
JWT, `Authenticate` and `AuditRequest` for the middleware. The handler reads
nonce, address and expiry from its tables and goes on when
`siweMessage.verify` throws: whether a signature is good (`signed`) is part of the
request and decides nothing. A statement fails without effect (`DbFails`,
`AuditRequestFails`) or takes effect and loses its answer (`Returns`). `replay`
is a history variable: was the nonce already deleted when this request arrived?

### Consent and Disclosure

A context is a word with its capitals and the marks that the conversions
treat differently (a single or a double hyphen, a blank, no letter of a-z, more than
255 characters, and the first 255 of such a name); the conversions
are `MiddlewareContext` and `SanitizeContext` of `ContextNames`. A grant is `SubmitGrant`,
`CheckDuplicate`, `InsertConsent`, whose 500 may come before or behind the commit
(`GrantDbFails` is the former); a revocation is one UPDATE, `Revoke`. In
`Disclosure` a verify request goes through pointer, profile, and for each entry
listing, credential, consent and log row. `dead` and `offered` are history: which
consents were not in force when the request arrived, and what the profile has
listed since. `ActiveConsents` is the answer of `getActiveConsents`, and
`ShownConsents` what the consent page makes of it: that handler returns expired
rows too, and the page drops them. For `ConsentedDisclosure` a claim is released by
`CheckConsent` (`disclosed`), recorded by `LogDisclosure`, and the steps that only read are
not visible: `InForce`, `Listing`, `Asking`, `Recorded` and `Standing` are what it sees.

### Profile

A session is one run of a flow in browser and backend. It uploads at most one
profile document, so the CID names the session; the credential an issuance
uploads is `CredentialOf` that session. `hybrid` is the signing mode. A relayed
write is what `AuthorizedWrites` allows: `sent` until it is mined (`Mine`), at any
later time, also after the relay answered with an error. The vault page's
fallback posts a new request, which is a session of its own; the credential
page's fallback re-sends the claim (`DirectClaim`). A document is reduced to
whether it is a tombstone and which credentials it lists: an issuance replaces the
one of its claim, and a creation appends those of its body (`Bodies`) as they are, for
which nothing checks an anchor. `posted` is history: what bodies have brought.

The handlers that only read are operators: `GetProfile` (the credentials that
`GET /api/profile/:address` shows, of every context), `ValidateRawVC` (the
comparison of a credential's hash with the registry) and `ResolveDID`. They read
the slot once and then an immutable document, so one state decides their answer.

### Session

| Code | Definition |
| --- | --- |
| `connect`: up to `getSigner`, up to the chain switch, the rest | `StartConnect`, `GotSigner`, `Connected`, `ConnectFails` |
| `disconnect` and the subscription of `AuthService` | `Reset`, `Emit`, `Disconnect` |
| `signIn`, `login`: up to its first await, the challenge, the token | `SignInEnabled`, `StartLogin`, `GotChallenge`, `GotToken`, `LoginFails` |
| `redirectByRole`, `logout` | `RedirectByRole`, `Logout` |
| `roleGuard`, the router | `Guard`, `Navigate`, `Activate` |

A callback of the browser runs to its next await; a BehaviorSubject calls its
subscribers inside `next`, so `Emit` is part of whatever moves the address. A new
navigation cancels the one under way. The server's answer to a login is what
`Auth` grants: a token for the address of the challenge, whoever signed
it. `localStorage.auth_token` is written and never read, and left out. `by`,
`moved` and `overlap` are history.

### ConsentPage

The page's steps stand beside those of `Consent`, which it extends, so that the
rows it lists, grants and revokes are those of the registry, and another tab of
the same account works on them at the same time.

| Code | Definition |
| --- | --- |
| `getSuggestableClaims`: credentials, anchored claims, old consents | `Suggestable` from `FetchedLinks`, `WithAnchored`, `WithOld` |
| `groupedAttributes` | `GroupedAttributes` |
| `loadSuggestions`, `loadAttributesForContext`, `loadActiveConsents` | `GotSuggestions`, `LoadAttributes`, `GotAttributes`, `LoadActiveConsents`, `ServeConsents`, `GotConsents`, `ConsentsFail` |
| `onContextChange`, `toggleGroup`, the purpose, the confirmation | `OnContextChange`, `ToggleGroup`, `EnterPurpose`, `ConfirmExplicitly` |
| `hasActiveConsent`, `isGroupSelected` | `HasActiveConsent`, `HasGroupConsent`, `IsGroupSelected` |
| `grantConsent`, each turn of its loop | `GrantConsent`, `NextGroup`, `PageGrant`, `GrantAnswered`, `GrantEnds` |
| `confirmAndRevoke` | `ConfirmAndRevoke`, `ServeRevocation`, `RevocationDone`, `RevocationFails` |

`op` says which operation keeps the page's `loading` set. A GET is served and
arrives in two steps, so that what it carries may be old. `asked`, `disturbed` and
`overlap` are history: what a click on "Grant Consent" asked for, whether form or
list changed while the loop ran, and whether two GETs were under way together.

### Pages

A page's component lives as long as the page is shown, so `page` is chosen in
`PagesInit`, from the set `Followed`, and followed; `Elsewhere` are the rows that other
tabs and users insert meanwhile, and the rows of profiles that they save or erase
while one is shown or edited. `Vault` has pages of its own, because its subscriptions outlive
them. A call is sent, perhaps served, and answered or lost; the calls of one kind
are a sequence, any of which may be answered next (`Sent`, `Taken`).

| Module | Code and definitions |
| --- | --- |
| `DisclosureLog` | the four statements of `disclosureController.js`: `SelectPage`, `CountRows`, `ExportFor`, `SelectByVerifier`; the INSERT of `verifyVC`: `InsertRow`. A page of the table is the rows whose rank from the newest (`Newer`) lies in it |
| `History` | `loadDisclosures`, `applyFilter`, `nextPage`, `prevPage`; the page's two statements are two steps |
| `Contexts` | `ContextService`, `loadContext` (of an account and a context), `onContextChange`, the refresh button (`RefreshContext`), both `addContext`s; `ContextsAddress` is a change of account, to which the page does not listen |
| `VerifierPage` | rows of the form, `autoFillCid`, the CID as it is typed (`TypeCid`), the validators, `submit`; `loadVerifierAuditTrail` |
| `Tools` | `resolve`, `verify` |
| `Settings` | `initEncryption`, `encrypt`, `decrypt`, transactions of IndexedDB (`StartPut`, `Commit`) that may be aborted (`ReadFails`, `PutFails`), the settings of the vault page; `Reload` of the tab, `NextDay` |
| `Vault` | `setProfileStatus`, `checkProfile`, the marker `erasedDid`, `createProfile`, `erase`, `ngOnInit` up to its first await and after (`VisitVault`, `VaultOpened`), the page left in between (`OrphanOpened`) |
| `ProfilePages` | the overview's listeners (`LoadProfile`, `OverviewAddress`), the form (`GotForm`, `Submit`, `Upserted`, or `SaveFails` before or behind the effect), the row as another tab writes it (`RowElsewhere`), the privacy tab with its `switchMap`s (`LoadConsents`, `PrivacyAddress`) |

A key of the store is the account and the day whose signature it is derived from,
and AES-GCM a tag: an entry opens with the key it was sealed with. The history
variables (`listOverlap`, `due`, `seen`, `contextOverlap`, `contextMoved`, `crossed`,
`typedCids`, `auditStale`, `crossTool`, `crossPut`, `rejected`, `unread`, `late`, `orphan`,
`profileOverlap`, `profileFailed`, `overtaken`) tell the windows in which a page does show or keep something else; each property names
its own as an exception, and the text below lists them.

## 3. What is checked

The run `pages` takes about three minutes on two workers, `relay_faults` about two, the
others a minute or less.

| Run | Shows |
| --- | --- |
| `relay_faults` | with repeated and raced requests, a failing node and a restart: `AtMostOnce`, `AnswersAreTruthful`, `FailureMeansNoEffect` (what makes the pages' fallback safe, except behind an abandoned wait), `OneAwaitedInFlight`, `EveryCallAnswered`, and the refinement `ImplementsAuthorizedWrites` |
| `relay_queue_finding` | counterexample: the second transaction in flight after `tx.wait()` rejects |
| `auth_races` | `ReplayRefused`, `OneUserPerAddress`, `RefusedForCause`, `EveryUseIsAudited`, `EveryAttemptAnswered` |
| `auth_nonce_finding` | counterexample: one nonce, two tokens |
| `auth_signature_finding` | counterexample: a token for a signature that does not verify |
| `consent_expired_finding` | counterexample: an expired consent blocks its renewal |
| `disclosure_races` | `NoDisclosureAfterRevocation`, `OnlyOfferedIsDisclosed`, `ConsentIsFound`; the refinement `ImplementsConsentedDisclosure`, which asks that an answered claim is logged, and for a consent in force at the moment of the check, where `NoDisclosureAfterRevocation` asks for one in force when the request arrived or given since; of the registry under the same steps `OneActiveConsent`, `GrantAnswersAreTruthful`, `ConsentHistoryKept` |
| `profile_lifecycle` | `AnchoredBeforeListed`, `CredentialsKept`, `PinnedUntilErased`, `DoneIsOnChain` |
| `profile_erased_finding` | counterexample: a profile prepared over a tombstone |
| `session_races` | `WalletIsWhole`, `SessionIsOfWallet`, `PageHasItsRole` |
| `consent_page` | `ShownForContext`, `GrantLoopIsHonest`, `RevokesWhatIsShown` |
| `pages` | every page of `Pages`: `ShowsWhatIsSelected`, `SendsWhatIsMeant`, `SavedIsKept`, each a conjunction of what the parts promise, and `ErasedIsNotActive` |

Each passing run also checks the module's type invariant.

### The findings

1. `metaTxController.js:26` promises that each transaction waits until the
   previous one is mined. A task settles as soon as `tx.wait()` rejects, mined or
   not. `OneAwaitedInFlight` is what does hold: at most one of the transactions in
   flight is one whose wait was not given up.
2. `authController.js:157` calls the nonce single-use. The SELECT and the DELETE
   are two statements and the number of deleted rows is not read, so two requests
   that pass the SELECT together both sign in. `ReplayRefused` is what does hold:
   a request that arrives after the DELETE gets nothing.
3. `consentController.js:68` answers "Active consent already exists" for consents
   that have expired, which `verifyVC` and the consent page ignore. Renewal needs
   a revocation first.
4. `profileController.js:142` refuses to recreate an erased profile. In hybrid
   mode it looks at the CID the client names, and the vault page names none. The
   page's own check does not help: `api.service.ts` replaces the 410 by an error
   without a status, so `checkProfile` never takes the erased branch
   (`vault.component.ts:1552`).
5. `authController.js:124` says of a bad signature that the message "will fail later
   checks", and `auth.test.js:143` is called "should reject invalid signature" while it
   expects 200. No later check looks at the signature; the challenge is all that a
   sign-in needs. `RefusedForCause` says which refusals there are.

### Further disagreements

The models have these behaviours too, each against a text of the repository; no run is
kept for them.

* `consentController.js:106` says that a context must filter a revocation; it is compared
  in another spelling than the stored one (`consentController.js:124` against
  `contextMiddleware`), or dropped altogether when nothing of it is left, and then
  the claim is revoked in every context. `ContextsMeet` says which names are safe: what
  the pages offer but two kinds, see below.
* `consent.component.ts:281` heads the list with the selected context. Two GETs may be
  answered in the other order, and the list then holds consents of the context left.
  `ShownForContext` is what holds until two have overlapped.
* `auth.service.ts:68` says that a wallet's disconnection forces a logout. During a login
  there is nothing to log out yet ("Switch Wallet" stays on the page while the
  signature is asked for), and the token that comes afterwards is stored without a
  wallet, or with another one. `SessionIsOfWallet` says that this is the only way to it.
* `profileController.js:405-406` anchors the tombstone before it logs the erasure. In
  hybrid mode the handler deletes the rows and logs the erasure when it has only
  prepared the transaction, and the row stays when the wallet never signs it, as the
  privacy tab never does.
* `profileController.js:81` and `:88` promise that a creation is merged with the profile
  there is. In hybrid mode it is merged with the document the request names, and no
  code of the frontend names one; in both modes a document that cannot be fetched
  counts as empty.
* `contexts.component.ts:41` and `:173` say that custom contexts are stored under
  "profile". They are stored under their own names.
* `schema.sql:286` calls `disclosures` an audit log of disclosures, while a verify request
  that fails at a later entry leaves rows of claims that were not returned; "audit log"
  can be read either way.

Behaviours that the models have and no text of the repository contradicts: two
issuances built from one profile lose the first one's entry (a lost update; the
claim stays anchored); an issuance whose profile could not be fetched builds on an
empty one; a creation lists the credentials of its body un-anchored (`profile.test.js:96`
posts one); `POST /api/did/register` replaces a profile by a DID document; the
fallback of the credential page anchors the claim and leaves the profile as it
was; an erasure that is never signed has already deleted rows and unpinned the
document; a grant that answers 500 may have stored its consent; earlier versions of a profile, and credentials after
`DELETE /api/profile/erase`, stay pinned.

Of the pages, the windows that the properties name as exceptions:

* Answers of two requests under way together stay in the order in which they come:
  the consents, the attributes, the trail, the profile or the history page of a
  selection that was left are shown under the new one; the two advanced tools swap
  their results. Where nothing overlaps the pages are right, and the privacy tab,
  which uses `switchMap`, is right anyway.
* A request that fails often leaves what was shown before: the history page goes
  on saying that it loads and has moved its offset, the overview and the trail keep
  the account before, the consent page keeps `loading` set after a failed
  revocation (`consent.component.ts:1614`) until it is left.
* The loop of grants takes a group when one of its attributes is ticked
  (`consent.component.ts:1472`), goes on with the form's new values when it is
  edited meanwhile, and ends at the first failure with the groups before granted
  and no success told.
* The contexts page does not listen to the address: after a change of account it shows
  the attributes of the account before, until a context is loaded again by a choice
  or by its refresh button.
* `autoFillCid` writes to the last row of the form, whichever row the claim is
  chosen in, and is called again for the option that is left. A CID that is typed
  goes out as it is.
* A context with a double hyphen, which only the credentials page lets through, and one
  of more than 255 characters, which only `contextMiddleware` cuts, are stored under
  another name than they are listed, revoked and verified by.
* The store's key stays when another account is connected, until a reload: the
  second account reads what the first one saved, and saves under its key. Without
  a key a setting is read as ciphertext or stored as plain text. When a transaction
  is aborted the page says "storage error" and the field goes on showing what was
  typed and is not stored.
* A form whose profile failed to load, or that is saved after the account or the
  context changed, replaces the whole row; and one whose row another tab has saved or
  erased since it was loaded overwrites that.
* A vault page that is left while it waits for the key subscribes afterwards, and
  takes the erasure marker away; a check or a creation under way when the erasure
  ends sets the flag again. The erasure page says "Already Erased" for whatever
  account left the marker.
* The vault page says that uploads will use the user's Pinata account and saves the
  token in IndexedDB; `api.service.ts:44`, `:55` and `:84` read it from
  `localStorage`, where no code of the application writes it.
* The privacy tab's request for an erasure is answered with a transaction that is
  never signed.

### Bounds

* Relay: two owners, one of whom may sign a write to the other's slot
  (`WalletCalls`); three calls, so that the queue has a middle, two signed requests,
  one restart, and one tick of the clock that passes the deadlines of what was signed
  before it. The finding about the queue needs two calls and no restart. Two
  requests over one nonce and one request posted twice are both in reach, which
  are the ways to apply something twice.
* Auth: two attempts over two challenges, two addresses and two roles: every race
  in the handler is between two requests. One API request, a clock past both
  lifetimes.
* Disclosure: one verify request of two entries and three grants, in two spellings
  of a context and one of them with an expiry, so that a third may arrive while two
  race, and revocations of one claim. Requests share nothing but the
  append-only log, so a second one adds no behaviour. The finding on expired
  consents needs one claim, two grants and one tick.
* Profile: any two flows and an erasure, two claims, both modes, and bodies with a
  credential nobody has anchored or without. The third
  session is the one whose steps, unpinning and two statements, others trip over.
* Session: two connections, two logins, two accounts, two roles and pages of every
  kind (public, of one role, of both). Disconnections, logouts, account switches
  and navigations are not bounded.
* Consent page: two groups that share an attribute and a claim elsewhere, two
  contexts, two grants and two lists under way (which are alike, so TLC treats them as
  symmetric), one tick of the clock, and grants and revocations of another tab. A
  loop of two groups is the shortest that can fail midway.
* Pages: two accounts (symmetric; each is the other's verifier) and two calls of
  each kind, which is what an overlap takes; two rows in the log with one per
  page, two rows in the form, two listeners, two days, one
  setting with two values (both settings go through the same code; the values are alike,
  and so are the two fields of the edit form), six ways
  of writing a context, and one CID that is typed. Behaviours are not followed beyond a
  state in which the race of the form's CIDs (`crossed`) or of the erasure (`late`) has
  happened (`Telling` of `MCPages`): these variables are never reset, and nothing is
  promised of the form or of the vault behind them.
* `MaxTime`, `MaxSigned` and `MaxCrashes`, and of the pages `MaxCalls`, `MaxLog`,
  `MaxFormLog`, `MaxRows`, `MaxDay`, `MaxListeners` and `MaxHeld`, are guards of the
  actions they bound.
  The proofs hold for all their values.

Deadlock is not checked in modules whose sessions and requests are finitely many
and simply end; in `Relay` signing and direct writes never end and it is.

### Fairness

`Relay` assumes that handler continuations run (the event loop: while some
handler can go on, one does) and that the chain mines what is at the head of the
mempool; nothing is assumed of wallets,
of failures or of restarts. `Auth` assumes that queries are answered. These are
what Node, PostgreSQL and the chain provide. The other modules state safety only
and assume none: what a user does next and whether an answer ever comes is open, and
several pages do go on waiting after an error.

## 4. What is proved

TLAPS checks every theorem below for all values of the constants that satisfy
the named assumptions of the modules (numbers are natural, bodies come from
their types, model values differ from ordinary ones); the one that needs a hypothesis of
its own, `ShownIsFound` about the contexts, says so.

| Theorem | States |
| --- | --- |
| `Relay_proofs!TypeCorrect`, `AppliedAtMostOnce`, `TruthfulAnswers` | `TypeOK`, `AtMostOnce`, `AnswersAreTruthful` |
| `Relay_proofs!RelayImplements` | the refinement of `AuthorizedWrites` |
| `Relay_proofs!OneAtATime`, `FailedHasNoEffect` | `OneAwaitedInFlight`, `FailureMeansNoEffect` |
| `Auth_proofs!TypeCorrect`, `ReplaysRefused`, `UsersUnique`, `RefusalsHaveACause`, `UsesAreAudited` | `TypeOK`, `ReplayRefused`, `OneUserPerAddress`, `RefusedForCause`, `EveryUseIsAudited` |
| `Consent_proofs!ConsentTypeCorrect`, `ActiveConsentIsUnique`, `TruthfulGrants`, `HistoryKept` | `ConsentTypeOK`, `OneActiveConsent`, `GrantAnswersAreTruthful`, `ConsentHistoryKept` |
| `Disclosure_proofs!DisclosureTypeCorrect`, `ReturnedClaimsAreLogged`, `RevokedOpensNothing`, `UnlistedIsNotDisclosed` | `TypeOK`, `ReturnedIsLogged` (what an answer of `ConsentedDisclosure` says of every reachable state), `NoDisclosureAfterRevocation`, `OnlyOfferedIsDisclosed` |
| `Disclosure_proofs!ShownIsFound` | `ConsentIsFound`, for requests whose context is written as the verifier page writes it |
| `Disclosure_proofs!DisclosureImplementsPromise` | the refinement of `ConsentedDisclosure` |
| `Disclosure_proofs!DisclosureKeepsConsent` | every behaviour of `Disclosure` is one of `Consent`, so the theorems about the registry hold in it |
| `Profile_proofs!TypeCorrect`, `ListedIsAnchored`, `SaidIsDone`, `ErasureUnpins`, `IssuanceKeepsOthers` | `TypeOK`, `AnchoredBeforeListed`, `DoneIsOnChain`, `PinnedUntilErased`, `CredentialsKept` |
| `Session_proofs!TypeCorrect`, `WalletStaysWhole`, `SessionFollowsWallet`, `PagesKeepTheirRole` | `TypeOK`, `WalletIsWhole`, `SessionIsOfWallet`, `PageHasItsRole` |
| `ConsentPage_proofs!ConsentPageTyped`, `ListIsOfItsContext`, `LoopIsHonest`, `RevocationIsMeant` | `TypeOK`, `ShownForContext`, `GrantLoopIsHonest`, `RevokesWhatIsShown` |
| `ConsentPage_proofs!PageImplementsRegistry` | every behaviour of `ConsentPage` is one of `Consent` whose revocations include the page's |
| `Pages_proofs!PagesTyped`, `PagesShowWhatIsSelected`, `PagesSendWhatIsMeant`, `PagesKeepWhatIsSaved`, `PagesShowTheErasure` | `PagesTypeOK`, `ShowsWhatIsSelected`, `SendsWhatIsMeant`, `SavedIsKept`, `ErasedIsNotActive` |

* **Relay.** `AtMostOnce` is not inductive: that a request about to be mined was
  not applied before follows from its nonce being the forwarder's next one, while
  every applied request has a smaller nonce. `RelayInv` adds exactly that
  (`NoncePassed`), that a pending transaction has no receipt and is pending once
  (`PendingOnce`), that nothing is sent before a task broadcasts (`NotSent`), that
  calls carry signed requests and that success rests on a receipt. Most actions
  touch neither receipts nor mempool: they are `QuietStep`s and keep the
  invariant by one lemma; broadcasting and mining have lemmas of their own. The
  refinement maps `used` to the request ids with a good receipt; a quiet step is
  a stutter, a signature or a direct write, mining is `Apply`. A pending
  transaction belongs to the task that runs and waits for it or is abandoned
  (`PendingRuns`), so the next task starts with nothing in flight that is waited for,
  and a task that failed without being abandoned has nothing left to be mined
  (`FailedIsOver`).
* **Auth.** `ReplayInv` says that a nonce past its DELETE is gone for good and
  that a request which arrived after that never gets beyond the SELECT;
  `UserInv` that behind the users statements the row exists and is the only one.
  `CauseInv`: a nonce belongs to one challenge, and a challenge waits in the table or
  a request has taken it or has failed (`TakenOrWaiting`). `AuditInv` counts, for an address and a
  role, the tokens, the requests served and the sign-ins that have their audit row
  but not yet their token: together never more than the rows.
* **Consent.** `ConsentInv` ties each row to the grant whose id it has and to its
  body; a grant that answered 500 may have its row, so what a 200 and a 409 leave behind
  are conjuncts of their own (`GrantedIsStored`, `ConflictHasCause`). A revocation maps
  every row to its revoked form, an insertion adds one
  row that no unrevoked row agrees with; each is one lemma.
* **Disclosure.** A step either leaves the consents alone or is one of the
  registry's, so `ConsentInv` carries over. `DisclosureInv` adds that a grant has at
  most one row (`OneRowPerGrant`), and of each request that its consents that were
  not in force stay so (`DeadStaysDead`: no step unrevokes a row or sets the clock
  back), that the credential it read was listed at some time since it was sent
  (`ReadWasOffered`), that a logged row rests on such a credential and on a consent
  that was alive (`LogIsBacked`), and that what is collected is logged
  (`CollectedIsLogged`). The properties are about the log and the answer; without
  these they say nothing of a request that is halfway through. In the refinement of
  `ConsentedDisclosure` the check releases (its consent is one of `InForce`, its entry is offered by
  `ReadWasOffered`), the log step records what was released, an answer finds all of it
  recorded (`CollectedIsLogged`), a profile write is a new listing, whatever else moves the
  registry or the clock changes what is in force, and the rest stutters.
* **Profile.** Most steps are a `Move` of one session to a stage, with a base and a
  document; what a move may do is said once, each action is shown to be one, and the
  invariants are proved for moves, starts and mining. `StageInv` says what a stage has
  behind it: the document is uploaded before it is signed for, the claim is mined before
  the profile that lists it is signed, an outcome rests on a mined write. `DataInv`
  says what follows for the data: a slot, and so a base, names a document that was
  mined there (`SlotsInstalled`, `BasesInstalled`); an entry was posted by the owner, was anchored or is the
  session's own (`EntriesExplained`); a claim once anchored has one of its
  issuances on chain (`ChainFollows`); what is unpinned was the base of an erasure
  (`UnpinnedByErasure`).
* **Session.** The three properties speak of moments when nothing is under way;
  their invariants say what holds in between. `WalletInv`: a signer that differs
  from the address shown belongs to a connection that waits for the network.
  `OwnerInv`: while a login runs whose wallet has not moved no connection is under
  way, so the account that is asked to sign is the one the challenge is for; and so
  after it. `PageInv`: without overlap a login runs alone and without
  a session, so its failure ends none. Moves of the address share one step
  (`Emit`).

* **`ConsentIsFound`.** A row is the body of its grant (`StoredBody`), so a context that is
  kept without hyphens is compared as `normalizeContext` leaves it, and a consent on
  record for what a request claims is one of `ActiveConsents`. The theorem asks that
  every context of `VerifyForms` is some context normalised, because the server
  compares the body's as it is. That is how the verifier page writes it: its
  `disclosureContext` is always one normalised (`FormInv` of `Pages_proofs`). The hypothesis
  is needed: for a body in capitals, which no page sends, TLC finds a consent that is missed.
* **Consent page.** `PageInv` is the registry's `ConsentInv` with four parts. `FormInv`:
  nothing is ticked without a context, and rows and suggestions are finite, so
  the loop lists every group. `ListInv`: without overlap the GETs under way, their answers
  and the list are of the selected context. Rows are stored under the context without a double
  hyphen but looked up with it; so for a name that has one the answer is empty, and for
  every other the two agree (`PageContextNames`). The assumption on `PageContexts`, no blank and
  no letters other than a-z, is what `ContextsMeet` shows of the list the page offers. `RevocationInv`: the entry that is revoked is of the
  context sent with it. `LoopInv`: until something disturbs the loop, each group
  that was asked for is still ahead, has the claim of the request under way, or is on
  record. Whatever a step does to the registry is a `RegistryMove`, and no such move loses
  an agreement from the record (`RegistryKept`). The refinement adds the
  page's revocation bodies to those of `Consent`; the other steps stutter.
* **Pages.** `PagesInv` joins the type invariants with one invariant for each page; a step
  of one page leaves the parts of the others as they are (`OthersStay`). Calls under way are sequences; what
  removing one leaves is stated once (`RemoveAtType`, `RemoveAtKeeps`, `RemoveAtApart`,
  `RemoveAtLeaves`). *History*: `WalkInv`, that between two pages every row of the first
  page's time that ranks before the end of this page has been seen (`WalkRests`), and
  that a request under way brings the next ones (`WalkGoesOn`); the rank of a row among
  the matching ones only grows as rows are added, and no two share one (`NewerGrows`,
  `NewerApart`), and with that a full page moves the walk by `Limit`. *Settings*:
  `StoreInv` (what is sealed is what was put), `VisitInv` (one signature awaited per visit,
  then one setting after the other), `FieldsInv` (a field shows what is
  being put, else what is stored, else what a failed put has left there: `Saving`, `rejected`). *Vault*: after an erasure without a race the marker
  is there or has done its work, and no check is under way. *Contexts*: a
  name in the list is in lower case and has a double hyphen only if the credentials page
  added it; and without overlap a call under way is for the selected context, and for
  the connected account unless that has changed since.
  *Edit form*: what was not edited is as it was loaded, and so is the row unless it was
  overtaken, also behind saves whose answer was lost (`EditInv`).
  *Verifier*, *tools*, *profile tabs*: an invariant each, about what is under way for what is
  selected.

Only model-checked are the two liveness properties, `EveryCallAnswered` and
`EveryAttemptAnswered`: their proof needs ENABLED of the fair actions. Every invariant
and action property of a passing run has a theorem.

## 5. What is not modelled

* Rendering, the wording of dialogs, tooltips and alerts, copying to the
  clipboard, the layout of the CSV file, the attribute form of the credentials page.
* Handlers that only read and decide nothing else: `verifyDID`, `getDbProfile`.
* The deprecated header signature of `middleware/auth.js`; `requireRole`, a function of
  the token; the consent middleware that only the test routes mount; the contact
  form, which sends a mail; pool, provider and configuration.
* The application's shell and its static pages (introduction, terms, privacy policy),
  service worker and server-side rendering, deployment scripts, reports and CI.
* Cryptography: a signature is that its owner made it, a hash that it is
  injective. Gas, ABI encoding and gateway retries.

## 6. Plan

Done, in this order: registry, relay and its abstract specification; sign-in;
consent; disclosure; profiles; the browser's session; the consent page over the
registry; the other pages of the wallet application; the proofs about
disclosure, about profiles, about the consent page and about every other page; the
abstract specification of disclosure. Next:

1. The fallback from gasless to regular on the vault page with `Relay` underneath,
   and the profile flows of `Profile` under the flags of `Vault`.
