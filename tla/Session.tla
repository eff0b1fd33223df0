--------------------------------- MODULE Session ---------------------------------
(***************************************************************************)
(* The browser's session: WalletService and AuthService of the Angular     *)
(* application, the router with its role guard, and the pages that start   *)
(* connections and logins.  JavaScript runs one callback at a time; every  *)
(* action is the code between two awaits, so that connections, logins, a   *)
(* disconnection and navigations interleave.                               *)
(***************************************************************************)
CONSTANTS Accounts,     \* accounts of the wallet extension
          Roles,        \* the application's roles (AppRole)
          DefaultRole,  \* "USER", what _role holds without a session
          Home,         \* getDefaultRouteForRole
          Allowed,      \* roles a guarded page is for
          Public,       \* pages without a guard
          Login,        \* the login page
          ReturnPages,  \* pages a role may return to after the login
          Connects,     \* clicks on "Connect", each used once
          Logins,       \* clicks on "Sign & Login", each used once
          None          \* null

VARIABLES selected,     \* the account the extension would hand out
          address,      \* addressSubject.value
          signer,       \* account of WalletService.signer
          provider,     \* is WalletService.provider set?
          token,        \* claims of the JWT in _token
          role,         \* _role
          page,         \* the page that is shown
          nav,          \* the navigation that is under way, a new one cancels it
          cpc,          \* stage, then outcome, of a connection
          lpc,          \* stage, then outcome, of a login
          who,          \* address and role a login runs for, and who has signed
          by,           \* history: the login whose token is in force
          moved,        \* history: logins with a wallet that was being connected
                        \* or changed between start and token
          overlap       \* history: have two logins run at a time?

walletVars  == <<address, signer, provider>>
sessionVars == <<token, role>>
routeVars   == <<page, nav>>
historyVars == <<by, moved, overlap>>
vars == <<selected, walletVars, sessionVars, routeVars, cpc, lpc, who, historyVars>>

Pages == Public \cup DOMAIN Allowed
Token == [account : Accounts, role : Roles]
Who   == [address : Accounts, role : Roles, signer : Accounts \cup {None}]

ASSUME SessionAssumption ==
  /\ DefaultRole \in Roles
  /\ Allowed \in [DOMAIN Allowed -> SUBSET Roles]
  /\ Home \in [Roles -> DOMAIN Allowed]
  /\ \A r \in Roles : r \in Allowed[Home[r]]
  /\ Public \cap DOMAIN Allowed = {} /\ Login \in Public
  /\ ReturnPages \in [Roles -> SUBSET Pages]
  /\ None \notin Accounts \cup Pages \cup Logins \cup Token

\* clearSession resets token and role together and a login sets both.
TypeOK ==
  /\ selected \in Accounts
  /\ address \in Accounts \cup {None}
  /\ signer \in Accounts \cup {None}
  /\ provider \in BOOLEAN
  /\ token \in Token \cup {None}
  /\ role = IF token = None THEN DefaultRole ELSE token.role
  /\ page \in Pages
  /\ nav \in Pages \cup {None}
  /\ cpc \in [Connects -> {"idle", "signer", "chain", "connected", "failed"}]
  /\ lpc \in [Logins -> {"idle", "challenge", "sign", "routed", "done", "failed"}]
  /\ who \in [Logins -> Who \cup {None}]
  /\ \A l \in Logins : lpc[l] # "idle" => who[l] \in Who
  /\ by \in Logins \cup {None}
  /\ moved \subseteq Logins
  /\ overlap \in BOOLEAN

Init ==
  /\ selected \in Accounts
  /\ address = None /\ signer = None /\ provider = FALSE
  /\ token = None /\ role = DefaultRole
  /\ page = Login /\ nav = None
  /\ cpc = [c \in Connects |-> "idle"]
  /\ lpc = [l \in Logins |-> "idle"]
  /\ who = [l \in Logins |-> None]
  /\ by = None /\ moved = {} /\ overlap = FALSE

--------------------------------------------------------------------------------
\* Helpers

Connecting == {c \in Connects : cpc[c] \in {"signer", "chain"}}
LoggingIn  == {l \in Logins : lpc[l] \in {"challenge", "sign"}}

\* Seeded bug: the role outlives the session.
ClearSession_KeepsRole == token' = None /\ by' = None /\ UNCHANGED role

ClearSession == token' = None /\ role' = DefaultRole /\ by' = None

\* Seeded bug: the page stays when the session has gone.
Emit_NoRedirect(a) ==
  /\ address' = a
  /\ moved' = moved \cup LoggingIn
  /\ IF a = None /\ token # None THEN ClearSession ELSE UNCHANGED <<sessionVars, by>>
  /\ UNCHANGED nav

\* Seeded bug: the subscription is gone.
Emit_NoLogout(a) ==
  /\ address' = a
  /\ moved' = moved \cup LoggingIn
  /\ UNCHANGED <<sessionVars, by, nav>>

\* addressSubject.next, which calls AuthService's subscription: without a wallet
\* a session is cleared and the login page asked for.
Emit(a) ==
  /\ address' = a
  /\ moved' = moved \cup LoggingIn
  /\ IF a = None /\ token # None THEN ClearSession /\ nav' = Login
                                 ELSE UNCHANGED <<sessionVars, by, nav>>

\* WalletService.disconnect, also the roll-back of a failed connection.
Reset == provider' = FALSE /\ signer' = None /\ Emit(None)

--------------------------------------------------------------------------------
\* WalletService.connect

\* The account is switched in the extension; nothing listens to it.
SwitchAccount(a) ==
  /\ a # selected
  /\ selected' = a
  /\ UNCHANGED <<walletVars, sessionVars, routeVars, cpc, lpc, who, historyVars>>

\* The buttons are shown while there is no address.
StartConnect(c) ==
  /\ cpc[c] = "idle" /\ address = None
  /\ cpc' = [cpc EXCEPT ![c] = "signer"]
  /\ provider' = TRUE /\ signer' = None
  /\ Emit(None)
  /\ UNCHANGED <<selected, page, lpc, who, overlap>>

\* await getSigner(); ensureCorrectChain throws at once if the provider has gone.
GotSigner(c) ==
  /\ cpc[c] = "signer"
  /\ \/ /\ provider
        /\ signer' = selected
        /\ cpc' = [cpc EXCEPT ![c] = "chain"]
        /\ UNCHANGED <<address, provider, sessionVars, nav, by, moved>>
     \/ /\ ~provider
        /\ Reset
        /\ cpc' = [cpc EXCEPT ![c] = "failed"]
  /\ UNCHANGED <<selected, page, lpc, who, overlap>>

\* await ensureCorrectChain(): the signer may have gone, or be another's.
Connected(c) ==
  /\ cpc[c] = "chain"
  /\ \/ /\ signer # None
        /\ Emit(signer)
        /\ cpc' = [cpc EXCEPT ![c] = "connected"]
        /\ UNCHANGED <<signer, provider>>
     \/ /\ signer = None
        /\ Reset
        /\ cpc' = [cpc EXCEPT ![c] = "failed"]
  /\ UNCHANGED <<selected, page, lpc, who, overlap>>

\* Seeded bug: what the connection has set so far is left.
ConnectFails_NoRollback(c) ==
  /\ cpc[c] \in {"signer", "chain"}
  /\ cpc' = [cpc EXCEPT ![c] = "failed"]
  /\ UNCHANGED <<selected, walletVars, sessionVars, routeVars, lpc, who, historyVars>>

\* The user rejects the connection, or the switch to the expected network.
ConnectFails(c) ==
  /\ cpc[c] \in {"signer", "chain"}
  /\ Reset
  /\ cpc' = [cpc EXCEPT ![c] = "failed"]
  /\ UNCHANGED <<selected, page, lpc, who, overlap>>

\* "Switch Wallet" on the login page, or the end of an erasure.
Disconnect ==
  /\ Reset
  /\ UNCHANGED <<selected, page, cpc, lpc, who, overlap>>

--------------------------------------------------------------------------------
\* AuthService.login and logout

\* signIn on the login page.  The button is disabled while signing, but only until
\* the page is left and entered again.
SignInEnabled == page = Login /\ token = None /\ address # None /\ signer # None

\* login, up to its first await.
StartLogin(l, r) ==
  /\ lpc[l] = "idle" /\ SignInEnabled
  /\ who' = [who EXCEPT ![l] = [address |-> address, role |-> r, signer |-> None]]
  /\ ClearSession
  /\ lpc' = [lpc EXCEPT ![l] = IF provider THEN "challenge" ELSE "failed"]
  /\ moved' = IF Connecting = {} THEN moved ELSE moved \cup {l}
  /\ overlap' = (overlap \/ LoggingIn # {})
  /\ UNCHANGED <<selected, walletVars, routeVars, cpc>>

\* The challenge has come; whoever is the signer by now is asked to sign.
GotChallenge(l) ==
  /\ lpc[l] = "challenge" /\ signer # None
  /\ who' = [who EXCEPT ![l].signer = signer]
  /\ lpc' = [lpc EXCEPT ![l] = "sign"]
  /\ UNCHANGED <<selected, walletVars, sessionVars, routeVars, cpc, historyVars>>

\* POST /api/auth/verify has answered with a token, as Auth says: for the address
\* of the challenge in the role asked for, whoever has signed.
GotToken(l) ==
  /\ lpc[l] = "sign"
  /\ token' = [account |-> who[l].address, role |-> who[l].role]
  /\ role' = who[l].role
  /\ nav' = Home[who[l].role]
  /\ by' = l
  /\ lpc' = [lpc EXCEPT ![l] = "routed"]
  /\ UNCHANGED <<selected, walletVars, page, cpc, who, moved, overlap>>

\* The navigation has ended or was cancelled; redirectByRole starts another.
RedirectByRole(l) ==
  /\ lpc[l] = "routed" /\ nav # Home[who[l].role]
  /\ nav' \in {Home[who[l].role]} \cup ReturnPages[who[l].role]
  /\ lpc' = [lpc EXCEPT ![l] = "done"]
  /\ UNCHANGED <<selected, walletVars, sessionVars, page, cpc, who, historyVars>>

\* The server or the user refuses, or there is no signer: the catch block.
LoginFails(l) ==
  /\ lpc[l] \in {"challenge", "sign"}
  /\ ClearSession
  /\ lpc' = [lpc EXCEPT ![l] = "failed"]
  /\ UNCHANGED <<selected, walletVars, routeVars, cpc, who, moved, overlap>>

\* AppComponent.logout; its menu is shown while there is an address.
Logout ==
  /\ address # None
  /\ ClearSession
  /\ provider' = FALSE /\ signer' = None /\ address' = None
  /\ moved' = moved \cup LoggingIn
  /\ nav' = Login
  /\ UNCHANGED <<selected, page, cpc, lpc, who, overlap>>

--------------------------------------------------------------------------------
\* The router

\* roleGuard: the page itself, or the one to go to instead.
Guard(p) ==
  IF p \in Public THEN p
  ELSE IF token = None THEN Login
  ELSE IF role \in Allowed[p] THEN p
  ELSE Home[role]

\* A link, a bookmark in the same tab or the browser's back button.
Navigate(p) ==
  /\ nav' = p
  /\ UNCHANGED <<selected, walletVars, sessionVars, page, cpc, lpc, who, historyVars>>

Activate ==
  /\ nav # None
  /\ IF Guard(nav) = nav THEN page' = nav /\ nav' = None
                         ELSE nav' = Guard(nav) /\ UNCHANGED page
  /\ UNCHANGED <<selected, walletVars, sessionVars, cpc, lpc, who, historyVars>>

Next ==
  \/ \E a \in Accounts : SwitchAccount(a)
  \/ \E c \in Connects : StartConnect(c) \/ GotSigner(c) \/ Connected(c) \/ ConnectFails(c)
  \/ \E l \in Logins : \/ \E r \in Roles : StartLogin(l, r)
                       \/ GotChallenge(l) \/ GotToken(l) \/ RedirectByRole(l) \/ LoginFails(l)
  \/ Disconnect \/ Logout
  \/ \E p \in Pages : Navigate(p)
  \/ Activate

Spec == Init /\ [][Next]_vars

--------------------------------------------------------------------------------
\* Properties

\* Once no connection is under way the wallet is there or not as a whole, and
\* what signs is what the pages show, however connections overlapped, failed or
\* were cut off by a disconnection.
WalletIsWhole ==
  Connecting = {} =>
    /\ signer = address
    /\ provider <=> address # None

\* A session is that of the connected account, and that account has signed for it,
\* although the server issues the token for the challenge's address whoever signed,
\* and provider, signer and address change one by one: except for a login whose
\* wallet was disconnected, connected again or still being connected between its
\* start and its token, which nothing looks at.
SessionIsOfWallet ==
  (token # None /\ by \notin moved) =>
     /\ token.account = address
     /\ who[by].signer = address

\* A guarded page is only shown to a session of one of its roles or while the
\* router is on its way elsewhere, whatever ended the session: unless two logins
\* overlapped, where the failure of one clears the session of the other.
PageHasItsRole ==
  ~overlap => \/ page \in Public
              \/ token # None /\ role \in Allowed[page]
              \/ nav # None
================================================================================
