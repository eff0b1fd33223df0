------------------------------ MODULE Session_proofs ------------------------------
(***************************************************************************)
(* Proofs about Session, for any numbers of accounts, roles, pages,        *)
(* connections and logins.                                                 *)
(***************************************************************************)
EXTENDS Session, TLAPS

\* Inductive strengthenings of the three safety properties.

\* What signs differs from what is shown only while a connection that has its
\* signer waits for the network, and a provider without an address belongs to a
\* connection under way.
WalletInv ==
  /\ address # None => signer # None
  /\ signer # None => provider
  /\ signer # address => \E c \in Connects : cpc[c] = "chain"
  /\ (provider /\ address = None) => Connecting # {}

\* A login whose wallet has not moved runs for the address that is shown and signs
\* with it, and no connection is under way that could move it; so does a session.
OwnerInv ==
  /\ \A l \in LoggingIn \ moved :
       /\ Connecting = {} /\ who[l].address = address
       /\ lpc[l] = "sign" => who[l].signer = address
  /\ token # None => by \in Logins /\ lpc[by] \in {"routed", "done"}
  /\ (token # None /\ by \notin moved) =>
       Connecting = {} /\ token.account = address /\ who[by].signer = address

\* Unless two logins have overlapped, a login runs alone and without a session.
PageInv ==
  ~overlap => /\ \A l, m \in LoggingIn : l = m
              /\ LoggingIn # {} => token = None
              /\ \/ page \in Public
                 \/ token # None /\ role \in Allowed[page]
                 \/ nav # None

\* No constant value is mistaken for null, and the pages a step asks for exist.
LEMMA NullFacts ==
  /\ None \notin Accounts /\ None \notin Pages /\ None \notin Logins /\ None \notin Token
  /\ Login \in Pages /\ DefaultRole \in Roles
  /\ \A r \in Roles : Home[r] \in Pages
BY SessionAssumption DEF SessionAssumption, Pages

\* A page a guard sends to exists.
LEMMA GuardInPages ==
  ASSUME NEW p \in Pages, TypeOK
  PROVE  Guard(p) \in Pages
<1>1. role \in Roles
  BY NullFacts DEF TypeOK, Token
<1> QED
  BY <1>1, NullFacts DEF Guard

\* What a change of the wallet's address does keeps the types.
LEMMA EmitTyped ==
  ASSUME TypeOK, NEW a \in Accounts \cup {None}, Emit(a)
  PROVE  /\ address' \in Accounts \cup {None}
         /\ token' \in Token \cup {None}
         /\ role' = IF token' = None THEN DefaultRole ELSE token'.role
         /\ nav' \in Pages \cup {None}
         /\ by' \in Logins \cup {None}
         /\ moved' \subseteq Logins
BY NullFacts DEF TypeOK, Emit, ClearSession, sessionVars, LoggingIn

\* The state has its type in every reachable state; in particular token and role
\* are set and cleared together (auth.service.ts, login and clearSession).
THEOREM TypeCorrect == Spec => []TypeOK
<1>1. Init => TypeOK
  BY NullFacts DEF Init, TypeOK
<1>2. TypeOK /\ [Next]_vars => TypeOK'
  <2> SUFFICES ASSUME TypeOK, [Next]_vars PROVE TypeOK'
    OBVIOUS
  <2> USE NullFacts DEF TypeOK, walletVars, sessionVars, routeVars, historyVars
  <2>1. ASSUME NEW a \in Accounts, SwitchAccount(a) PROVE TypeOK'
    BY <2>1 DEF SwitchAccount
  <2>2. ASSUME NEW c \in Connects, StartConnect(c) PROVE TypeOK'
    BY <2>2, EmitTyped DEF StartConnect
  <2>3. ASSUME NEW c \in Connects, GotSigner(c) PROVE TypeOK'
    BY <2>3, EmitTyped DEF GotSigner, Reset
  <2>4. ASSUME NEW c \in Connects, Connected(c) PROVE TypeOK'
    BY <2>4, EmitTyped DEF Connected, Reset
  <2>5. ASSUME NEW c \in Connects, ConnectFails(c) PROVE TypeOK'
    BY <2>5, EmitTyped DEF ConnectFails, Reset
  <2>6. ASSUME NEW l \in Logins, NEW r \in Roles, StartLogin(l, r) PROVE TypeOK'
    <3>1. [address |-> address, role |-> r, signer |-> None] \in Who
      BY <2>6 DEF StartLogin, SignInEnabled, Who
    <3> QED
      BY <2>6, <3>1 DEF StartLogin, ClearSession
  <2>7. ASSUME NEW l \in Logins, GotChallenge(l) PROVE TypeOK'
    <3>1. \A w \in Who : [w EXCEPT !.signer = signer] \in Who
      BY DEF Who
    <3>2. [who[l] EXCEPT !.signer = signer] \in Who
      BY <2>7, <3>1 DEF GotChallenge
    <3>3. who' = [who EXCEPT ![l] = [who[l] EXCEPT !.signer = signer]]
      BY <2>7 DEF GotChallenge
    <3>4. who' \in [Logins -> Who \cup {None}]
      BY <3>2, <3>3
    <3> QED
      BY <2>7, <3>2, <3>3, <3>4 DEF GotChallenge
  <2>8. ASSUME NEW l \in Logins, GotToken(l) PROVE TypeOK'
    <3>1. who[l] \in Who
      BY <2>8 DEF GotToken
    <3>2. who[l].address \in Accounts /\ who[l].role \in Roles
      BY <3>1 DEF Who
    <3>3. token' \in Token /\ role' = token'.role
      BY <2>8, <3>2 DEF GotToken, Token
    <3>4. nav' \in Pages
      BY <2>8, <3>2 DEF GotToken
    <3> QED
      BY <2>8, <3>3, <3>4 DEF GotToken
  <2>9. ASSUME NEW l \in Logins, RedirectByRole(l) PROVE TypeOK'
    BY <2>9, SessionAssumption DEF RedirectByRole, Who, SessionAssumption
  <2>10. ASSUME NEW l \in Logins, LoginFails(l) PROVE TypeOK'
    BY <2>10 DEF LoginFails, ClearSession
  <2>11. CASE Disconnect
    BY <2>11, EmitTyped DEF Disconnect, Reset
  <2>12. CASE Logout
    BY <2>12 DEF Logout, ClearSession, LoggingIn
  <2>13. ASSUME NEW p \in Pages, Navigate(p) PROVE TypeOK'
    BY <2>13 DEF Navigate
  <2>14. CASE Activate
    BY <2>14, GuardInPages DEF Activate
  <2>15. CASE UNCHANGED vars
    BY <2>15 DEF vars
  <2> QED
    BY <2>1, <2>2, <2>3, <2>4, <2>5, <2>6, <2>7, <2>8, <2>9, <2>10, <2>11, <2>12,
       <2>13, <2>14, <2>15 DEF Next
<1> QED
  BY <1>1, <1>2, PTL DEF Spec

--------------------------------------------------------------------------------
\* However connections overlap, fail or are cut off by a disconnection, the wallet
\* is whole once none is under way: WalletService.connect and disconnect leave no
\* signer without an address, nor the signer of another account.
THEOREM WalletStaysWhole == Spec => []WalletIsWhole
<1>1. Init => WalletInv
  BY DEF Init, WalletInv
<1>2. TypeOK /\ WalletInv /\ [Next]_vars => WalletInv'
  <2> SUFFICES ASSUME TypeOK, WalletInv, [Next]_vars PROVE WalletInv'
    OBVIOUS
  <2> USE NullFacts DEF TypeOK, WalletInv, Connecting, walletVars
  <2>1. ASSUME NEW a \in Accounts, SwitchAccount(a) PROVE WalletInv'
    BY <2>1 DEF SwitchAccount
  <2>2. ASSUME NEW c \in Connects, StartConnect(c) PROVE WalletInv'
    <3>1. cpc'[c] = "signer" /\ address' = None /\ signer' = None
      BY <2>2 DEF StartConnect, Emit
    <3> QED
      BY <3>1
  <2>3. ASSUME NEW c \in Connects, GotSigner(c) PROVE WalletInv'
    <3>1. CASE provider
      <4>1. cpc'[c] = "chain" /\ signer' = selected /\ provider' /\ address' = address
        BY <2>3, <3>1 DEF GotSigner, Reset
      <4> QED
        BY <4>1
    <3>2. CASE ~provider
      BY <2>3, <3>2 DEF GotSigner, Reset, Emit
    <3> QED
      BY <3>1, <3>2
  <2>4. ASSUME NEW c \in Connects, Connected(c) PROVE WalletInv'
    BY <2>4 DEF Connected, Reset, Emit
  <2>5. ASSUME NEW c \in Connects, ConnectFails(c) PROVE WalletInv'
    BY <2>5 DEF ConnectFails, Reset, Emit
  <2>6. ASSUME NEW l \in Logins,
               \/ \E r \in Roles : StartLogin(l, r)
               \/ GotChallenge(l) \/ GotToken(l) \/ RedirectByRole(l) \/ LoginFails(l)
        PROVE  WalletInv'
    BY <2>6 DEF StartLogin, GotChallenge, GotToken, RedirectByRole, LoginFails
  <2>7. CASE Disconnect
    BY <2>7 DEF Disconnect, Reset, Emit
  <2>8. CASE Logout
    BY <2>8 DEF Logout
  <2>9. CASE (\E p \in Pages : Navigate(p)) \/ Activate
    BY <2>9 DEF Navigate, Activate
  <2>10. CASE UNCHANGED vars
    BY <2>10 DEF vars
  <2> QED
    BY <2>1, <2>2, <2>3, <2>4, <2>5, <2>6, <2>7, <2>8, <2>9, <2>10 DEF Next
<1>3. WalletInv => WalletIsWhole
  BY DEF WalletInv, WalletIsWhole, Connecting
<1> QED
  BY <1>1, <1>2, <1>3, TypeCorrect, PTL DEF Spec

--------------------------------------------------------------------------------
\* A session is that of the connected account, which has signed for it, unless the
\* wallet moved while its login ran.  Nothing the server does is needed for that: an
\* unmoved wallet is whole when the challenge comes, so that what signs is what is
\* shown, and the subscription in AuthService's constructor ends the session before
\* another account can be connected.
THEOREM SessionFollowsWallet == Spec => []SessionIsOfWallet
<1>1. Init => OwnerInv
  BY DEF Init, OwnerInv, LoggingIn
<1>2. TypeOK /\ WalletIsWhole /\ OwnerInv /\ [Next]_vars => OwnerInv'
  <2> SUFFICES ASSUME TypeOK, WalletIsWhole, OwnerInv, [Next]_vars PROVE OwnerInv'
    OBVIOUS
  <2> USE NullFacts DEF TypeOK, OwnerInv, Connecting, LoggingIn
  <2>1. ASSUME NEW a \in Accounts, SwitchAccount(a) PROVE OwnerInv'
    BY <2>1 DEF SwitchAccount, walletVars, sessionVars, historyVars
  \* Wherever the address changes, a running login has moved.
  <2>2. ASSUME NEW a \in Accounts \cup {None}, Emit(a), UNCHANGED <<lpc, who>>,
               (a # None /\ token # None) => by \in moved
        PROVE  OwnerInv'
    <3>1. {l \in Logins : lpc'[l] \in {"challenge", "sign"}} \subseteq moved'
      BY <2>2 DEF Emit
    <3>2. token' # None => by' \in moved'
      BY <2>2 DEF Emit, ClearSession, sessionVars
    <3>3. lpc' = lpc /\ (token' # None => token # None /\ by' = by)
      BY <2>2 DEF Emit, ClearSession, sessionVars
    <3> QED
      BY <3>1, <3>2, <3>3
  <2>3. ASSUME NEW c \in Connects, StartConnect(c) PROVE OwnerInv'
    BY <2>2, <2>3 DEF StartConnect
  <2>4. ASSUME NEW c \in Connects, GotSigner(c) PROVE OwnerInv'
    <3>1. CASE provider
      BY <2>4, <3>1 DEF GotSigner, Reset, sessionVars
    <3>2. CASE ~provider
      BY <2>2, <2>4, <3>2 DEF GotSigner, Reset
    <3> QED
      BY <3>1, <3>2
  <2>5. ASSUME NEW c \in Connects, Connected(c) PROVE OwnerInv'
    <3>1. c \in Connecting
      BY <2>5 DEF Connected
    <3>2. token # None => by \in moved
      BY <3>1
    <3>3. \E a \in Accounts \cup {None} : Emit(a)
      BY <2>5 DEF Connected, Reset
    <3> QED
      BY <2>2, <2>5, <3>2, <3>3 DEF Connected
  <2>6. ASSUME NEW c \in Connects, ConnectFails(c) PROVE OwnerInv'
    BY <2>2, <2>6 DEF ConnectFails, Reset
  <2>7. ASSUME NEW l \in Logins, NEW r \in Roles, StartLogin(l, r) PROVE OwnerInv'
    <3>1. token' = None /\ cpc' = cpc /\ address' = address
      BY <2>7 DEF StartLogin, ClearSession, walletVars
    <3>2. moved \subseteq moved' /\ (l \notin moved' => Connecting = {})
      BY <2>7 DEF StartLogin
    <3>3. who'[l].address = address
      BY <2>7 DEF StartLogin
    <3>4. \A m \in Logins \ {l} : who'[m] = who[m] /\ lpc'[m] = lpc[m]
      BY <2>7 DEF StartLogin
    <3>5. lpc'[l] \in {"challenge", "failed"}
      BY <2>7 DEF StartLogin
    <3> QED
      BY <3>1, <3>2, <3>3, <3>4, <3>5
  \* A wallet that has not moved is whole: its signer is the address shown.
  <2>8. ASSUME NEW l \in Logins, GotChallenge(l) PROVE OwnerInv'
    <3>1. who[l] \in Who
      BY <2>8 DEF GotChallenge
    <3>2. /\ [who[l] EXCEPT !.signer = signer].address = who[l].address
          /\ [who[l] EXCEPT !.signer = signer].signer = signer
      BY <3>1 DEF Who
    <3>3. \A m \in Logins : who'[m].address = who[m].address
      BY <2>8, <3>2 DEF GotChallenge
    <3>4. \A m \in Logins \ {l} : who'[m] = who[m] /\ lpc'[m] = lpc[m]
      BY <2>8 DEF GotChallenge
    <3>5. who'[l].signer = signer /\ lpc'[l] = "sign"
      BY <2>8, <3>2 DEF GotChallenge
    <3>6. l \notin moved => signer = address
      BY <2>8 DEF GotChallenge, WalletIsWhole
    <3>7. UNCHANGED <<address, token, cpc, by, moved>>
      BY <2>8 DEF GotChallenge, walletVars, sessionVars, historyVars
    <3>8. \A m \in Logins : lpc'[m] \in {"challenge", "sign"} => lpc[m] \in {"challenge", "sign"}
      BY <2>8 DEF GotChallenge
    <3>9. token # None => by # l
      BY <2>8 DEF GotChallenge
    <3> QED
      BY <3>3, <3>4, <3>5, <3>6, <3>7, <3>8, <3>9
  <2>9. ASSUME NEW l \in Logins, GotToken(l) PROVE OwnerInv'
    <3>1. token'.account = who[l].address /\ by' = l
      BY <2>9 DEF GotToken
    <3>2. l \notin moved => who[l].signer = address
      BY <2>9 DEF GotToken
    <3>3. lpc'[l] = "routed" /\ \A m \in Logins \ {l} : lpc'[m] = lpc[m]
      BY <2>9 DEF GotToken
    <3> QED
      BY <2>9, <3>1, <3>2, <3>3 DEF GotToken, walletVars
  <2>10. ASSUME NEW l \in Logins, RedirectByRole(l) \/ LoginFails(l) PROVE OwnerInv'
    BY <2>10 DEF RedirectByRole, LoginFails, ClearSession, walletVars, sessionVars, historyVars
  <2>11. CASE Disconnect
    BY <2>2, <2>11 DEF Disconnect, Reset
  <2>12. CASE Logout
    BY <2>12 DEF Logout, ClearSession
  <2>13. CASE (\E p \in Pages : Navigate(p)) \/ Activate
    BY <2>13 DEF Navigate, Activate, walletVars, sessionVars, historyVars
  <2>14. CASE UNCHANGED vars
    BY <2>14 DEF vars, walletVars, sessionVars, historyVars
  <2> QED
    BY <2>1, <2>3, <2>4, <2>5, <2>6, <2>7, <2>8, <2>9, <2>10, <2>11, <2>12, <2>13, <2>14
    DEF Next
<1>3. OwnerInv => SessionIsOfWallet
  BY DEF OwnerInv, SessionIsOfWallet
<1> QED
  BY <1>1, <1>2, <1>3, TypeCorrect, WalletStaysWhole, PTL DEF Spec

--------------------------------------------------------------------------------
\* A guarded page never stays without a session of one of its roles, unless two
\* logins overlapped: every end of a session asks the router for the login page,
\* and a login that fails by itself had cleared the session when it began.
THEOREM PagesKeepTheirRole == Spec => []PageHasItsRole
<1>1. Init => PageInv
  BY SessionAssumption DEF Init, PageInv, LoggingIn, SessionAssumption
<1>2. TypeOK /\ PageInv /\ [Next]_vars => PageInv'
  <2> SUFFICES ASSUME TypeOK, PageInv, [Next]_vars, ~overlap' PROVE PageInv'
    BY DEF PageInv
  <2>0. ~overlap
    <3>1. CASE \E l \in Logins, r \in Roles : StartLogin(l, r)
      BY <3>1 DEF StartLogin
    <3>2. CASE UNCHANGED overlap
      BY <3>2
    <3> QED
      BY <3>1, <3>2 DEF Next, vars, historyVars, SwitchAccount, StartConnect, GotSigner,
         Connected, ConnectFails, GotChallenge, GotToken, RedirectByRole, LoginFails,
         Disconnect, Logout, Navigate, Activate
  <2> USE <2>0, NullFacts DEF TypeOK, PageInv, LoggingIn
  <2>1. ASSUME NEW a \in Accounts, SwitchAccount(a) PROVE PageInv'
    BY <2>1 DEF SwitchAccount, sessionVars, routeVars
  \* The subscription asks for the login page when it ends a session.
  <2>2. ASSUME NEW a \in Accounts \cup {None}, Emit(a), UNCHANGED <<lpc, page>>
        PROVE  PageInv'
    <3>1. CASE a = None /\ token # None
      <4>1. token' = None /\ nav' = Login
        BY <2>2, <3>1 DEF Emit, ClearSession
      <4> QED
        BY <2>2, <4>1
    <3>2. CASE ~(a = None /\ token # None)
      BY <2>2, <3>2 DEF Emit, sessionVars
    <3> QED
      BY <3>1, <3>2
  <2>3. ASSUME NEW c \in Connects, StartConnect(c) PROVE PageInv'
    BY <2>2, <2>3 DEF StartConnect
  <2>4. ASSUME NEW c \in Connects, GotSigner(c) PROVE PageInv'
    BY <2>2, <2>4 DEF GotSigner, Reset, sessionVars
  <2>5. ASSUME NEW c \in Connects, Connected(c) PROVE PageInv'
    BY <2>2, <2>5 DEF Connected, Reset
  <2>6. ASSUME NEW c \in Connects, ConnectFails(c) PROVE PageInv'
    BY <2>2, <2>6 DEF ConnectFails, Reset
  <2>7. ASSUME NEW l \in Logins, NEW r \in Roles, StartLogin(l, r) PROVE PageInv'
    <3>1. LoggingIn = {} /\ token' = None
      BY <2>7 DEF StartLogin, ClearSession
    <3>2. \A m \in Logins \ {l} : lpc'[m] = lpc[m]
      BY <2>7 DEF StartLogin
    <3>3. page' \in Public
      BY <2>7, SessionAssumption DEF StartLogin, SignInEnabled, routeVars, SessionAssumption
    <3> QED
      BY <3>1, <3>2, <3>3
  <2>8. ASSUME NEW l \in Logins, GotChallenge(l) PROVE PageInv'
    BY <2>8 DEF GotChallenge, sessionVars, routeVars
  <2>9. ASSUME NEW l \in Logins, GotToken(l) PROVE PageInv'
    <3>1. who[l] \in Who
      BY <2>9 DEF GotToken
    <3>2. nav' \in Pages
      BY <2>9, <3>1 DEF GotToken, Who
    <3>3. LoggingIn' = {}
      BY <2>9 DEF GotToken
    <3> QED
      BY <3>2, <3>3
  <2>10. ASSUME NEW l \in Logins, RedirectByRole(l) PROVE PageInv'
    <3>1. who[l] \in Who
      BY <2>10 DEF RedirectByRole
    <3>2. nav' \in Pages
      BY <2>10, <3>1, SessionAssumption DEF RedirectByRole, Who, SessionAssumption
    <3> QED
      BY <2>10, <3>2 DEF RedirectByRole, sessionVars
  <2>11. ASSUME NEW l \in Logins, LoginFails(l) PROVE PageInv'
    BY <2>11 DEF LoginFails, ClearSession, routeVars
  <2>12. CASE Disconnect
    BY <2>2, <2>12 DEF Disconnect, Reset
  <2>13. CASE Logout
    BY <2>13 DEF Logout, ClearSession
  <2>14. ASSUME NEW p \in Pages, Navigate(p) PROVE PageInv'
    BY <2>14 DEF Navigate, sessionVars
  <2>15. CASE Activate
    <3>1. CASE Guard(nav) = nav
      <4>1. nav \in Public \/ (token # None /\ role \in Allowed[nav])
        <5>1. role \in Roles
          BY DEF Token
        <5> QED
          BY <2>15, <3>1, <5>1, SessionAssumption DEF Activate, Guard, SessionAssumption
      <4> QED
        BY <2>15, <3>1, <4>1 DEF Activate, sessionVars
    <3>2. CASE Guard(nav) # nav
      <4>1. nav' \in Pages
        BY <2>15, <3>2, GuardInPages DEF Activate
      <4> QED
        BY <2>15, <3>2, <4>1 DEF Activate, sessionVars
    <3> QED
      BY <3>1, <3>2
  <2>16. CASE UNCHANGED vars
    BY <2>16 DEF vars, sessionVars, routeVars
  <2> QED
    BY <2>1, <2>3, <2>4, <2>5, <2>6, <2>7, <2>8, <2>9, <2>10, <2>11, <2>12, <2>13,
       <2>14, <2>15, <2>16 DEF Next
<1>3. PageInv => PageHasItsRole
  BY DEF PageInv, PageHasItsRole
<1> QED
  BY <1>1, <1>2, <1>3, TypeCorrect, PTL DEF Spec
================================================================================
