------------------------------- MODULE Auth_proofs -------------------------------
(***************************************************************************)
(* Proofs about Auth for any sets of addresses, roles, nonces, attempts    *)
(* and requests, any lifetimes and any interleaving with failing queries.  *)
(***************************************************************************)
EXTENDS Auth, FiniteSetTheorems, TLAPS

\* Inductive strengthenings of the two safety properties.

\* A deleted nonce never comes back into the table.
NonceGone(n) == \A x \in nonceRows : x.nonce # n

UsedIsGone == \A v \in Attempts : pc[v] \in PastDelete => NonceGone(login[v].nonce)

ReplayStuck ==
  \A v \in Attempts :
    replay[v] => pc[v] \in {"check", "denied", "error"} /\ NonceGone(login[v].nonce)

\* Behind the users statements, and for every token, the address has its row.
Registered(a) == \E u \in users : u.addr = a

HasRow == /\ \A v \in Attempts : pc[v] \in {"update", "audit", "sign", "token"} =>
                                   Registered(login[v].addr)
          /\ \A t \in tokens : Registered(t.addr)

UniqueRow == \A u, w \in users : u.addr = w.addr => u = w

\* A challenge waits in the table until a sign-in deletes it; no two share a nonce.
NonceIsOfOne == \A m, k \in messages : m.nonce = k.nonce => m = k

TakenOrWaiting ==
  \A m \in messages :
    m \in nonceRows \/ \E w \in Attempts : pc[w] \in PastDelete \cup {"error"} /\ login[w] = m

\* What a session of address a and role r has done or is about to do: tokens handed
\* out, API requests served, sign-ins between their audit row and their token.
TokensOf(a, r)  == {t \in tokens : t.addr = a /\ t.role = r}
ServedOf(a, r)  == {q \in Requests : /\ reqPc[q] = "served"
                                     /\ reqToken[q].addr = a /\ reqToken[q].role = r}
SigningOf(a, r) == {v \in Attempts : pc[v] = "sign" /\ login[v].addr = a /\ role[v] = r}

\* Each of these has a row of its own.
RowForEach(a, r) ==
  /\ IsFiniteSet(TokensOf(a, r)) /\ IsFiniteSet(ServedOf(a, r)) /\ IsFiniteSet(SigningOf(a, r))
  /\ Cardinality(TokensOf(a, r)) + Cardinality(ServedOf(a, r))
       + Cardinality(SigningOf(a, r)) <= audit[<<a, r>>]

CauseInv  == TypeOK /\ NonceIsOfOne /\ TakenOrWaiting /\ RefusedForCause
AuditInv  == \A a \in Addrs, r \in Roles : RowForEach(a, r)
ReplayInv == TypeOK /\ UsedIsGone /\ ReplayStuck
UserInv   == TypeOK /\ HasRow /\ UniqueRow

\* The state has its type in every reachable state, for every value of the
\* constants: in particular a running request holds a challenge the server
\* handed out and a role of ALLOWED_ROLES (authController.js, verifySignature).
THEOREM TypeCorrect == Spec => []TypeOK
<1>1. Init => TypeOK
  BY AuthAssumption DEF Init, TypeOK, Stages, PastDelete, Answers
<1>2. TypeOK /\ [Next]_vars => TypeOK'
  <2> SUFFICES ASSUME TypeOK, [Next]_vars PROVE TypeOK'
    OBVIOUS
  <2> USE AuthAssumption DEF TypeOK, Stages, PastDelete, Answers, Challenge, UserRow, Token,
          tables, body, requestVars, Goto, Returns
  <2>1. CASE Tick
    BY <2>1 DEF Tick
  <2>2. ASSUME NEW a \in Addrs, NEW n \in Nonces, GetChallenge(a, n) PROVE TypeOK'
    BY <2>2 DEF GetChallenge
  <2>3. ASSUME NEW v \in Attempts, NEW m \in messages, NEW r \in Roles,
               NEW s \in BOOLEAN, Submit(v, m, r, s)
        PROVE TypeOK'
    BY <2>3 DEF Submit, NonceUsed
  <2>4. ASSUME NEW v \in Attempts, CheckNonce(v) PROVE TypeOK'
    BY <2>4 DEF CheckNonce
  <2>5. ASSUME NEW v \in Attempts, DeleteNonce(v) PROVE TypeOK'
    BY <2>5 DEF DeleteNonce
  <2>6. ASSUME NEW v \in Attempts, LookupUser(v) PROVE TypeOK'
    BY <2>6 DEF LookupUser
  <2>7. ASSUME NEW v \in Attempts, InsertUser(v) PROVE TypeOK'
    <3>1. /\ UNCHANGED <<now, nonceRows, audit, messages, body, tokens, requestVars, replay>>
          /\ userSeq' = userSeq + 1
          /\ \/ UNCHANGED users
             \/ users' = users \cup {[id |-> userSeq, addr |-> login[v].addr, role |-> role[v]]}
          /\ pc[v] = "insert" /\ \E stage \in {"audit", "error"} : pc' = [pc EXCEPT ![v] = stage]
      BY <2>7 DEF InsertUser
    <3>2. login[v] \in Challenge /\ role[v] \in Roles
      BY <3>1
    <3>3. users' \subseteq UserRow
      BY <3>1, <3>2
    <3> QED
      BY <3>1, <3>3
  <2>8. ASSUME NEW v \in Attempts, UpdateUser(v) PROVE TypeOK'
    <3>1. /\ UNCHANGED <<now, nonceRows, userSeq, audit, messages, body, tokens, requestVars,
                         replay>>
          /\ users' = {IF u.addr = login[v].addr THEN [u EXCEPT !.role = role[v]] ELSE u
                         : u \in users}
          /\ pc[v] = "update" /\ \E stage \in {"audit", "error"} : pc' = [pc EXCEPT ![v] = stage]
      BY <2>8 DEF UpdateUser
    <3>2. role[v] \in Roles
      BY <3>1
    <3>3. users' \subseteq UserRow
      BY <3>1, <3>2
    <3> QED
      BY <3>1, <3>3
  <2>9. ASSUME NEW v \in Attempts, AuditLogin(v) PROVE TypeOK'
    BY <2>9 DEF AuditLogin
  <2>10. ASSUME NEW v \in Attempts, IssueToken(v) PROVE TypeOK'
    BY <2>10 DEF IssueToken
  <2>11. ASSUME NEW v \in Attempts, DbFails(v) PROVE TypeOK'
    BY <2>11 DEF DbFails
  <2>12. ASSUME NEW q \in Requests, NEW t \in tokens, Authenticate(q, t) PROVE TypeOK'
    BY <2>12 DEF Authenticate
  <2>13. ASSUME NEW q \in Requests, AuditRequest(q) PROVE TypeOK'
    BY <2>13 DEF AuditRequest
  <2>14. ASSUME NEW q \in Requests, AuditRequestFails(q) PROVE TypeOK'
    BY <2>14 DEF AuditRequestFails
  <2>15. CASE UNCHANGED vars
    BY <2>15 DEF vars
  <2> HIDE DEF TypeOK, Stages, PastDelete, Answers, Challenge, UserRow, Token,
          tables, body, requestVars, Goto, Returns
  <2> QED
    BY <2>1, <2>2, <2>3, <2>4, <2>5, <2>6, <2>7, <2>8, <2>9, <2>10, <2>11, <2>12,
       <2>13, <2>14, <2>15 DEF Next, VerifyStep
<1> QED
  BY <1>1, <1>2, PTL DEF Spec

\* A request that was sent after its nonce had been deleted is refused
\* (authController.js: the nonce SELECT in front of every sign-in).
THEOREM ReplaysRefused == Spec => []ReplayRefused
<1>1. Init => ReplayInv
  <2>1. Init => TypeOK
    BY AuthAssumption DEF Init, TypeOK, Stages, PastDelete, Answers
  <2> QED
    BY <2>1 DEF Init, ReplayInv, UsedIsGone, ReplayStuck, PastDelete
<1>2. ReplayInv /\ TypeOK' /\ [Next]_vars => ReplayInv'
  <2> SUFFICES ASSUME ReplayInv, TypeOK', [Next]_vars
               PROVE UsedIsGone' /\ ReplayStuck'
    BY DEF ReplayInv
  <2> USE DEF ReplayInv, UsedIsGone, ReplayStuck, NonceGone, TypeOK, PastDelete, Goto, Returns,
              tables, body, requestVars
  <2>1. CASE UNCHANGED <<nonceRows, login, replay, pc>>
    BY <2>1
  <2>2. ASSUME NEW a \in Addrs, NEW n \in Nonces, GetChallenge(a, n)
        PROVE UsedIsGone' /\ ReplayStuck'
    <3>1. \A v \in Attempts : pc[v] # "idle" => login[v].nonce # n
      BY <2>2 DEF GetChallenge
    <3> QED
      BY <2>2, <3>1 DEF GetChallenge
  <2>3. ASSUME NEW v \in Attempts, NEW m \in messages, NEW r \in Roles,
               NEW s \in BOOLEAN, Submit(v, m, r, s)
        PROVE UsedIsGone' /\ ReplayStuck'
    BY <2>3 DEF Submit, NonceUsed
  <2>4. ASSUME NEW v \in Attempts, CheckNonce(v) PROVE UsedIsGone' /\ ReplayStuck'
    <3>1. replay[v] => ~NonceFound(v)
      BY DEF NonceFound
    <3> QED
      BY <2>4, <3>1 DEF CheckNonce
  <2>5. ASSUME NEW v \in Attempts, DeleteNonce(v) PROVE UsedIsGone' /\ ReplayStuck'
    BY <2>5 DEF DeleteNonce
  <2>6. ASSUME NEW v \in Attempts,
               LookupUser(v) \/ InsertUser(v) \/ UpdateUser(v) \/ AuditLogin(v)
                 \/ IssueToken(v)
        PROVE UsedIsGone' /\ ReplayStuck'
    <3>1. /\ pc[v] \in PastDelete \ {"token"}
          /\ UNCHANGED <<nonceRows, login, replay>>
          /\ \E stage \in PastDelete \cup {"error"} : pc' = [pc EXCEPT ![v] = stage]
      BY <2>6 DEF LookupUser, InsertUser, UpdateUser, AuditLogin, IssueToken
    <3> QED
      BY <3>1
  <2>7. ASSUME NEW v \in Attempts, DbFails(v) PROVE UsedIsGone' /\ ReplayStuck'
    BY <2>7 DEF DbFails
  <2>8. ASSUME NEW q \in Requests, NEW t \in tokens, Authenticate(q, t)
        PROVE UNCHANGED <<nonceRows, login, replay, pc>>
    BY <2>8 DEF Authenticate
  <2>9. ASSUME NEW q \in Requests, AuditRequest(q) \/ AuditRequestFails(q)
        PROVE UNCHANGED <<nonceRows, login, replay, pc>>
    BY <2>9 DEF AuditRequest, AuditRequestFails
  <2>10. CASE Tick
    BY <2>1, <2>10 DEF Tick
  <2>11. CASE UNCHANGED vars
    BY <2>1, <2>11 DEF vars
  <2> QED
    BY <2>1, <2>2, <2>3, <2>4, <2>5, <2>6, <2>7, <2>8, <2>9, <2>10, <2>11
    DEF Next, VerifyStep
<1>3. ReplayInv => ReplayRefused
  BY DEF ReplayInv, ReplayStuck, ReplayRefused
<1> QED
  BY <1>1, <1>2, <1>3, TypeCorrect, PTL DEF Spec

\* Concurrent first logins leave one users row per address, and every token is
\* for an address that has one (the UNIQUE constraint behind the INSERT).
THEOREM UsersUnique == Spec => []OneUserPerAddress
<1>1. Init => UserInv
  <2>1. Init => TypeOK
    BY AuthAssumption DEF Init, TypeOK, Stages, PastDelete, Answers
  <2> QED
    BY <2>1 DEF Init, UserInv, HasRow, UniqueRow
<1>2. UserInv /\ TypeOK' /\ [Next]_vars => UserInv'
  <2> SUFFICES ASSUME UserInv, TypeOK', [Next]_vars
               PROVE HasRow' /\ UniqueRow'
    BY DEF UserInv
  <2> USE DEF UserInv, HasRow, Registered, UniqueRow, TypeOK, PastDelete, Stages, Goto, Returns,
              tables, body, requestVars, UserRow, Challenge
  <2>1. CASE UNCHANGED <<users, tokens, login, pc>>
    BY <2>1
  <2>2. ASSUME NEW v \in Attempts, NEW m \in messages, NEW r \in Roles,
               NEW s \in BOOLEAN, Submit(v, m, r, s)
        PROVE HasRow' /\ UniqueRow'
    BY <2>2 DEF Submit
  <2>3. ASSUME NEW v \in Attempts, CheckNonce(v) \/ DeleteNonce(v) \/ DbFails(v)
        PROVE HasRow' /\ UniqueRow'
    BY <2>3 DEF CheckNonce, DeleteNonce, DbFails
  <2>4. ASSUME NEW v \in Attempts, LookupUser(v) PROVE HasRow' /\ UniqueRow'
    BY <2>4 DEF LookupUser, RowsOf
  <2>5. ASSUME NEW v \in Attempts, InsertUser(v) PROVE HasRow' /\ UniqueRow'
    <3>1. CASE RowsOf(login[v].addr) = {}
      <4> DEFINE row == [id |-> userSeq, addr |-> login[v].addr, role |-> role[v]]
      <4>1. users' = users \cup {row} /\ row.addr = login[v].addr
        BY <2>5, <3>1 DEF InsertUser
      <4>2. \A u, w \in users' : u.addr = w.addr => u = w
        BY <4>1, <3>1 DEF RowsOf
      <4>3. /\ UNCHANGED <<login, tokens>>
            /\ \E stage \in {"audit", "error"} : pc' = [pc EXCEPT ![v] = stage]
        BY <2>5, <3>1 DEF InsertUser
      <4>4. HasRow'
        <5> HIDE DEF row
        <5>1. \A a : (\E u \in users : u.addr = a) => (\E u \in users' : u.addr = a)
          BY <4>1
        <5>2. \E u \in users' : u.addr = login[v].addr
          BY <4>1
        <5>3. \A w \in Attempts :
                pc'[w] \in {"update", "audit", "sign", "token"} =>
                  w = v \/ pc[w] \in {"update", "audit", "sign", "token"}
          BY <4>3
        <5>4. \A w \in Attempts :
                pc'[w] \in {"update", "audit", "sign", "token"} =>
                  \E u \in users' : u.addr = login[w].addr
          BY <5>1, <5>2, <5>3
        <5> QED
          BY <4>3, <5>1, <5>4
      <4> QED
        BY <4>1, <4>2, <4>3, <4>4
    <3>2. CASE RowsOf(login[v].addr) # {}
      BY <2>5, <3>2 DEF InsertUser
    <3> QED
      BY <3>1, <3>2
  <2>6. ASSUME NEW v \in Attempts, UpdateUser(v) PROVE HasRow' /\ UniqueRow'
    <3> DEFINE new(u) == IF u.addr = login[v].addr THEN [u EXCEPT !.role = role[v]] ELSE u
    <3>1. /\ users' = {new(u) : u \in users}
          /\ UNCHANGED <<login, tokens>> /\ pc[v] = "update"
          /\ \E stage \in {"audit", "error"} : pc' = [pc EXCEPT ![v] = stage]
      BY <2>6 DEF UpdateUser
    <3>2. \A u \in users : new(u).addr = u.addr
      OBVIOUS
    <3> HIDE DEF new
    <3>3. \A u, w \in users' : u.addr = w.addr => u = w
      BY <3>1, <3>2
    <3>4. \A a : (\E u \in users : u.addr = a) => (\E u \in users' : u.addr = a)
      BY <3>1, <3>2
    <3>5. \A w \in Attempts :
            pc'[w] \in {"update", "audit", "sign", "token"} =>
              pc[w] \in {"update", "audit", "sign", "token"}
      BY <3>1
    <3>6. HasRow'
      BY <3>1, <3>4, <3>5
    <3> QED
      BY <3>3, <3>6
  <2>7. ASSUME NEW v \in Attempts, AuditLogin(v) PROVE HasRow' /\ UniqueRow'
    BY <2>7 DEF AuditLogin
  <2>8. ASSUME NEW v \in Attempts, IssueToken(v) PROVE HasRow' /\ UniqueRow'
    BY <2>8 DEF IssueToken
  <2>9. ASSUME NEW a \in Addrs, NEW n \in Nonces, GetChallenge(a, n)
        PROVE UNCHANGED <<users, tokens, login, pc>>
    BY <2>9 DEF GetChallenge
  <2>10. ASSUME NEW q \in Requests, NEW t \in tokens, Authenticate(q, t)
         PROVE UNCHANGED <<users, tokens, login, pc>>
    BY <2>10 DEF Authenticate
  <2>11. ASSUME NEW q \in Requests, AuditRequest(q) \/ AuditRequestFails(q)
         PROVE UNCHANGED <<users, tokens, login, pc>>
    BY <2>11 DEF AuditRequest, AuditRequestFails
  <2>12. CASE Tick
    BY <2>1, <2>12 DEF Tick
  <2>13. CASE UNCHANGED vars
    BY <2>1, <2>13 DEF vars
  <2> QED
    BY <2>1, <2>2, <2>3, <2>4, <2>5, <2>6, <2>7, <2>8, <2>9, <2>10, <2>11, <2>12, <2>13
    DEF Next, VerifyStep
<1>3. UserInv => OneUserPerAddress
  BY DEF UserInv, HasRow, Registered, UniqueRow, OneUserPerAddress, RowsOf
<1> QED
  BY <1>1, <1>2, <1>3, TypeCorrect, PTL DEF Spec

\* "Invalid or expired nonce" answers a challenge of this server only when it has expired
\* or another request has reached the DELETE of its nonce (authController.js: SELECT,
\* DELETE and the queries behind them, each of which may fail with or without effect).
THEOREM RefusalsHaveACause == Spec => []RefusedForCause
<1>1. Init => CauseInv
  <2>1. Init => TypeOK
    BY AuthAssumption DEF Init, TypeOK, Stages, PastDelete, Answers
  <2> QED
    BY <2>1 DEF Init, CauseInv, NonceIsOfOne, TakenOrWaiting, RefusedForCause
<1>2. CauseInv /\ TypeOK' /\ [Next]_vars => CauseInv'
  <2> SUFFICES ASSUME CauseInv, TypeOK', [Next]_vars
               PROVE NonceIsOfOne' /\ TakenOrWaiting' /\ RefusedForCause'
    BY DEF CauseInv
  <2> USE DEF CauseInv, NonceIsOfOne, TakenOrWaiting, RefusedForCause, TypeOK, PastDelete,
              Goto, Returns, tables, body, requestVars
  <2>1. CASE UNCHANGED <<now, nonceRows, messages, login, pc>>
    BY <2>1
  <2>2. ASSUME NEW a \in Addrs, NEW n \in Nonces, GetChallenge(a, n)
        PROVE NonceIsOfOne' /\ TakenOrWaiting' /\ RefusedForCause'
    <3>1. /\ UNCHANGED <<now, login, pc>>
          /\ \E m : /\ m.nonce = n /\ nonceRows' = nonceRows \cup {m}
                    /\ messages' = messages \cup {m}
          /\ \A m \in messages : m.nonce # n
      BY <2>2 DEF GetChallenge
    <3> QED
      BY <3>1
  <2>3. ASSUME NEW v \in Attempts, NEW m \in messages, NEW r \in Roles,
               NEW s \in BOOLEAN, Submit(v, m, r, s)
        PROVE NonceIsOfOne' /\ TakenOrWaiting' /\ RefusedForCause'
    BY <2>3 DEF Submit
  <2>4. ASSUME NEW v \in Attempts, CheckNonce(v)
        PROVE NonceIsOfOne' /\ TakenOrWaiting' /\ RefusedForCause'
    <3>1. /\ UNCHANGED <<now, nonceRows, messages, login>> /\ pc[v] = "check"
          /\ pc' = [pc EXCEPT ![v] = IF NonceFound(v) THEN "delete" ELSE "denied"]
      BY <2>4 DEF CheckNonce
    <3>2. ASSUME ~NonceFound(v)
          PROVE  \/ now >= login[v].expires
                 \/ \E w \in Attempts \ {v} :
                      pc[w] \in PastDelete \cup {"error"} /\ login[w] = login[v]
      BY <3>1, <3>2 DEF NonceFound, Challenge
    <3> QED
      BY <3>1, <3>2
  <2>5. ASSUME NEW v \in Attempts, DeleteNonce(v)
        PROVE NonceIsOfOne' /\ TakenOrWaiting' /\ RefusedForCause'
    BY <2>5 DEF DeleteNonce
  <2>6. ASSUME NEW v \in Attempts,
               \/ LookupUser(v) \/ InsertUser(v) \/ UpdateUser(v) \/ AuditLogin(v)
               \/ IssueToken(v) \/ DbFails(v)
        PROVE NonceIsOfOne' /\ TakenOrWaiting' /\ RefusedForCause'
    <3>1. /\ pc[v] \in {"check", "delete"} \cup PastDelete
          /\ UNCHANGED <<now, nonceRows, messages, login>>
          /\ \E stage \in PastDelete \cup {"error"} : pc' = [pc EXCEPT ![v] = stage]
      BY <2>6 DEF LookupUser, InsertUser, UpdateUser, AuditLogin, IssueToken, DbFails
    <3> QED
      BY <3>1
  <2>7. ASSUME NEW q \in Requests, NEW t \in tokens, Authenticate(q, t)
        PROVE UNCHANGED <<now, nonceRows, messages, login, pc>>
    BY <2>7 DEF Authenticate
  <2>8. ASSUME NEW q \in Requests, AuditRequest(q) \/ AuditRequestFails(q)
        PROVE UNCHANGED <<now, nonceRows, messages, login, pc>>
    BY <2>8 DEF AuditRequest, AuditRequestFails
  <2>9. CASE Tick
    BY <2>9 DEF Tick, Challenge
  <2>10. CASE UNCHANGED vars
    BY <2>1, <2>10 DEF vars
  <2> QED
    BY <2>1, <2>2, <2>3, <2>4, <2>5, <2>6, <2>7, <2>8, <2>9, <2>10 DEF Next, VerifyStep
<1>3. CauseInv => RefusedForCause
  BY DEF CauseInv
<1> QED
  BY <1>1, <1>2, <1>3, TypeCorrect, PTL DEF Spec

\* A set that grows by at most one element gains at most one.
LEMMA AtMostOneMore ==
  ASSUME NEW S, NEW T, NEW x, IsFiniteSet(S), T \subseteq S \cup {x}, S \subseteq T
  PROVE  /\ IsFiniteSet(T) /\ Cardinality(S) \in Nat /\ Cardinality(T) \in Nat
         /\ Cardinality(T) <= Cardinality(S) + 1
<1>1. T = S \/ T = S \cup {x}
  OBVIOUS
<1> QED
  BY <1>1, FS_AddElement, FS_CardinalityType

\* A set that loses at most one element, or nothing.
LEMMA OneLess ==
  ASSUME NEW S, NEW x \in S, IsFiniteSet(S)
  PROVE  /\ IsFiniteSet(S \ {x}) /\ Cardinality(S) \in Nat /\ Cardinality(S \ {x}) \in Nat
         /\ Cardinality(S \ {x}) + 1 = Cardinality(S)
  BY FS_RemoveElement, FS_CardinalityType

\* A step that hands out nothing and serves nothing keeps the rows.
LEMMA NothingUsed ==
  ASSUME AuditInv, UNCHANGED <<audit, tokens, reqToken>>,
         \A q \in Requests : reqPc'[q] = "served" <=> reqPc[q] = "served",
         \A v \in Attempts : pc'[v] = "sign" <=> pc[v] = "sign",
         \A v \in Attempts : pc[v] = "sign" => login'[v] = login[v] /\ role'[v] = role[v]
  PROVE  AuditInv'
<1> SUFFICES ASSUME NEW a \in Addrs, NEW r \in Roles PROVE RowForEach(a, r)'
  BY DEF AuditInv
<1>1. /\ TokensOf(a, r)' = TokensOf(a, r) /\ ServedOf(a, r)' = ServedOf(a, r)
      /\ SigningOf(a, r)' = SigningOf(a, r)
  BY DEF TokensOf, ServedOf, SigningOf
<1>2. RowForEach(a, r)
  BY DEF AuditInv
<1> QED
  BY <1>1, <1>2 DEF RowForEach

\* No token and no answer of the API without a row of login_audit of its own
\* (authController.js and middleware/auth.js, the INSERTs into login_audit).
THEOREM UsesAreAudited == Spec => []EveryUseIsAudited
<1>1. Init => AuditInv
  <2> SUFFICES ASSUME Init, NEW a \in Addrs, NEW r \in Roles PROVE RowForEach(a, r)
    BY DEF AuditInv
  <2>1. TokensOf(a, r) = {} /\ ServedOf(a, r) = {} /\ SigningOf(a, r) = {}
    BY DEF Init, TokensOf, ServedOf, SigningOf
  <2>2. audit[<<a, r>>] = 0
    BY DEF Init
  <2> QED
    BY <2>1, <2>2, FS_EmptySet DEF RowForEach
<1>2. TypeOK /\ AuditInv /\ [Next]_vars => AuditInv'
  <2> SUFFICES ASSUME TypeOK, AuditInv, [Next]_vars PROVE AuditInv'
    OBVIOUS
  <2>0. /\ pc \in [Attempts -> Stages] /\ login \in [Attempts -> Challenge \cup {Nothing}]
        /\ role \in [Attempts -> Roles \cup {Nothing}]
        /\ audit \in [Addrs \X Roles -> Nat]
        /\ reqPc \in [Requests -> {"idle", "log", "served", "unauthorized", "error"}]
        /\ reqToken \in [Requests -> Token \cup {Nothing}]
        /\ tokens \subseteq Token
        /\ \A v \in Attempts : pc[v] # "idle" => login[v] \in Challenge /\ role[v] \in Roles
        /\ \A q \in Requests : reqPc[q] # "idle" => reqToken[q] \in Token
    BY DEF TypeOK
  <2>1. CASE Tick \/ UNCHANGED vars
    BY <2>1, NothingUsed DEF Tick, vars, tables, body, requestVars
  <2>2. ASSUME NEW a \in Addrs, NEW n \in Nonces, GetChallenge(a, n) PROVE AuditInv'
    BY <2>2, NothingUsed DEF GetChallenge, body, requestVars
  <2>3. ASSUME NEW v \in Attempts, NEW m \in messages, NEW r \in Roles,
               NEW s \in BOOLEAN, Submit(v, m, r, s)
        PROVE AuditInv'
    BY <2>0, <2>3, NothingUsed DEF Submit, Goto, tables, body, requestVars
  <2>4. ASSUME NEW v \in Attempts,
               \/ CheckNonce(v) \/ DeleteNonce(v) \/ LookupUser(v) \/ InsertUser(v)
               \/ UpdateUser(v) \/ DbFails(v)
        PROVE AuditInv'
    <3>1. /\ UNCHANGED <<audit, tokens, reqToken, reqPc, login, role>> /\ pc[v] # "sign"
          /\ \E stage : stage # "sign" /\ pc' = [pc EXCEPT ![v] = stage]
      BY <2>4 DEF CheckNonce, DeleteNonce, LookupUser, InsertUser, UpdateUser, DbFails, Goto, Returns,
                  tables, body, requestVars
    <3> QED
      BY <2>0, <3>1, NothingUsed
  <2>5. ASSUME NEW v \in Attempts, AuditLogin(v) PROVE AuditInv'
    <3> SUFFICES ASSUME NEW a \in Addrs, NEW r \in Roles PROVE RowForEach(a, r)'
      BY DEF AuditInv
    <3>1. /\ pc[v] = "audit"
          /\ \E stage \in {"sign", "error"} : pc' = [pc EXCEPT ![v] = stage]
          /\ audit' = [audit EXCEPT ![<<login[v].addr, role[v]>>] = @ + 1]
          /\ UNCHANGED <<tokens, reqToken, reqPc, login, role>>
      BY <2>5 DEF AuditLogin, Goto, Returns, body, requestVars
    <3>2. RowForEach(a, r) /\ TokensOf(a, r)' = TokensOf(a, r) /\ ServedOf(a, r)' = ServedOf(a, r)
      BY <3>1 DEF AuditInv, TokensOf, ServedOf
    <3>3. CASE login[v].addr = a /\ role[v] = r
      <4>1. SigningOf(a, r) \subseteq SigningOf(a, r)'
            /\ SigningOf(a, r)' \subseteq SigningOf(a, r) \cup {v}
        BY <2>0, <3>1 DEF SigningOf
      <4>2. audit'[<<a, r>>] = audit[<<a, r>>] + 1 /\ audit[<<a, r>>] \in Nat
        BY <2>0, <3>1, <3>3
      <4>3. Cardinality(TokensOf(a, r)) \in Nat /\ Cardinality(ServedOf(a, r)) \in Nat
        BY <3>2, FS_CardinalityType DEF RowForEach
      <4>4. /\ IsFiniteSet(SigningOf(a, r)')
            /\ Cardinality(SigningOf(a, r)) \in Nat /\ Cardinality(SigningOf(a, r)') \in Nat
            /\ Cardinality(SigningOf(a, r)') <= Cardinality(SigningOf(a, r)) + 1
        BY <3>2, <4>1, AtMostOneMore DEF RowForEach
      <4> QED
        BY <3>2, <4>2, <4>3, <4>4 DEF RowForEach
    <3>4. CASE ~(login[v].addr = a /\ role[v] = r)
      <4>1. SigningOf(a, r)' = SigningOf(a, r)
        BY <2>0, <3>1, <3>4 DEF SigningOf
      <4>2. audit'[<<a, r>>] = audit[<<a, r>>]
        BY <2>0, <3>1, <3>4
      <4> QED
        BY <3>2, <4>1, <4>2 DEF RowForEach
    <3> QED
      BY <3>3, <3>4
  <2>6. ASSUME NEW v \in Attempts, IssueToken(v) PROVE AuditInv'
    <3> SUFFICES ASSUME NEW a \in Addrs, NEW r \in Roles PROVE RowForEach(a, r)'
      BY DEF AuditInv
    <3> DEFINE t == [attempt |-> v, addr |-> login[v].addr, role |-> role[v],
                     exp |-> now + TokenTTL]
    <3>1. /\ pc[v] = "sign" /\ pc' = [pc EXCEPT ![v] = "token"]
          /\ tokens' = tokens \cup {t}
          /\ UNCHANGED <<audit, reqToken, reqPc, login, role>>
      BY <2>6 DEF IssueToken, Goto, tables, body, requestVars
    <3>2. RowForEach(a, r) /\ ServedOf(a, r)' = ServedOf(a, r)
      BY <3>1 DEF AuditInv, ServedOf
    <3>3. t.addr = login[v].addr /\ t.role = role[v]
      OBVIOUS
    <3> HIDE DEF t
    <3>4. CASE login[v].addr = a /\ role[v] = r
      <4>1. /\ TokensOf(a, r) \subseteq TokensOf(a, r)'
            /\ TokensOf(a, r)' \subseteq TokensOf(a, r) \cup {t}
        BY <3>1 DEF TokensOf
      <4>2. v \in SigningOf(a, r) /\ SigningOf(a, r)' = SigningOf(a, r) \ {v}
        BY <2>0, <3>1, <3>4 DEF SigningOf
      <4>3. Cardinality(ServedOf(a, r)) \in Nat /\ audit[<<a, r>>] \in Nat
        BY <2>0, <3>2, FS_CardinalityType DEF RowForEach
      <4>4. /\ IsFiniteSet(TokensOf(a, r)')
            /\ Cardinality(TokensOf(a, r)) \in Nat /\ Cardinality(TokensOf(a, r)') \in Nat
            /\ Cardinality(TokensOf(a, r)') <= Cardinality(TokensOf(a, r)) + 1
        BY <3>2, <4>1, AtMostOneMore DEF RowForEach
      <4>5. /\ IsFiniteSet(SigningOf(a, r)')
            /\ Cardinality(SigningOf(a, r)) \in Nat /\ Cardinality(SigningOf(a, r)') \in Nat
            /\ Cardinality(SigningOf(a, r)') + 1 = Cardinality(SigningOf(a, r))
        BY <3>2, <4>2, OneLess DEF RowForEach
      <4> QED
        BY <3>1, <3>2, <4>3, <4>4, <4>5 DEF RowForEach
    <3>5. CASE ~(login[v].addr = a /\ role[v] = r)
      <4>1. TokensOf(a, r)' = TokensOf(a, r) /\ SigningOf(a, r)' = SigningOf(a, r)
        BY <2>0, <3>1, <3>3, <3>5 DEF TokensOf, SigningOf
      <4> QED
        BY <3>1, <3>2, <4>1 DEF RowForEach
    <3> QED
      BY <3>4, <3>5
  <2>7. ASSUME NEW q \in Requests, NEW t \in tokens, Authenticate(q, t) PROVE AuditInv'
    <3> SUFFICES ASSUME NEW a \in Addrs, NEW r \in Roles PROVE RowForEach(a, r)'
      BY DEF AuditInv
    <3>1. /\ reqPc[q] = "idle" /\ reqToken' = [reqToken EXCEPT ![q] = t]
          /\ \E stage \in {"log", "unauthorized"} : reqPc' = [reqPc EXCEPT ![q] = stage]
          /\ UNCHANGED <<audit, tokens, pc, login, role>>
      BY <2>7 DEF Authenticate, body, tables
    <3>2. /\ TokensOf(a, r)' = TokensOf(a, r) /\ ServedOf(a, r)' = ServedOf(a, r)
          /\ SigningOf(a, r)' = SigningOf(a, r)
      BY <2>0, <3>1 DEF TokensOf, ServedOf, SigningOf
    <3> QED
      BY <3>1, <3>2 DEF AuditInv, RowForEach
  <2>8. ASSUME NEW q \in Requests, AuditRequest(q) PROVE AuditInv'
    <3> SUFFICES ASSUME NEW a \in Addrs, NEW r \in Roles PROVE RowForEach(a, r)'
      BY DEF AuditInv
    <3>1. /\ reqPc[q] = "log"
          /\ \E stage \in {"served", "error"} : reqPc' = [reqPc EXCEPT ![q] = stage]
          /\ audit' = [audit EXCEPT ![<<reqToken[q].addr, reqToken[q].role>>] = @ + 1]
          /\ UNCHANGED <<tokens, reqToken, pc, login, role>>
      BY <2>8 DEF AuditRequest, body
    <3>2. /\ RowForEach(a, r) /\ TokensOf(a, r)' = TokensOf(a, r)
          /\ SigningOf(a, r)' = SigningOf(a, r)
      BY <3>1 DEF AuditInv, TokensOf, SigningOf
    <3>3. CASE reqToken[q].addr = a /\ reqToken[q].role = r
      <4>1. /\ ServedOf(a, r) \subseteq ServedOf(a, r)'
            /\ ServedOf(a, r)' \subseteq ServedOf(a, r) \cup {q}
        BY <2>0, <3>1 DEF ServedOf
      <4>2. audit'[<<a, r>>] = audit[<<a, r>>] + 1 /\ audit[<<a, r>>] \in Nat
        BY <2>0, <3>1, <3>3
      <4>3. Cardinality(TokensOf(a, r)) \in Nat /\ Cardinality(SigningOf(a, r)) \in Nat
        BY <3>2, FS_CardinalityType DEF RowForEach
      <4>4. /\ IsFiniteSet(ServedOf(a, r)')
            /\ Cardinality(ServedOf(a, r)) \in Nat /\ Cardinality(ServedOf(a, r)') \in Nat
            /\ Cardinality(ServedOf(a, r)') <= Cardinality(ServedOf(a, r)) + 1
        BY <3>2, <4>1, AtMostOneMore DEF RowForEach
      <4> QED
        BY <3>2, <4>2, <4>3, <4>4 DEF RowForEach
    <3>4. CASE ~(reqToken[q].addr = a /\ reqToken[q].role = r)
      <4>1. ServedOf(a, r)' = ServedOf(a, r)
        BY <2>0, <3>1, <3>4 DEF ServedOf
      <4>2. reqToken[q].addr \in Addrs /\ reqToken[q].role \in Roles
        BY <2>0, <3>1 DEF Token
      <4>3. audit'[<<a, r>>] = audit[<<a, r>>]
        BY <2>0, <3>1, <3>4, <4>2
      <4> QED
        BY <3>2, <4>1, <4>3 DEF RowForEach
    <3> QED
      BY <3>3, <3>4
  <2>9. ASSUME NEW q \in Requests, AuditRequestFails(q) PROVE AuditInv'
    <3>1. /\ reqPc[q] = "log" /\ reqPc' = [reqPc EXCEPT ![q] = "error"]
          /\ UNCHANGED <<audit, tokens, reqToken, pc, login, role>>
      BY <2>9 DEF AuditRequestFails, body, tables
    <3> QED
      BY <2>0, <3>1, NothingUsed
  <2> QED
    BY <2>1, <2>2, <2>3, <2>4, <2>5, <2>6, <2>7, <2>8, <2>9 DEF Next, VerifyStep
<1>3. TypeOK /\ AuditInv => EveryUseIsAudited
  <2> SUFFICES ASSUME TypeOK, AuditInv, NEW a \in Addrs, NEW r \in Roles
               PROVE Cardinality(TokensOf(a, r)) + Cardinality(ServedOf(a, r)) <= audit[<<a, r>>]
    BY DEF EveryUseIsAudited, TokensOf, ServedOf
  <2>1. RowForEach(a, r) /\ audit[<<a, r>>] \in Nat
    BY DEF AuditInv, TypeOK
  <2>2. /\ Cardinality(TokensOf(a, r)) \in Nat /\ Cardinality(ServedOf(a, r)) \in Nat
        /\ Cardinality(SigningOf(a, r)) \in Nat
    BY <2>1, FS_CardinalityType DEF RowForEach
  <2> QED
    BY <2>1, <2>2 DEF RowForEach
<1> QED
  BY <1>1, <1>2, <1>3, TypeCorrect, PTL DEF Spec
================================================================================
