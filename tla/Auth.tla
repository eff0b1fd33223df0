---------------------------------- MODULE Auth ----------------------------------
(***************************************************************************)
(* Sign-in with Ethereum (backend/src/controllers/authController.js) and   *)
(* the bearer-token check in front of every API route                      *)
(* (backend/middleware/auth.js), over the tables nonces, users and         *)
(* login_audit (backend/db/schema.sql).  Handlers interleave at their      *)
(* awaits: every SQL statement is one action.  A statement that fails may  *)
(* have taken effect, when the connection is lost behind its commit.  The  *)
(* handler catches the exception of siweMessage.verify and goes on with    *)
(* the parsed message: whether a signature is good is part of the request  *)
(* (signed) and decides nothing.                                           *)
(***************************************************************************)
EXTENDS Naturals, FiniteSets

CONSTANTS Addrs,        \* normalised addresses
          Roles,        \* ALLOWED_ROLES, what normalizeRole returns
          Nonces,       \* 32 random bytes: each is generated once
          Attempts,     \* POST /api/auth/verify requests, each used once
          Requests,     \* authenticated API requests, each used once
          TTL,          \* CHALLENGE_TTL_MINUTES
          TokenTTL,     \* lifetime of a JWT (24 h)
          MaxTime,      \* bound of the clock
          DbMayFail,    \* may a query be rejected for outside reasons?
          Nothing       \* field of a request that was not sent

ASSUME AuthAssumption ==
  /\ TTL \in Nat /\ TokenTTL \in Nat /\ MaxTime \in Nat
  /\ DbMayFail \in BOOLEAN

VARIABLES now,          \* database and server time
          nonceRows,    \* table nonces
          users,        \* table users
          userSeq,      \* sequence behind users.id
          audit,        \* table login_audit, as a count of equal rows
          messages,     \* challenges handed out to clients
          pc,           \* stage, then answer, of a verify request
          login,        \* the challenge a verify request presents
          role,         \* effectiveRole of a verify request
          signed,       \* does siweMessage.verify accept its signature?
          tokens,       \* JWTs handed out
          reqPc,        \* stage, then answer, of an API request
          reqToken,     \* the JWT an API request carries
          replay        \* history: was the nonce already deleted at submission?

vars == <<now, nonceRows, users, userSeq, audit, messages, pc, login, role,
          signed, tokens, reqPc, reqToken, replay>>
tables == <<nonceRows, users, userSeq, audit>>
body == <<login, role, signed>>
requestVars == <<reqPc, reqToken>>

Challenge == [nonce : Nonces, addr : Addrs, expires : Nat]
UserRow   == [id : Nat, addr : Addrs, role : Roles]
Token     == [attempt : Attempts, addr : Addrs, role : Roles, exp : Nat]

Answers    == {"token", "denied", "error"}
PastDelete == {"lookup", "insert", "update", "audit", "sign", "token"}
Stages     == {"idle", "check", "delete"} \cup PastDelete \cup Answers

TypeOK ==
  /\ now \in Nat /\ userSeq \in Nat
  /\ nonceRows \subseteq Challenge /\ messages \subseteq Challenge
  /\ users \subseteq UserRow
  /\ audit \in [Addrs \X Roles -> Nat]
  /\ pc \in [Attempts -> Stages]
  /\ login \in [Attempts -> Challenge \cup {Nothing}]
  /\ role \in [Attempts -> Roles \cup {Nothing}]
  /\ signed \in [Attempts -> BOOLEAN]
  /\ \A v \in Attempts : pc[v] # "idle" => login[v] \in messages /\ role[v] \in Roles
  /\ tokens \subseteq Token
  /\ reqPc \in [Requests -> {"idle", "log", "served", "unauthorized", "error"}]
  /\ reqToken \in [Requests -> Token \cup {Nothing}]
  /\ \A q \in Requests : reqPc[q] # "idle" => reqToken[q] \in tokens
  /\ replay \in [Attempts -> BOOLEAN]

Init ==
  /\ now = 0 /\ userSeq = 0
  /\ nonceRows = {} /\ messages = {} /\ users = {} /\ tokens = {}
  /\ audit = [x \in Addrs \X Roles |-> 0]
  /\ pc = [v \in Attempts |-> "idle"]
  /\ login = [v \in Attempts |-> Nothing]
  /\ role = [v \in Attempts |-> Nothing]
  /\ signed = [v \in Attempts |-> FALSE]
  /\ reqPc = [q \in Requests |-> "idle"]
  /\ reqToken = [q \in Requests |-> Nothing]
  /\ replay = [v \in Attempts |-> FALSE]

Tick ==
  /\ now < MaxTime
  /\ now' = now + 1
  /\ UNCHANGED <<tables, messages, pc, body, tokens, requestVars, replay>>

--------------------------------------------------------------------------------
\* GET /api/auth/challenge

\* The row is stored before the message leaves the server.
GetChallenge(a, n) ==
  /\ n \notin {m.nonce : m \in messages}
  /\ LET m == [nonce |-> n, addr |-> a, expires |-> now + TTL]
     IN  /\ nonceRows' = nonceRows \cup {m}
         /\ messages' = messages \cup {m}
  /\ UNCHANGED <<now, users, userSeq, audit, pc, body, tokens,
                 requestVars, replay>>

--------------------------------------------------------------------------------
\* POST /api/auth/verify

Goto(v, stage) == pc' = [pc EXCEPT ![v] = stage]

\* A statement that took effect: its answer takes the handler to its next stage, or is
\* lost with the connection, and the handler ends in its catch block.
Returns(v, stage) == Goto(v, stage) \/ (DbMayFail /\ Goto(v, "error"))

\* Has a DELETE of this nonce been done, answered or not?
NonceUsed(n) == \/ \E w \in Attempts : pc[w] \in PastDelete /\ login[w].nonce = n
                \/ \A x \in nonceRows : x.nonce # n

\* Seeded bug: a role that is not sent stays undefined.
Submit_RoleNotNormalised(v, m, r, s) ==
  /\ pc[v] = "idle"
  /\ Goto(v, "check")
  /\ login' = [login EXCEPT ![v] = m]
  /\ role' = [role EXCEPT ![v] = Nothing]
  /\ signed' = [signed EXCEPT ![v] = s]
  /\ replay' = [replay EXCEPT ![v] = NonceUsed(m.nonce)]
  /\ UNCHANGED <<now, tables, messages, tokens, requestVars>>

Submit(v, m, r, s) ==
  /\ pc[v] = "idle"
  /\ Goto(v, "check")
  /\ login' = [login EXCEPT ![v] = m]
  /\ role' = [role EXCEPT ![v] = r]
  /\ signed' = [signed EXCEPT ![v] = s]
  /\ replay' = [replay EXCEPT ![v] = NonceUsed(m.nonce)]
  /\ UNCHANGED <<now, tables, messages, tokens, requestVars>>

\* Seeded bug: the nonce counts as expired one tick before it is.
NonceFound_ExpiresEarly(v) ==
  \E x \in nonceRows : /\ x.nonce = login[v].nonce
                       /\ x.addr = login[v].addr
                       /\ x.expires > now + 1

\* SELECT 1 FROM nonces WHERE nonce = .. AND address = .. AND expires_at > NOW()
NonceFound(v) ==
  \E x \in nonceRows : /\ x.nonce = login[v].nonce
                       /\ x.addr = login[v].addr
                       /\ x.expires > now

CheckNonce(v) ==
  /\ pc[v] = "check"
  /\ Goto(v, IF NonceFound(v) THEN "delete" ELSE "denied")
  /\ UNCHANGED <<now, tables, messages, body, tokens, requestVars, replay>>

\* Seeded bug: the nonce is left to expire.
DeleteNonce_Forgotten(v) ==
  /\ pc[v] = "delete"
  /\ Goto(v, "lookup")
  /\ UNCHANGED <<now, tables, messages, body, tokens, requestVars, replay>>

\* DELETE FROM nonces WHERE nonce = ..; the number of deleted rows is not read.
DeleteNonce(v) ==
  /\ pc[v] = "delete"
  /\ Returns(v, "lookup")
  /\ nonceRows' = {x \in nonceRows : x.nonce # login[v].nonce}
  /\ UNCHANGED <<now, users, userSeq, audit, messages, body, tokens,
                 requestVars, replay>>

RowsOf(a) == {u \in users : u.addr = a}

LookupUser(v) ==
  /\ pc[v] = "lookup"
  /\ Goto(v, IF RowsOf(login[v].addr) = {} THEN "insert" ELSE "update")
  /\ UNCHANGED <<now, tables, messages, body, tokens, requestVars, replay>>

\* Seeded bugs: eth_address without UNIQUE; the losing INSERT waits instead of
\* throwing.
InsertUser_NotUnique(v) ==
  /\ pc[v] = "insert"
  /\ userSeq' = userSeq + 1
  /\ users' = users \cup {[id |-> userSeq, addr |-> login[v].addr, role |-> role[v]]}
  /\ Returns(v, "audit")
  /\ UNCHANGED <<now, nonceRows, audit, messages, body, tokens,
                 requestVars, replay>>

InsertUser_Waits(v) ==
  /\ pc[v] = "insert"
  /\ RowsOf(login[v].addr) = {}
  /\ userSeq' = userSeq + 1
  /\ users' = users \cup {[id |-> userSeq, addr |-> login[v].addr, role |-> role[v]]}
  /\ Returns(v, "audit")
  /\ UNCHANGED <<now, nonceRows, audit, messages, body, tokens,
                 requestVars, replay>>

\* INSERT INTO users: eth_address is UNIQUE, so of two first logins that both
\* found no row the second one throws; the id it drew is gone.
InsertUser(v) ==
  /\ pc[v] = "insert"
  /\ userSeq' = userSeq + 1
  /\ IF RowsOf(login[v].addr) = {}
       THEN /\ users' = users \cup {[id |-> userSeq, addr |-> login[v].addr,
                                     role |-> role[v]]}
            /\ Returns(v, "audit")
       ELSE /\ Goto(v, "error")
            /\ UNCHANGED users
  /\ UNCHANGED <<now, nonceRows, audit, messages, body, tokens,
                 requestVars, replay>>

\* Seeded bug: only a first login is audited.
UpdateUser_NoAudit(v) ==
  /\ pc[v] = "update"
  /\ users' = {IF u.addr = login[v].addr THEN [u EXCEPT !.role = role[v]] ELSE u
                 : u \in users}
  /\ Goto(v, "sign")
  /\ UNCHANGED <<now, nonceRows, userSeq, audit, messages, body, tokens,
                 requestVars, replay>>

UpdateUser(v) ==
  /\ pc[v] = "update"
  /\ users' = {IF u.addr = login[v].addr THEN [u EXCEPT !.role = role[v]] ELSE u
                 : u \in users}
  /\ Returns(v, "audit")
  /\ UNCHANGED <<now, nonceRows, userSeq, audit, messages, body, tokens,
                 requestVars, replay>>

AuditLogin(v) ==
  /\ pc[v] = "audit"
  /\ audit' = [audit EXCEPT ![<<login[v].addr, role[v]>>] = @ + 1]
  /\ Returns(v, "sign")
  /\ UNCHANGED <<now, nonceRows, users, userSeq, messages, body, tokens,
                 requestVars, replay>>

\* jwt.sign and the answer.
IssueToken(v) ==
  /\ pc[v] = "sign"
  /\ tokens' = tokens \cup {[attempt |-> v, addr |-> login[v].addr,
                             role |-> role[v], exp |-> now + TokenTTL]}
  /\ Goto(v, "token")
  /\ UNCHANGED <<now, tables, messages, body, requestVars, replay>>

\* A query that is rejected without effect ends in the catch block.
DbFails(v) ==
  /\ DbMayFail
  /\ pc[v] \in {"check", "delete", "lookup", "insert", "update", "audit"}
  /\ Goto(v, "error")
  /\ UNCHANGED <<now, tables, messages, body, tokens, requestVars, replay>>

--------------------------------------------------------------------------------
\* authMiddleware

\* jwt.verify, then the INSERT INTO login_audit is sent.
Authenticate(q, t) ==
  /\ reqPc[q] = "idle"
  /\ reqToken' = [reqToken EXCEPT ![q] = t]
  /\ reqPc' = [reqPc EXCEPT ![q] = IF now < t.exp THEN "log" ELSE "unauthorized"]
  /\ UNCHANGED <<now, tables, messages, pc, body, tokens, replay>>

\* The row is written and next() runs the route, unless the INSERT's answer is lost.
AuditRequest(q) ==
  /\ reqPc[q] = "log"
  /\ audit' = [audit EXCEPT ![<<reqToken[q].addr, reqToken[q].role>>] = @ + 1]
  /\ \/ reqPc' = [reqPc EXCEPT ![q] = "served"]
     \/ DbMayFail /\ reqPc' = [reqPc EXCEPT ![q] = "error"]
  /\ UNCHANGED <<now, nonceRows, users, userSeq, messages, pc, body,
                 tokens, reqToken, replay>>

AuditRequestFails(q) ==
  /\ DbMayFail
  /\ reqPc[q] = "log"
  /\ reqPc' = [reqPc EXCEPT ![q] = "error"]
  /\ UNCHANGED <<now, tables, messages, pc, body, tokens, reqToken, replay>>

--------------------------------------------------------------------------------

VerifyStep(v) ==
  CheckNonce(v) \/ DeleteNonce(v) \/ LookupUser(v) \/ InsertUser(v)
    \/ UpdateUser(v) \/ AuditLogin(v) \/ IssueToken(v)

Next ==
  \/ Tick
  \/ \E a \in Addrs, n \in Nonces : GetChallenge(a, n)
  \/ \E v \in Attempts, m \in messages, r \in Roles, s \in BOOLEAN : Submit(v, m, r, s)
  \/ \E v \in Attempts : VerifyStep(v) \/ DbFails(v)
  \/ \E q \in Requests, t \in tokens : Authenticate(q, t)
  \/ \E q \in Requests : AuditRequest(q) \/ AuditRequestFails(q)

Spec == Init /\ [][Next]_vars

\* The event loop and the database answer every query that was sent.
Fairness == /\ \A v \in Attempts : WF_vars(VerifyStep(v))
            /\ \A q \in Requests : WF_vars(AuditRequest(q))

FairSpec == Spec /\ Fairness

--------------------------------------------------------------------------------
\* Properties

\* A verify request that was sent after the nonce of its challenge had been
\* deleted for another request never gets a token, whatever the two requests
\* (and the clock, and failing queries) do in between.
ReplayRefused == \A v \in Attempts : replay[v] => pc[v] # "token"

\* "Immediately delete used nonce (single-use)": at most one sign-in succeeds
\* per nonce.
NonceSingleUse ==
  \A v, w \in Attempts :
    (pc[v] = "token" /\ pc[w] = "token" /\ login[v] = login[w]) => v = w

\* Two first logins at once leave one users row, and a token is only handed out
\* for an address that has one.
OneUserPerAddress ==
  /\ \A u, w \in users : u.addr = w.addr => u = w
  /\ \A t \in tokens : RowsOf(t.addr) # {}

\* login_audit has a row of its own for every token handed out and for every
\* API request served, with the address and the role of that session: no
\* session acts without a trace.
EveryUseIsAudited ==
  \A a \in Addrs, r \in Roles :
    Cardinality({t \in tokens : t.addr = a /\ t.role = r})
      + Cardinality({q \in Requests : /\ reqPc[q] = "served"
                                      /\ reqToken[q].addr = a
                                      /\ reqToken[q].role = r})
      <= audit[<<a, r>>]

\* "Signature invalid -> we still extract fields but will fail later checks"
\* (authController.js:124) and "should reject invalid signature" (auth.test.js:143):
\* a request with a signature that does not verify gets no token.
SignatureRequired == \A v \in Attempts : pc[v] = "token" => signed[v]

\* "Invalid or expired nonce" is only answered to a sign-in with a challenge of this
\* server when the challenge has expired or when another request has reached the DELETE
\* of its nonce, which may have failed since: no other interleaving and no failing
\* query locks a fresh challenge out.  It is the only refusal such a sign-in meets;
\* a bad signature is none, see SignatureRequired.
RefusedForCause ==
  \A v \in Attempts :
    pc[v] = "denied" =>
      \/ now >= login[v].expires
      \/ \E w \in Attempts \ {v} :
           pc[w] \in PastDelete \cup {"error"} /\ login[w] = login[v]

\* Every verify request is answered, also the loser of a race.
EveryAttemptAnswered ==
  \A v \in Attempts : pc[v] # "idle" ~> pc[v] \in Answers
================================================================================
