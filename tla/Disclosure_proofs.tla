---------------------------- MODULE Disclosure_proofs ----------------------------
(***************************************************************************)
(* Proofs about Disclosure for any number of verify requests, entries,     *)
(* grants, revocations and profiles.  The steps of the consent registry    *)
(* keep its own invariant (Consent_proofs); the invariant of the requests  *)
(* says what each has collected, offered and found at every stage.         *)
(***************************************************************************)
EXTENDS Disclosure, Consent_proofs

\* Answers of a grant that may have stored its row.
Stored(g) == gpc[g] \in {"granted", "error"}

\* A consent of the request's subject, purpose and context for its i-th entry that
\* was in force when the request arrived, or was given later.
Backed(v, i) ==
  \E r \in rows : /\ r.id \notin dead[v]
                  /\ r.subject = vform[v].subject
                  /\ r.claim = vform[v].credentials[i].claim
                  /\ r.purpose.word = vform[v].purpose.word
                  /\ r.ctx = vform[v].ctx

\* What was not in force stays so: no row comes back, and no new row has its id.
DeadStaysDead ==
  \A v \in Verifiers :
    /\ \A g \in dead[v] : Stored(g)
    /\ vpc[v] # "idle" =>
         \A r \in rows : r.id \in dead[v] =>
           r.subject # vform[v].subject \/ r.revoked \/ Expired(r)

\* What a request has read of the profile was offered, and what it is about to log
\* has a consent.
ReadWasOffered ==
  \A v \in Verifiers :
    /\ vpc[v] # "idle" => Listed(profile[vform[v].subject]) \subseteq offered[v]
    /\ vpc[v] \in {"fetch", "entry", "vc", "consent", "log"} =>
         doc[v] # NoProfile /\ Listed(doc[v]) \subseteq offered[v]
    /\ vpc[v] \in {"vc", "consent", "log"} => Current(v) \in offered[v]
    /\ vpc[v] = "log" => Backed(v, pos[v])

\* Every row of the log has its consent and its offer.
LogIsBacked ==
  \A x \in log : /\ vpc[x[1]] # "idle" /\ Backed(x[1], x[2])
                 /\ vform[x[1]].credentials[x[2]] \in offered[x[1]]

\* Claims of a request that have their row.
LoggedClaims(v) == {vform[v].credentials[x[2]].claim : x \in {y \in log : y[1] = v}}

\* All collected claims have a row, except perhaps the one whose row is about to be written.
CollectedIsLogged ==
  \A v \in Verifiers :
    /\ vpc[v] \in {"idle", "pointer", "fetch", "denied"} => disclosed[v] = {}
    /\ vpc[v] \in {"entry", "vc", "consent", "disclosed"} => disclosed[v] \subseteq LoggedClaims(v)
    /\ vpc[v] = "log" => /\ Current(v).claim \in disclosed[v]
                          /\ disclosed[v] \subseteq LoggedClaims(v) \cup {Current(v).claim}
    /\ vpc[v] = "disclosed" => disclosed[v] # {}

RequestInv == DeadStaysDead /\ ReadWasOffered /\ LogIsBacked /\ CollectedIsLogged

DisclosureInv == ConsentInv /\ TypeOK /\ RequestInv

--------------------------------------------------------------------------------
\* What a step of the registry does to the table, as far as requests can tell.
LEMMA ConsentEffect ==
  ASSUME ConsentInv, ConsentNext
  PROVE  /\ now' = now
         /\ \A r \in rows : \E s \in rows' :
              s.id = r.id /\ SameTriple(s, r) /\ s.purpose = r.purpose
         /\ \A s \in rows' :
              \/ ~Stored(s.id)
              \/ \E r \in rows : /\ s.id = r.id /\ s.subject = r.subject
                                 /\ s.expires = r.expires /\ (r.revoked => s.revoked)
         /\ \A g \in Grants : Stored(g) => Stored(g)'
<1>0. /\ rows \subseteq Row
      /\ gpc \in [Grants -> {"idle", "select", "insert"} \cup GrantAnswers]
  BY DEF ConsentInv, ConsentTypeOK
<1>1. ASSUME NEW f \in RevokeForms, Revoke(f)
      PROVE  /\ \A r \in rows : \E s \in rows' :
                  s.id = r.id /\ SameTriple(s, r) /\ s.purpose = r.purpose
             /\ \A s \in rows' :
                  \E r \in rows : /\ s.id = r.id /\ s.subject = r.subject
                                  /\ s.expires = r.expires /\ (r.revoked => s.revoked)
             /\ gpc' = gpc /\ now' = now
  <2> DEFINE Image(r) == IF RevokeHits(f, r) THEN [r EXCEPT !.revoked = TRUE] ELSE r
  <2>1. rows' = {Image(r) : r \in rows} /\ gpc' = gpc /\ now' = now
    BY <1>1 DEF Revoke
  <2>2. \A r \in rows : /\ Image(r).id = r.id /\ SameTriple(Image(r), r)
                        /\ Image(r).purpose = r.purpose /\ Image(r).expires = r.expires
                        /\ (r.revoked => Image(r).revoked)
    BY <1>0 DEF Row, SameTriple
  <2> HIDE DEF Image
  <2> QED
    BY <2>1, <2>2 DEF SameTriple
<1>2. ASSUME NEW g \in Grants, InsertConsent(g), Blocking(g) = {}
      PROVE  /\ now' = now
             /\ rows \subseteq rows'
             /\ \A s \in rows' : s \in rows \/ ~Stored(s.id)
             /\ \A h \in Grants : Stored(h) => Stored(h)'
  <2>1. /\ gpc[g] = "insert" /\ rows' = rows \cup {NewRow(g)} /\ now' = now
        /\ \E answer \in {"granted", "error"} : gpc' = [gpc EXCEPT ![g] = answer]
    BY <1>2 DEF InsertConsent
  <2>2. NewRow(g).id = g
    BY DEF NewRow
  <2> QED
    BY <1>0, <2>1, <2>2 DEF Stored
<1>3. ASSUME NEW g \in Grants,
             \/ \E f \in GrantForms : SubmitGrant(g, f)
             \/ CheckDuplicate(g) \/ GrantDbFails(g)
             \/ InsertConsent(g) /\ Blocking(g) # {}
      PROVE  /\ UNCHANGED <<now, rows>>
             /\ \A h \in Grants : Stored(h) => Stored(h)'
  <2>1. ~Stored(g) /\ UNCHANGED <<now, rows>> /\ \E x : gpc' = [gpc EXCEPT ![g] = x]
    BY <1>3 DEF Stored, SubmitGrant, CheckDuplicate, GrantDbFails, InsertConsent
  <2> QED
    BY <1>0, <2>1 DEF Stored
<1>5. CASE \E f \in RevokeForms : Revoke(f)
  BY <1>1, <1>5 DEF Stored
<1>6. CASE \E g \in Grants : InsertConsent(g) /\ Blocking(g) = {}
  BY <1>2, <1>6 DEF SameTriple
<1>7. CASE \E g \in Grants : \/ \E f \in GrantForms : SubmitGrant(g, f)
                             \/ CheckDuplicate(g) \/ GrantDbFails(g)
                             \/ InsertConsent(g) /\ Blocking(g) # {}
  <2>1. /\ UNCHANGED <<now, rows>>
        /\ \A h \in Grants : Stored(h) => Stored(h)'
    BY <1>3, <1>7
  <2> QED
    BY <2>1 DEF SameTriple
<1> QED
  BY <1>5, <1>6, <1>7 DEF ConsentNext, GrantStep

\* The registry moves; no request does.
LEMMA ConsentKeepsRequests ==
  ASSUME DisclosureInv, ConsentNext, UNCHANGED verifyVars
  PROVE  DisclosureInv'
<1>0. /\ now' = now
      /\ \A r \in rows : \E s \in rows' :
           s.id = r.id /\ SameTriple(s, r) /\ s.purpose = r.purpose
      /\ \A s \in rows' :
           \/ ~Stored(s.id)
           \/ \E r \in rows : /\ s.id = r.id /\ s.subject = r.subject
                              /\ s.expires = r.expires /\ (r.revoked => s.revoked)
      /\ \A g \in Grants : Stored(g) => Stored(g)'
  BY ConsentEffect DEF DisclosureInv
<1>1. ConsentInv'
  BY ConsentStep DEF DisclosureInv
<1>2. /\ UNCHANGED <<profile, vpc, vform, doc, pos, disclosed, log, dead, offered>>
      /\ dead \in [Verifiers -> SUBSET Grants]
  BY DEF verifyVars, requestVars, historyVars, DisclosureInv, TypeOK
<1>3. TypeOK'
  BY <1>1, <1>2 DEF DisclosureInv, TypeOK, ConsentInv
<1>4. \A v, i : Backed(v, i) => Backed(v, i)'
  BY <1>0, <1>2 DEF Backed, SameTriple
<1>5. DeadStaysDead'
  <2> SUFFICES ASSUME NEW v \in Verifiers
               PROVE  /\ \A g \in dead[v] : Stored(g)'
                      /\ vpc[v] # "idle" =>
                           \A s \in rows' : s.id \in dead[v] =>
                             s.subject # vform[v].subject \/ s.revoked
                               \/ (s.expires # Never /\ s.expires <= now)
    BY <1>0, <1>2 DEF DeadStaysDead, Expired
  <2>1. \A g \in dead[v] : g \in Grants /\ Stored(g)
    BY <1>2 DEF DisclosureInv, RequestInv, DeadStaysDead
  <2>2. ASSUME NEW s \in rows', s.id \in dead[v], vpc[v] # "idle"
        PROVE  s.subject # vform[v].subject \/ s.revoked
                 \/ (s.expires # Never /\ s.expires <= now)
    <3>1. PICK r \in rows : /\ s.id = r.id /\ s.subject = r.subject
                            /\ s.expires = r.expires /\ (r.revoked => s.revoked)
      BY <1>0, <2>1, <2>2
    <3>2. r.subject # vform[v].subject \/ r.revoked \/ Expired(r)
      BY <2>2, <3>1 DEF DisclosureInv, RequestInv, DeadStaysDead
    <3> QED
      BY <3>1, <3>2 DEF Expired
  <2> QED
    BY <1>0, <2>1, <2>2
<1>6. ReadWasOffered'
  BY <1>2, <1>4 DEF DisclosureInv, RequestInv, ReadWasOffered, Current, Listed
<1>7. LogIsBacked'
  BY <1>2, <1>4 DEF DisclosureInv, RequestInv, LogIsBacked
<1>8. CollectedIsLogged'
  BY <1>2 DEF DisclosureInv, RequestInv, CollectedIsLogged, LoggedClaims, Current
<1> QED
  BY <1>1, <1>3, <1>5, <1>6, <1>7, <1>8 DEF DisclosureInv, RequestInv

\* Time passes, or an owner writes a profile: the registry and the requests stay.
LEMMA ClockAndOwnersKeepInv ==
  ASSUME DisclosureInv, UNCHANGED <<consentVars, requestVars, log, dead>>,
         \/ ConsentTick /\ UNCHANGED <<profile, offered>>
         \/ now' = now /\ \E s \in Subjects, p \in Profiles : SetProfile(s, p)
  PROVE  DisclosureInv'
<1>0. /\ UNCHANGED <<rows, gpc, gform, vpc, vform, doc, pos, disclosed, log, dead>>
      /\ now \in Nat /\ now' \in Nat /\ now <= now'
  BY DEF consentVars, requestVars, DisclosureInv, TypeOK, ConsentTypeOK, ConsentTick
<1>1. ConsentInv'
  BY <1>0, ConsentStep DEF ConsentTick, consentVars, DisclosureInv
<1>3. /\ profile' \in [Subjects -> Profiles \cup {NoProfile}]
      /\ offered' \in [Verifiers -> SUBSET Entry]
      /\ \A v \in Verifiers : offered[v] \subseteq offered'[v]
      /\ \A v \in Verifiers : vpc[v] # "idle" =>
           Listed(profile'[vform[v].subject]) \subseteq offered'[v]
  <2>0. /\ profile \in [Subjects -> Profiles \cup {NoProfile}]
        /\ offered \in [Verifiers -> SUBSET Entry]
        /\ \A v \in Verifiers : vpc[v] # "idle" =>
             Listed(profile[vform[v].subject]) \subseteq offered[v]
    BY DEF DisclosureInv, TypeOK, RequestInv, ReadWasOffered
  <2>1. CASE UNCHANGED <<profile, offered>>
    BY <2>0, <2>1
  <2>2. ASSUME NEW s \in Subjects, NEW p \in Profiles, SetProfile(s, p)
        PROVE  <1>3!:
    <3>1. /\ profile' = [profile EXCEPT ![s] = p]
          /\ offered' = [v \in Verifiers |->
                           IF vpc[v] # "idle" /\ vform[v].subject = s
                             THEN offered[v] \cup Listed(p) ELSE offered[v]]
      BY <2>2 DEF SetProfile
    <3>2. Listed(p) \subseteq Entry
      BY DisclosureAssumption DEF Listed, Profile
    <3>3. offered' \in [Verifiers -> SUBSET Entry]
      BY <2>0, <3>1, <3>2
    <3>4. profile' \in [Subjects -> Profiles \cup {NoProfile}]
      BY <2>0, <3>1
    <3>5. \A v \in Verifiers : offered[v] \subseteq offered'[v]
      BY <3>1
    <3>6. ASSUME NEW v \in Verifiers, vpc[v] # "idle"
          PROVE  Listed(profile'[vform[v].subject]) \subseteq offered'[v]
      <4>1. vform[v].subject \in Subjects
        BY <3>6, DisclosureAssumption DEF DisclosureInv, TypeOK, VerifyForm
      <4>2. CASE vform[v].subject = s
        <5>1. profile'[vform[v].subject] = p /\ offered'[v] = offered[v] \cup Listed(p)
          BY <2>0, <3>1, <3>6, <4>2
        <5> QED
          BY <5>1
      <4>3. CASE vform[v].subject # s
        <5>1. profile'[vform[v].subject] = profile[vform[v].subject]
              /\ offered'[v] = offered[v]
          BY <2>0, <3>1, <4>1, <4>3
        <5> QED
          BY <2>0, <3>6, <5>1
      <4> QED
        BY <4>2, <4>3
    <3> QED
      BY <3>3, <3>4, <3>5, <3>6
  <2> QED
    BY <2>1, <2>2
<1>4. TypeOK'
  BY <1>0, <1>1, <1>3 DEF DisclosureInv, TypeOK, ConsentInv
<1>5. DeadStaysDead'
  <2>1. \A r \in rows : Expired(r) => Expired(r)'
    <3> SUFFICES ASSUME NEW r \in rows, Expired(r) PROVE Expired(r)'
      OBVIOUS
    <3>1. r.expires \in Nat \cup {Never}
      BY DEF DisclosureInv, TypeOK, ConsentTypeOK, Row
    <3> QED
      BY <1>0, <3>1 DEF Expired
  <2> QED
    BY <1>0, <2>1 DEF DisclosureInv, RequestInv, DeadStaysDead, Stored
<1>6. \A v, i : Backed(v, i) => Backed(v, i)'
  BY <1>0 DEF Backed
<1>7. ReadWasOffered'
  <2> SUFFICES ASSUME NEW v \in Verifiers
               PROVE  /\ vpc[v] # "idle" =>
                           Listed(profile'[vform[v].subject]) \subseteq offered'[v]
                      /\ vpc[v] \in {"fetch", "entry", "vc", "consent", "log"} =>
                           doc[v] # NoProfile /\ Listed(doc[v]) \subseteq offered'[v]
                      /\ vpc[v] \in {"vc", "consent", "log"} => Current(v) \in offered'[v]
                      /\ vpc[v] = "log" => Backed(v, pos[v])'
    BY <1>0 DEF ReadWasOffered, Current, Listed
  <2> QED
    BY <1>0, <1>3, <1>6 DEF DisclosureInv, RequestInv, ReadWasOffered
<1>8. LogIsBacked'
  <2>1. log \subseteq Verifiers \X Nat
    BY DEF DisclosureInv, TypeOK
  <2>2. \A x \in log : x[1] \in Verifiers
    BY <2>1
  <2> QED
    BY <1>0, <1>3, <1>6, <2>2 DEF DisclosureInv, RequestInv, LogIsBacked
<1>9. CollectedIsLogged'
  BY <1>0 DEF DisclosureInv, RequestInv, CollectedIsLogged, LoggedClaims, Current
<1> QED
  BY <1>1, <1>4, <1>5, <1>7, <1>8, <1>9 DEF DisclosureInv, RequestInv

\* A request arrives: what the table has then decides which consents are dead for it.
LEMMA SubmitKeepsInv ==
  ASSUME DisclosureInv, NEW v \in Verifiers, NEW f \in VerifyForms, SubmitVerify(v, f)
  PROVE  DisclosureInv'
<1> DEFINE gone == {r.id : r \in rows \ ShownConsents(f.subject, NoFilter)}
<1>0. /\ UNCHANGED <<now, rows, gpc, gform, profile, doc, pos, disclosed, log>>
      /\ vpc[v] = "idle" /\ vpc' = [vpc EXCEPT ![v] = "pointer"]
      /\ vform' = [vform EXCEPT ![v] = f]
      /\ dead' = [dead EXCEPT ![v] = gone]
      /\ offered' = [offered EXCEPT ![v] = Listed(profile[f.subject])]
  BY DEF SubmitVerify, Goto, consentVars
<1>1. /\ vpc \in [Verifiers -> VerifyStages] /\ vform \in [Verifiers -> VerifyForms \cup {NoFilter}]
      /\ dead \in [Verifiers -> SUBSET Grants] /\ offered \in [Verifiers -> SUBSET Entry]
      /\ rows \subseteq Row /\ profile \in [Subjects -> Profiles \cup {NoProfile}]
      /\ log \subseteq Verifiers \X Nat /\ f.subject \in Subjects
  BY DisclosureAssumption DEF DisclosureInv, TypeOK, ConsentTypeOK, VerifyForm
<1>2. ConsentInv'
  BY <1>0, ConsentStep DEF consentVars, DisclosureInv
<1>4. /\ gone \subseteq Grants /\ \A g \in gone : Stored(g)
      /\ \A r \in rows : r.id \in gone => r.subject # f.subject \/ r.revoked \/ Expired(r)
  <2>1. \A r \in rows : r.id \in Grants /\ Stored(r.id)
    BY <1>1 DEF Row, DisclosureInv, ConsentInv, RowIsOfItsGrant, Stored
  <2>2. ASSUME NEW r \in rows, r.id \in gone
        PROVE  r.subject # f.subject \/ r.revoked \/ Expired(r)
    <3>1. PICK q \in rows \ ShownConsents(f.subject, NoFilter) : r.id = q.id
      BY <2>2
    <3>2. r = q
      BY <3>1 DEF DisclosureInv, ConsentInv, OneRowPerGrant
    <3> QED
      BY <3>1, <3>2 DEF ShownConsents, ActiveConsents, SanitizeContext
  <2> QED
    BY <2>1, <2>2
<1> HIDE DEF gone
<1>5. Listed(profile[f.subject]) \subseteq Entry
  BY <1>1, DisclosureAssumption DEF Listed, Profile
<1>6. \A u \in Verifiers \ {v} : vpc'[u] = vpc[u] /\ vform'[u] = vform[u]
                                 /\ dead'[u] = dead[u] /\ offered'[u] = offered[u]
  BY <1>0, <1>1
<1>7. vpc'[v] = "pointer" /\ vform'[v] = f /\ dead'[v] = gone
      /\ offered'[v] = Listed(profile[f.subject])
  BY <1>0, <1>1
<1>8. TypeOK'
  <2>1. /\ vpc' \in [Verifiers -> VerifyStages]
        /\ vform' \in [Verifiers -> VerifyForms \cup {NoFilter}]
        /\ dead' \in [Verifiers -> SUBSET Grants] /\ offered' \in [Verifiers -> SUBSET Entry]
    BY <1>0, <1>1, <1>4, <1>5 DEF VerifyStages
  <2>2. \A u \in Verifiers : /\ vpc'[u] # "idle" => vform'[u] \in VerifyForms
                             /\ vpc'[u] \in {"vc", "consent", "log"} =>
                                  /\ doc[u] # NoProfile
                                  /\ pos[u] <= Len(vform'[u].credentials)
    BY <1>6, <1>7 DEF DisclosureInv, TypeOK
  <2> QED
    BY <1>0, <1>2, <2>1, <2>2 DEF DisclosureInv, TypeOK, ConsentInv
<1>9. DeadStaysDead'
  <2> SUFFICES ASSUME NEW u \in Verifiers
               PROVE  /\ \A g \in dead'[u] : Stored(g)
                      /\ vpc'[u] # "idle" =>
                           \A r \in rows : r.id \in dead'[u] =>
                             r.subject # vform'[u].subject \/ r.revoked \/ Expired(r)
    BY <1>0 DEF DeadStaysDead, Expired, Stored
  <2> QED
    BY <1>4, <1>6, <1>7 DEF DisclosureInv, RequestInv, DeadStaysDead
<1>10. \A u \in Verifiers \ {v}, i \in Nat : Backed(u, i) => Backed(u, i)'
  BY <1>0, <1>6 DEF Backed
<1>11. ReadWasOffered'
  <2> SUFFICES ASSUME NEW u \in Verifiers
               PROVE  /\ vpc'[u] # "idle" =>
                           Listed(profile[vform'[u].subject]) \subseteq offered'[u]
                      /\ vpc'[u] \in {"fetch", "entry", "vc", "consent", "log"} =>
                           doc[u] # NoProfile /\ Listed(doc[u]) \subseteq offered'[u]
                      /\ vpc'[u] \in {"vc", "consent", "log"} =>
                           vform'[u].credentials[pos[u]] \in offered'[u]
                      /\ vpc'[u] = "log" => Backed(u, pos[u])'
    BY <1>0 DEF ReadWasOffered, Current, Listed
  <2>1. CASE u = v
    BY <1>7, <2>1
  <2>2. CASE u # v
    <3>1. pos[u] \in Nat
      BY DEF DisclosureInv, TypeOK
    <3> QED
      BY <1>0, <1>6, <1>10, <2>2, <3>1 DEF DisclosureInv, RequestInv, ReadWasOffered, Current
  <2> QED
    BY <2>1, <2>2
<1>12. LogIsBacked'
  <2>1. \A x \in log : x[1] \in Verifiers \ {v} /\ x[2] \in Nat
    BY <1>0, <1>1 DEF DisclosureInv, RequestInv, LogIsBacked
  <2> QED
    BY <1>0, <1>6, <1>10, <2>1 DEF DisclosureInv, RequestInv, LogIsBacked
<1>13. CollectedIsLogged'
  <2>1. \A u \in Verifiers \ {v} : LoggedClaims(u)' = LoggedClaims(u)
    BY <1>0, <1>6 DEF LoggedClaims
  <2>2. disclosed[v] = {}
    BY <1>0 DEF DisclosureInv, RequestInv, CollectedIsLogged
  <2> SUFFICES ASSUME NEW u \in Verifiers
               PROVE  /\ vpc'[u] \in {"idle", "pointer", "fetch", "denied"} => disclosed[u] = {}
                      /\ vpc'[u] \in {"entry", "vc", "consent", "disclosed"} =>
                           disclosed[u] \subseteq LoggedClaims(u)'
                      /\ vpc'[u] = "log" =>
                           /\ vform'[u].credentials[pos[u]].claim \in disclosed[u]
                           /\ disclosed[u] \subseteq
                                LoggedClaims(u)' \cup {vform'[u].credentials[pos[u]].claim}
                      /\ vpc'[u] = "disclosed" => disclosed[u] # {}
    BY <1>0 DEF CollectedIsLogged, Current
  <2> QED
    BY <1>6, <1>7, <2>1, <2>2 DEF DisclosureInv, RequestInv, CollectedIsLogged, Current
<1> QED
  BY <1>2, <1>8, <1>9, <1>11, <1>12, <1>13 DEF DisclosureInv, RequestInv

\* The log stays, or gets the row of the request's current entry.
LogsAtMost(v) == \/ log' = log
                 \/ log' = log \cup {<<v, pos[v]>>} /\ vpc[v] = "log"

\* A step of one request that keeps what this request has to keep, keeps the invariant.
LEMMA RequestKeepsInv ==
  ASSUME DisclosureInv, NEW v \in Verifiers,
         UNCHANGED <<now, consentVars, profile, vform, historyVars>>,
         vpc[v] # "idle", vpc'[v] \in VerifyStages \ {"idle"},
         NEW d \in Profiles \cup {NoProfile}, NEW i \in Nat \ {0}, NEW c \in SUBSET Claims,
         NEW stage, vpc' = [vpc EXCEPT ![v] = stage],
         doc' = [doc EXCEPT ![v] = d], pos' = [pos EXCEPT ![v] = i],
         disclosed' = [disclosed EXCEPT ![v] = c],
         LogsAtMost(v),
         stage \in {"fetch", "entry", "vc", "consent", "log"} =>
           d # NoProfile /\ Listed(d) \subseteq offered[v],
         stage \in {"vc", "consent", "log"} =>
           i <= Len(vform[v].credentials) /\ vform[v].credentials[i] \in offered[v],
         stage = "log" => Backed(v, i),
         stage \in {"pointer", "fetch", "denied"} => c = {},
         stage \in {"entry", "vc", "consent", "disclosed"} => c \subseteq LoggedClaims(v)',
         stage = "log" => vform[v].credentials[i].claim \in c,
         stage = "log" => c \subseteq LoggedClaims(v)' \cup {vform[v].credentials[i].claim},
         stage = "disclosed" => c # {}
  PROVE  DisclosureInv'
<1>0. /\ UNCHANGED <<now, rows, gpc, gform, profile, vform, dead, offered>>
      /\ vpc \in [Verifiers -> VerifyStages]
      /\ doc \in [Verifiers -> Profiles \cup {NoProfile}]
      /\ pos \in [Verifiers -> Nat \ {0}] /\ disclosed \in [Verifiers -> SUBSET Claims]
      /\ log \subseteq Verifiers \X Nat
      /\ \/ log' = log
         \/ log' = log \cup {<<v, pos[v]>>} /\ vpc[v] = "log"
  BY DEF consentVars, historyVars, DisclosureInv, TypeOK, LogsAtMost
<1>1. /\ vpc'[v] = stage /\ doc'[v] = d /\ pos'[v] = i /\ disclosed'[v] = c
      /\ stage \in VerifyStages \ {"idle"}
  BY <1>0
<1>2. \A u \in Verifiers \ {v} : /\ vpc'[u] = vpc[u] /\ doc'[u] = doc[u]
                                 /\ pos'[u] = pos[u] /\ disclosed'[u] = disclosed[u]
  BY <1>0
<1>3. ConsentInv'
  BY <1>0, ConsentStep DEF consentVars, DisclosureInv
<1>5. TypeOK'
  <2>1. /\ vpc' \in [Verifiers -> VerifyStages]
        /\ doc' \in [Verifiers -> Profiles \cup {NoProfile}]
        /\ pos' \in [Verifiers -> Nat \ {0}] /\ disclosed' \in [Verifiers -> SUBSET Claims]
        /\ log' \subseteq Verifiers \X Nat
    BY <1>0, <1>1
  <2>2. \A u \in Verifiers : /\ vpc'[u] # "idle" => vform[u] \in VerifyForms
                             /\ vpc'[u] \in {"vc", "consent", "log"} =>
                                  /\ doc'[u] # NoProfile
                                  /\ pos'[u] <= Len(vform[u].credentials)
    BY <1>1, <1>2 DEF DisclosureInv, TypeOK
  <2> QED
    BY <1>0, <1>3, <2>1, <2>2 DEF DisclosureInv, TypeOK, ConsentInv
<1>6. \A u, j : Backed(u, j)' <=> Backed(u, j)
  BY <1>0 DEF Backed
<1>7. DeadStaysDead'
  <2>1. \A u \in Verifiers : vpc'[u] # "idle" => vpc[u] # "idle"
    BY <1>1, <1>2
  <2>2. \A r \in rows : Expired(r)' <=> Expired(r)
    BY <1>0 DEF Expired
  <2> QED
    BY <1>0, <2>1, <2>2 DEF DisclosureInv, RequestInv, DeadStaysDead, Stored
<1>8. ReadWasOffered'
  <2> SUFFICES ASSUME NEW u \in Verifiers
               PROVE  /\ vpc'[u] # "idle" =>
                           Listed(profile[vform[u].subject]) \subseteq offered[u]
                      /\ vpc'[u] \in {"fetch", "entry", "vc", "consent", "log"} =>
                           doc'[u] # NoProfile /\ Listed(doc'[u]) \subseteq offered[u]
                      /\ vpc'[u] \in {"vc", "consent", "log"} =>
                           vform[u].credentials[pos'[u]] \in offered[u]
                      /\ vpc'[u] = "log" => Backed(u, pos'[u])
    BY <1>0, <1>6 DEF ReadWasOffered, Current, Listed, Backed
  <2>1. CASE u = v
    BY <1>1, <2>1 DEF DisclosureInv, RequestInv, ReadWasOffered
  <2>2. CASE u # v
    BY <1>2, <2>2 DEF DisclosureInv, RequestInv, ReadWasOffered, Current
  <2> QED
    BY <2>1, <2>2
<1>9. LogIsBacked'
  <2>1. ASSUME NEW x \in log'
        PROVE  /\ vpc'[x[1]] # "idle" /\ Backed(x[1], x[2])
               /\ vform[x[1]].credentials[x[2]] \in offered[x[1]]
    <3>1. CASE x \in log
      BY <1>0, <1>1, <1>2, <3>1 DEF DisclosureInv, RequestInv, LogIsBacked
    <3>2. CASE x = <<v, pos[v]>> /\ vpc[v] = "log"
      <4>1. x[1] = v /\ x[2] = pos[v]
        BY <3>2
      <4>2. Backed(v, pos[v]) /\ vform[v].credentials[pos[v]] \in offered[v]
        BY <3>2 DEF DisclosureInv, RequestInv, ReadWasOffered, Current
      <4> QED
        BY <1>1, <4>1, <4>2
    <3>3. x \in log \/ (x = <<v, pos[v]>> /\ vpc[v] = "log")
      BY <1>0
    <3> QED
      BY <3>1, <3>2, <3>3
  <2> QED
    BY <1>0, <1>6, <2>1 DEF LogIsBacked
<1>10. CollectedIsLogged'
  <2>1. \A u \in Verifiers : LoggedClaims(u) \subseteq LoggedClaims(u)'
    BY <1>0 DEF LoggedClaims
  <2> SUFFICES ASSUME NEW u \in Verifiers
               PROVE  /\ vpc'[u] \in {"idle", "pointer", "fetch", "denied"} => disclosed'[u] = {}
                      /\ vpc'[u] \in {"entry", "vc", "consent", "disclosed"} =>
                           disclosed'[u] \subseteq LoggedClaims(u)'
                      /\ vpc'[u] = "log" =>
                           /\ vform[u].credentials[pos'[u]].claim \in disclosed'[u]
                           /\ disclosed'[u] \subseteq
                                LoggedClaims(u)' \cup {vform[u].credentials[pos'[u]].claim}
                      /\ vpc'[u] = "disclosed" => disclosed'[u] # {}
    BY <1>0 DEF CollectedIsLogged, Current
  <2>2. CASE u = v
    BY <1>1, <2>2
  <2>3. CASE u # v
    BY <1>2, <2>1, <2>3 DEF DisclosureInv, RequestInv, CollectedIsLogged, Current
  <2> QED
    BY <2>2, <2>3
<1> QED
  BY <1>3, <1>5, <1>7, <1>8, <1>9, <1>10 DEF DisclosureInv, RequestInv

\* Every step of verifyVC.
LEMMA VerifyKeepsInv ==
  ASSUME DisclosureInv, NEW v \in Verifiers,
         VerifyStep(v) \/ FetchProfileFails(v) \/ VerifyFails(v)
  PROVE  DisclosureInv'
<1>0. /\ vpc \in [Verifiers -> VerifyStages]
      /\ doc \in [Verifiers -> Profiles \cup {NoProfile}]
      /\ pos \in [Verifiers -> Nat \ {0}] /\ disclosed \in [Verifiers -> SUBSET Claims]
      /\ profile \in [Subjects -> Profiles \cup {NoProfile}]
      /\ rows \subseteq Row
      /\ vpc[v] # "idle" => vform[v] \in VerifyForm
      /\ vpc[v] \in {"vc", "consent", "log"} => pos[v] <= Len(vform[v].credentials)
  BY DisclosureAssumption DEF DisclosureInv, TypeOK, ConsentTypeOK
<1>1. /\ doc = [doc EXCEPT ![v] = doc[v]] /\ pos = [pos EXCEPT ![v] = pos[v]]
      /\ disclosed = [disclosed EXCEPT ![v] = disclosed[v]]
      /\ doc[v] \in Profiles \cup {NoProfile} /\ pos[v] \in Nat \ {0} /\ pos[v] + 1 \in Nat \ {0}
      /\ disclosed[v] \in SUBSET Claims
  BY <1>0
<1>2. /\ vpc[v] # "idle" => Listed(profile[vform[v].subject]) \subseteq offered[v]
      /\ vpc[v] \in {"fetch", "entry", "vc", "consent", "log"} =>
           doc[v] # NoProfile /\ Listed(doc[v]) \subseteq offered[v]
      /\ vpc[v] \in {"vc", "consent", "log"} => vform[v].credentials[pos[v]] \in offered[v]
      /\ vpc[v] = "log" => Backed(v, pos[v])
      /\ vpc[v] \in {"idle", "pointer", "fetch", "denied"} => disclosed[v] = {}
      /\ vpc[v] \in {"entry", "vc", "consent", "disclosed"} => disclosed[v] \subseteq LoggedClaims(v)
      /\ vpc[v] = "log" =>
           disclosed[v] \subseteq LoggedClaims(v) \cup {vform[v].credentials[pos[v]].claim}
  BY DEF DisclosureInv, RequestInv, ReadWasOffered, CollectedIsLogged, Current
<1>3. UNCHANGED <<log, vform>> => LoggedClaims(v)' = LoggedClaims(v)
  BY DEF LoggedClaims
<1>4. CASE ReadPointer(v)
  <2> DEFINE d == profile[vform[v].subject]
             stage == IF d = NoProfile THEN "denied" ELSE "fetch"
  <2>1. d \in Profiles \cup {NoProfile} /\ Listed(d) \subseteq offered[v]
    BY <1>0, <1>2, <1>4 DEF ReadPointer, VerifyForm
  <2>2. doc' = [doc EXCEPT ![v] = d] /\ vpc' = [vpc EXCEPT ![v] = stage] /\ vpc[v] = "pointer"
    BY <1>0, <1>4 DEF ReadPointer, Goto
  <2>3. /\ UNCHANGED <<now, consentVars, profile, vform, historyVars>>
        /\ pos' = [pos EXCEPT ![v] = pos[v]] /\ LogsAtMost(v)
        /\ disclosed' = [disclosed EXCEPT ![v] = disclosed[v]]
    BY <1>1, <1>4 DEF ReadPointer, LogsAtMost
  <2>4. CASE d = NoProfile
    <3>1. stage = "denied" /\ vpc'[v] \in VerifyStages \ {"idle"}
      BY <1>0, <2>2, <2>4 DEF VerifyStages, VerifyAnswers
    <3> QED
      BY <1>1, <1>2, <2>1, <2>2, <2>3, <3>1, RequestKeepsInv
  <2>5. CASE d # NoProfile
    <3>1. stage = "fetch" /\ vpc'[v] \in VerifyStages \ {"idle"}
      BY <1>0, <2>2, <2>5 DEF VerifyStages, VerifyAnswers
    <3> QED
      BY <1>1, <1>2, <2>1, <2>2, <2>3, <2>5, <3>1, RequestKeepsInv
  <2> QED
    BY <2>4, <2>5
\* Steps that write a stage and, some of them, go on to the next entry.
<1>5. ASSUME NEW stage \in VerifyStages \ {"idle", "pointer", "fetch", "log"},
             NEW i \in {pos[v], pos[v] + 1},
             vpc[v] # "idle", vpc' = [vpc EXCEPT ![v] = stage], pos' = [pos EXCEPT ![v] = i],
             UNCHANGED <<now, consentVars, profile, vform, doc, disclosed, log, historyVars>>,
             stage \in {"entry", "vc", "consent"} =>
               vpc[v] \in {"fetch", "entry", "vc", "consent"},
             stage \in {"vc", "consent"} =>
               i <= Len(vform[v].credentials) /\ vform[v].credentials[i] \in offered[v],
             stage = "denied" => disclosed[v] = {},
             stage = "disclosed" => vpc[v] = "entry" /\ disclosed[v] # {}
      PROVE  DisclosureInv'
  <2>1. vpc'[v] \in VerifyStages \ {"idle"} /\ i \in Nat \ {0}
    BY <1>0, <1>1, <1>5
  <2>2. doc' = [doc EXCEPT ![v] = doc[v]] /\ disclosed' = [disclosed EXCEPT ![v] = disclosed[v]]
        /\ UNCHANGED <<now, consentVars, profile, vform, historyVars>> /\ LogsAtMost(v)
        /\ LoggedClaims(v)' = LoggedClaims(v)
    BY <1>1, <1>3, <1>5 DEF LogsAtMost
  <2>3. /\ stage \in {"fetch", "entry", "vc", "consent", "log"} =>
             doc[v] # NoProfile /\ Listed(doc[v]) \subseteq offered[v]
        /\ stage \in {"entry", "vc", "consent", "disclosed"} =>
             disclosed[v] \subseteq LoggedClaims(v)'
    BY <1>2, <1>5, <2>2
  <2>4. /\ stage \in {"vc", "consent", "log"} =>
             i <= Len(vform[v].credentials) /\ vform[v].credentials[i] \in offered[v]
        /\ stage \in {"pointer", "fetch", "denied"} => disclosed[v] = {}
        /\ stage = "disclosed" => disclosed[v] # {}
        /\ stage # "log"
    BY <1>5
  <2> QED
    BY <1>1, <1>5, <2>1, <2>2, <2>3, <2>4, RequestKeepsInv
<1> USE DEF Goto, Continue, VerifyStages, VerifyAnswers
<1>6. CASE FetchProfile(v) \/ FetchProfileFails(v)
  <2>1. vpc[v] = "fetch" /\ disclosed[v] = {}
    BY <1>2, <1>6 DEF FetchProfile, FetchProfileFails
  <2>2. \/ vpc' = [vpc EXCEPT ![v] = "denied"]
        \/ vpc' = [vpc EXCEPT ![v] = "entry"]
    BY <1>6 DEF FetchProfile, FetchProfileFails
  <2>3. pos' = [pos EXCEPT ![v] = pos[v]]
        /\ UNCHANGED <<now, consentVars, profile, vform, doc, disclosed, log, historyVars>>
    BY <1>1, <1>6 DEF FetchProfile, FetchProfileFails
  <2> QED
    BY <1>5, <2>1, <2>2, <2>3
<1>7. CASE NextEntry(v)
  <2>1. vpc[v] = "entry" /\ pos[v] <= Len(vform[v].credentials)
        /\ UNCHANGED <<now, consentVars, profile, vform, doc, disclosed, log, historyVars>>
    BY <1>7 DEF NextEntry
  <2>2. CASE Current(v) \in Listed(doc[v])
    <3>1. vpc' = [vpc EXCEPT ![v] = "vc"] /\ pos' = [pos EXCEPT ![v] = pos[v]]
      BY <1>1, <1>7, <2>2 DEF NextEntry
    <3>2. vform[v].credentials[pos[v]] \in offered[v]
      BY <1>2, <2>1, <2>2 DEF Current
    <3> QED
      BY <1>5, <2>1, <3>1, <3>2
  <2>3. CASE Current(v) \notin Listed(doc[v])
    <3>1. vpc' = [vpc EXCEPT ![v] = "entry"] /\ pos' = [pos EXCEPT ![v] = pos[v] + 1]
      BY <1>1, <1>7, <2>3 DEF NextEntry
    <3> QED
      BY <1>5, <2>1, <3>1
  <2> QED
    BY <2>2, <2>3
<1>8. CASE FetchVc(v)
  <2>1. vpc[v] = "vc"
        /\ UNCHANGED <<now, consentVars, profile, vform, doc, disclosed, log, historyVars>>
    BY <1>8 DEF FetchVc
  <2>2. \/ vpc' = [vpc EXCEPT ![v] = "consent"] /\ pos' = [pos EXCEPT ![v] = pos[v]]
        \/ vpc' = [vpc EXCEPT ![v] = "entry"] /\ pos' = [pos EXCEPT ![v] = pos[v] + 1]
    BY <1>1, <1>8 DEF FetchVc
  <2> QED
    BY <1>0, <1>2, <1>5, <2>1, <2>2
<1>9. CASE AnswerVerify(v)
  <2>1. /\ vpc[v] = "entry" /\ pos' = [pos EXCEPT ![v] = pos[v]]
        /\ vpc' = [vpc EXCEPT ![v] = IF disclosed[v] = {} THEN "denied" ELSE "disclosed"]
        /\ UNCHANGED <<now, consentVars, profile, vform, doc, disclosed, log, historyVars>>
    BY <1>1, <1>9 DEF AnswerVerify
  <2>2. CASE disclosed[v] = {}
    BY <1>5, <2>1, <2>2
  <2>3. CASE disclosed[v] # {}
    BY <1>5, <2>1, <2>3
  <2> QED
    BY <2>2, <2>3
<1>10. CASE VerifyFails(v)
  <2>1. /\ vpc[v] # "idle" /\ pos' = [pos EXCEPT ![v] = pos[v]]
        /\ vpc' = [vpc EXCEPT ![v] = "error"]
        /\ UNCHANGED <<now, consentVars, profile, vform, doc, disclosed, log, historyVars>>
    BY <1>1, <1>10 DEF VerifyFails
  <2> QED
    BY <1>5, <2>1
<1>11. CASE LogDisclosure(v)
  <2>1. PICK stage \in {"entry", "error"}, i \in {pos[v], pos[v] + 1} :
          /\ vpc[v] = "log" /\ log' = log \cup {<<v, pos[v]>>}
          /\ vpc' = [vpc EXCEPT ![v] = stage] /\ pos' = [pos EXCEPT ![v] = i]
          /\ UNCHANGED <<now, consentVars, profile, vform, doc, disclosed, historyVars>>
    <3>1. CASE Continue(v)
      BY <1>11, <3>1 DEF LogDisclosure
    <3>2. CASE Goto(v, "error") /\ UNCHANGED pos
      BY <1>1, <1>11, <3>2 DEF LogDisclosure
    <3> QED
      BY <1>11, <3>1, <3>2 DEF LogDisclosure
  <2>2. disclosed[v] \subseteq LoggedClaims(v)'
    <3>1. LoggedClaims(v) \subseteq LoggedClaims(v)'
      BY <2>1 DEF LoggedClaims
    <3>2. vform[v].credentials[pos[v]].claim \in LoggedClaims(v)'
      <4>1. <<v, pos[v]>> \in {y \in log' : y[1] = v}
        BY <2>1
      <4>2. <<v, pos[v]>>[2] = pos[v]
        OBVIOUS
      <4> QED
        BY <2>1, <4>1, <4>2 DEF LoggedClaims
    <3> QED
      BY <1>2, <2>1, <3>1, <3>2
  <2>3. vpc'[v] \in VerifyStages \ {"idle"} /\ doc' = [doc EXCEPT ![v] = doc[v]]
        /\ disclosed' = [disclosed EXCEPT ![v] = disclosed[v]]
        /\ UNCHANGED <<now, consentVars, profile, vform, historyVars>>
        /\ i \in Nat \ {0} /\ disclosed[v] \in SUBSET Claims
        /\ doc[v] # NoProfile /\ Listed(doc[v]) \subseteq offered[v] /\ LogsAtMost(v)
    BY <1>0, <1>1, <1>2, <2>1 DEF LogsAtMost
  <2>4. stage \notin {"vc", "consent", "log"} /\ stage \notin {"pointer", "fetch", "denied"}
        /\ stage # "disclosed" /\ stage # "log" /\ vpc[v] # "idle"
    BY <2>1
  <2> QED
    BY <1>1, <2>1, <2>2, <2>3, <2>4, RequestKeepsInv
<1>12. CASE CheckConsent(v)
  <2>1. vpc[v] = "consent"
        /\ UNCHANGED <<now, consentVars, profile, vform, doc, log, historyVars>>
    BY <1>12 DEF CheckConsent
  <2>2. CASE Covering(v) # {} /\ Vc[Current(v).cid].data
    <3> DEFINE c == disclosed[v] \cup {vform[v].credentials[pos[v]].claim}
    <3>1. /\ vpc' = [vpc EXCEPT ![v] = "log"] /\ pos' = [pos EXCEPT ![v] = pos[v]]
          /\ disclosed' = [disclosed EXCEPT ![v] = c]
      BY <1>1, <1>12, <2>2 DEF CheckConsent, Current
    <3>2. vform[v].credentials[pos[v]] \in Entry
      BY <1>0, <1>2, <2>1 DEF DisclosureInv, TypeOK
    <3>3. c \in SUBSET Claims
      BY <1>1, <3>2 DEF Entry
    <3>4. Backed(v, pos[v])
      <4>1. PICK r \in Covering(v) : TRUE
        BY <2>2
      <4>2. /\ r \in rows /\ r.subject = vform[v].subject /\ ~r.revoked /\ ~Expired(r)
            /\ r.claim = vform[v].credentials[pos[v]].claim /\ r.ctx = vform[v].ctx
            /\ Lower(r.purpose) = Lower(vform[v].purpose)
        BY <4>1 DEF Covering, Current
      <4>3. r.id \notin dead[v]
        BY <2>1, <4>2 DEF DisclosureInv, RequestInv, DeadStaysDead
      <4>4. r.purpose \in Purpose /\ vform[v].purpose \in Purpose
        BY <1>0, <2>1, <4>2 DEF Row, VerifyForm
      <4>5. \A p \in Purpose : Lower(p).word = p.word
        BY DEF Purpose, Lower
      <4>6. r.purpose.word = vform[v].purpose.word
        BY <4>2, <4>4, <4>5
      <4> QED
        BY <4>2, <4>3, <4>6 DEF Backed
    <3>5. vpc'[v] \in VerifyStages \ {"idle"} /\ doc' = [doc EXCEPT ![v] = doc[v]]
          /\ UNCHANGED <<now, consentVars, profile, vform, historyVars>> /\ LogsAtMost(v)
      BY <1>0, <1>1, <2>1, <3>1 DEF LogsAtMost
    <3>6. /\ vform[v].credentials[pos[v]].claim \in c
          /\ c \subseteq LoggedClaims(v)' \cup {vform[v].credentials[pos[v]].claim}
      BY <1>2, <1>3, <2>1
    <3> HIDE DEF c
    <3> QED
      BY <1>0, <1>1, <1>2, <2>1, <3>1, <3>3, <3>4, <3>5, <3>6, RequestKeepsInv
  <2>3. CASE ~(Covering(v) # {} /\ Vc[Current(v).cid].data)
    <3>1. vpc' = [vpc EXCEPT ![v] = "entry"] /\ pos' = [pos EXCEPT ![v] = pos[v] + 1]
          /\ UNCHANGED disclosed
      BY <1>12, <2>3 DEF CheckConsent
    <3> QED
      BY <1>5, <2>1, <3>1
  <2> QED
    BY <2>2, <2>3
<1> QED
  BY <1>4, <1>6, <1>7, <1>8, <1>9, <1>10, <1>11, <1>12 DEF VerifyStep

LEMMA DisclosureInvariance == Spec => []DisclosureInv
<1>1. Init => DisclosureInv
  <2> SUFFICES ASSUME Init PROVE DisclosureInv
    OBVIOUS
  <2>1. ConsentInv
    BY ConsentStart DEF Init
  <2>2. TypeOK
    BY <2>1 DEF Init, TypeOK, ConsentInv, VerifyStages
  <2>3. RequestInv
    BY DEF Init, RequestInv, DeadStaysDead, ReadWasOffered, LogIsBacked, CollectedIsLogged
  <2> QED
    BY <2>1, <2>2, <2>3 DEF DisclosureInv
<1>2. DisclosureInv /\ [Next]_vars => DisclosureInv'
  <2> SUFFICES ASSUME DisclosureInv, [Next]_vars PROVE DisclosureInv'
    OBVIOUS
  <2>1. CASE ConsentNext /\ UNCHANGED verifyVars
    BY <2>1, ConsentKeepsRequests
  <2>2. CASE ConsentTick /\ UNCHANGED <<consentVars, verifyVars>>
    BY <2>2, ClockAndOwnersKeepInv DEF verifyVars, historyVars
  <2>3. CASE \E s \in Subjects, p \in Profiles : SetProfile(s, p)
    <3>1. UNCHANGED <<now, consentVars, requestVars, log, dead>>
      BY <2>3 DEF SetProfile
    <3> QED
      BY <2>3, <3>1, ClockAndOwnersKeepInv
  <2>4. CASE \E v \in Verifiers, f \in VerifyForms : SubmitVerify(v, f)
    BY <2>4, SubmitKeepsInv
  <2>5. CASE \E v \in Verifiers : VerifyStep(v) \/ FetchProfileFails(v) \/ VerifyFails(v)
    BY <2>5, VerifyKeepsInv
  <2>6. CASE UNCHANGED vars
    <3>1. UNCHANGED <<now, rows, gpc, gform, profile, vpc, vform, doc, pos, disclosed, log,
                      dead, offered>>
      BY <2>6 DEF vars, consentVars, verifyVars, requestVars, historyVars
    <3>2. ConsentInv'
      BY <3>1, ConsentStep DEF consentVars, DisclosureInv
    <3>3. TypeOK'
      BY <3>1, <3>2 DEF DisclosureInv, TypeOK, ConsentInv
    <3>4. DeadStaysDead' /\ ReadWasOffered'
      BY <3>1 DEF DisclosureInv, RequestInv, DeadStaysDead, Stored, ReadWasOffered, Expired, Current,
         Backed, Listed
    <3>5. LogIsBacked' /\ CollectedIsLogged'
      BY <3>1 DEF DisclosureInv, RequestInv, LogIsBacked, CollectedIsLogged, LoggedClaims,
         Current, Backed
    <3> QED
      BY <3>2, <3>3, <3>4, <3>5 DEF DisclosureInv, RequestInv
  <2> QED
    BY <2>1, <2>2, <2>3, <2>4, <2>5, <2>6 DEF Next
<1> QED
  BY <1>1, <1>2, PTL DEF Spec

--------------------------------------------------------------------------------
\* Requests, profiles, consents and the log have their types in every state; a request
\* that looks at an entry has a profile and an entry to look at.
THEOREM DisclosureTypeCorrect == Spec => []TypeOK
<1>1. DisclosureInv => TypeOK
  BY DEF DisclosureInv
<1> QED
  BY <1>1, DisclosureInvariance, PTL

\* What Answer of ConsentedDisclosure asks of an answer, of all reachable states: no claim
\* leaves the server unrecorded, and an answer that refuses carries no claim.
ReturnedIsLogged ==
  \A v \in Verifiers :
    /\ vpc[v] = "disclosed" => disclosed[v] # {} /\ disclosed[v] \subseteq LoggedClaims(v)
    /\ vpc[v] = "denied" => disclosed[v] = {}

\* Every claim of a 200 answer has its row in the disclosure log, and an answer that
\* refuses carries none, for any number of entries and any failures.
THEOREM ReturnedClaimsAreLogged == Spec => []ReturnedIsLogged
<1>1. DisclosureInv => ReturnedIsLogged
  BY DEF DisclosureInv, RequestInv, CollectedIsLogged, ReturnedIsLogged
<1> QED
  BY <1>1, DisclosureInvariance, PTL

\* A consent that was revoked or had expired when a request was sent opens nothing to
\* it, whatever is granted, revoked and rewritten while it runs.
THEOREM RevokedOpensNothing == Spec => []NoDisclosureAfterRevocation
<1>1. DisclosureInv => NoDisclosureAfterRevocation
  BY DEF DisclosureInv, RequestInv, LogIsBacked, Backed, NoDisclosureAfterRevocation
<1> QED
  BY <1>1, DisclosureInvariance, PTL

\* A credential that the profile did not list when the request was sent, nor later, is
\* not disclosed.
THEOREM UnlistedIsNotDisclosed == Spec => []OnlyOfferedIsDisclosed
<1>1. DisclosureInv => OnlyOfferedIsDisclosed
  BY DEF DisclosureInv, RequestInv, LogIsBacked, OnlyOfferedIsDisclosed
<1> QED
  BY <1>1, DisclosureInvariance, PTL

\* Disclosure adds nothing to the consent registry: each of its steps is one of the
\* registry or leaves it alone, so what is proved of the registry holds in it.
THEOREM DisclosureKeepsConsent == Spec => ConsentSpec
<1>1. Init => ConsentInit
  BY DEF Init
<1>2. [Next]_vars =>
        [ConsentNext \/ (ConsentTick /\ UNCHANGED consentVars)]_<<now, consentVars>>
  BY DEF Next, vars, SetProfile, SubmitVerify, VerifyStep, ReadPointer, FetchProfile,
     FetchProfileFails, NextEntry, FetchVc, CheckConsent, LogDisclosure, AnswerVerify, VerifyFails
<1> QED
  BY <1>1, <1>2, PTL DEF Spec, ConsentSpec

\* Context and purpose of a row are those its grant names, the context as the middleware
\* stores it.
LEMMA StoredBody ==
  ASSUME ConsentInv, NEW r \in rows
  PROVE  /\ gform[r.id].ctx \in Context /\ r.ctx = MiddlewareContext(gform[r.id].ctx)
         /\ r.purpose = gform[r.id].purpose
<1>1. r \in Row /\ gpc[r.id] \in {"granted", "error"} /\ [r EXCEPT !.revoked = FALSE] = NewRow(r.id)
  BY DEF ConsentInv, ConsentTypeOK, RowIsOfItsGrant
<1>2. gform[r.id] \in GrantForm
  BY <1>1, ConsentAssumption DEF ConsentInv, ConsentTypeOK, Row
<1>3. LET s == [r EXCEPT !.revoked = FALSE] IN s.ctx = r.ctx /\ s.purpose = r.purpose
  BY <1>1 DEF Row
<1> QED
  BY <1>1, <1>2, <1>3 DEF NewRow, GrantForm

\* The consent check and the consent page agree about every request whose context is
\* written as the verifier page writes it.  (A body in capitals, which no page sends,
\* is compared as it is and finds nothing, though the consent page would list the row.)
THEOREM ShownIsFound ==
  ASSUME \A f \in VerifyForms : \E c \in Context : f.ctx = NormalizeContext(c)
  PROVE  Spec => []ConsentIsFound
<1>1. DisclosureInv => ConsentIsFound
  <2> SUFFICES ASSUME DisclosureInv, NEW v \in Verifiers, vpc[v] = "consent"
               PROVE  /\ \A r \in ShownConsents(vform[v].subject, vform[v].ctx) :
                           (r.claim = Current(v).claim /\ gform[r.id].ctx = vform[v].ctx
                              /\ gform[r.id].purpose.word = vform[v].purpose.word)
                             => r \in Covering(v)
                      /\ Covering(v) \subseteq ShownConsents(vform[v].subject, NoFilter)
    BY DEF ConsentIsFound
  <2>1. vform[v] \in VerifyForms /\ vform[v] \in VerifyForm
    BY DisclosureAssumption DEF DisclosureInv, TypeOK
  <2>2. ASSUME NEW r \in ShownConsents(vform[v].subject, vform[v].ctx),
               r.claim = Current(v).claim, gform[r.id].ctx = vform[v].ctx,
               gform[r.id].purpose.word = vform[v].purpose.word
        PROVE  r \in Covering(v)
    <3>1. /\ r \in rows /\ r.subject = vform[v].subject /\ ~r.revoked /\ ~Expired(r)
          /\ SanitizeContext(vform[v].ctx) # NoFilter => r.ctx = SanitizeContext(vform[v].ctx)
      BY DEF ShownConsents, ActiveConsents
    <3>2. PICK c \in Context : vform[v].ctx = NormalizeContext(c)
      BY <2>1
    <3>3. PICK d \in Context : d = vform[v].ctx
      BY <3>1, <2>2, StoredBody DEF DisclosureInv
    <3>4. r.ctx = MiddlewareContext(d)
      BY <3>1, <2>2, <3>3, StoredBody DEF DisclosureInv
    <3>5. /\ ~d.upper /\ d.mark # "blank"
      BY <3>2, <3>3 DEF NormalizeContext, Lower, Context
    <3>6. r.ctx = d
      <4>1. Lower(d) = d
        BY <3>5 DEF Lower, Context
      <4>2. CASE d.mark \in {"dashes", "long"}
        <5>1. SanitizeContext(d) = d /\ d # NoFilter
          BY <4>1, <4>2, ContextNamesAssumption DEF SanitizeContext
        <5> QED
          BY <3>1, <3>3, <5>1
      <4>3. CASE d.mark \notin {"dashes", "long"}
        BY <3>4, <4>1, <4>3 DEF MiddlewareContext
      <4> QED
        BY <4>2, <4>3
    <3>7. Lower(r.purpose) = Lower(vform[v].purpose)
      <4>1. r.purpose = gform[r.id].purpose
        BY <3>1, StoredBody DEF DisclosureInv
      <4>2. r.purpose \in Purpose /\ vform[v].purpose \in Purpose
        BY <2>1, <3>1 DEF DisclosureInv, ConsentInv, ConsentTypeOK, Row, VerifyForm
      <4> QED
        BY <2>2, <4>1, <4>2 DEF Lower, Purpose
    <3> QED
      BY <2>2, <3>1, <3>3, <3>6, <3>7 DEF Covering
  <2>3. Covering(v) \subseteq ShownConsents(vform[v].subject, NoFilter)
    BY DEF Covering, ShownConsents, ActiveConsents, SanitizeContext
  <2> QED
    BY <2>2, <2>3
<1> QED
  BY <1>1, DisclosureInvariance, PTL

--------------------------------------------------------------------------------
\* ConsentedDisclosure

\* What the abstract specification sees of the requests' side.
LEMMA RequestSideRests ==
  ASSUME UNCHANGED <<vpc, vform, log>>
  PROVE  UNCHANGED <<Asking, Recorded, Standing>>
BY DEF Asking, Recorded, Standing

\* A step of a request that is under way: it is open, and answered if the stage is an answer.
LEMMA StandingMoves ==
  ASSUME TypeOK, NEW v \in Verifiers, NEW stage \in VerifyStages \ {"idle"},
         vpc[v] \notin {"idle"} \cup VerifyAnswers, vpc' = [vpc EXCEPT ![v] = stage],
         UNCHANGED <<now, rows, profile, vform>>
  PROVE  /\ UNCHANGED <<InForce, Listing, Asking>>
         /\ Standing[v] = "open"
         /\ stage \in VerifyAnswers => Standing' = [Standing EXCEPT ![v] = stage]
         /\ stage \notin VerifyAnswers => UNCHANGED Standing
         /\ Asking[v] = Asked(vform[v])
<1>1. vpc \in [Verifiers -> VerifyStages]
  BY DEF TypeOK
<1>2. vpc'[v] = stage /\ \A u \in Verifiers \ {v} : vpc'[u] = vpc[u]
  BY <1>1
<1>3. InForce' = InForce /\ Listing' = Listing
  BY DEF InForce, Expired, Listing, Listed
<1>4. Asking' = Asking
  BY <1>2 DEF Asking, Asked
<1>5. \A u \in Verifiers \ {v} : Standing'[u] = Standing[u]
  BY <1>2 DEF Standing
<1>6. Standing[v] = "open" /\ Standing'[v] = IF stage \in VerifyAnswers THEN stage ELSE "open"
  BY <1>2 DEF Standing
<1>7. Standing = [u \in Verifiers |-> Standing[u]] /\ Standing' = [u \in Verifiers |-> Standing'[u]]
  BY DEF Standing
<1>8. /\ stage \in VerifyAnswers => Standing' = [Standing EXCEPT ![v] = stage]
      /\ stage \notin VerifyAnswers => Standing' = Standing
  BY <1>5, <1>6, <1>7
<1>9. Asking[v] = Asked(vform[v])
  BY DEF Asking
<1> QED
  BY <1>3, <1>4, <1>6, <1>8, <1>9

\* An owner rewrites a profile.
LEMMA OwnersKeepPromise ==
  ASSUME DisclosureInv, NEW s \in Subjects, NEW p \in Profiles, SetProfile(s, p)
  PROVE  Promise!ListingChanges(s)
<1>1. /\ profile' = [profile EXCEPT ![s] = p]
      /\ offered' = [v \in Verifiers |->
                       IF vpc[v] # "idle" /\ vform[v].subject = s
                         THEN offered[v] \cup Listed(p) ELSE offered[v]]
      /\ UNCHANGED <<now, rows, vpc, vform, disclosed, log>>
      /\ profile \in [Subjects -> Profiles \cup {NoProfile}]
  BY DEF SetProfile, consentVars, requestVars, DisclosureInv, TypeOK
<1>2. UNCHANGED <<InForce, Asking, disclosed, Recorded, Standing>>
  BY <1>1, RequestSideRests DEF InForce, Expired
<1>3. Listing'[s] = Listed(p) /\ \A t \in Subjects \ {s} : Listing'[t] = Listing[t]
  BY <1>1 DEF Listing, Listed
<1>4. Listing' = [Listing EXCEPT ![s] = Listing'[s]]
  <2>1. Listing = [t \in Subjects |-> Listing[t]] /\ Listing' = [t \in Subjects |-> Listing'[t]]
    BY DEF Listing
  <2> QED
    BY <1>3, <2>1
<1>5. \A v \in Verifiers : /\ Standing[v] # "unsent" <=> vpc[v] # "idle"
                           /\ vpc[v] # "idle" => Asking[v].subject = vform[v].subject
  BY DEF Standing, Asking, Asked, VerifyAnswers
<1>6. offered' = [v \in Verifiers |->
                    IF Standing[v] # "unsent" /\ Asking[v].subject = s
                      THEN offered[v] \cup Listing'[s] ELSE offered[v]]
  BY <1>1, <1>3, <1>5
<1> QED
  BY <1>2, <1>4, <1>6 DEF Promise!ListingChanges

\* A request arrives; the rows of the log belong to others.
LEMMA SubmitKeepsPromise ==
  ASSUME DisclosureInv, NEW v \in Verifiers, NEW f \in VerifyForms, SubmitVerify(v, f)
  PROVE  Promise!Send(v, Asked(f))
<1>1. /\ vpc[v] = "idle" /\ vpc' = [vpc EXCEPT ![v] = "pointer"]
      /\ vform' = [vform EXCEPT ![v] = f]
      /\ offered' = [offered EXCEPT ![v] = Listed(profile[f.subject])]
      /\ UNCHANGED <<now, rows, profile, disclosed, log>>
      /\ vpc \in [Verifiers -> VerifyStages] /\ vform \in [Verifiers -> VerifyForms \cup {NoFilter}]
      /\ log \subseteq Verifiers \X Nat /\ f.subject \in Subjects
  BY DisclosureAssumption DEF SubmitVerify, Goto, consentVars, DisclosureInv, TypeOK, VerifyForm
<1>2. /\ vpc'[v] = "pointer" /\ vform'[v] = f
      /\ \A u \in Verifiers \ {v} : vpc'[u] = vpc[u] /\ vform'[u] = vform[u]
  BY <1>1
<1>3. UNCHANGED <<InForce, Listing, disclosed>>
  BY <1>1 DEF InForce, Expired, Listing, Listed
<1>4. Recorded' = Recorded
  <2>1. \A x \in log : x[1] \in Verifiers \ {v}
    BY <1>1 DEF DisclosureInv, RequestInv, LogIsBacked
  <2> QED
    BY <1>1, <1>2, <2>1 DEF Recorded
<1>5. Asking' = [Asking EXCEPT ![v] = Asked(f)]
  <2>1. Asking'[v] = Asked(f) /\ \A u \in Verifiers \ {v} : Asking'[u] = Asking[u]
    BY <1>2 DEF Asking, Asked
  <2>2. Asking = [u \in Verifiers |-> Asking[u]] /\ Asking' = [u \in Verifiers |-> Asking'[u]]
    BY DEF Asking
  <2> QED
    BY <2>1, <2>2
<1>6. Standing[v] = "unsent" /\ Standing' = [Standing EXCEPT ![v] = "open"]
  <2>1. /\ Standing[v] = "unsent" /\ Standing'[v] = "open"
        /\ \A u \in Verifiers \ {v} : Standing'[u] = Standing[u]
    BY <1>1, <1>2 DEF Standing, VerifyAnswers
  <2>2. Standing = [u \in Verifiers |-> Standing[u]] /\ Standing' = [u \in Verifiers |-> Standing'[u]]
    BY DEF Standing
  <2> QED
    BY <2>1, <2>2
<1>7. Listing[Asked(f).subject] = Listed(profile[f.subject])
  BY <1>1 DEF Listing, Asked
<1> QED
  BY <1>1, <1>3, <1>4, <1>5, <1>6, <1>7 DEF Promise!Send

\* The consent check finds a consent in force for an entry that was offered.
LEMMA CheckKeepsPromise ==
  ASSUME DisclosureInv, NEW v \in Verifiers, CheckConsent(v)
  PROVE  [Promise!AbsNext]_(Promise!absVars)
<1> DEFINE e == Current(v)
<1>1. /\ TypeOK /\ vpc[v] = "consent" /\ vform[v] \in VerifyForm
      /\ pos[v] \in 1..Len(vform[v].credentials)
      /\ e = vform[v].credentials[pos[v]] /\ e \in offered[v]
      /\ UNCHANGED <<now, rows, profile, vform, log, offered>>
  BY DisclosureAssumption DEF CheckConsent, consentVars, historyVars, DisclosureInv, TypeOK,
     RequestInv, ReadWasOffered, Current, VerifyForm
<1>2. Recorded' = Recorded
  BY <1>1 DEF Recorded
<1>3. CASE Covering(v) # {} /\ Vc[e.cid].data
  <2>1. /\ vpc' = [vpc EXCEPT ![v] = "log"]
        /\ disclosed' = [disclosed EXCEPT ![v] = @ \cup {e.claim}]
    BY <1>3 DEF CheckConsent, Goto
  <2>2. /\ UNCHANGED <<InForce, Listing, Asking, Standing>>
        /\ Standing[v] = "open" /\ Asking[v] = Asked(vform[v])
    <3>1. /\ "log" \in VerifyStages \ {"idle"} /\ "log" \notin VerifyAnswers
          /\ vpc[v] \notin {"idle"} \cup VerifyAnswers
      BY <1>1 DEF VerifyStages, VerifyAnswers
    <3> QED
      BY <1>1, <2>1, <3>1, StandingMoves
  <2>3. e \in Asking[v].entries
    BY <1>1, <2>2 DEF Asked
  <2>4. Promise!Consented(Asking[v], e.claim)
    <3>1. PICK r \in Covering(v) : TRUE
      BY <1>3
    <3>2. /\ r \in {q \in rows : ~q.revoked /\ ~Expired(q)}
          /\ r.subject = vform[v].subject /\ r.claim = e.claim
          /\ Lower(r.purpose) = Lower(vform[v].purpose) /\ r.ctx = vform[v].ctx
      BY <3>1 DEF Covering
    <3> HIDE DEF e
    <3> QED
      BY <2>2, <3>2 DEF Promise!Consented, InForce, Asked
  <2> HIDE DEF e
  <2>5. Promise!Release(v, e)
    BY <1>1, <1>2, <2>1, <2>2, <2>3, <2>4 DEF Promise!Release
  <2> QED
    BY <1>1, <2>5 DEF Promise!AbsNext
<1>4. CASE ~(Covering(v) # {} /\ Vc[e.cid].data)
  <2>1. vpc' = [vpc EXCEPT ![v] = "entry"] /\ disclosed' = disclosed
    BY <1>4 DEF CheckConsent, Goto, Continue
  <2>2. UNCHANGED <<InForce, Listing, Asking, Standing>>
    <3>1. /\ "entry" \in VerifyStages \ {"idle"} /\ "entry" \notin VerifyAnswers
          /\ vpc[v] \notin {"idle"} \cup VerifyAnswers
      BY <1>1 DEF VerifyStages, VerifyAnswers
    <3> QED
      BY <1>1, <2>1, <3>1, StandingMoves
  <2> QED
    BY <1>1, <1>2, <2>1, <2>2 DEF Promise!absVars
<1> QED
  BY <1>3, <1>4

\* The row of a released claim is written.
LEMMA LogKeepsPromise ==
  ASSUME DisclosureInv, NEW v \in Verifiers, LogDisclosure(v)
  PROVE  Promise!Record(v)
<1> DEFINE claim == vform[v].credentials[pos[v]].claim
<1>1. PICK stage \in {"entry", "error"} :
        /\ TypeOK /\ vpc[v] = "log" /\ vpc' = [vpc EXCEPT ![v] = stage]
        /\ log' = log \cup {<<v, pos[v]>>}
        /\ UNCHANGED <<now, rows, profile, vform, disclosed, offered>>
  BY DEF LogDisclosure, Goto, Continue, consentVars, historyVars, DisclosureInv
<1>2. /\ UNCHANGED <<InForce, Listing, Asking>> /\ Standing[v] = "open"
      /\ Standing' \in {Standing, [Standing EXCEPT ![v] = "error"]}
  <2>1. /\ stage \in VerifyStages \ {"idle"} /\ (stage \in VerifyAnswers <=> stage = "error")
        /\ vpc[v] \notin {"idle"} \cup VerifyAnswers
    BY <1>1 DEF VerifyStages, VerifyAnswers
  <2> QED
    BY <1>1, <2>1, StandingMoves
<1>3. Recorded' = Recorded \cup {<<v, claim>>}
  <2>1. Recorded' = {<<x[1], vform[x[1]].credentials[x[2]].claim>> : x \in log'}
    BY <1>1 DEF Recorded
  <2>2. <<v, pos[v]>>[1] = v /\ <<v, pos[v]>>[2] = pos[v]
    OBVIOUS
  <2> QED
    BY <1>1, <2>1, <2>2 DEF Recorded
<1>4. claim \in disclosed[v]
  BY <1>1 DEF DisclosureInv, RequestInv, CollectedIsLogged, Current
<1> QED
  BY <1>1, <1>2, <1>3, <1>4 DEF Promise!Record

\* An answer: all claims it carries are recorded, and a refusal carries none.
LEMMA AnswerKeepsPromise ==
  ASSUME DisclosureInv, NEW v \in Verifiers, NEW stage \in VerifyAnswers,
         vpc[v] \notin {"idle"} \cup VerifyAnswers, vpc' = [vpc EXCEPT ![v] = stage],
         UNCHANGED <<now, rows, profile, vform, disclosed, log, offered>>,
         stage = "disclosed" => vpc[v] = "entry" /\ disclosed[v] # {},
         stage = "denied" => disclosed[v] = {}
  PROVE  Promise!AbsNext
<1>1. /\ UNCHANGED <<InForce, Listing, Asking>> /\ Standing[v] = "open"
      /\ Standing' = [Standing EXCEPT ![v] = stage]
  BY StandingMoves DEF VerifyStages, VerifyAnswers, DisclosureInv
<1>2. Recorded' = Recorded
  BY DEF Recorded
<1>3. stage = "disclosed" => {v} \X disclosed[v] \subseteq Recorded
  <2> SUFFICES ASSUME stage = "disclosed", NEW c \in disclosed[v]
               PROVE  <<v, c>> \in Recorded
    OBVIOUS
  <2>1. c \in LoggedClaims(v)
    BY DEF DisclosureInv, RequestInv, CollectedIsLogged
  <2>2. PICK x \in log : x[1] = v /\ c = vform[v].credentials[x[2]].claim
    BY <2>1 DEF LoggedClaims
  <2> QED
    BY <2>2 DEF Recorded
<1>4. Promise!Answer(v, stage)
  BY <1>1, <1>2, <1>3 DEF Promise!Answer
<1> QED
  BY <1>4 DEF Promise!AbsNext, VerifyAnswers

\* The other steps of a request show nothing.
LEMMA VerifyKeepsPromise ==
  ASSUME DisclosureInv, NEW v \in Verifiers,
         VerifyStep(v) \/ FetchProfileFails(v) \/ VerifyFails(v)
  PROVE  [Promise!AbsNext]_(Promise!absVars)
<1> USE DEF Goto, Continue, consentVars, historyVars
<1>1. ASSUME NEW stage \in VerifyStages \ ({"idle"} \cup VerifyAnswers),
             vpc[v] \notin {"idle"} \cup VerifyAnswers, vpc' = [vpc EXCEPT ![v] = stage],
             UNCHANGED <<now, rows, profile, vform, disclosed, log, offered>>
      PROVE  UNCHANGED Promise!absVars
  <2>1. UNCHANGED <<InForce, Listing, Asking, Standing>>
    BY <1>1, StandingMoves DEF DisclosureInv
  <2>2. Recorded' = Recorded
    BY <1>1 DEF Recorded
  <2> QED
    BY <1>1, <2>1, <2>2 DEF Promise!absVars
<1>2. ASSUME NEW stage \in VerifyAnswers,
             vpc[v] \notin {"idle"} \cup VerifyAnswers, vpc' = [vpc EXCEPT ![v] = stage],
             UNCHANGED <<now, rows, profile, vform, disclosed, log, offered>>,
             stage = "disclosed" => vpc[v] = "entry" /\ disclosed[v] # {},
             stage = "denied" => disclosed[v] = {}
      PROVE  Promise!AbsNext
  BY <1>2, AnswerKeepsPromise
<1>3. vpc[v] \in {"pointer", "fetch"} => disclosed[v] = {}
  BY DEF DisclosureInv, RequestInv, CollectedIsLogged
<1> USE DEF VerifyStages, VerifyAnswers
<1>4. CASE ReadPointer(v)
  <2>1. /\ vpc[v] = "pointer"
        /\ vpc' = [vpc EXCEPT ![v] = "denied"] \/ vpc' = [vpc EXCEPT ![v] = "fetch"]
        /\ UNCHANGED <<now, rows, profile, vform, disclosed, log, offered>>
    BY <1>4 DEF ReadPointer
  <2> QED
    BY <1>1, <1>2, <1>3, <2>1
<1>5. CASE FetchProfile(v) \/ FetchProfileFails(v)
  <2>1. /\ vpc[v] = "fetch"
        /\ vpc' = [vpc EXCEPT ![v] = "denied"] \/ vpc' = [vpc EXCEPT ![v] = "entry"]
        /\ UNCHANGED <<now, rows, profile, vform, disclosed, log, offered>>
    BY <1>5 DEF FetchProfile, FetchProfileFails
  <2> QED
    BY <1>1, <1>2, <1>3, <2>1
<1>6. CASE NextEntry(v) \/ FetchVc(v)
  <2>1. /\ vpc[v] \in {"entry", "vc"}
        /\ \E stage \in {"entry", "vc", "consent"} : vpc' = [vpc EXCEPT ![v] = stage]
        /\ UNCHANGED <<now, rows, profile, vform, disclosed, log, offered>>
    BY <1>6 DEF NextEntry, FetchVc
  <2> QED
    BY <1>1, <2>1
<1>7. CASE AnswerVerify(v)
  <2>1. /\ vpc[v] = "entry"
        /\ \/ vpc' = [vpc EXCEPT ![v] = "denied"] /\ disclosed[v] = {}
           \/ vpc' = [vpc EXCEPT ![v] = "disclosed"] /\ disclosed[v] # {}
        /\ UNCHANGED <<now, rows, profile, vform, disclosed, log, offered>>
    BY <1>7 DEF AnswerVerify
  <2> QED
    BY <1>2, <2>1
<1>8. CASE VerifyFails(v)
  <2>1. /\ vpc[v] \in {"pointer", "vc", "consent", "log"}
        /\ vpc' = [vpc EXCEPT ![v] = "error"]
        /\ UNCHANGED <<now, rows, profile, vform, disclosed, log, offered>>
    BY <1>8 DEF VerifyFails
  <2> QED
    BY <1>2, <2>1
<1>9. CASE CheckConsent(v)
  BY <1>9, CheckKeepsPromise
<1>10. CASE LogDisclosure(v)
  BY <1>10, LogKeepsPromise DEF Promise!AbsNext
<1> QED
  BY <1>4, <1>5, <1>6, <1>7, <1>8, <1>9, <1>10 DEF VerifyStep

\* Verification with its awaits implements ConsentedDisclosure: each claim is released at
\* a moment at which a consent that covers it is in force, of an entry the subject has
\* listed since the request, and is recorded before the answer that carries it.
THEOREM DisclosureImplementsPromise == Spec => ImplementsConsentedDisclosure
<1>1. Init => Promise!AbsInit
  BY DEF Init, ConsentInit, Promise!AbsInit, InForce, Listing, Listed, Asking, Recorded, Standing
<1>2. DisclosureInv /\ [Next]_vars => [Promise!AbsNext]_(Promise!absVars)
  <2> SUFFICES ASSUME DisclosureInv, [Next]_vars
               PROVE  [Promise!AbsNext]_(Promise!absVars)
    OBVIOUS
  <2>1. CASE \/ ConsentNext /\ UNCHANGED verifyVars
             \/ ConsentTick /\ UNCHANGED <<consentVars, verifyVars>>
    <3>1. UNCHANGED <<vpc, vform, profile, disclosed, log, offered>>
      BY <2>1 DEF verifyVars, requestVars, historyVars
    <3>2. UNCHANGED <<Listing, Asking, offered, disclosed, Recorded, Standing>>
      BY <3>1, RequestSideRests DEF Listing, Listed
    <3>3. Promise!ConsentsChange
      BY <3>2 DEF Promise!ConsentsChange
    <3> QED
      BY <3>3 DEF Promise!AbsNext
  <2>2. CASE \E s \in Subjects, p \in Profiles : SetProfile(s, p)
    BY <2>2, OwnersKeepPromise DEF Promise!AbsNext
  <2>3. CASE \E v \in Verifiers, f \in VerifyForms : SubmitVerify(v, f)
    <3>1. PICK v \in Verifiers, f \in VerifyForms : SubmitVerify(v, f)
      BY <2>3
    <3>2. Promise!Send(v, Asked(f)) /\ Asked(f) \in {Asked(g) : g \in VerifyForms}
      BY <3>1, SubmitKeepsPromise
    <3> QED
      BY <3>2 DEF Promise!AbsNext
  <2>4. CASE \E v \in Verifiers : VerifyStep(v) \/ FetchProfileFails(v) \/ VerifyFails(v)
    BY <2>4, VerifyKeepsPromise
  <2>5. CASE UNCHANGED vars
    <3>1. UNCHANGED <<now, rows, vpc, vform, profile, disclosed, log, offered>>
      BY <2>5 DEF vars, consentVars, verifyVars, requestVars, historyVars
    <3>2. UNCHANGED <<InForce, Listing, Asking, Recorded, Standing>>
      BY <3>1, RequestSideRests DEF InForce, Expired, Listing, Listed
    <3> QED
      BY <3>1, <3>2 DEF Promise!absVars
  <2> QED
    BY <2>1, <2>2, <2>3, <2>4, <2>5 DEF Next
<1> QED
  BY <1>1, <1>2, DisclosureInvariance, PTL DEF Spec, ImplementsConsentedDisclosure, Promise!AbsSpec
================================================================================
