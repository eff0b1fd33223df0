------------------------------ MODULE Profile_proofs ------------------------------
(***************************************************************************)
(* Proofs about Profile for any owners, claims and sessions, any jobs of   *)
(* these and any failures.  The stage of a session says what it has        *)
(* uploaded, sent and seen mined (StageInv); what documents hold and slots *)
(* name follows from that (DataInv).                                       *)
(***************************************************************************)
EXTENDS Profile, TLAPS

BeforeUpload == {"idle", "prefetch", "prepare", "tombstone"}
Uploaded     == {"backendTx", "cleanup", "logErasure", "signProfile", "profileSent"}
Erasing      == {"erase", "gdprErase"}

KindOfStage ==
  \A s \in Cids :
    /\ pc[s] \in {"signClaim", "claimSent", "fallback", "directSent"} => job[s].kind = "issue"
    /\ pc[s] \in {"tombstone", "cleanup", "logErasure"} => job[s].kind \in Erasing
    /\ pc[s] = "backendTx" => job[s].kind # "issue"
    /\ pc[s] \in Uploaded => job[s].kind # "upsert"

\* A session uploads once, and nothing of it is written before.
DocOfStage ==
  \A s \in Cids :
    /\ pc[s] \in BeforeUpload => /\ doc[s] = NoDoc
                                 /\ \A part \in Parts : <<s, part>> \notin sent \cup mined
    /\ pc[s] \in Uploaded => doc[s] # NoDoc
    /\ <<s, "profile">> \in sent \cup mined => doc[s] # NoDoc

\* The claim is written before the profile that lists it, and an outcome comes last.
OrderOfWrites ==
  \A s \in Cids :
    /\ (pc[s] # "idle" /\ job[s].kind = "issue"
        /\ (pc[s] \in {"signProfile", "profileSent"} \/ <<s, "profile">> \in sent \cup mined)) =>
         <<s, "claim">> \in mined
    /\ pc[s] \in {"cleanup", "logErasure"} => hybrid \/ <<s, "profile">> \in mined
    /\ (pc[s] = "done" /\ job[s].kind # "upsert") =>
         IF job[s].kind = "issue" THEN <<s, "claim">> \in mined \/ <<s, "direct">> \in mined
                                  ELSE <<s, "profile">> \in mined

StageInv == TypeOK /\ KindOfStage /\ DocOfStage /\ OrderOfWrites

--------------------------------------------------------------------------------
\* The calls that a session makes have these effects on the registry.
LEMMA ProfileCall ==
  ASSUME TypeOK, NEW s \in Cids, pc[s] # "idle", RegistryCall(job[s].owner, SetProfile(s))
  PROVE  /\ job[s] \in Job /\ claims' = claims
         /\ profileCID' = [profileCID EXCEPT ![job[s].owner] = s]
<1>1. job[s] \in Job
  BY ProfileAssumption DEF TypeOK
<1> QED
  BY <1>1 DEF RegistryCall, RegisterIdentity, SetProfileCID, SetClaim, RemoveClaim, SetProfile,
              RegisterData, SetProfileData, SetClaimData, RemoveData

LEMMA AnchorCall ==
  ASSUME TypeOK, NEW s \in Cids, pc[s] # "idle", RegistryCall(job[s].owner, Anchor(s))
  PROVE  /\ job[s] \in Job /\ profileCID' = profileCID
         /\ claims' = [claims EXCEPT ![job[s].owner][job[s].claim] = CredentialOf[s]]
<1>1. job[s] \in Job
  BY ProfileAssumption DEF TypeOK
<1> QED
  BY <1>1 DEF RegistryCall, RegisterIdentity, SetProfileCID, SetClaim, RemoveClaim, Anchor,
              RegisterData, SetProfileData, SetClaimData, RemoveData

\* What a session installs or builds on is a document.
LEMMA EntriesTyped ==
  ASSUME TypeOK, NEW c \in Cids \cup {NoCid}, c # NoCid => doc[c] # NoDoc
  PROVE  EntriesOf(c) \subseteq Entry /\ IsErased(c) \in BOOLEAN
  BY RegistryAssumption DEF EntriesOf, IsErased, TypeOK, Doc

LEMMA SlotTyped ==
  ASSUME TypeOK, NEW s \in Cids, pc[s] # "idle"
  PROVE  /\ job[s] \in Job /\ Slot(s) \in Cids \cup {NoCid}
         /\ Slot(s) # NoCid => doc[Slot(s)] # NoDoc
<1>1. job[s] \in Job
  BY ProfileAssumption DEF TypeOK
<1> QED
  BY <1>1 DEF TypeOK, RegistryTypeOK, Slot, Job

--------------------------------------------------------------------------------
\* A session's own step takes it to stage x, with base b and document d.

\* Only the session itself moves, and the world outside the registry.
Shape(s, x, b, d) ==
  /\ pc[s] # "idle" /\ x \in Stages \ {"idle", "prefetch"}
  /\ b \in Cids \cup {NoCid} /\ d \in Doc \cup {NoDoc}
  /\ pc' = [pc EXCEPT ![s] = x] /\ base' = [base EXCEPT ![s] = b]
  /\ doc' = [doc EXCEPT ![s] = d]
  /\ UNCHANGED <<registryVars, hybrid, job, mined>>
  /\ rows' \subseteq Owners
  /\ posted \subseteq posted' /\ posted' \subseteq Owners \X Entry

\* What it uploads, signs and logs fits its stage.
Orderly(s, x, b, d) ==
  /\ x \in BeforeUpload => pc[s] \in BeforeUpload /\ d = NoDoc /\ sent' = sent
  /\ x \in Uploaded => d # NoDoc
  /\ d = doc[s] \/ (pc[s] \in {"prepare", "tombstone"} /\ x \notin BeforeUpload /\ d # NoDoc)
  /\ x \in {"signClaim", "claimSent", "fallback", "directSent"} => job[s].kind = "issue"
  /\ x \in {"tombstone", "cleanup", "logErasure"} => job[s].kind \in Erasing
  /\ x = "backendTx" => job[s].kind # "issue"
  /\ x \in Uploaded => job[s].kind # "upsert"
  /\ x \in {"signProfile", "profileSent"} /\ job[s].kind = "issue" => <<s, "claim">> \in mined
  /\ x \in {"cleanup", "logErasure"} => hybrid \/ <<s, "profile">> \in mined
  /\ x = "done" /\ job[s].kind # "upsert" =>
       IF job[s].kind = "issue" THEN <<s, "claim">> \in mined \/ <<s, "direct">> \in mined
                                ELSE <<s, "profile">> \in mined
  /\ \/ sent' = sent
     \/ pc[s] = "signClaim" /\ sent' = sent \cup {<<s, "claim">>}
     \/ pc[s] = "fallback" /\ sent' = sent \cup {<<s, "direct">>}
     \/ pc[s] \in {"backendTx", "signProfile"} /\ sent' = sent \cup {<<s, "profile">>}
  /\ erasures' = erasures \/ (pc[s] = "logErasure" /\ erasures' = erasures \cup {s})

\* What it uploads comes from its base, which was in the slot, and it unpins only that.
Sourced(s, x, b, d) ==
  /\ b = base[s] \/ (pc[s] \in {"prefetch", "prepare"} /\ b \in {NoCid, Slot(s)})
  /\ d # doc[s] =>
       /\ \A e \in d.entries :
            \/ e \in EntriesOf(b)
            \/ <<job[s].owner, e>> \in posted'
            \/ job[s].kind = "issue" /\ e = Issued(s)
       /\ job[s].kind = "issue" =>
            \A e \in EntriesOf(b) : e.claim # job[s].claim => e \in d.entries
  /\ d # doc[s] => s \in pins'
  /\ pins' \subseteq Cids \cup Hashes
  /\ \A c \in Cids : c \in pins /\ c \notin pins' =>
       pc[s] = "tombstone" /\ c = base[s] /\ b = base[s]
  /\ pc[s] \notin {"prefetch", "prepare"} => x # "prepare"

Move(s, x, b, d) == Shape(s, x, b, d) /\ Orderly(s, x, b, d) /\ Sourced(s, x, b, d)

\* Leaving document, base and pins alone.
Waits(s, x) == Move(s, x, base[s], doc[s])

LEMMA NothingMoves ==
  ASSUME TypeOK, NEW s \in Cids
  PROVE  /\ base = [base EXCEPT ![s] = base[s]] /\ doc = [doc EXCEPT ![s] = doc[s]]
         /\ base[s] \in Cids \cup {NoCid} /\ doc[s] \in Doc \cup {NoDoc}
         /\ pc[s] \in Stages
  BY DEF TypeOK

LEMMA PreparingMoves ==
  ASSUME StageInv, NEW s \in Cids,
         \/ Prefetch(s) \/ PrepareIssue(s) \/ PrepareCreate(s) \/ EraseCheck(s)
         \/ GdprCheck(s) \/ PrepareRegister(s) \/ UpsertRow(s)
  PROVE  \E x, b, d : Move(s, x, b, d)
<1> USE DEF Move, Shape, Orderly, Sourced, BeforeUpload, Uploaded, Erasing, Goto, offChain, writeVars,
            Stages, Outcomes, Send
<1>0. /\ TypeOK /\ pc[s] # "idle"
      /\ pins \subseteq Cids \cup Hashes /\ rows \subseteq Owners /\ hybrid \in BOOLEAN
      /\ posted \subseteq Owners \X Entry
  BY DEF StageInv, TypeOK, Prefetch, PrepareIssue, PrepareCreate, EraseCheck, GdprCheck,
         PrepareRegister, UpsertRow
<1>1. /\ base = [base EXCEPT ![s] = base[s]] /\ doc = [doc EXCEPT ![s] = doc[s]]
      /\ base[s] \in Cids \cup {NoCid} /\ doc[s] \in Doc \cup {NoDoc}
      /\ base[s] # NoCid => doc[base[s]] # NoDoc
  BY <1>0, NothingMoves DEF TypeOK
<1>2. /\ job[s] \in Job /\ Slot(s) \in Cids \cup {NoCid}
      /\ Slot(s) # NoCid => doc[Slot(s)] # NoDoc
  BY <1>0, SlotTyped
<1>3. pc[s] \in BeforeUpload => doc[s] = NoDoc
  BY DEF StageInv, DocOfStage
<1>4. CredentialOf[s] \in Hashes /\ NoDoc \notin Doc
  BY ProfileAssumption
<1>5. CASE Prefetch(s)
  <2>1. PICK c \in {NoCid, Slot(s)} :
          base' = [base EXCEPT ![s] = IF IsErased(c) THEN NoCid ELSE c]
    BY <1>5 DEF Prefetch
  <2>2. Move(s, "prepare", IF IsErased(c) THEN NoCid ELSE c, doc[s])
    BY <1>0, <1>1, <1>2, <1>3, <1>5, <2>1 DEF Prefetch
  <2> QED
    BY <2>2
<1>6. CASE PrepareIssue(s)
  <2>1. CASE \E e \in IssueBase(s) :
          /\ doc' = [doc EXCEPT ![s] =
               [erased |-> IsErased(e),
                entries |-> {y \in EntriesOf(e) : y.claim # job[s].claim} \cup {Issued(s)}]]
          /\ pins' = pins \cup {s, CredentialOf[s]}
    <3> DEFINE d == [erased |-> IsErased(base[s]),
                     entries |-> {y \in EntriesOf(base[s]) : y.claim # job[s].claim} \cup {Issued(s)}]
    <3>1. doc' = [doc EXCEPT ![s] = d] /\ pins' = pins \cup {s, CredentialOf[s]}
      BY <2>1 DEF IssueBase
    <3>2. EntriesOf(base[s]) \subseteq Entry /\ IsErased(base[s]) \in BOOLEAN
      BY <1>0, <1>1, EntriesTyped
    <3>3. /\ d \in Doc
          /\ \A e \in d.entries : e \in EntriesOf(base[s]) \/ e = Issued(s)
          /\ \A e \in EntriesOf(base[s]) : e.claim # job[s].claim => e \in d.entries
      BY <1>2, <1>4, <3>2 DEF Doc, Entry, Issued, Job
    <3> HIDE DEF d
    <3>4. Move(s, "signClaim", base[s], d)
      BY <1>0, <1>1, <1>3, <1>4, <1>6, <3>1, <3>3 DEF PrepareIssue
    <3> QED
      BY <3>4
  <2>2. CASE pins' = pins \cup {CredentialOf[s]} /\ UNCHANGED doc
    <3>1. Move(s, "signClaim", base[s], doc[s])
      BY <1>0, <1>1, <1>3, <1>4, <1>6, <2>2 DEF PrepareIssue
    <3> QED
      BY <3>1
  <2> QED
    BY <1>6, <2>1, <2>2 DEF PrepareIssue
<1>7. CASE PrepareCreate(s)
  <2> DEFINE b == IF hybrid THEN base[s] ELSE Slot(s)
  <2>1. /\ base' = [base EXCEPT ![s] = b] /\ b \in Cids \cup {NoCid}
        /\ b # NoCid => doc[b] # NoDoc
        /\ b = base[s] \/ b = Slot(s)
        /\ base'[s] = b
    BY <1>0, <1>1, <1>2, <1>7 DEF PrepareCreate, TypeOK
  <2> HIDE DEF b
  <2>2. CASE Goto(s, "refused") /\ UNCHANGED <<doc, pins, posted>>
    <3>1. Move(s, "refused", b, doc[s])
      BY <1>0, <1>1, <1>2, <1>3, <1>7, <2>1, <2>2 DEF PrepareCreate
    <3> QED
      BY <3>1
  <2>3. CASE /\ \E e \in IF MayFail THEN {base'[s], NoCid} ELSE {base'[s]}, body \in Bodies :
                  /\ ~IsErased(e)
                  /\ Upload(s, [erased |-> FALSE, entries |-> EntriesOf(e) \cup body])
                  /\ posted' = posted \cup {<<job[s].owner, y>> : y \in body}
             /\ Goto(s, IF hybrid THEN "signProfile" ELSE "backendTx")
    <3>1. PICK e \in {b, NoCid}, body \in Bodies :
             /\ Upload(s, [erased |-> FALSE, entries |-> EntriesOf(e) \cup body])
             /\ posted' = posted \cup {<<job[s].owner, y>> : y \in body}
      BY <2>1, <2>3
    <3> DEFINE d == [erased |-> FALSE, entries |-> EntriesOf(e) \cup body]
    <3>2. EntriesOf(e) \subseteq Entry /\ body \subseteq Entry /\ job[s].owner \in Owners
      BY <1>0, <1>2, <2>1, EntriesTyped, ProfileAssumption DEF Job
    <3>3. d \in Doc /\ d.entries = EntriesOf(e) \cup body
      BY <3>2 DEF Doc
    <3>4. \A y \in d.entries : y \in EntriesOf(b) \/ <<job[s].owner, y>> \in posted'
      BY <3>1, <3>3 DEF EntriesOf
    <3>5. doc' = [doc EXCEPT ![s] = d] /\ pins' = pins \cup {s}
      BY <3>1 DEF Upload
    <3>7. posted \subseteq posted' /\ posted' \subseteq Owners \X Entry
      BY <1>0, <3>1, <3>2
    <3> HIDE DEF d
    <3>6. Move(s, IF hybrid THEN "signProfile" ELSE "backendTx", b, d)
      BY <1>0, <1>1, <1>2, <1>3, <1>4, <1>7, <2>1, <2>3, <3>3, <3>4, <3>5, <3>7 DEF PrepareCreate
    <3> QED
      BY <3>6
  <2> QED
    BY <1>7, <2>2, <2>3 DEF PrepareCreate
<1>8. CASE EraseCheck(s)
  <2>1. PICK x \in {"refused", "tombstone"} : pc' = [pc EXCEPT ![s] = x]
    BY <1>8 DEF EraseCheck
  <2>2. Move(s, x, Slot(s), doc[s])
    BY <1>0, <1>1, <1>2, <1>3, <1>8, <2>1 DEF EraseCheck
  <2> QED
    BY <2>2
<1>9. CASE GdprCheck(s)
  <2>1. PICK x \in {"refused", "tombstone"} : pc' = [pc EXCEPT ![s] = x]
    BY <1>9 DEF GdprCheck
  <2>2. Move(s, x, Slot(s), doc[s])
    BY <1>0, <1>1, <1>2, <1>3, <1>9, <2>1 DEF GdprCheck
  <2> QED
    BY <2>2
<1>10. CASE PrepareRegister(s)
  <2>1. Blank \in Doc /\ Blank.entries = {}
    BY DEF Blank, Doc
  <2>2. Move(s, IF hybrid THEN "failed" ELSE "backendTx", base[s], Blank)
    BY <1>0, <1>1, <1>3, <1>4, <1>10, <2>1 DEF PrepareRegister, Upload
  <2> QED
    BY <2>2
<1>11. CASE UpsertRow(s)
  <2>1. /\ job[s].owner \in Owners
        /\ \E x \in {"done", "failed"} : pc' = [pc EXCEPT ![s] = x]
    BY <1>2, <1>11 DEF Job, UpsertRow
  <2>2. \E x \in {"done", "failed"} : Move(s, x, base[s], doc[s])
    BY <1>0, <1>1, <1>3, <1>11, <2>1 DEF UpsertRow
  <2> QED
    BY <2>2
<1> QED
  BY <1>5, <1>6, <1>7, <1>8, <1>9, <1>10, <1>11

LEMMA ErasingMoves ==
  ASSUME StageInv, NEW s \in Cids, UploadTombstone(s) \/ GdprErase(s)
  PROVE  \E x, b, d : Move(s, x, b, d)
<1> USE DEF Move, Shape, Orderly, Sourced, BeforeUpload, Uploaded, Erasing, Stages, Outcomes
<1>0. /\ TypeOK /\ pc[s] = "tombstone" /\ doc[s] = NoDoc /\ job[s].kind \in Erasing
      /\ pins \subseteq Cids \cup Hashes /\ rows \subseteq Owners /\ hybrid \in BOOLEAN
      /\ sent' = sent /\ erasures' = erasures /\ rows' = rows
      /\ UNCHANGED <<registryVars, hybrid, job, mined, base, posted>>
      /\ posted \subseteq Owners \X Entry
  BY DEF StageInv, TypeOK, KindOfStage, DocOfStage, UploadTombstone, GdprErase, writeVars
<1>1. /\ base = [base EXCEPT ![s] = base[s]] /\ doc = [doc EXCEPT ![s] = doc[s]]
      /\ base[s] \in Cids \cup {NoCid} /\ doc[s] \in Doc \cup {NoDoc}
      /\ base[s] # NoCid => doc[base[s]] # NoDoc
  BY <1>0, NothingMoves DEF TypeOK
<1>2. NoDoc \notin Doc /\ Cids \cap Hashes = {}
  BY ProfileAssumption
<1>3. /\ Tombstone \in Doc /\ Tombstone.entries = {}
      /\ Blank \in Doc /\ Blank.entries = {}
  BY DEF Tombstone, Blank, Doc
<1>4. \A gone : gone \subseteq Listed(base[s]) =>
        \A c \in Cids : c \in pins /\ c \notin pins \ gone => c = base[s]
  <2>1. Listed(base[s]) \subseteq {base[s]} \cup Hashes
    BY <1>0, <1>1, EntriesTyped DEF Listed, Entry
  <2> QED
    BY <1>2, <2>1
<1>5. ASSUME NEW gone, NEW d \in {Tombstone, Blank}, NEW x \in {"cleanup", "backendTx", "failed"},
             \A c \in Cids : c \in pins /\ c \notin pins \ gone => c = base[s],
             x = "cleanup" => hybrid,
             \/ doc' = [doc EXCEPT ![s] = d] /\ pins' = (pins \ gone) \cup {s}
             \/ doc' = doc /\ pins' = pins \ gone /\ x = "failed",
             pc' = [pc EXCEPT ![s] = x]
      PROVE  \E y, b, e : Move(s, y, b, e)
  <2>1. CASE doc' = [doc EXCEPT ![s] = d] /\ pins' = (pins \ gone) \cup {s}
    <3>1. Move(s, x, base[s], d)
      BY <1>0, <1>1, <1>2, <1>3, <1>5, <2>1
    <3> QED
      BY <3>1
  <2>2. CASE doc' = doc /\ pins' = pins \ gone /\ x = "failed"
    <3>1. Move(s, "failed", base[s], doc[s])
      BY <1>0, <1>1, <1>2, <1>5, <2>2
    <3> QED
      BY <3>1
  <2> QED
    BY <1>5, <2>1, <2>2
<1>6. CASE UploadTombstone(s)
  <2>1. PICK old \in {{}, {base[s]}} :
          \/ /\ doc' = [doc EXCEPT ![s] = Tombstone]
             /\ pins' = (pins \ old) \cup {s}
             /\ Goto(s, AfterTombstone)
          \/ /\ pins' = pins \ old
             /\ Goto(s, "failed")
             /\ UNCHANGED doc
    BY <1>6 DEF UploadTombstone
  <2>2. \A c \in Cids : c \in pins /\ c \notin pins \ old => c = base[s]
    BY <2>1
  <2>3. AfterTombstone \in {"cleanup", "backendTx"} /\ (AfterTombstone = "cleanup" => hybrid)
    BY DEF AfterTombstone
  <2>4. CASE /\ doc' = [doc EXCEPT ![s] = Tombstone]
             /\ pins' = (pins \ old) \cup {s}
             /\ Goto(s, AfterTombstone)
    <3>1. pc' = [pc EXCEPT ![s] = AfterTombstone]
      BY <2>4 DEF Goto
    <3> HIDE DEF Move
    <3> QED
      BY <1>5, <2>2, <2>3, <2>4, <3>1
  <2>5. CASE pins' = pins \ old /\ Goto(s, "failed") /\ UNCHANGED doc
    <3>1. pc' = [pc EXCEPT ![s] = "failed"]
      BY <2>5 DEF Goto
    <3> HIDE DEF Move
    <3> QED
      BY <1>5, <2>2, <2>5, <3>1
  <2> QED
    BY <2>1, <2>4, <2>5
<1>7. CASE GdprErase(s)
  <2>1. PICK gone \in SUBSET Listed(base[s]) :
          \/ /\ doc' = [doc EXCEPT ![s] = Blank]
             /\ pins' = (pins \ gone) \cup {s}
             /\ Goto(s, IF hybrid THEN "failed" ELSE "backendTx")
          \/ /\ pins' = pins \ gone
             /\ Goto(s, "failed")
             /\ UNCHANGED doc
    BY <1>7 DEF GdprErase
  <2>2. \A c \in Cids : c \in pins /\ c \notin pins \ gone => c = base[s]
    BY <1>4, <2>1
  <2>3. PICK x \in {"failed", "backendTx"} :
          /\ pc' = [pc EXCEPT ![s] = x]
          /\ \/ doc' = [doc EXCEPT ![s] = Blank] /\ pins' = (pins \ gone) \cup {s}
             \/ doc' = doc /\ pins' = pins \ gone /\ x = "failed"
    BY <2>1 DEF Goto
  <2> HIDE DEF Move
  <2> QED
    BY <1>5, <2>2, <2>3
<1> QED
  BY <1>6, <1>7

\* What is left to show of a step that uploads and unpins nothing.
LEMMA WaitingMoves ==
  ASSUME StageInv, NEW s \in Cids, NEW x \in Stages \ BeforeUpload, pc[s] # "idle",
         pc' = [pc EXCEPT ![s] = x],
         UNCHANGED <<registryVars, hybrid, doc, pins, job, base, mined, posted>>,
         rows' \subseteq Owners,
         Orderly(s, x, base[s], doc[s])
  PROVE  Waits(s, x)
<1>1. /\ pins \subseteq Cids \cup Hashes /\ posted \subseteq Owners \X Entry
      /\ base = [base EXCEPT ![s] = base[s]] /\ doc = [doc EXCEPT ![s] = doc[s]]
      /\ base[s] \in Cids \cup {NoCid} /\ doc[s] \in Doc \cup {NoDoc}
  BY NothingMoves DEF StageInv, TypeOK
<1>2. Shape(s, x, base[s], doc[s])
  BY <1>1 DEF Shape, BeforeUpload
<1>3. Sourced(s, x, base[s], doc[s])
  BY <1>1 DEF Sourced, BeforeUpload
<1> QED
  BY <1>2, <1>3 DEF Waits, Move

LEMMA OtherMoves ==
  ASSUME StageInv, NEW s \in Cids
  PROVE  (\/ Cleanup(s) \/ LogErasure(s) \/ ServerFails(s) \/ BackendTx(s)
          \/ SignClaim(s) \/ SignProfile(s) \/ DirectClaim(s)
          \/ ClaimWritten(s) \/ ProfileWritten(s) \/ DirectWritten(s) \/ WriteFails(s))
         => \E x : Waits(s, x)
<1> USE DEF Orderly, BeforeUpload, Uploaded, Erasing, Goto, offChain, writeVars, Send, Parts
<1>0. TypeOK /\ pc[s] \in Stages /\ hybrid \in BOOLEAN
  BY NothingMoves DEF StageInv, TypeOK
<1>1. /\ pc[s] \in {"signClaim", "claimSent", "fallback", "directSent"} => job[s].kind = "issue"
      /\ pc[s] \in {"tombstone", "cleanup", "logErasure"} => job[s].kind \in Erasing
      /\ pc[s] = "backendTx" => job[s].kind # "issue"
      /\ pc[s] \in Uploaded => job[s].kind # "upsert"
  BY DEF StageInv, KindOfStage
<1>2. /\ pc[s] \in BeforeUpload => doc[s] = NoDoc
      /\ pc[s] \in Uploaded => doc[s] # NoDoc
  BY DEF StageInv, DocOfStage
<1>3. /\ pc[s] \in {"signProfile", "profileSent"} /\ job[s].kind = "issue" => <<s, "claim">> \in mined
      /\ pc[s] \in {"cleanup", "logErasure"} => hybrid \/ <<s, "profile">> \in mined
  BY DEF StageInv, OrderOfWrites
<1>4. pc[s] # "idle" => job[s] \in Job
  BY <1>0, SlotTyped
<1>5. CASE Cleanup(s)
  <2>1. Waits(s, "logErasure")
    <3>1. /\ pc[s] # "idle" /\ pc' = [pc EXCEPT ![s] = "logErasure"] /\ "logErasure" \in Stages \ BeforeUpload
          /\ UNCHANGED <<registryVars, hybrid, doc, pins, job, base, mined, posted>> /\ rows' \subseteq Owners
      BY <1>0, <1>1, <1>2, <1>3, <1>5 DEF Cleanup, TypeOK, Stages, Outcomes
    <3>2. Orderly(s, "logErasure", base[s], doc[s])
      BY <1>0, <1>1, <1>2, <1>3, <1>5 DEF Cleanup
    <3> HIDE DEF Orderly
    <3> QED
      BY <3>1, <3>2, WaitingMoves
  <2> QED
    BY <2>1
<1>6. CASE LogErasure(s)
  <2>1. PICK x \in {"signProfile", "done", "failed"} :
          /\ pc' = [pc EXCEPT ![s] = x]
          /\ x = "signProfile" => hybrid
          /\ x = "done" => ~hybrid
    BY <1>0, <1>6 DEF LogErasure
  <2>2. Waits(s, x)
    <3>1. /\ pc[s] # "idle" /\ pc' = [pc EXCEPT ![s] = x] /\ x \in Stages \ BeforeUpload
          /\ UNCHANGED <<registryVars, hybrid, doc, pins, job, base, mined, posted>> /\ rows' \subseteq Owners
      BY <1>0, <1>1, <1>2, <1>3, <1>6, <2>1 DEF LogErasure, TypeOK, Stages, Outcomes
    <3>2. Orderly(s, x, base[s], doc[s])
      BY <1>0, <1>1, <1>2, <1>3, <1>6, <2>1 DEF LogErasure
    <3> HIDE DEF Orderly
    <3> QED
      BY <3>1, <3>2, WaitingMoves
  <2> QED
    BY <2>2
<1>7. CASE ServerFails(s)
  <2>1. Waits(s, "failed")
    <3>1. /\ pc[s] # "idle" /\ pc' = [pc EXCEPT ![s] = "failed"] /\ "failed" \in Stages \ BeforeUpload
          /\ UNCHANGED <<registryVars, hybrid, doc, pins, job, base, mined, posted>> /\ rows' \subseteq Owners
      BY <1>0, <1>7 DEF ServerFails, TypeOK, Stages, Outcomes
    <3>2. Orderly(s, "failed", base[s], doc[s])
      BY <1>0, <1>7 DEF ServerFails
    <3> HIDE DEF Orderly
    <3> QED
      BY <3>1, <3>2, WaitingMoves
  <2> QED
    BY <2>1
<1>8. CASE BackendTx(s)
  <2>1. CASE /\ Goto(s, "profileSent") /\ Send(s, "profile")
    <3>1. Waits(s, "profileSent")
      <4>1. /\ pc[s] # "idle" /\ pc' = [pc EXCEPT ![s] = "profileSent"] /\ "profileSent" \in Stages \ BeforeUpload
            /\ UNCHANGED <<registryVars, hybrid, doc, pins, job, base, mined, posted>> /\ rows' \subseteq Owners
        BY <1>0, <1>1, <1>2, <1>8, <2>1 DEF BackendTx, TypeOK, Stages, Outcomes
      <4>2. Orderly(s, "profileSent", base[s], doc[s])
        BY <1>0, <1>1, <1>2, <1>8, <2>1 DEF BackendTx
      <4> HIDE DEF Orderly
      <4> QED
        BY <4>1, <4>2, WaitingMoves
    <3> QED
      BY <3>1
  <2>2. CASE /\ Goto(s, "failed")
             /\ UNCHANGED <<registryVars, hybrid, doc, offChain, job, base, writeVars>>
    <3>1. Waits(s, "failed")
      <4>1. /\ pc[s] # "idle" /\ pc' = [pc EXCEPT ![s] = "failed"] /\ "failed" \in Stages \ BeforeUpload
            /\ UNCHANGED <<registryVars, hybrid, doc, pins, job, base, mined, posted>> /\ rows' \subseteq Owners
        BY <1>0, <1>8, <2>2 DEF BackendTx, TypeOK, Stages, Outcomes
      <4>2. Orderly(s, "failed", base[s], doc[s])
        BY <1>0, <1>8, <2>2 DEF BackendTx
      <4> HIDE DEF Orderly
      <4> QED
        BY <4>1, <4>2, WaitingMoves
    <3> QED
      BY <3>1
  <2> QED
    BY <1>8, <2>1, <2>2 DEF BackendTx
<1>9. CASE SignClaim(s)
  <2>1. Waits(s, "claimSent")
    <3>1. /\ pc[s] # "idle" /\ pc' = [pc EXCEPT ![s] = "claimSent"] /\ "claimSent" \in Stages \ BeforeUpload
          /\ UNCHANGED <<registryVars, hybrid, doc, pins, job, base, mined, posted>> /\ rows' \subseteq Owners
      BY <1>0, <1>1, <1>9 DEF SignClaim, TypeOK, Stages, Outcomes
    <3>2. Orderly(s, "claimSent", base[s], doc[s])
      BY <1>0, <1>1, <1>9 DEF SignClaim
    <3> HIDE DEF Orderly
    <3> QED
      BY <3>1, <3>2, WaitingMoves
  <2> QED
    BY <2>1
<1>10. CASE SignProfile(s)
  <2>1. Waits(s, "profileSent")
    <3>1. /\ pc[s] # "idle" /\ pc' = [pc EXCEPT ![s] = "profileSent"] /\ "profileSent" \in Stages \ BeforeUpload
          /\ UNCHANGED <<registryVars, hybrid, doc, pins, job, base, mined, posted>> /\ rows' \subseteq Owners
      BY <1>0, <1>1, <1>2, <1>3, <1>10 DEF SignProfile, TypeOK, Stages, Outcomes
    <3>2. Orderly(s, "profileSent", base[s], doc[s])
      BY <1>0, <1>1, <1>2, <1>3, <1>10 DEF SignProfile
    <3> HIDE DEF Orderly
    <3> QED
      BY <3>1, <3>2, WaitingMoves
  <2> QED
    BY <2>1
<1>11. CASE DirectClaim(s)
  <2>1. Waits(s, "directSent")
    <3>1. /\ pc[s] # "idle" /\ pc' = [pc EXCEPT ![s] = "directSent"] /\ "directSent" \in Stages \ BeforeUpload
          /\ UNCHANGED <<registryVars, hybrid, doc, pins, job, base, mined, posted>> /\ rows' \subseteq Owners
      BY <1>0, <1>1, <1>11 DEF DirectClaim, TypeOK, Stages, Outcomes
    <3>2. Orderly(s, "directSent", base[s], doc[s])
      BY <1>0, <1>1, <1>11 DEF DirectClaim
    <3> HIDE DEF Orderly
    <3> QED
      BY <3>1, <3>2, WaitingMoves
  <2> QED
    BY <2>1
<1>12. CASE ClaimWritten(s)
  <2>1. PICK x \in {"done", "signProfile"} : /\ pc' = [pc EXCEPT ![s] = x]
                                             /\ x = "signProfile" => doc[s] # NoDoc
    BY <1>12 DEF ClaimWritten
  <2>2. Waits(s, x)
    <3>1. /\ pc[s] # "idle" /\ pc' = [pc EXCEPT ![s] = x] /\ x \in Stages \ BeforeUpload
          /\ UNCHANGED <<registryVars, hybrid, doc, pins, job, base, mined, posted>> /\ rows' \subseteq Owners
      BY <1>0, <1>1, <1>12, <2>1 DEF ClaimWritten, TypeOK, Stages, Outcomes
    <3>2. Orderly(s, x, base[s], doc[s])
      BY <1>0, <1>1, <1>12, <2>1 DEF ClaimWritten
    <3> HIDE DEF Orderly
    <3> QED
      BY <3>1, <3>2, WaitingMoves
  <2> QED
    BY <2>2
<1>13. CASE ProfileWritten(s)
  <2>1. PICK x \in {"done", "cleanup", "logErasure"} :
          /\ pc' = [pc EXCEPT ![s] = x]
          /\ x # "done" => job[s].kind \notin {"create", "issue", "register"}
          /\ x = "cleanup" => job[s].kind = "erase"
    BY <1>13 DEF ProfileWritten
  <2>2. x # "done" => job[s].kind \in Erasing
    BY <1>1, <1>4, <1>13, <2>1 DEF ProfileWritten, Job, Kinds
  <2>3. Waits(s, x)
    <3>1. /\ pc[s] # "idle" /\ pc' = [pc EXCEPT ![s] = x] /\ x \in Stages \ BeforeUpload
          /\ UNCHANGED <<registryVars, hybrid, doc, pins, job, base, mined, posted>> /\ rows' \subseteq Owners
      BY <1>0, <1>1, <1>2, <1>3, <1>13, <2>1, <2>2 DEF ProfileWritten, TypeOK, Stages, Outcomes
    <3>2. Orderly(s, x, base[s], doc[s])
      BY <1>0, <1>1, <1>2, <1>3, <1>13, <2>1, <2>2 DEF ProfileWritten
    <3> HIDE DEF Orderly
    <3> QED
      BY <3>1, <3>2, WaitingMoves
  <2> QED
    BY <2>3
<1>14. CASE DirectWritten(s)
  <2>1. Waits(s, "done")
    <3>1. /\ pc[s] # "idle" /\ pc' = [pc EXCEPT ![s] = "done"] /\ "done" \in Stages \ BeforeUpload
          /\ UNCHANGED <<registryVars, hybrid, doc, pins, job, base, mined, posted>> /\ rows' \subseteq Owners
      BY <1>0, <1>1, <1>14 DEF DirectWritten, TypeOK, Stages, Outcomes
    <3>2. Orderly(s, "done", base[s], doc[s])
      BY <1>0, <1>1, <1>14 DEF DirectWritten
    <3> HIDE DEF Orderly
    <3> QED
      BY <3>1, <3>2, WaitingMoves
  <2> QED
    BY <2>1
<1>15. CASE WriteFails(s)
  <2>1. PICK x \in {"fallback", "failed"} : /\ pc' = [pc EXCEPT ![s] = x]
                                            /\ x = "fallback" => job[s].kind = "issue"
    BY <1>15 DEF WriteFails
  <2>2. Waits(s, x)
    <3>1. /\ pc[s] # "idle" /\ pc' = [pc EXCEPT ![s] = x] /\ x \in Stages \ BeforeUpload
          /\ UNCHANGED <<registryVars, hybrid, doc, pins, job, base, mined, posted>> /\ rows' \subseteq Owners
      BY <1>0, <1>15, <2>1 DEF WriteFails, TypeOK, Stages, Outcomes
    <3>2. Orderly(s, x, base[s], doc[s])
      BY <1>0, <1>15, <2>1 DEF WriteFails
    <3> HIDE DEF Orderly
    <3> QED
      BY <3>1, <3>2, WaitingMoves
  <2> QED
    BY <2>2
<1> QED
  BY <1>5, <1>6, <1>7, <1>8, <1>9, <1>10, <1>11, <1>12, <1>13, <1>14, <1>15

LEMMA SessionMoves ==
  ASSUME StageInv, NEW s \in Cids, SessionStep(s)
  PROVE  \E x, b, d : Move(s, x, b, d)
<1>1. CASE \/ Prefetch(s) \/ PrepareIssue(s) \/ PrepareCreate(s) \/ EraseCheck(s)
           \/ GdprCheck(s) \/ PrepareRegister(s) \/ UpsertRow(s)
  BY <1>1, PreparingMoves
<1>2. CASE UploadTombstone(s) \/ GdprErase(s)
  BY <1>2, ErasingMoves
<1>3. CASE \/ Cleanup(s) \/ LogErasure(s) \/ ServerFails(s) \/ BackendTx(s)
           \/ SignClaim(s) \/ SignProfile(s) \/ DirectClaim(s)
           \/ ClaimWritten(s) \/ ProfileWritten(s) \/ DirectWritten(s) \/ WriteFails(s)
  BY <1>3, OtherMoves DEF Waits
<1> QED
  BY <1>1, <1>2, <1>3 DEF SessionStep

--------------------------------------------------------------------------------
\* The stage of a session says what it has done.

LEMMA MoveKeepsStages ==
  ASSUME StageInv, NEW s \in Cids, NEW x, NEW b, NEW d, Move(s, x, b, d)
  PROVE  StageInv'
<1> USE DEF Move
<1>1. /\ pc[s] # "idle" /\ x \in Stages \ {"idle", "prefetch"} /\ pc \in [Cids -> Stages]
      /\ pc' = [pc EXCEPT ![s] = x] /\ doc' = [doc EXCEPT ![s] = d] /\ base' = [base EXCEPT ![s] = b]
      /\ doc \in [Cids -> Doc \cup {NoDoc}] /\ base \in [Cids -> Cids \cup {NoCid}]
      /\ d \in Doc \cup {NoDoc} /\ b \in Cids \cup {NoCid}
      /\ UNCHANGED <<profileCID, claims, hybrid, job, mined>>
  BY DEF Shape, StageInv, TypeOK, registryVars
<1>2. /\ d = doc[s] \/ (doc[s] = NoDoc /\ d # NoDoc)
      /\ \A c \in Cids : doc[c] # NoDoc => doc'[c] # NoDoc
  BY <1>1 DEF Orderly, StageInv, DocOfStage, BeforeUpload
<1>3. TypeOK'
  <2>1. RegistryTypeOK' /\ \A o \in Owners : profileCID[o] \in Cids \cup {NoCid}
    BY <1>1 DEF StageInv, TypeOK, RegistryTypeOK
  <2>2. /\ hybrid' \in BOOLEAN /\ doc' \in [Cids -> Doc \cup {NoDoc}] /\ pc' \in [Cids -> Stages]
        /\ job' \in [Cids -> Job \cup {NoDoc}] /\ base' \in [Cids -> Cids \cup {NoCid}]
        /\ mined' \subseteq Cids \X Parts
    BY <1>1 DEF StageInv, TypeOK
  <2>3. pins' \subseteq Cids \cup Hashes /\ rows' \subseteq Owners /\ posted' \subseteq Owners \X Entry
    BY DEF Shape, Sourced
  <2>4. erasures' \subseteq Cids /\ sent' \subseteq Cids \X Parts
    BY DEF Orderly, StageInv, TypeOK, Parts
  <2>5. \A t \in Cids : pc'[t] # "idle" => job'[t] \in Jobs[t]
    BY <1>1 DEF StageInv, TypeOK
  <2>6. \A o \in Owners : profileCID'[o] # NoCid => doc'[profileCID'[o]] # NoDoc
    BY <1>1, <1>2, <2>1 DEF StageInv, TypeOK
  <2>7. b # NoCid => doc[b] # NoDoc
    BY <1>1, SlotTyped DEF Sourced, StageInv, TypeOK
  <2>8. \A t \in Cids : base'[t] # NoCid => doc'[base'[t]] # NoDoc
    BY <1>1, <1>2, <2>7 DEF StageInv, TypeOK
  <2> QED
    BY <2>1, <2>2, <2>3, <2>4, <2>5, <2>6, <2>8 DEF TypeOK
<1>4. KindOfStage'
  BY <1>1 DEF Orderly, StageInv, KindOfStage
<1>5. DocOfStage'
  <2> SUFFICES ASSUME NEW t \in Cids
               PROVE  /\ pc'[t] \in BeforeUpload =>
                           /\ doc'[t] = NoDoc
                           /\ \A part \in Parts : <<t, part>> \notin sent' \cup mined'
                      /\ pc'[t] \in Uploaded => doc'[t] # NoDoc
                      /\ <<t, "profile">> \in sent' \cup mined' => doc'[t] # NoDoc
    BY DEF DocOfStage
  <2>1. /\ pc[t] \in BeforeUpload => /\ doc[t] = NoDoc
                                     /\ \A part \in Parts : <<t, part>> \notin sent \cup mined
        /\ pc[t] \in Uploaded => doc[t] # NoDoc
        /\ <<t, "profile">> \in sent \cup mined => doc[t] # NoDoc
    BY DEF StageInv, DocOfStage
  <2>2. CASE t # s
    <3>1. \A part : <<t, part>> \in sent' <=> <<t, part>> \in sent
      BY <2>2 DEF Orderly
    <3> QED
      BY <1>1, <2>1, <2>2, <3>1
  <2>3. CASE t = s
    BY <1>1, <1>2, <2>1, <2>3 DEF Orderly, BeforeUpload, Uploaded
  <2> QED
    BY <2>2, <2>3
<1>6. OrderOfWrites'
  <2>1. ASSUME NEW t \in Cids, pc'[t] # "idle", job'[t].kind = "issue",
               pc'[t] \in {"signProfile", "profileSent"} \/ <<t, "profile">> \in sent' \cup mined'
        PROVE  <<t, "claim">> \in mined'
    <3>1. CASE t # s
      <4>1. <<t, "profile">> \in sent' <=> <<t, "profile">> \in sent
        BY <3>1 DEF Orderly
      <4> QED
        BY <1>1, <2>1, <3>1, <4>1 DEF StageInv, OrderOfWrites
    <3>2. CASE t = s
      <4>1. \/ x \in {"signProfile", "profileSent"} \/ <<s, "profile">> \in sent \cup mined
            \/ pc[s] \in {"backendTx", "signProfile"}
        BY <1>1, <2>1, <3>2 DEF Orderly
      <4>2. pc[s] # "backendTx"
        BY <1>1, <2>1, <3>2 DEF StageInv, KindOfStage
      <4> QED
        BY <1>1, <2>1, <3>2, <4>1, <4>2 DEF Orderly, StageInv, OrderOfWrites
    <3> QED
      BY <3>1, <3>2
  <2>2. \A t \in Cids :
          /\ pc'[t] \in {"cleanup", "logErasure"} => hybrid' \/ <<t, "profile">> \in mined'
          /\ (pc'[t] = "done" /\ job'[t].kind # "upsert") =>
               IF job'[t].kind = "issue" THEN <<t, "claim">> \in mined' \/ <<t, "direct">> \in mined'
                                         ELSE <<t, "profile">> \in mined'
    BY <1>1 DEF Orderly, StageInv, OrderOfWrites
  <2> QED
    BY <2>1, <2>2 DEF OrderOfWrites
<1> QED
  BY <1>3, <1>4, <1>5, <1>6 DEF StageInv

LEMMA StartKeepsStages ==
  ASSUME StageInv, NEW s \in Cids, NEW known \in Cids \cup {NoCid}, NEW j \in Jobs[s], Start(s, j, known)
  PROVE  StageInv'
<1>1. /\ pc[s] = "idle" /\ known \in {NoCid, profileCID[j.owner]} /\ j \in Job
      /\ UNCHANGED <<profileCID, claims, hybrid, doc, pins, rows, erasures, sent, mined, posted>>
      /\ job' = [job EXCEPT ![s] = j] /\ base' = [base EXCEPT ![s] = known]
  BY ProfileAssumption DEF Start, registryVars, offChain, writeVars
<1>2. PICK x \in {"prefetch", "prepare"} : pc' = [pc EXCEPT ![s] = x]
  BY DEF Start, Goto
<1>3. TypeOK'
  <2>1. known # NoCid => doc[known] # NoDoc
    BY <1>1 DEF StageInv, TypeOK, Job
  <2>2. RegistryTypeOK'
    BY <1>1 DEF StageInv, TypeOK, RegistryTypeOK
  <2>3. /\ pc' \in [Cids -> Stages] /\ job' \in [Cids -> Job \cup {NoDoc}]
        /\ base' \in [Cids -> Cids \cup {NoCid}]
        /\ \A t \in Cids : pc'[t] # "idle" => job'[t] \in Jobs[t]
        /\ \A t \in Cids : base'[t] # NoCid => doc[base'[t]] # NoDoc
    BY <1>1, <1>2, <2>1 DEF StageInv, TypeOK, Stages
  <2> QED
    BY <1>1, <2>2, <2>3 DEF StageInv, TypeOK
<1>4. KindOfStage'
  BY <1>1, <1>2 DEF StageInv, TypeOK, KindOfStage, Uploaded
<1>5. DocOfStage'
  BY <1>1, <1>2 DEF StageInv, TypeOK, DocOfStage, BeforeUpload, Uploaded
<1>6. OrderOfWrites'
  <2>1. <<s, "profile">> \notin sent \cup mined
    BY <1>1 DEF StageInv, DocOfStage, BeforeUpload, Parts
  <2> QED
    BY <1>1, <1>2, <2>1 DEF StageInv, TypeOK, OrderOfWrites
<1> QED
  BY <1>3, <1>4, <1>5, <1>6 DEF StageInv

LEMMA MineKeepsStages ==
  ASSUME StageInv, NEW s \in Cids, NEW part \in Parts, Mine(s, part)
  PROVE  StageInv'
<1>1. /\ <<s, part>> \in sent /\ sent' = sent \ {<<s, part>>} /\ mined' = mined \cup {<<s, part>>}
      /\ UNCHANGED <<hybrid, doc, pins, rows, erasures, pc, job, base, posted>>
  BY DEF Mine, offChain
<1>2. pc[s] # "idle" /\ (part = "profile" => doc[s] # NoDoc)
  BY <1>1 DEF StageInv, DocOfStage, BeforeUpload
<1>3. TypeOK'
  <2>1. CASE part = "profile"
    <3>1. /\ job[s] \in Job /\ claims' = claims
          /\ profileCID' = [profileCID EXCEPT ![job[s].owner] = s]
      BY <1>2, <2>1, ProfileCall DEF Mine, StageInv
    <3> QED
      BY <1>1, <1>2, <2>1, <3>1 DEF StageInv, TypeOK, RegistryTypeOK, Job
  <2>2. CASE part # "profile"
    <3>1. /\ job[s] \in Job /\ profileCID' = profileCID
          /\ claims' = [claims EXCEPT ![job[s].owner][job[s].claim] = CredentialOf[s]]
      BY <1>2, <2>2, AnchorCall DEF Mine, StageInv
    <3>2. CredentialOf[s] \in Hashes /\ job[s].owner \in Owners /\ job[s].claim \in ClaimIds
      BY <3>1, ProfileAssumption DEF Job
    <3> QED
      BY <1>1, <3>1, <3>2 DEF StageInv, TypeOK, RegistryTypeOK
  <2> QED
    BY <2>1, <2>2
<1>4. KindOfStage'
  BY <1>1 DEF StageInv, KindOfStage
<1>5. sent' \cup mined' = sent \cup mined /\ mined \subseteq mined'
  BY <1>1
<1>6. DocOfStage'
  BY <1>1, <1>5 DEF StageInv, DocOfStage
<1>7. OrderOfWrites'
  BY <1>1, <1>5 DEF StageInv, OrderOfWrites
<1> QED
  BY <1>3, <1>4, <1>6, <1>7 DEF StageInv

LEMMA NextKeepsStages ==
  StageInv /\ [Next]_vars => StageInv'
<1> SUFFICES ASSUME StageInv, [Next]_vars PROVE StageInv'
  OBVIOUS
<1>1. ASSUME NEW s \in Cids, NEW known \in Cids \cup {NoCid}, NEW j \in Jobs[s], Start(s, j, known)
      PROVE  StageInv'
  BY <1>1, StartKeepsStages
<1>2. ASSUME NEW s \in Cids, SessionStep(s) PROVE StageInv'
  BY <1>2, SessionMoves, MoveKeepsStages
<1>3. ASSUME NEW s \in Cids, NEW part \in Parts, Mine(s, part) PROVE StageInv'
  BY <1>3, MineKeepsStages
<1>4. CASE UNCHANGED vars
  BY <1>4 DEF vars, offChain, writeVars, registryVars, StageInv, TypeOK, RegistryTypeOK, KindOfStage,
              DocOfStage, OrderOfWrites
<1> QED
  BY <1>1, <1>2, <1>3, <1>4 DEF Next

LEMMA StagesAtStart == Init => StageInv
  BY ProfileAssumption, RegistryAssumption
     DEF Init, RegistryInit, StageInv, TypeOK, RegistryTypeOK, KindOfStage, DocOfStage, OrderOfWrites,
         BeforeUpload, Uploaded, Stages

LEMMA StagesAlways == Spec => []StageInv
  BY StagesAtStart, NextKeepsStages, PTL DEF Spec

\* The state of the profile flows has its type in every reachable state; in particular no slot
\* and no session names a CID under which nothing was uploaded (profileController.js, the
\* currentProfileCid that is fetched).
THEOREM TypeCorrect == Spec => []TypeOK
<1>1. StageInv => TypeOK
  BY DEF StageInv
<1> QED
  BY <1>1, StagesAlways, PTL

--------------------------------------------------------------------------------
\* Slots name installed documents, documents list anchored credentials.

\* c was written to the slot of o.
OnceInstalled(c, o) ==
  c \in Cids /\ pc[c] # "idle" /\ job[c].owner = o /\ <<c, "profile">> \in mined

SlotsInstalled == \A o \in Owners : profileCID[o] # NoCid => OnceInstalled(profileCID[o], o)
BasesInstalled ==
  \A s \in Cids : (pc[s] # "idle" /\ base[s] # NoCid) => OnceInstalled(base[s], job[s].owner)

\* An entry was brought by a create or anchored for the owner, or is the one the
\* session is issuing.
EntriesExplained ==
  \A c \in Cids : doc[c] # NoDoc =>
    \A e \in doc[c].entries :
      \/ <<job[c].owner, e>> \in posted
      \/ e.hash \in Anchored(job[c].owner, e.claim)
      \/ job[c].kind = "issue" /\ e = Issued(c)

OthersKept ==
  \A s \in Cids : (pc[s] # "idle" /\ job[s].kind = "issue" /\ doc[s] # NoDoc) =>
    \A e \in EntriesOf(base[s]) : e.claim # job[s].claim => e \in doc[s].entries

ChainFollows ==
  \A o \in Owners, k \in ClaimIds : Anchored(o, k) # {} => claims[o][k] \in Anchored(o, k)

\* Only an erasure that has read its slot unpins a document.
UnpinnedByErasure ==
  \A c \in Cids : (doc[c] # NoDoc /\ c \notin pins) =>
    \E s \in Cids : /\ pc[s] \notin {"idle", "prefetch", "prepare"}
                   /\ job[s].kind \in Erasing /\ base[s] = c

DataInv == /\ SlotsInstalled /\ BasesInstalled /\ EntriesExplained
           /\ OthersKept /\ ChainFollows /\ UnpinnedByErasure

\* What a session has done stays done.
LEMMA InstalledStays ==
  ASSUME \A s \in Cids : pc[s] # "idle" => pc'[s] # "idle" /\ job'[s] = job[s],
         mined \subseteq mined'
  PROVE  \A c, o : OnceInstalled(c, o) => OnceInstalled(c, o)'
  BY DEF OnceInstalled

LEMMA AnchoredStays ==
  ASSUME \A s \in Cids : pc[s] # "idle" => pc'[s] # "idle" /\ job'[s] = job[s],
         mined \subseteq mined', NEW o, NEW k
  PROVE  Anchored(o, k) \subseteq Anchored(o, k)'
  BY DEF Anchored

\* What a base lists was brought by a create or anchored: a profile is written after
\* the claim it adds.
LEMMA InstalledListsAnchored ==
  ASSUME StageInv, DataInv, NEW c, NEW o, OnceInstalled(c, o)
  PROVE  /\ doc[c] # NoDoc
         /\ \A e \in doc[c].entries : <<o, e>> \in posted \/ e.hash \in Anchored(o, e.claim)
<1>1. c \in Cids /\ pc[c] # "idle" /\ job[c].owner = o /\ <<c, "profile">> \in mined
  BY DEF OnceInstalled
<1>2. doc[c] # NoDoc
  BY <1>1 DEF StageInv, DocOfStage
<1>3. ASSUME job[c].kind = "issue"
      PROVE  Issued(c).hash \in Anchored(o, Issued(c).claim)
  <2>1. <<c, "claim">> \in mined
    BY <1>1, <1>3 DEF StageInv, OrderOfWrites
  <2> QED
    BY <1>1, <1>3, <2>1 DEF Anchored, Issued
<1> QED
  BY <1>1, <1>2, <1>3 DEF DataInv, EntriesExplained

LEMMA MoveKeepsData ==
  ASSUME StageInv, DataInv, StageInv', NEW s \in Cids, NEW x, NEW b, NEW d, Move(s, x, b, d)
  PROVE  DataInv'
<1>1. /\ pc[s] # "idle" /\ x \in Stages \ {"idle", "prefetch"} /\ pc \in [Cids -> Stages]
      /\ pc' = [pc EXCEPT ![s] = x] /\ doc' = [doc EXCEPT ![s] = d] /\ base' = [base EXCEPT ![s] = b]
      /\ doc \in [Cids -> Doc \cup {NoDoc}] /\ base \in [Cids -> Cids \cup {NoCid}]
      /\ UNCHANGED <<profileCID, claims, job, mined>>
      /\ job[s] \in Job /\ posted \subseteq posted'
  BY SlotTyped DEF Move, Shape, StageInv, TypeOK, registryVars
<1>2. \A t \in Cids : /\ pc[t] # "idle" <=> pc'[t] # "idle"
                      /\ pc[t] # "idle" => job'[t] = job[t]
  BY <1>1
<1>3. \A o, k : Anchored(o, k)' = Anchored(o, k)
  BY <1>1, <1>2 DEF Anchored
<1>4. \A c, o : OnceInstalled(c, o) => OnceInstalled(c, o)'
  BY <1>1, <1>2, InstalledStays
<1>5. b # NoCid => OnceInstalled(b, job[s].owner)
  <2>1. Slot(s) # NoCid => OnceInstalled(Slot(s), job[s].owner)
    BY <1>1 DEF DataInv, SlotsInstalled, Slot, Job
  <2> QED
    BY <1>1, <2>1 DEF Move, Sourced, DataInv, BasesInstalled
<1>6. /\ d = doc[s] \/ (doc[s] = NoDoc /\ d # NoDoc)
      /\ doc[s] # NoDoc => b = base[s]
  BY <1>1 DEF Move, Orderly, Sourced, StageInv, DocOfStage, BeforeUpload
<1>7. \A c : OnceInstalled(c, job[s].owner) => c # s \/ doc[s] # NoDoc
  BY DEF OnceInstalled, StageInv, DocOfStage
<1>8. \A c \in Cids : doc[c] # NoDoc => doc'[c] = doc[c]
  BY <1>1, <1>6
<1>9. SlotsInstalled' /\ BasesInstalled'
  BY <1>1, <1>2, <1>4, <1>5 DEF DataInv, SlotsInstalled, BasesInstalled
<1>10. ASSUME d # doc[s]
       PROVE  /\ doc[s] = NoDoc
              /\ \A e \in d.entries : \/ <<job[s].owner, e>> \in posted'
                                      \/ e.hash \in Anchored(job[s].owner, e.claim)
                                      \/ job[s].kind = "issue" /\ e = Issued(s)
              /\ job[s].kind = "issue" =>
                   \A e \in EntriesOf(b) : e.claim # job[s].claim => e \in d.entries
  <2>1. \A e \in EntriesOf(b) : \/ <<job[s].owner, e>> \in posted
                                \/ e.hash \in Anchored(job[s].owner, e.claim)
    BY <1>5, InstalledListsAnchored DEF EntriesOf
  <2>2. /\ \A e \in d.entries : \/ e \in EntriesOf(b)
                                \/ <<job[s].owner, e>> \in posted'
                                \/ job[s].kind = "issue" /\ e = Issued(s)
        /\ job[s].kind = "issue" => \A e \in EntriesOf(b) : e.claim # job[s].claim => e \in d.entries
    BY <1>10 DEF Move, Sourced
  <2>3. posted \subseteq posted' /\ doc[s] = NoDoc
    BY <1>1, <1>6, <1>10
  <2> HIDE DEF Move
  <2> QED
    BY <2>1, <2>2, <2>3
<1>11. EntriesExplained'
  <2> SUFFICES ASSUME NEW c \in Cids, doc'[c] # NoDoc, NEW e \in doc'[c].entries
               PROVE  \/ <<job[c].owner, e>> \in posted'
                      \/ e.hash \in Anchored(job[c].owner, e.claim)
                      \/ job[c].kind = "issue" /\ e = Issued(c)
    BY <1>1, <1>3 DEF EntriesExplained, Issued
  <2>1. CASE doc[c] # NoDoc
    BY <1>1, <1>8, <2>1 DEF DataInv, EntriesExplained
  <2>2. CASE doc[c] = NoDoc
    <3>1. c = s /\ doc'[c] = d /\ d # doc[s]
      BY <1>1, <2>2
    <3> QED
      BY <1>10, <3>1
  <2> QED
    BY <2>1, <2>2
<1>12. OthersKept'
  <2> SUFFICES ASSUME NEW c \in Cids, pc'[c] # "idle", job[c].kind = "issue", doc'[c] # NoDoc,
                      NEW e \in (EntriesOf(base[c]))', e.claim # job[c].claim
               PROVE  e \in doc'[c].entries
    BY <1>1 DEF OthersKept
  <2>1. base'[c] # NoCid => doc[base'[c]] # NoDoc
    <3>1. base'[c] # NoCid => OnceInstalled(base'[c], job[c].owner)
      BY <1>1, <1>2, <1>5 DEF DataInv, BasesInstalled
    <3> QED
      BY <3>1 DEF OnceInstalled, StageInv, DocOfStage
  <2>2. base'[c] \in Cids \cup {NoCid}
    BY DEF StageInv, TypeOK
  <2>3. (EntriesOf(base[c]))' = EntriesOf(base'[c])
    BY <1>8, <2>1, <2>2 DEF EntriesOf
  <2>4. CASE doc[c] # NoDoc
    <3>1. base'[c] = base[c] /\ doc'[c] = doc[c]
      BY <1>1, <1>6, <1>8, <2>4
    <3> QED
      BY <1>2, <2>3, <2>4, <3>1 DEF DataInv, OthersKept
  <2>5. CASE doc[c] = NoDoc
    <3>1. c = s /\ doc'[c] = d /\ d # doc[s] /\ base'[c] = b
      BY <1>1, <2>5
    <3> QED
      BY <1>10, <2>3, <3>1
  <2> QED
    BY <2>4, <2>5
<1>13. ChainFollows'
  BY <1>1, <1>3 DEF DataInv, ChainFollows
<1>14. UnpinnedByErasure'
  <2> SUFFICES ASSUME NEW c \in Cids, doc'[c] # NoDoc, c \notin pins'
               PROVE  \E t \in Cids : /\ pc'[t] \notin {"idle", "prefetch", "prepare"}
                                      /\ job[t].kind \in Erasing /\ base'[t] = c
    BY <1>1 DEF UnpinnedByErasure
  <2>1. doc[c] # NoDoc
    BY <1>1 DEF Move, Sourced
  <2>2. ASSUME NEW t \in Cids, pc[t] \notin {"idle", "prefetch", "prepare"}
        PROVE  pc'[t] \notin {"idle", "prefetch", "prepare"} /\ base'[t] = base[t]
    BY <1>1, <2>2 DEF Move, Sourced
  <2>3. CASE c \notin pins
    BY <2>1, <2>2, <2>3 DEF DataInv, UnpinnedByErasure
  <2>4. CASE c \in pins
    <3>1. pc[s] = "tombstone" /\ base[s] = c
      BY <2>4 DEF Move, Sourced
    <3>2. job[s].kind \in Erasing
      BY <3>1 DEF StageInv, KindOfStage
    <3> QED
      BY <2>2, <3>1, <3>2
  <2> QED
    BY <2>3, <2>4
<1> QED
  BY <1>9, <1>11, <1>12, <1>13, <1>14 DEF DataInv

LEMMA StartKeepsData ==
  ASSUME StageInv, DataInv, NEW s \in Cids, NEW known \in Cids \cup {NoCid}, NEW j \in Jobs[s],
         Start(s, j, known)
  PROVE  DataInv'
<1>0. j.owner \in Owners
  BY ProfileAssumption DEF Job
<1>1. /\ pc[s] = "idle" /\ known \in {NoCid, profileCID[j.owner]} /\ j.owner \in Owners
      /\ UNCHANGED <<profileCID, claims, doc, pins, mined, posted>>
      /\ job' = [job EXCEPT ![s] = j] /\ base' = [base EXCEPT ![s] = known]
      /\ job \in [Cids -> Job \cup {NoDoc}] /\ base \in [Cids -> Cids \cup {NoCid}]
  BY <1>0 DEF Start, registryVars, offChain, writeVars, StageInv, TypeOK
<1>2. /\ \E x \in {"prefetch", "prepare"} : pc' = [pc EXCEPT ![s] = x]
      /\ pc \in [Cids -> Stages]
  BY DEF Start, Goto, StageInv, TypeOK
<1>3. doc[s] = NoDoc /\ \A part \in Parts : <<s, part>> \notin mined
  BY <1>1 DEF StageInv, DocOfStage, BeforeUpload
<1>4. \A t \in Cids : /\ pc[t] # "idle" => pc'[t] # "idle" /\ job'[t] = job[t]
                      /\ t # s => pc'[t] = pc[t] /\ job'[t] = job[t] /\ base'[t] = base[t]
  BY <1>1, <1>2
<1>5. \A o, k : Anchored(o, k)' = Anchored(o, k)
  BY <1>1, <1>3, <1>4 DEF Anchored, Parts
<1>6. \A c, o : OnceInstalled(c, o) => OnceInstalled(c, o)'
  BY <1>1, <1>4, InstalledStays
<1>7. SlotsInstalled' /\ BasesInstalled'
  BY <1>1, <1>4, <1>6 DEF DataInv, SlotsInstalled, BasesInstalled
<1>8. EntriesExplained'
  BY <1>1, <1>3, <1>4, <1>5 DEF DataInv, EntriesExplained, Issued
<1>9. OthersKept'
  <2>1. \A c : EntriesOf(c)' = EntriesOf(c)
    BY <1>1 DEF EntriesOf
  <2> QED
    BY <1>1, <1>3, <1>4, <2>1 DEF DataInv, OthersKept, EntriesOf
<1>10. ChainFollows'
  BY <1>1, <1>5 DEF DataInv, ChainFollows
<1>11. UnpinnedByErasure'
  BY <1>1, <1>4 DEF DataInv, UnpinnedByErasure
<1> QED
  BY <1>7, <1>8, <1>9, <1>10, <1>11 DEF DataInv

LEMMA MineKeepsData ==
  ASSUME StageInv, DataInv, NEW s \in Cids, NEW part \in Parts, Mine(s, part)
  PROVE  DataInv'
<1>1. /\ <<s, part>> \in sent /\ mined' = mined \cup {<<s, part>>}
      /\ UNCHANGED <<doc, pins, pc, job, base, posted>>
  BY DEF Mine, offChain
<1>2. pc[s] # "idle" /\ job[s] \in Job
  <2>1. pc[s] # "idle"
    BY <1>1 DEF StageInv, DocOfStage, BeforeUpload
  <2> QED
    BY <2>1, SlotTyped DEF StageInv
<1>3. mined \subseteq mined' /\ \A t \in Cids : pc[t] # "idle" => pc'[t] # "idle" /\ job'[t] = job[t]
  BY <1>1
<1>4. \A o, k : Anchored(o, k) \subseteq Anchored(o, k)'
  BY <1>3, AnchoredStays
<1>5. \A c, o : OnceInstalled(c, o) => OnceInstalled(c, o)'
  BY <1>3, InstalledStays
<1>6. BasesInstalled' /\ OthersKept' /\ UnpinnedByErasure'
  BY <1>1, <1>5 DEF DataInv, BasesInstalled, OthersKept, UnpinnedByErasure, EntriesOf
<1>7. EntriesExplained'
  BY <1>1, <1>4 DEF DataInv, EntriesExplained, Issued
<1>8. SlotsInstalled' /\ ChainFollows'
  <2>1. CASE part = "profile"
    <3>1. claims' = claims /\ profileCID' = [profileCID EXCEPT ![job[s].owner] = s]
      BY <1>2, <2>1, ProfileCall DEF Mine, StageInv
    <3>2. profileCID \in [Owners -> Cids \cup {NoCid}]
      BY DEF StageInv, TypeOK, RegistryTypeOK
    <3>3. SlotsInstalled'
      <4> SUFFICES ASSUME NEW o \in Owners, profileCID'[o] # NoCid
                   PROVE  OnceInstalled(profileCID[o], o)'
        BY DEF SlotsInstalled
      <4>1. CASE o = job[s].owner
        BY <1>1, <1>2, <2>1, <3>1, <3>2, <4>1 DEF OnceInstalled
      <4>2. CASE o # job[s].owner
        <5>1. profileCID'[o] = profileCID[o] /\ OnceInstalled(profileCID[o], o)
          BY <3>1, <3>2, <4>2 DEF DataInv, SlotsInstalled
        <5> QED
          BY <1>1, <5>1 DEF OnceInstalled
      <4> QED
        BY <4>1, <4>2
    <3>4. \A o, k : Anchored(o, k)' = Anchored(o, k)
      BY <1>1, <2>1 DEF Anchored
    <3>5. ChainFollows'
      BY <3>1, <3>4 DEF DataInv, ChainFollows
    <3> QED
      BY <3>3, <3>5
  <2>2. CASE part # "profile"
    <3>1. /\ profileCID' = profileCID
          /\ claims' = [claims EXCEPT ![job[s].owner][job[s].claim] = CredentialOf[s]]
      BY <1>2, <2>2, AnchorCall DEF Mine, StageInv
    <3>2. claims \in [Owners -> [ClaimIds -> Hashes \cup {NoHash}]] /\ part \in {"claim", "direct"}
      BY <2>2 DEF StageInv, TypeOK, RegistryTypeOK, Parts
    <3>3. SlotsInstalled'
      BY <1>5, <3>1 DEF DataInv, SlotsInstalled
    <3>4. ASSUME NEW o \in Owners, NEW k \in ClaimIds, Anchored(o, k)' # {}
          PROVE  claims'[o][k] \in Anchored(o, k)'
      <4>1. CASE o = job[s].owner /\ k = job[s].claim
        BY <1>1, <1>2, <3>1, <3>2, <4>1 DEF Anchored
      <4>2. CASE ~(o = job[s].owner /\ k = job[s].claim)
        <5>1. Anchored(o, k)' = Anchored(o, k)
          BY <1>1, <4>2 DEF Anchored
        <5>2. claims'[o][k] = claims[o][k]
          BY <1>2, <3>1, <3>2, <4>2 DEF Job
        <5> QED
          BY <3>4, <5>1, <5>2 DEF DataInv, ChainFollows
      <4> QED
        BY <4>1, <4>2
    <3> QED
      BY <3>3, <3>4 DEF ChainFollows
  <2> QED
    BY <2>1, <2>2
<1> QED
  BY <1>6, <1>7, <1>8 DEF DataInv

ProfileInv == StageInv /\ DataInv

LEMMA NextKeepsProfile ==
  ProfileInv /\ [Next]_vars => ProfileInv'
<1> SUFFICES ASSUME ProfileInv, [Next]_vars PROVE ProfileInv'
  OBVIOUS
<1>1. StageInv /\ DataInv /\ StageInv'
  BY NextKeepsStages DEF ProfileInv
<1>2. ASSUME NEW s \in Cids, NEW known \in Cids \cup {NoCid}, NEW j \in Jobs[s], Start(s, j, known)
      PROVE  DataInv'
  BY <1>1, <1>2, StartKeepsData
<1>3. ASSUME NEW s \in Cids, SessionStep(s) PROVE DataInv'
  BY <1>1, <1>3, SessionMoves, MoveKeepsData
<1>4. ASSUME NEW s \in Cids, NEW part \in Parts, Mine(s, part) PROVE DataInv'
  BY <1>1, <1>4, MineKeepsData
<1>5. CASE UNCHANGED vars
  <2>1. UNCHANGED <<profileCID, claims, doc, pins, pc, job, base, mined, posted>>
    BY <1>5 DEF vars, offChain, writeVars, registryVars
  <2>2. \A c, o : OnceInstalled(c, o)' = OnceInstalled(c, o)
    BY <2>1 DEF OnceInstalled
  <2>3. \A o, k : Anchored(o, k)' = Anchored(o, k)
    BY <2>1 DEF Anchored
  <2>4. SlotsInstalled' /\ BasesInstalled'
    BY <1>1, <2>1, <2>2 DEF DataInv, SlotsInstalled, BasesInstalled
  <2>5. EntriesExplained' /\ ChainFollows'
    BY <1>1, <2>1, <2>3 DEF DataInv, EntriesExplained, ChainFollows, Issued
  <2>6. OthersKept' /\ UnpinnedByErasure'
    BY <1>1, <2>1 DEF DataInv, OthersKept, UnpinnedByErasure, EntriesOf
  <2> QED
    BY <1>1, <2>4, <2>5, <2>6 DEF DataInv, ProfileInv
<1> QED
  BY <1>1, <1>2, <1>3, <1>4, <1>5 DEF Next, ProfileInv

LEMMA ProfileAlways == Spec => []ProfileInv
<1>1. Init => ProfileInv
  BY StagesAtStart, RegistryAssumption
     DEF ProfileInv, Init, RegistryInit, DataInv, SlotsInstalled, BasesInstalled, EntriesExplained, OthersKept,
         ChainFollows, UnpinnedByErasure, Anchored
<1> QED
  BY <1>1, NextKeepsProfile, PTL DEF Spec

\* What has been anchored for a claim is on chain or was replaced there by another one of it.
LEMMA AnchoredIsValid ==
  ASSUME DataInv, NEW o \in Owners, NEW cred, cred.claim \in ClaimIds,
         cred.hash \in Anchored(o, cred.claim)
  PROVE  ValidOrReplaced(o, cred)
  BY DEF DataInv, ChainFollows, ValidOrReplaced, ValidateRawVC

\* Every credential a profile shows that no create body has brought was anchored and is
\* on chain unless another one of its claim replaced it, for any sessions, any bodies and
\* any failures (credentials.component.ts, issueVC and the fallback after it;
\* vcController.js, issueSignedVC; profileController.js, createOrUpdateProfile).
THEOREM ListedIsAnchored == Spec => []AnchoredBeforeListed
<1>1. ProfileInv => AnchoredBeforeListed
  <2> SUFFICES ASSUME ProfileInv, NEW o \in Owners, NEW cred \in GetProfile(o),
                      <<o, cred>> \notin posted
               PROVE  ValidOrReplaced(o, cred)
    BY DEF AnchoredBeforeListed
  <2>1. profileCID[o] # NoCid /\ OnceInstalled(profileCID[o], o)
    BY DEF GetProfile, ProfileInv, DataInv, SlotsInstalled
  <2>2. cred \in doc[profileCID[o]].entries
    BY <2>1 DEF GetProfile, EntriesOf
  <2>3. doc[profileCID[o]] \in Doc
    BY <2>1, InstalledListsAnchored DEF ProfileInv, StageInv, TypeOK, OnceInstalled
  <2>4. cred.claim \in ClaimIds
    BY <2>2, <2>3 DEF Doc, Entry
  <2>5. cred.hash \in Anchored(o, cred.claim)
    BY <2>1, <2>2, InstalledListsAnchored DEF ProfileInv
  <2> QED
    BY <2>4, <2>5, AnchoredIsValid DEF ProfileInv
<1> QED
  BY <1>1, ProfileAlways, PTL

\* "Created", "erased" and "anchored" are only said of a write on chain (profileController.js,
\* gdprController.js, didController.js and the pages that wait for their transactions).
THEOREM SaidIsDone == Spec => []DoneIsOnChain
<1>1. ProfileInv => DoneIsOnChain
  <2> SUFFICES ASSUME ProfileInv, NEW s \in Cids, pc[s] = "done", job[s].kind # "upsert"
               PROVE  IF job[s].kind = "issue"
                        THEN ValidOrReplaced(job[s].owner, Issued(s))
                        ELSE <<s, "profile">> \in mined
    BY DEF DoneIsOnChain
  <2>1. IF job[s].kind = "issue" THEN <<s, "claim">> \in mined \/ <<s, "direct">> \in mined
                                 ELSE <<s, "profile">> \in mined
    BY DEF ProfileInv, StageInv, OrderOfWrites
  <2>2. job[s] \in Job
    BY SlotTyped DEF ProfileInv, StageInv
  <2>3. ASSUME job[s].kind = "issue" PROVE ValidOrReplaced(job[s].owner, Issued(s))
    <3>1. Issued(s).claim = job[s].claim /\ Issued(s).hash = CredentialOf[s]
      BY DEF Issued
    <3>2. CredentialOf[s] \in Anchored(job[s].owner, job[s].claim)
      BY <2>1, <2>3 DEF Anchored
    <3> QED
      BY <2>2, <3>1, <3>2, AnchoredIsValid DEF ProfileInv, Job
  <2> QED
    BY <2>1, <2>3
<1> QED
  BY <1>1, ProfileAlways, PTL

\* A DID stops resolving only when an erasure of its owner that read the slot as it is has
\* unpinned the document (unpinCID in profileController.js and gdprController.js).
THEOREM ErasureUnpins == Spec => []PinnedUntilErased
<1>1. ProfileInv => PinnedUntilErased
  <2> SUFFICES ASSUME ProfileInv, NEW o \in Owners, ResolveDID(o) = "error"
               PROVE  \E s \in Cids : /\ pc[s] # "idle" /\ job[s].owner = o
                                     /\ job[s].kind \in {"erase", "gdprErase"}
                                     /\ base[s] = profileCID[o]
    BY DEF PinnedUntilErased
  <2>1. profileCID[o] # NoCid /\ profileCID[o] \notin pins
    BY DEF ResolveDID
  <2>2. OnceInstalled(profileCID[o], o) /\ profileCID[o] \in Cids /\ doc[profileCID[o]] # NoDoc
    BY <2>1, InstalledListsAnchored DEF ProfileInv, DataInv, SlotsInstalled, OnceInstalled, StageInv, TypeOK
  <2>3. PICK s \in Cids : /\ pc[s] \notin {"idle", "prefetch", "prepare"}
                          /\ job[s].kind \in Erasing /\ base[s] = profileCID[o]
    BY <2>1, <2>2 DEF ProfileInv, DataInv, UnpinnedByErasure
  <2>4. OnceInstalled(base[s], job[s].owner)
    BY <2>1, <2>3 DEF ProfileInv, DataInv, BasesInstalled
  <2> QED
    BY <2>2, <2>3, <2>4 DEF OnceInstalled, Erasing
<1> QED
  BY <1>1, ProfileAlways, PTL

\* An issuance whose profile takes the place of the one it was built from keeps every
\* credential of another claim (vcController.js, issueSignedVC).
THEOREM IssuanceKeepsOthers == Spec => CredentialsKept
<1>1. ProfileInv /\ ProfileInv' /\ [Next]_vars => [IssueKeepsOthers]_profileCID
  <2> SUFFICES ASSUME ProfileInv, ProfileInv', [Next]_vars, NEW s \in Cids, pc[s] # "idle",
                      job[s].kind = "issue", profileCID[job[s].owner] = base[s],
                      profileCID'[job[s].owner] = s, profileCID' # profileCID,
                      NEW e \in EntriesOf(base[s]), e.claim # job[s].claim
               PROVE  e \in EntriesOf(s)
    BY DEF IssueKeepsOthers
  <2>1. s # NoCid /\ job[s].owner \in Owners
    BY RegistryAssumption, SlotTyped DEF ProfileInv, StageInv, Job
  <2>2. doc[s] # NoDoc
    <3>1. doc'[s] # NoDoc
      BY <2>1 DEF ProfileInv, StageInv, TypeOK
    <3>2. doc' = doc
      <4>1. ASSUME NEW t \in Cids, SessionStep(t) PROVE profileCID' = profileCID
        BY <4>1, SessionMoves DEF ProfileInv, Move, Shape, registryVars
      <4> QED
        BY <4>1 DEF Next, Start, Mine, vars, registryVars
    <3> QED
      BY <3>1, <3>2
  <2> QED
    BY <2>1, <2>2 DEF ProfileInv, DataInv, OthersKept, EntriesOf
<1> QED
  BY <1>1, ProfileAlways, PTL DEF Spec, CredentialsKept
================================================================================
