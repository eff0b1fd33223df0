-------------------------- MODULE ConsentedDisclosure --------------------------
(***************************************************************************)
(* What selective disclosure promises, without documents, tables or awaits *)
(* in between: a request opens a claim of a credential that the subject    *)
(* has listed since it was sent, at a moment at which a consent of the     *)
(* subject to that claim, purpose and context is in force; each claim is   *)
(* recorded before the answer that carries it; and an answer ends the      *)
(* request.                                                                *)
(***************************************************************************)
CONSTANTS Subjects,
          Requests,
          Forms,          \* what a request may ask: subject, purpose, ctx, entries
          NoForm          \* nothing asked yet

VARIABLES inForce,        \* consents in force: subject, claim, purpose, ctx
          listed,         \* entries a subject's profile lists
          request,        \* what each request asks
          offered,        \* entries its subject has listed since it was sent
          released,       \* claims a request has opened
          recorded,       \* pairs of a request and a claim
          answer          \* "unsent", "open", or the answer of a request

absVars == <<inForce, listed, request, offered, released, recorded, answer>>

AbsInit ==
  /\ inForce = {}
  /\ listed = [s \in Subjects |-> {}]
  /\ request = [v \in Requests |-> NoForm]
  /\ offered = [v \in Requests |-> {}]
  /\ released = [v \in Requests |-> {}]
  /\ recorded = {}
  /\ answer = [v \in Requests |-> "unsent"]

\* Consents come and go with their owners and the clock.
ConsentsChange ==
  UNCHANGED <<listed, request, offered, released, recorded, answer>>

\* A subject lists other entries.
ListingChanges(s) ==
  /\ listed' = [listed EXCEPT ![s] = listed'[s]]
  /\ offered' = [v \in Requests |->
                   IF answer[v] # "unsent" /\ request[v].subject = s
                     THEN offered[v] \cup listed'[s] ELSE offered[v]]
  /\ UNCHANGED <<inForce, request, released, recorded, answer>>

Send(v, f) ==
  /\ answer[v] = "unsent"
  /\ answer' = [answer EXCEPT ![v] = "open"]
  /\ request' = [request EXCEPT ![v] = f]
  /\ offered' = [offered EXCEPT ![v] = listed[f.subject]]
  /\ UNCHANGED <<inForce, listed, released, recorded>>

Consented(f, claim) ==
  [subject |-> f.subject, claim |-> claim, purpose |-> f.purpose, ctx |-> f.ctx]
    \in inForce

Release(v, e) ==
  /\ answer[v] = "open"
  /\ e \in request[v].entries \cap offered[v]
  /\ Consented(request[v], e.claim)
  /\ released' = [released EXCEPT ![v] = @ \cup {e.claim}]
  /\ UNCHANGED <<inForce, listed, request, offered, recorded, answer>>

\* A claim is recorded; the request may end with an error there and then.
Record(v) ==
  /\ answer[v] = "open"
  /\ \E claim \in released[v] : recorded' = recorded \cup {<<v, claim>>}
  /\ answer' \in {answer, [answer EXCEPT ![v] = "error"]}
  /\ UNCHANGED <<inForce, listed, request, offered, released>>

\* Claims are answered when all of them are recorded; a refusal has opened none; an
\* error may come at any time and carries none.
Answer(v, a) ==
  /\ answer[v] = "open"
  /\ a = "disclosed" => released[v] # {} /\ {v} \X released[v] \subseteq recorded
  /\ a = "denied" => released[v] = {}
  /\ answer' = [answer EXCEPT ![v] = a]
  /\ UNCHANGED <<inForce, listed, request, offered, released, recorded>>

AbsNext ==
  \/ ConsentsChange
  \/ \E s \in Subjects : ListingChanges(s)
  \/ \E v \in Requests :
       \/ \E f \in Forms : Send(v, f)
       \/ \E e \in offered[v] : Release(v, e)
       \/ Record(v)
       \/ \E a \in {"disclosed", "denied", "error"} : Answer(v, a)

AbsSpec == AbsInit /\ [][AbsNext]_absVars
================================================================================
