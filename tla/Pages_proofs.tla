------------------------------ MODULE Pages_proofs ------------------------------
(***************************************************************************)
(* The properties of the pages of the wallet application, for every value  *)
(* of the constants.                                                       *)
(***************************************************************************)
EXTENDS Pages, TLAPS, SequenceTheorems, FiniteSetTheorems

--------------------------------------------------------------------------------
\* Sequences of calls: one that is answered leaves the others as they are.
LEMMA RemoveAtType ==
  ASSUME NEW S, NEW s \in Seq(S), NEW i \in 1..Len(s)
  PROVE  /\ RemoveAt(s, i) \in Seq(S)
         /\ Len(RemoveAt(s, i)) = Len(s) - 1
         /\ \A j \in 1..(Len(s) - 1) : RemoveAt(s, i)[j] = IF j < i THEN s[j] ELSE s[j + 1]
<1> DEFINE front == SubSeq(s, 1, i - 1)
           back  == SubSeq(s, i + 1, Len(s))
<1>1. /\ front \in Seq(S) /\ Len(front) = i - 1
      /\ \A j \in 1..(i - 1) : front[j] = s[j]
  BY SubSeqProperties
<1>2. /\ back \in Seq(S) /\ Len(back) = Len(s) - i
      /\ \A j \in 1..(Len(s) - i) : back[j] = s[i + j]
  BY SubSeqProperties
<1>3. RemoveAt(s, i) = front \o back
  BY DEF RemoveAt
<1> HIDE DEF front, back
<1>4. Len(s) \in Nat
  BY LenProperties
<1>5. /\ front \o back \in Seq(S) /\ Len(front \o back) = Len(front) + Len(back)
      /\ \A j \in 1..(Len(front) + Len(back)) :
           (front \o back)[j] = IF j <= Len(front) THEN front[j] ELSE back[j - Len(front)]
  BY <1>1, <1>2, ConcatProperties
<1>6. Len(front) + Len(back) = Len(s) - 1
  BY <1>1, <1>2, <1>4
<1>7. ASSUME NEW j \in 1..(Len(s) - 1)
      PROVE  (front \o back)[j] = IF j < i THEN s[j] ELSE s[j + 1]
  <2>1. CASE j < i
    BY <2>1, <1>1, <1>4, <1>5, <1>6
  <2>2. CASE ~(j < i)
    <3>1. (front \o back)[j] = back[j - (i - 1)]
      BY <2>2, <1>1, <1>4, <1>5, <1>6
    <3>2. back[j - (i - 1)] = s[i + (j - (i - 1))] /\ i + (j - (i - 1)) = j + 1
      BY <2>2, <1>2, <1>4
    <3> QED
      BY <2>2, <3>1, <3>2
  <2> QED
    BY <2>1, <2>2
<1> QED
  BY <1>3, <1>5, <1>6, <1>7

LEMMA RemoveAtKeeps ==
  ASSUME NEW S, NEW s \in Seq(S), NEW i \in DOMAIN s
  PROVE  /\ RemoveAt(s, i) \in Seq(S)
         /\ Len(RemoveAt(s, i)) = Len(s) - 1
         /\ \A j \in DOMAIN RemoveAt(s, i) :
              \E k \in DOMAIN s : k # i /\ RemoveAt(s, i)[j] = s[k]
<1>1. DOMAIN s = 1..Len(s) /\ Len(s) \in Nat
  BY LenProperties
<1>2. /\ RemoveAt(s, i) \in Seq(S) /\ Len(RemoveAt(s, i)) = Len(s) - 1
      /\ \A j \in 1..(Len(s) - 1) : RemoveAt(s, i)[j] = IF j < i THEN s[j] ELSE s[j + 1]
  BY <1>1, RemoveAtType
<1>3. DOMAIN RemoveAt(s, i) = 1..(Len(s) - 1)
  BY <1>2, LenProperties
<1>4. ASSUME NEW j \in 1..(Len(s) - 1)
      PROVE  \E k \in DOMAIN s : k # i /\ RemoveAt(s, i)[j] = s[k]
  <2> DEFINE k == IF j < i THEN j ELSE j + 1
  <2>1. k \in DOMAIN s /\ k # i
    BY <1>1
  <2>2. RemoveAt(s, i)[j] = s[k]
    BY <1>2
  <2> HIDE DEF k
  <2> QED
    BY <2>1, <2>2
<1> QED
  BY <1>2, <1>3, <1>4

\* A request that is sent is the last of the calls.
LEMMA AppendKeeps ==
  ASSUME NEW S, NEW s \in Seq(S), NEW e \in S
  PROVE  /\ Append(s, e) \in Seq(S) /\ Append(s, e) # <<>>
         /\ Len(Append(s, e)) = Len(s) + 1
         /\ DOMAIN Append(s, e) = (DOMAIN s) \cup {Len(s) + 1} /\ Append(s, e)[Len(s) + 1] = e
         /\ \A j \in DOMAIN s : Append(s, e)[j] = s[j]
<1>1. /\ Append(s, e) \in Seq(S) /\ Len(Append(s, e)) = Len(s) + 1
      /\ \A j \in 1..Len(s) : Append(s, e)[j] = s[j]
      /\ Append(s, e)[Len(s) + 1] = e
  BY AppendProperties
<1>2. DOMAIN s = 1..Len(s) /\ Len(s) \in Nat /\ DOMAIN Append(s, e) = 1..Len(Append(s, e))
  BY <1>1, LenProperties
<1>3. 1..(Len(s) + 1) = (1..Len(s)) \cup {Len(s) + 1}
  BY <1>2
<1>4. Append(s, e) # <<>>
  BY <1>1, <1>2, EmptySeq
<1> QED
  BY <1>1, <1>2, <1>3, <1>4

\* Calls that outnumber none are none.
LEMMA NoCalls ==
  ASSUME NEW S, NEW s \in Seq(S)
  PROVE  /\ s = <<>> <=> Len(s) = 0
         /\ s = <<>> <=> DOMAIN s = {}
         /\ DOMAIN s = 1..Len(s) /\ Len(s) \in Nat
<1>1. DOMAIN s = 1..Len(s) /\ Len(s) \in Nat
  BY LenProperties
<1>2. s = <<>> <=> Len(s) = 0
  BY EmptySeq
<1>3. DOMAIN s = {} <=> Len(s) = 0
  <2>1. Len(s) = 0 => \A j \in Int : j \notin 1..Len(s)
    OBVIOUS
  <2>2. Len(s) # 0 => 1 \in 1..Len(s)
    BY <1>1
  <2>3. \A j \in 1..Len(s) : j \in Int
    OBVIOUS
  <2> QED
    BY <1>1, <2>1, <2>2, <2>3, Zenon
<1> QED
  BY <1>1, <1>2, <1>3

\* Two calls that are left over were two before.
LEMMA RemoveAtApart ==
  ASSUME NEW S, NEW s \in Seq(S), NEW i \in DOMAIN s,
         NEW j1 \in DOMAIN RemoveAt(s, i), NEW j2 \in DOMAIN RemoveAt(s, i), j1 # j2
  PROVE  \E k1, k2 \in DOMAIN s : /\ k1 # k2
                                  /\ RemoveAt(s, i)[j1] = s[k1]
                                  /\ RemoveAt(s, i)[j2] = s[k2]
<1>1. DOMAIN s = 1..Len(s) /\ Len(s) \in Nat
  BY LenProperties
<1>2. /\ RemoveAt(s, i) \in Seq(S) /\ Len(RemoveAt(s, i)) = Len(s) - 1
      /\ \A j \in 1..(Len(s) - 1) : RemoveAt(s, i)[j] = IF j < i THEN s[j] ELSE s[j + 1]
  BY <1>1, RemoveAtType
<1>3. DOMAIN RemoveAt(s, i) = 1..(Len(s) - 1)
  BY <1>2, LenProperties
<1> DEFINE k1 == IF j1 < i THEN j1 ELSE j1 + 1
           k2 == IF j2 < i THEN j2 ELSE j2 + 1
<1>4. k1 \in DOMAIN s /\ k2 \in DOMAIN s /\ k1 # k2
  BY <1>1, <1>3
<1>5. RemoveAt(s, i)[j1] = s[k1] /\ RemoveAt(s, i)[j2] = s[k2]
  BY <1>2, <1>3
<1> HIDE DEF k1, k2
<1> QED
  BY <1>4, <1>5

\* A call that is not the one answered is still there.
LEMMA RemoveAtLeaves ==
  ASSUME NEW S, NEW s \in Seq(S), NEW i \in DOMAIN s, NEW k \in DOMAIN s, k # i
  PROVE  \E j \in DOMAIN RemoveAt(s, i) : RemoveAt(s, i)[j] = s[k]
<1>1. DOMAIN s = 1..Len(s) /\ Len(s) \in Nat
  BY LenProperties
<1>2. /\ RemoveAt(s, i) \in Seq(S) /\ Len(RemoveAt(s, i)) = Len(s) - 1
      /\ \A j \in 1..(Len(s) - 1) : RemoveAt(s, i)[j] = IF j < i THEN s[j] ELSE s[j + 1]
  BY <1>1, RemoveAtType
<1>3. DOMAIN RemoveAt(s, i) = 1..(Len(s) - 1)
  BY <1>2, LenProperties
<1> DEFINE j == IF k < i THEN k ELSE k - 1
<1>4. j \in 1..(Len(s) - 1)
  BY <1>1
<1>5. RemoveAt(s, i)[j] = s[k]
  BY <1>1, <1>2, <1>4
<1> HIDE DEF j
<1> QED
  BY <1>3, <1>4, <1>5

--------------------------------------------------------------------------------
\* The advanced page

\* Unless both tools were under way, one runs at most, the heading is its own and
\* there is no result while it does.
ToolsInv ==
  ~crossTool => /\ ~(resolving /\ verifying)
                /\ resolving => currentTool = "resolve"
                /\ verifying => currentTool = "verify"
                /\ ResultIsOfItsTool

LEMMA ToolsStart == ToolsInit => ToolsTypeOK /\ ToolsInv
BY DEF ToolsInit, ToolsTypeOK, ToolsInv, ResultIsOfItsTool

LEMMA ToolsStep ==
  ASSUME ToolsTypeOK, ToolsInv, address \in Accounts \cup {None}, ToolsNext
  PROVE  ToolsTypeOK' /\ ToolsInv' /\ address' \in Accounts \cup {None}
<1> USE DEF ToolsTypeOK, ToolsInv, ResultIsOfItsTool, Tool, ToolResult
<1>1. CASE TypeInput
  BY <1>1 DEF TypeInput
<1>2. CASE Resolve
  BY <1>2 DEF Resolve
<1>3. CASE Verify
  BY <1>3 DEF Verify
<1>4. CASE GotResolution
  <2>1. PICK e \in BOOLEAN : result' = [tool |-> "resolve", error |-> e]
    BY <1>4 DEF GotResolution
  <2>2. result' \in ToolResult /\ result'.tool = "resolve"
    BY <2>1
  <2> QED
    BY <1>4, <2>2 DEF GotResolution
<1>5. CASE GotVerification
  <2>1. PICK e \in BOOLEAN : result' = [tool |-> "verify", error |-> e]
    BY <1>5 DEF GotVerification
  <2>2. result' \in ToolResult /\ result'.tool = "verify"
    BY <2>1
  <2> QED
    BY <1>5, <2>2 DEF GotVerification
<1>6. CASE \E a \in Accounts \cup {None} : a # address /\ ToolsAddress(a)
  BY <1>6 DEF ToolsAddress, toolsVars
<1> QED
  BY <1>1, <1>2, <1>3, <1>4, <1>5, <1>6 DEF ToolsNext

--------------------------------------------------------------------------------
\* The list of contexts and the page that shows the attributes of one

\* Every context is in small letters and without blanks; a double hyphen came through the
\* credentials page.  Without an overlap, what is asked for is selected, and of the
\* account that is connected while that has not changed.
ContextsInv ==
  /\ \A c \in contexts : /\ ~c.upper
                         /\ \/ c.mark \in {"plain", "hyphen", "long", "cut"}
                            \/ c.mark = "dashes" /\ c \in looselyAdded
  /\ ~contextOverlap =>
       \A i \in DOMAIN contextCalls : /\ contextCalls[i].ctx = currentContext
                                      /\ ~contextMoved => contextCalls[i].account = address
  /\ GroupsAreOfContext

CallIn(list) == [account : Accounts, ctx : list]

\* What the conversions of names leave of one.
LEMMA NamesConverted ==
  ASSUME NEW c \in Context
  PROVE  /\ Lower(c) \in Context /\ ~Lower(c).upper /\ Lower(c).mark = c.mark
         /\ ~c.upper => Lower(c) = c
         /\ SanitizeContextInput(c) \in Context /\ ~SanitizeContextInput(c).upper
         /\ SanitizeContextInput(c).mark = IF c.mark = "dashes" THEN "plain" ELSE c.mark
         /\ Lower(SanitizeContextInput(c)) = SanitizeContextInput(c)
         /\ NormalizeContext(c) \in Context /\ NormalizeContext(NormalizeContext(c)) = NormalizeContext(c)
BY DEF Context, Lower, SanitizeContextInput, NormalizeContext

LEMMA ContextsStart == ContextsInit => ContextsTypeOK /\ ContextsInv
<1> SUFFICES ASSUME ContextsInit
             PROVE  ContextsTypeOK /\ ContextsInv
  OBVIOUS
<1>1. contextCalls = <<>> /\ contexts = DefaultContexts /\ DefaultContexts \subseteq Context
  BY ContextsAssumption DEF ContextsInit
<1>2. contextCalls \in Seq([account : Accounts, ctx : contexts]) /\ DOMAIN contextCalls = {}
  BY <1>1, EmptySeq, NoCalls
<1>3. ContextsTypeOK
  BY <1>1, <1>2 DEF ContextsInit, ContextsTypeOK
<1>4. ContextsInv
  BY <1>1, <1>2, ContextsAssumption DEF ContextsInit, ContextsInv, GroupsAreOfContext
<1> QED
  BY <1>3, <1>4

\* A context that is chosen and loaded, with the list as it is or longer.
LEMMA ContextLoads ==
  ASSUME ContextsTypeOK, ContextsInv, address \in Accounts \cup {None}, address' = address,
         NEW c, LoadContext(c), currentContext' = c,
         c \in contexts' \cup {None}, contexts \subseteq contexts', contexts' \subseteq Context
  PROVE  /\ currentContext' \in contexts' \cup {None}
         /\ contextLoading' \in BOOLEAN /\ contextOverlap' \in BOOLEAN /\ contextMoved' \in BOOLEAN
         /\ profileAttributes' = None \/ profileAttributes' \subseteq Attribute
         /\ groupedAttributes' \subseteq Group
         /\ contextCalls' \in Seq([account : Accounts, ctx : contexts'])
         /\ ~contextOverlap' =>
              \A i \in DOMAIN contextCalls' : /\ contextCalls'[i].ctx = currentContext'
                                              /\ ~contextMoved' => contextCalls'[i].account = address'
         /\ GroupsAreOfContext'
<1>1. contextCalls \in Seq(CallIn(contexts'))
  <2>1. contextCalls \in Seq(CallIn(contexts))
    BY DEF ContextsTypeOK, CallIn
  <2>2. CallIn(contexts) \subseteq CallIn(contexts')
    BY DEF CallIn
  <2> QED
    BY <2>1, <2>2, SeqMonotonic
<1>2. CASE UNCHANGED contextCalls
  <2>1. ~contextOverlap' => DOMAIN contextCalls' = {}
    BY <1>1, <1>2, NoCalls DEF LoadContext
  <2> QED
    BY <1>1, <1>2, <2>1 DEF LoadContext, ContextsTypeOK, GroupsAreOfContext, CallIn
<1>3. CASE /\ address # None /\ c # None
           /\ contextCalls' = Append(contextCalls, [account |-> address, ctx |-> c])
  <2> DEFINE e == [account |-> address, ctx |-> c]
  <2>0. e \in CallIn(contexts') /\ e.account = address /\ e.ctx = c
    BY <1>3 DEF CallIn
  <2> HIDE DEF e
  <2>1. /\ contextCalls' \in Seq(CallIn(contexts'))
        /\ DOMAIN contextCalls' = (DOMAIN contextCalls) \cup {Len(contextCalls) + 1}
        /\ contextCalls'[Len(contextCalls) + 1] = e
    BY <1>1, <1>3, <2>0, AppendKeeps DEF e
  <2>2. ~contextOverlap' => DOMAIN contextCalls = {}
    BY <1>1, NoCalls DEF LoadContext
  <2>3. ~contextOverlap' => \A i \in DOMAIN contextCalls' : contextCalls'[i] = e
    BY <2>1, <2>2
  <2>4. contextOverlap' \in BOOLEAN /\ contextLoading' \in BOOLEAN /\ contextMoved' \in BOOLEAN
    BY DEF LoadContext
  <2> QED
    BY <2>0, <2>1, <2>3, <2>4 DEF LoadContext, ContextsTypeOK, GroupsAreOfContext, CallIn
<1> QED
  BY <1>2, <1>3 DEF LoadContext, Sent

\* A call that is answered or fails.
LEMMA ContextAnswered ==
  ASSUME ContextsTypeOK, ContextsInv, NEW i \in DOMAIN contextCalls, GotContext(i) \/ ContextFails(i)
  PROVE  ContextsTypeOK' /\ ContextsInv' /\ address' = address
<1>0. contextCalls \in Seq(CallIn(contexts)) /\ contexts \subseteq Context
  BY DEF ContextsTypeOK, CallIn
<1>1. contextCalls[i] \in CallIn(contexts)
  <2>1. DOMAIN contextCalls = 1..Len(contextCalls)
    BY <1>0, NoCalls
  <2> QED
    BY <1>0, <2>1, ElementOfSeq
<1>2. /\ contextCalls' \in Seq(CallIn(contexts))
      /\ \A j \in DOMAIN contextCalls' : \E k \in DOMAIN contextCalls : contextCalls'[j] = contextCalls[k]
  BY <1>0, RemoveAtKeeps DEF GotContext, ContextFails, Taken
<1>3. /\ UNCHANGED <<address, contexts, currentContext, contextOverlap, contextMoved, looselyAdded>>
      /\ contextLoading' = FALSE
  BY DEF GotContext, ContextFails
<1>4. ~contextOverlap' =>
        \A j \in DOMAIN contextCalls' : /\ contextCalls'[j].ctx = currentContext'
                                        /\ ~contextMoved' => contextCalls'[j].account = address'
  BY <1>2, <1>3 DEF ContextsInv
<1>5. CASE GotContext(i)
  <2>1. PICK attrs \in SUBSET {contextCalls[i]} :
          /\ profileAttributes' = attrs
          /\ groupedAttributes' = IF attrs = {} THEN {}
                                  ELSE {[ctx |-> currentContext, attributes |-> attrs]}
    BY <1>5 DEF GotContext
  <2>2. attrs \subseteq Attribute /\ currentContext \in Context \cup {None}
    <3>1. contextCalls[i] \in Attribute
      BY <1>0, <1>1 DEF CallIn, Attribute
    <3> QED
      BY <1>0, <2>1, <3>1 DEF ContextsTypeOK
  <2>3. groupedAttributes' \subseteq Group
    BY <2>1, <2>2 DEF Group
  <2>4. GroupsAreOfContext'
    <3> SUFFICES ASSUME ~contextOverlap', NEW g \in groupedAttributes'
                 PROVE  /\ g.ctx = currentContext' /\ g.attributes = profileAttributes'
                        /\ \A x \in g.attributes : /\ x.ctx = currentContext'
                                                   /\ ~contextMoved' => x.account = address'
      BY DEF GroupsAreOfContext
    <3>1. contextCalls[i].ctx = currentContext /\ (~contextMoved => contextCalls[i].account = address)
      BY <1>3 DEF ContextsInv
    <3>2. g.ctx = currentContext /\ g.attributes = attrs
      BY <2>1
    <3> QED
      BY <1>3, <2>1, <3>1, <3>2
  <2> QED
    BY <1>0, <1>2, <1>3, <1>4, <2>1, <2>2, <2>3, <2>4 DEF ContextsTypeOK, ContextsInv, CallIn
<1>6. CASE ContextFails(i)
  <2>1. profileAttributes' = None /\ groupedAttributes' = groupedAttributes
    BY <1>6 DEF ContextFails
  <2> QED
    BY <1>0, <1>2, <1>3, <1>4, <2>1 DEF ContextsTypeOK, ContextsInv, GroupsAreOfContext, CallIn
<1> QED
  BY <1>5, <1>6

LEMMA ContextsStep ==
  ASSUME ContextsTypeOK, ContextsInv, address \in Accounts \cup {None}, ContextsNext
  PROVE  ContextsTypeOK' /\ ContextsInv' /\ address' \in Accounts \cup {None}
<1>1. CASE \E c \in contexts \cup {None} : SelectContext(c)
  <2>1. PICK c \in contexts \cup {None} : SelectContext(c)
    BY <1>1
  <2>2. /\ UNCHANGED <<address, contexts, looselyAdded>> /\ LoadContext(c) /\ currentContext' = c
        /\ contexts \subseteq Context
    BY <2>1 DEF SelectContext, ContextsTypeOK
  <2> QED
    BY <2>2, ContextLoads DEF ContextsTypeOK, ContextsInv
<1>6. CASE RefreshContext
  <2>1. PICK c \in contexts \cup {None} : c = currentContext
    BY DEF ContextsTypeOK
  <2>2. /\ UNCHANGED <<address, contexts, looselyAdded>> /\ LoadContext(c) /\ currentContext' = c
        /\ contexts \subseteq Context
    BY <1>6, <2>1 DEF RefreshContext, LoadContext, ContextsTypeOK
  <2> QED
    BY <2>2, ContextLoads DEF ContextsTypeOK, ContextsInv
<1>2. CASE \E typed \in Typed : AddContext(typed)
  <2>1. PICK typed \in Typed : AddContext(typed)
    BY <1>2
  <2> DEFINE c == SanitizeContextInput(typed)
  <2>2. c \in Context /\ ~c.upper /\ Lower(c) = c
    BY NamesConverted, ContextsAssumption
  <2>3. c.mark \in {"plain", "hyphen", "long", "cut"}
    BY NamesConverted, ContextsAssumption, <2>1 DEF AddContext, WellFormed, Context
  <2>4. /\ contexts' = contexts \cup {c} /\ currentContext' = c /\ LoadContext(c)
        /\ UNCHANGED <<address, looselyAdded>>
    BY <2>1, <2>2 DEF AddContext, ServiceAddContext
  <2> HIDE DEF c
  <2>5. contexts' \subseteq Context /\ looselyAdded \subseteq contexts
    BY <2>2, <2>4 DEF ContextsTypeOK
  <2> QED
    BY <2>2, <2>3, <2>4, <2>5, ContextLoads DEF ContextsTypeOK, ContextsInv
<1>3. CASE \E typed \in Typed : AddOnCredentialsPage(typed)
  <2>1. PICK typed \in Typed : AddOnCredentialsPage(typed)
    BY <1>3
  <2> DEFINE c == Lower(typed)
  <2>2. c \in Context /\ ~c.upper /\ Lower(c) = c
    BY NamesConverted, ContextsAssumption
  <2>3. c.mark \in {"plain", "hyphen", "dashes", "long", "cut"}
    BY <2>1, <2>2 DEF AddOnCredentialsPage, WellFormed, Context
  <2>4. /\ contexts' = contexts \cup {c} /\ looselyAdded' = looselyAdded \cup {c}
        /\ NewContextPage /\ UNCHANGED address
    BY <2>1, <2>2 DEF AddOnCredentialsPage, ServiceAddContext
  <2> HIDE DEF c
  <2>5. contextCalls' \in Seq([account : Accounts, ctx : contexts']) /\ DOMAIN contextCalls' = {}
    BY <2>4, EmptySeq, NoCalls DEF NewContextPage
  <2>6. ContextsTypeOK'
    BY <2>2, <2>4, <2>5 DEF ContextsTypeOK, NewContextPage
  <2> QED
    BY <2>2, <2>3, <2>4, <2>5, <2>6 DEF ContextsInv, NewContextPage, GroupsAreOfContext
<1>4. CASE \E i \in DOMAIN contextCalls : GotContext(i) \/ ContextFails(i)
  BY <1>4, ContextAnswered
<1>5. CASE \E a \in Accounts \cup {None} : a # address /\ ContextsAddress(a)
  <2>1. address' \in Accounts \cup {None}
    BY <1>5 DEF ContextsAddress
  <2> QED
    BY <1>5, <2>1 DEF ContextsAddress, ContextsTypeOK, ContextsInv, GroupsAreOfContext
<1> QED
  BY <1>1, <1>2, <1>3, <1>4, <1>5, <1>6 DEF ContextsNext

\* The names of the list are left as they are by every conversion.
LEMMA ContextsMeetInv == ContextsTypeOK /\ ContextsInv => ContextsMeet
BY ContextNamesAssumption
   DEF ContextsTypeOK, ContextsInv, ContextsMeet, Context, Lower, MiddlewareContext, SanitizeContext,
       NormalizeContext

LEMMA ContextsMeetDefaults == contexts = DefaultContexts => ContextsMeet
BY ContextsAssumption, ContextNamesAssumption
   DEF ContextsMeet, Context, Lower, MiddlewareContext, SanitizeContext, NormalizeContext

--------------------------------------------------------------------------------
\* The table of disclosures only grows, and what is in it stays.
LogGrows ==
  /\ log' \in Seq(LogRow)
  /\ Len(log) <= Len(log') /\ DOMAIN log \subseteq DOMAIN log'
  /\ \A r \in DOMAIN log : log'[r] = log[r]

LEMMA LogStays == ASSUME log \in Seq(LogRow), log' = log PROVE LogGrows
<1>1. Len(log) \in Nat
  BY LenProperties
<1> QED
  BY <1>1 DEF LogGrows

LEMMA LogInserted == ASSUME log \in Seq(LogRow), NEW r \in LogRow, InsertRow(r) PROVE LogGrows
<1>1. /\ log' \in Seq(LogRow) /\ Len(log') = Len(log) + 1
      /\ DOMAIN log \subseteq DOMAIN log' /\ \A j \in DOMAIN log : log'[j] = log[j]
  BY AppendKeeps DEF InsertRow
<1>2. Len(log) \in Nat
  BY LenProperties
<1> QED
  BY <1>1, <1>2 DEF LogGrows

LEMMA LogConcatenated ==
  ASSUME log \in Seq(LogRow), NEW more \in Seq(LogRow), log' = log \o more
  PROVE  LogGrows
<1>1. /\ log' \in Seq(LogRow) /\ Len(log') = Len(log) + Len(more)
      /\ \A i \in 1..(Len(log) + Len(more)) :
           log'[i] = IF i <= Len(log) THEN log[i] ELSE more[i - Len(log)]
  BY ConcatProperties
<1>2. /\ Len(log) \in Nat /\ DOMAIN log = 1..Len(log)
      /\ Len(more) \in Nat /\ DOMAIN log' = 1..Len(log')
  BY <1>1, LenProperties
<1> QED
  BY <1>1, <1>2 DEF LogGrows

--------------------------------------------------------------------------------
\* The verifier page

Suggested == UNION {SuggestedFor[b] : b \in Accounts}

\* A row without a claim has no CID but one that was typed, unless a claim was chosen again
\* or above the last row.
FormInv ==
  /\ claimSuggestions \subseteq Suggested
  /\ disclosureContext = None \/ disclosureContext \in {NormalizeContext(c) : c \in VerifierContexts}
  /\ verifyCall # None => verifyCall.ctx \in LogContexts
  /\ ~crossed => \A i \in DOMAIN credentials :
                   credentials[i].claim = None => credentials[i].cid \in typedCids \cup {None}
  /\ CidsBelongToClaims

\* Unless another trail was under way, each one asked for is that of the verifier typed in.
AuditInv ==
  /\ ~auditStale => \A i \in DOMAIN auditCalls : auditCalls[i] = verifierDid
  /\ AuditIsOfVerifier

LEMMA VerifierStart ==
  ASSUME VerifierInit, log = <<>>
  PROVE  VerifierTypeOK /\ FormInv /\ AuditInv
<1>1. /\ credentials = <<>> /\ suggestionCalls = <<>> /\ auditCalls = <<>>
      /\ credentials \in Seq(CredentialRow) /\ suggestionCalls \in Seq(Accounts)
      /\ auditCalls \in Seq(LogVerifiers)
  BY EmptySeq DEF VerifierInit
<1>2. DOMAIN credentials = {} /\ DOMAIN auditCalls = {}
  BY <1>1, NoCalls
<1>3. VerifierTypeOK
  BY <1>1 DEF VerifierInit, VerifierTypeOK
<1>4. FormInv
  BY <1>2 DEF VerifierInit, FormInv, CidsBelongToClaims
<1>5. AuditInv
  BY <1>2 DEF VerifierInit, AuditInv, AuditIsOfVerifier
<1> QED
  BY <1>3, <1>4, <1>5

LEMMA VerifierFrame ==
  ASSUME VerifierTypeOK, FormInv, AuditInv, LogGrows, UNCHANGED verifierVars
  PROVE  VerifierTypeOK' /\ FormInv' /\ AuditInv'
<1> USE DEF verifierVars, requestVars, auditVars
<1>1. VerifierTypeOK'
  BY DEF VerifierTypeOK, LogGrows
<1>2. FormInv'
  BY DEF FormInv, CidsBelongToClaims
<1>3. AuditInv'
  BY DEF AuditInv, AuditIsOfVerifier, VerifierTypeOK, LogGrows
<1> QED
  BY <1>1, <1>2, <1>3

\* What the trail's part of the page needs when only the form's part changes, and back.
LEMMA AuditFrame ==
  ASSUME VerifierTypeOK, AuditInv, LogGrows, UNCHANGED auditVars
  PROVE  /\ AuditInv'
         /\ verifierDid' \in LogVerifiers \cup {None, NotADid}
         /\ verifierAudit' \subseteq DOMAIN log' /\ auditCalls' \in Seq(LogVerifiers)
         /\ {auditLoading', auditError', auditStale'} \subseteq BOOLEAN
BY DEF auditVars, AuditInv, AuditIsOfVerifier, VerifierTypeOK, LogGrows

LEMMA FormFrame ==
  ASSUME VerifierTypeOK, FormInv, UNCHANGED requestVars,
         verifierDid' \in LogVerifiers \cup {None, NotADid},
         verifierAudit' \subseteq DOMAIN log', auditCalls' \in Seq(LogVerifiers),
         {auditLoading', auditError', auditStale'} \subseteq BOOLEAN
  PROVE  VerifierTypeOK' /\ FormInv'
BY DEF requestVars, FormInv, CidsBelongToClaims, VerifierTypeOK

\* The suggestions of an account are suggested claims.
LEMMA SuggestionsTyped ==
  \A b \in Accounts : SuggestedFor[b] \subseteq ClaimSuggestion /\ SuggestedFor[b] \subseteq Suggested
BY VerifierPageAssumption DEF Suggested

LEMMA NormalizedIsLogged ==
  ASSUME NEW c \in VerifierContexts
  PROVE  /\ NormalizeContext(c) \in Context /\ NormalizeContext(c) \in LogContexts
         /\ NormalizeContext(NormalizeContext(c)) = NormalizeContext(c)
BY NamesConverted, VerifierPageAssumption

\* autoFillCid changes the CID of the last row at most.
LEMMA AutoFilled ==
  ASSUME NEW cs \in Seq(CredentialRow), Len(cs) # 0, NEW cid \in Cids \cup {None}
  PROVE  /\ AutoFillCid(cs, cid) \in Seq(CredentialRow)
         /\ Len(AutoFillCid(cs, cid)) = Len(cs)
         /\ \A j \in 1..Len(cs) :
              AutoFillCid(cs, cid)[j] =
                IF j = Len(cs) /\ cid # None THEN [claim |-> cs[j].claim, cid |-> cid] ELSE cs[j]
<1>1. Len(cs) \in 1..Len(cs) /\ DOMAIN cs = 1..Len(cs)
  BY LenProperties
<1> DEFINE row == [claim |-> cs[Len(cs)].claim, cid |-> cid]
<1>2. cs[Len(cs)] \in CredentialRow
  BY <1>1, ElementOfSeq
<1>3. row \in CredentialRow /\ [cs[Len(cs)] EXCEPT !.cid = cid] = row
  BY <1>2 DEF CredentialRow
<1>4. CASE cid = None
  BY <1>4 DEF AutoFillCid
<1>5. CASE cid # None
  <2>1. AutoFillCid(cs, cid) = [cs EXCEPT ![Len(cs)] = row]
    BY <1>3, <1>5 DEF AutoFillCid
  <2>2. /\ [cs EXCEPT ![Len(cs)] = row] \in Seq(CredentialRow)
        /\ Len([cs EXCEPT ![Len(cs)] = row]) = Len(cs)
        /\ \A j \in 1..Len(cs) : [cs EXCEPT ![Len(cs)] = row][j] = IF j = Len(cs) THEN row ELSE cs[j]
    BY <1>1, <1>3, ExceptSeq
  <2> QED
    BY <1>5, <2>1, <2>2
<1> QED
  BY <1>4, <1>5

\* The rows after a claim is chosen: in the last row and for the first time, it gets the
\* CID of its suggestion, or has none but one that was typed.
LEMMA ClaimChosen ==
  ASSUME VerifierTypeOK, FormInv, NEW i \in DOMAIN credentials, NEW s \in FilteredClaims,
         ChooseClaim(i, s)
  PROVE  /\ credentials' \in Seq(CredentialRow)
         /\ ~crossed' =>
              /\ ~crossed /\ DOMAIN credentials' = DOMAIN credentials
              /\ \A j \in DOMAIN credentials : j # i => credentials'[j] = credentials[j]
              /\ credentials'[i].claim = s.claim
              /\ credentials'[i].cid \in typedCids \cup {None, s.cid}
<1> DEFINE cs     == [credentials EXCEPT ![i].claim = s.claim]
           chosen == AutoFillCid(cs, s.cid)
           left   == {t \in FilteredClaims : t.claim = credentials[i].claim} \ {s}
<1>1. /\ credentials \in Seq(CredentialRow) /\ claimSuggestions \subseteq ClaimSuggestion
      /\ DOMAIN credentials = 1..Len(credentials) /\ Len(credentials) \in Nat
  BY NoCalls DEF VerifierTypeOK
<1>2. credentials[i] \in CredentialRow
  BY <1>1, ElementOfSeq
<1>3. \A t \in FilteredClaims : t.claim \in ClaimIds /\ t.cid \in Cids \cup {None}
  BY <1>1 DEF FilteredClaims, ClaimSuggestion
<1> DEFINE row == [claim |-> s.claim, cid |-> credentials[i].cid]
<1>4. row \in CredentialRow /\ [credentials[i] EXCEPT !.claim = s.claim] = row
  BY <1>2, <1>3 DEF CredentialRow
<1>5. cs = [credentials EXCEPT ![i] = row]
  BY <1>4
<1>6. /\ cs \in Seq(CredentialRow) /\ Len(cs) = Len(credentials)
      /\ \A j \in 1..Len(credentials) : cs[j] = IF j = i THEN row ELSE credentials[j]
  BY <1>1, <1>4, <1>5, ExceptSeq
<1>7. Len(credentials) # 0
  BY <1>1
<1>8. credentials' \in IF left = {} THEN {chosen} ELSE {AutoFillCid(chosen, t.cid) : t \in left}
  BY DEF ChooseClaim
<1> HIDE DEF cs
<1>9. /\ chosen \in Seq(CredentialRow) /\ Len(chosen) = Len(credentials)
      /\ \A j \in 1..Len(credentials) :
           chosen[j] = IF j = Len(credentials) /\ s.cid # None
                         THEN [claim |-> cs[j].claim, cid |-> s.cid] ELSE cs[j]
  BY <1>3, <1>6, <1>7, AutoFilled
<1> HIDE DEF chosen
<1>10. credentials' \in Seq(CredentialRow)
  <2>1. \A t \in left : AutoFillCid(chosen, t.cid) \in Seq(CredentialRow)
    BY <1>3, <1>7, <1>9, AutoFilled
  <2> QED
    BY <1>8, <1>9, <2>1
<1>11. ASSUME ~crossed'
       PROVE  /\ ~crossed /\ DOMAIN credentials' = DOMAIN credentials
              /\ \A j \in DOMAIN credentials : j # i => credentials'[j] = credentials[j]
              /\ credentials'[i].claim = s.claim
              /\ credentials'[i].cid \in typedCids \cup {None, s.cid}
  <2>1. ~crossed /\ i = Len(credentials) /\ credentials[i].claim = None
    BY <1>11 DEF ChooseClaim, VerifierTypeOK
  <2>2. left = {}
    BY <1>3, <2>1, VerifierPageAssumption
  <2>3. credentials' = chosen
    BY <1>8, <2>2
  <2>4. credentials[i].cid \in typedCids \cup {None}
    BY <2>1 DEF FormInv
  <2>5. DOMAIN chosen = DOMAIN credentials
    BY <1>1, <1>9, LenProperties
  <2>6. \A j \in DOMAIN credentials : j # i => chosen[j] = credentials[j]
    BY <1>1, <1>6, <1>9, <2>1
  <2>7. chosen[i].claim = s.claim /\ chosen[i].cid \in typedCids \cup {None, s.cid}
    <3>1. cs[i] = row
      BY <1>1, <1>6
    <3>2. chosen[i] = IF s.cid # None THEN [claim |-> row.claim, cid |-> s.cid] ELSE row
      BY <1>1, <1>9, <2>1, <3>1
    <3> QED
      BY <2>4, <3>2
  <2> QED
    BY <2>1, <2>3, <2>5, <2>6, <2>7
<1> QED
  BY <1>10, <1>11

\* The rows of the form change and nothing else does.
LEMMA RowsChange ==
  ASSUME VerifierTypeOK, FormInv, AuditInv, log \in Seq(LogRow),
         UNCHANGED <<log, subject, claimSuggestions, suggestionCalls, verifyCall, auditVars>>,
         disclosureContext' \in Context \cup {None}, selectedVerifierContext' \in Context \cup {None},
         disclosureContext' = None \/ disclosureContext' \in {NormalizeContext(c) : c \in VerifierContexts},
         credentials' \in Seq(CredentialRow), crossed' \in BOOLEAN, typedCids' \subseteq Cids,
         ~crossed' => \A i \in DOMAIN credentials' :
                        /\ credentials'[i].claim = None => credentials'[i].cid \in typedCids' \cup {None}
                        /\ credentials'[i].claim # None /\ credentials'[i].cid \notin typedCids' \cup {None} =>
                             \E s \in Suggested : /\ s.claim = credentials'[i].claim
                                                  /\ s.cid = credentials'[i].cid
  PROVE  VerifierTypeOK' /\ FormInv' /\ AuditInv' /\ LogGrows
<1>1. LogGrows
  BY LogStays
<1>2. AuditInv'
  BY <1>1, AuditFrame
<1>3. VerifierTypeOK'
  BY DEF VerifierTypeOK, auditVars
<1>4. FormInv'
  BY DEF FormInv, CidsBelongToClaims, Suggested
<1> QED
  BY <1>1, <1>2, <1>3, <1>4

\* What is true of the rows before.
LEMMA RowsOfForm ==
  ASSUME FormInv, ~crossed, NEW i \in DOMAIN credentials
  PROVE  /\ credentials[i].claim = None => credentials[i].cid \in typedCids \cup {None}
         /\ credentials[i].claim # None /\ credentials[i].cid \notin typedCids \cup {None} =>
              \E s \in Suggested : /\ s.claim = credentials[i].claim
                                   /\ s.cid = credentials[i].cid
BY DEF FormInv, CidsBelongToClaims, Suggested

LEMMA FormStep ==
  ASSUME VerifierTypeOK, FormInv, AuditInv, log \in Seq(LogRow), address \in Accounts \cup {None},
         FormNext
  PROVE  VerifierTypeOK' /\ FormInv' /\ AuditInv' /\ LogGrows /\ address' \in Accounts \cup {None}
<1>0. /\ credentials \in Seq(CredentialRow) /\ DOMAIN credentials = 1..Len(credentials)
      /\ Len(credentials) \in Nat
  BY NoCalls DEF VerifierTypeOK
<1>1. CASE \E a \in Accounts \cup {None} : a # address /\ VerifierAddress(a)
  <2>1. PICK a \in Accounts \cup {None} : VerifierAddress(a)
    BY <1>1
  <2>2. /\ UNCHANGED <<log, disclosureContext, selectedVerifierContext, credentials,
                       claimSuggestions, verifyCall, crossed, typedCids, auditVars>>
        /\ address' \in Accounts \cup {None}
    BY <2>1 DEF VerifierAddress
  <2>3. suggestionCalls' \in Seq(Accounts) /\ subject' \in Accounts \cup {None}
    <3>1. suggestionCalls \in Seq(Accounts) /\ subject \in Accounts \cup {None}
      BY DEF VerifierTypeOK
    <3>2. CASE a = None /\ UNCHANGED <<subject, suggestionCalls>>
      BY <3>1, <3>2
    <3>3. CASE a # None /\ subject' = a /\ suggestionCalls' = Append(suggestionCalls, a)
      BY <3>1, <3>3, AppendKeeps
    <3> QED
      BY <2>1, <3>2, <3>3 DEF VerifierAddress, Sent
  <2>4. LogGrows
    BY <2>2, LogStays
  <2>5. AuditInv'
    BY <2>2, <2>4, AuditFrame
  <2> QED
    BY <2>2, <2>3, <2>4, <2>5 DEF VerifierTypeOK, FormInv, CidsBelongToClaims, auditVars
<1>2. CASE \E i \in DOMAIN suggestionCalls : GotClaimSuggestions(i)
  <2>1. PICK i \in DOMAIN suggestionCalls : GotClaimSuggestions(i)
    BY <1>2
  <2>2. /\ UNCHANGED <<address, log, subject, disclosureContext, selectedVerifierContext, credentials,
                       verifyCall, crossed, typedCids, auditVars>>
    BY <2>1 DEF GotClaimSuggestions
  <2>3. suggestionCalls \in Seq(Accounts) /\ suggestionCalls[i] \in Accounts
    BY ElementOfSeq, NoCalls DEF VerifierTypeOK
  <2>4. suggestionCalls' \in Seq(Accounts)
    BY <2>1, <2>3, RemoveAtKeeps DEF GotClaimSuggestions, Taken
  <2>5. claimSuggestions' \subseteq ClaimSuggestion /\ claimSuggestions' \subseteq Suggested
    BY <2>1, <2>3, SuggestionsTyped DEF GotClaimSuggestions, VerifierTypeOK, FormInv
  <2>6. LogGrows
    BY <2>2, LogStays
  <2>7. AuditInv'
    BY <2>2, <2>6, AuditFrame
  <2>8. VerifierTypeOK'
    BY <2>2, <2>4, <2>5 DEF VerifierTypeOK, auditVars
  <2>9. FormInv'
    BY <2>2, <2>5 DEF FormInv, CidsBelongToClaims, Suggested
  <2> QED
    BY <2>2, <2>6, <2>7, <2>8, <2>9
<1>3. CASE \E a \in Accounts : a # subject /\ TypeSubject(a)
  <2>1. PICK a \in Accounts : TypeSubject(a)
    BY <1>3
  <2>2. /\ UNCHANGED <<address, log, disclosureContext, selectedVerifierContext, credentials,
                       claimSuggestions, suggestionCalls, verifyCall, crossed, typedCids, auditVars>>
        /\ subject' \in Accounts
    BY <2>1 DEF TypeSubject
  <2>3. LogGrows
    BY <2>2, LogStays
  <2>4. AuditInv'
    BY <2>2, <2>3, AuditFrame
  <2> QED
    BY <2>2, <2>3, <2>4 DEF VerifierTypeOK, FormInv, CidsBelongToClaims, auditVars
<1>4. CASE \E c \in VerifierContexts \cup {None} : c # selectedVerifierContext /\ ChooseContext(c)
  <2>1. PICK c \in VerifierContexts \cup {None} : ChooseContext(c)
    BY <1>4
  <2>2. /\ UNCHANGED <<address, log, subject, claimSuggestions, suggestionCalls, verifyCall,
                       crossed, typedCids, auditVars>>
        /\ credentials' = credentials \/ (credentials = <<>> /\ credentials' = <<EmptyRow>>)
    BY <2>1 DEF ChooseContext
  <2>3. /\ selectedVerifierContext' \in Context \cup {None}
        /\ disclosureContext' \in Context \cup {None}
        /\ disclosureContext' = None
             \/ disclosureContext' \in {NormalizeContext(v) : v \in VerifierContexts}
    BY <2>1, NormalizedIsLogged, VerifierPageAssumption DEF ChooseContext
  <2>4. EmptyRow \in CredentialRow /\ EmptyRow.claim = None /\ EmptyRow.cid = None
    BY DEF EmptyRow, CredentialRow
  <2>5. /\ crossed' = crossed /\ crossed \in BOOLEAN
        /\ typedCids' = typedCids /\ typedCids \subseteq Cids
    BY <2>2 DEF VerifierTypeOK
  <2>6. CASE credentials' = credentials
    BY <1>0, <2>2, <2>3, <2>5, <2>6, RowsOfForm, RowsChange
  <2>7. CASE credentials' = <<EmptyRow>>
    <3>1. credentials' \in Seq(CredentialRow) /\ \A i \in DOMAIN credentials' : credentials'[i] = EmptyRow
      BY <2>4, <2>7
    <3> QED
      BY <2>2, <2>3, <2>4, <2>5, <3>1, RowsChange
  <2> QED
    BY <2>2, <2>6, <2>7
<1>5. CASE AddCredential
  <2>1. /\ UNCHANGED <<address, log, subject, disclosureContext, selectedVerifierContext,
                       claimSuggestions, suggestionCalls, verifyCall, crossed, typedCids, auditVars>>
        /\ credentials' = Append(credentials, EmptyRow)
    BY <1>5 DEF AddCredential
  <2>2. EmptyRow \in CredentialRow /\ EmptyRow.claim = None /\ EmptyRow.cid = None
    BY DEF EmptyRow, CredentialRow
  <2>3. /\ credentials' \in Seq(CredentialRow)
        /\ \A j \in DOMAIN credentials' :
             credentials'[j] = EmptyRow \/ (j \in DOMAIN credentials /\ credentials'[j] = credentials[j])
    BY <1>0, <2>1, <2>2, AppendKeeps
  <2>4. /\ disclosureContext' \in Context \cup {None} /\ selectedVerifierContext' \in Context \cup {None}
        /\ disclosureContext' = None
             \/ disclosureContext' \in {NormalizeContext(v) : v \in VerifierContexts}
        /\ crossed' = crossed /\ crossed \in BOOLEAN
        /\ typedCids' = typedCids /\ typedCids \subseteq Cids
    BY <2>1 DEF VerifierTypeOK, FormInv
  <2>5. ASSUME ~crossed', NEW i \in DOMAIN credentials'
        PROVE  /\ credentials'[i].claim = None => credentials'[i].cid \in typedCids' \cup {None}
               /\ credentials'[i].claim # None /\ credentials'[i].cid \notin typedCids' \cup {None} =>
                    \E s \in Suggested : /\ s.claim = credentials'[i].claim
                                         /\ s.cid = credentials'[i].cid
    <3>1. CASE credentials'[i] = EmptyRow
      BY <2>2, <3>1
    <3>2. CASE i \in DOMAIN credentials /\ credentials'[i] = credentials[i]
      BY <2>4, <2>5, <3>2, RowsOfForm
    <3> QED
      BY <2>3, <3>1, <3>2
  <2>6. UNCHANGED <<log, subject, claimSuggestions, suggestionCalls, verifyCall, auditVars>>
    BY <2>1
  <2>7. VerifierTypeOK' /\ FormInv' /\ AuditInv' /\ LogGrows
    BY <2>3, <2>4, <2>5, <2>6, RowsChange
  <2> QED
    BY <2>1, <2>7
<1>6. CASE \E i \in DOMAIN credentials : RemoveCredential(i)
  <2>1. PICK i \in DOMAIN credentials : RemoveCredential(i)
    BY <1>6
  <2>2. /\ UNCHANGED <<address, log, subject, disclosureContext, selectedVerifierContext,
                       claimSuggestions, suggestionCalls, verifyCall, crossed, typedCids, auditVars>>
        /\ credentials' = RemoveAt(credentials, i)
    BY <2>1 DEF RemoveCredential
  <2>3. /\ credentials' \in Seq(CredentialRow)
        /\ \A j \in DOMAIN credentials' : \E k \in DOMAIN credentials : credentials'[j] = credentials[k]
    <3>1. credentials \in Seq(CredentialRow)
      BY <1>0
    <3> QED
      BY <2>2, <3>1, RemoveAtKeeps
  <2>4. /\ disclosureContext' \in Context \cup {None} /\ selectedVerifierContext' \in Context \cup {None}
        /\ disclosureContext' = None
             \/ disclosureContext' \in {NormalizeContext(v) : v \in VerifierContexts}
        /\ crossed' = crossed /\ crossed \in BOOLEAN
        /\ typedCids' = typedCids /\ typedCids \subseteq Cids
    BY <2>2 DEF VerifierTypeOK, FormInv
  <2>5. ~crossed => \A j \in DOMAIN credentials' :
                      /\ credentials'[j].claim = None => credentials'[j].cid \in typedCids' \cup {None}
                      /\ credentials'[j].claim # None /\ credentials'[j].cid \notin typedCids' \cup {None} =>
                           \E s \in Suggested : /\ s.claim = credentials'[j].claim
                                                /\ s.cid = credentials'[j].cid
    BY <2>3, <2>4, RowsOfForm
  <2> QED
    BY <2>2, <2>3, <2>4, <2>5, RowsChange
<1>7. CASE \E i \in DOMAIN credentials : \E s \in FilteredClaims : ChooseClaim(i, s)
  <2>1. PICK i \in DOMAIN credentials, s \in FilteredClaims : ChooseClaim(i, s)
    BY <1>7
  <2>2. /\ UNCHANGED <<address, log, subject, disclosureContext, selectedVerifierContext,
                       claimSuggestions, suggestionCalls, verifyCall, typedCids, auditVars>>
        /\ crossed' \in BOOLEAN /\ typedCids' = typedCids /\ typedCids' \subseteq Cids
    BY <2>1 DEF ChooseClaim, VerifierTypeOK
  <2>3. /\ credentials' \in Seq(CredentialRow)
        /\ ~crossed' =>
             /\ ~crossed /\ DOMAIN credentials' = DOMAIN credentials
             /\ \A j \in DOMAIN credentials : j # i => credentials'[j] = credentials[j]
             /\ credentials'[i].claim = s.claim
             /\ credentials'[i].cid \in typedCids \cup {None, s.cid}
    BY <2>1, ClaimChosen
  <2>4. /\ disclosureContext' \in Context \cup {None} /\ selectedVerifierContext' \in Context \cup {None}
        /\ disclosureContext' = None
             \/ disclosureContext' \in {NormalizeContext(v) : v \in VerifierContexts}
    BY <2>2 DEF VerifierTypeOK, FormInv
  <2>5. s \in Suggested /\ s.claim # None
    BY VerifierPageAssumption DEF FilteredClaims, FormInv, VerifierTypeOK, ClaimSuggestion
  <2>6. ASSUME ~crossed', NEW j \in DOMAIN credentials'
        PROVE  /\ credentials'[j].claim = None => credentials'[j].cid \in typedCids' \cup {None}
               /\ credentials'[j].claim # None /\ credentials'[j].cid \notin typedCids' \cup {None} =>
                    \E t \in Suggested : /\ t.claim = credentials'[j].claim
                                         /\ t.cid = credentials'[j].cid
    <3>1. CASE j = i
      BY <2>2, <2>3, <2>5, <2>6, <3>1
    <3>2. CASE j # i
      <4>1. j \in DOMAIN credentials /\ credentials'[j] = credentials[j] /\ ~crossed
        BY <2>3, <2>6, <3>2
      <4> QED
        BY <2>2, <4>1, RowsOfForm
    <3> QED
      BY <3>1, <3>2
  <2> QED
    BY <2>2, <2>3, <2>4, <2>6, RowsChange
<1>10. CASE \E i \in DOMAIN credentials : \E cid \in TypedCids \cup {None} : TypeCid(i, cid)
  <2>1. PICK i \in DOMAIN credentials, cid \in TypedCids \cup {None} : TypeCid(i, cid)
    BY <1>10
  <2>2. /\ UNCHANGED <<address, log, subject, disclosureContext, selectedVerifierContext,
                       claimSuggestions, suggestionCalls, verifyCall, crossed, auditVars>>
        /\ typedCids' = typedCids \cup ({cid} \ {None})
        /\ credentials' = [credentials EXCEPT ![i].cid = cid]
    BY <2>1 DEF TypeCid
  <2> DEFINE row == [claim |-> credentials[i].claim, cid |-> cid]
  <2>3. credentials[i] \in CredentialRow /\ cid \in Cids \cup {None}
    BY <1>0, ElementOfSeq, VerifierPageAssumption
  <2>4. row \in CredentialRow /\ [credentials[i] EXCEPT !.cid = cid] = row
    BY <2>3 DEF CredentialRow
  <2>5. credentials' = [credentials EXCEPT ![i] = row]
    BY <2>2, <2>4
  <2>6. row.cid \in typedCids' \cup {None} /\ row.claim = credentials[i].claim
    BY <2>2
  <2> HIDE DEF row
  <2>7. /\ credentials' \in Seq(CredentialRow) /\ Len(credentials') = Len(credentials)
        /\ \A j \in 1..Len(credentials) : credentials'[j] = IF j = i THEN row ELSE credentials[j]
    BY <1>0, <2>4, <2>5, ExceptSeq
  <2>8. DOMAIN credentials' = DOMAIN credentials
    BY <1>0, <2>7, LenProperties
  <2>9. /\ disclosureContext' \in Context \cup {None} /\ selectedVerifierContext' \in Context \cup {None}
        /\ disclosureContext' = None
             \/ disclosureContext' \in {NormalizeContext(v) : v \in VerifierContexts}
        /\ crossed' = crossed /\ crossed \in BOOLEAN
        /\ typedCids \subseteq typedCids' /\ typedCids' \subseteq Cids
    BY <2>2, <2>3 DEF VerifierTypeOK, FormInv
  <2>10. ASSUME ~crossed', NEW j \in DOMAIN credentials'
         PROVE  /\ credentials'[j].claim = None => credentials'[j].cid \in typedCids' \cup {None}
                /\ credentials'[j].claim # None /\ credentials'[j].cid \notin typedCids' \cup {None} =>
                     \E t \in Suggested : /\ t.claim = credentials'[j].claim
                                          /\ t.cid = credentials'[j].cid
    <3>1. CASE j = i
      <4>1. credentials'[j] = row
        BY <1>0, <2>7, <2>8, <3>1
      <4> QED
        BY <2>6, <4>1
    <3>2. CASE j # i
      <4>1. j \in DOMAIN credentials /\ credentials'[j] = credentials[j] /\ ~crossed
        BY <1>0, <2>7, <2>8, <2>9, <2>10, <3>2
      <4> QED
        BY <2>9, <4>1, RowsOfForm
    <3> QED
      BY <3>1, <3>2
  <2>11. VerifierTypeOK' /\ FormInv' /\ AuditInv' /\ LogGrows
    BY <2>2, <2>7, <2>9, <2>10, RowsChange
  <2> QED
    BY <2>2, <2>11
<1>8. CASE SubmitRequest
  <2>1. /\ UNCHANGED <<address, log, subject, disclosureContext, selectedVerifierContext, credentials,
                       claimSuggestions, suggestionCalls, crossed, typedCids, auditVars>>
        /\ verifyCall' = [subject |-> subject, verifier |-> verifierDid,
                          ctx |-> NormalizeContext(disclosureContext), credentials |-> credentials]
    BY <1>8 DEF SubmitRequest
  <2>2. PICK v \in VerifierContexts : disclosureContext = NormalizeContext(v)
    BY <1>8 DEF SubmitRequest, FormValid, FormInv
  <2>3. NormalizeContext(disclosureContext) \in Context \cap LogContexts
    BY <2>2, NormalizedIsLogged
  <2>4. subject \in Accounts /\ verifierDid \in LogVerifiers
    BY <1>8 DEF SubmitRequest, FormValid, VerifierTypeOK
  <2>5. verifyCall' \in VerifyCall /\ verifyCall'.ctx \in LogContexts
    BY <1>0, <2>1, <2>3, <2>4 DEF VerifyCall
  <2>6. LogGrows
    BY <2>1, LogStays
  <2>7. AuditInv'
    BY <2>1, <2>6, AuditFrame
  <2>8. VerifierTypeOK'
    BY <2>1, <2>5 DEF VerifierTypeOK, auditVars
  <2>9. FormInv'
    BY <2>1, <2>5 DEF FormInv, CidsBelongToClaims
  <2> QED
    BY <2>1, <2>6, <2>7, <2>8, <2>9
<1>9. CASE VerifyAnswered
  <2>1. /\ UNCHANGED <<address, subject, disclosureContext, selectedVerifierContext, credentials,
                       claimSuggestions, suggestionCalls, crossed, typedCids, auditVars>>
        /\ verifyCall # None /\ verifyCall' = None
    BY <1>9 DEF VerifyAnswered
  <2>2. /\ verifyCall \in VerifyCall /\ verifyCall.ctx \in LogContexts
        /\ Len(verifyCall.credentials) \in Nat
    BY <2>1, LenProperties DEF VerifierTypeOK, FormInv, VerifyCall
  <2>3. PICK n \in 0..Len(verifyCall.credentials) :
          log' = log \o [k \in 1..n |-> [subject |-> verifyCall.subject,
                                         verifier |-> verifyCall.verifier, ctx |-> verifyCall.ctx]]
    BY <1>9 DEF VerifyAnswered
  <2> DEFINE row  == [subject |-> verifyCall.subject, verifier |-> verifyCall.verifier,
                      ctx |-> verifyCall.ctx]
             more == [k \in 1..n |-> row]
  <2>4. row \in LogRow
    BY <2>2 DEF VerifyCall, LogRow
  <2>5. more \in Seq(LogRow)
    <3>1. n \in Nat /\ more \in [1..n -> LogRow]
      BY <2>2, <2>4
    <3> QED
      BY <3>1, SeqDef
  <2>6. log' = log \o more
    BY <2>3
  <2> HIDE DEF more
  <2>7. LogGrows
    BY <2>5, <2>6, LogConcatenated
  <2>8. AuditInv'
    BY <2>1, <2>7, AuditFrame
  <2>9. VerifierTypeOK'
    BY <2>1, <2>7 DEF VerifierTypeOK, auditVars, LogGrows
  <2>10. FormInv'
    BY <2>1 DEF FormInv, CidsBelongToClaims
  <2> QED
    BY <2>1, <2>7, <2>8, <2>9, <2>10
<1> QED
  BY <1>1, <1>2, <1>3, <1>4, <1>5, <1>6, <1>7, <1>8, <1>9, <1>10 DEF FormNext

\* The verifier's DID is typed in: what is under way for another one makes the trail stale.
LEMMA VerifierTyped ==
  ASSUME VerifierTypeOK, FormInv, AuditInv, log \in Seq(LogRow),
         NEW d \in LogVerifiers \cup {NotADid}, TypeVerifier(d)
  PROVE  VerifierTypeOK' /\ FormInv' /\ AuditInv' /\ LogGrows /\ address' = address
<1>1. /\ UNCHANGED <<address, log, requestVars>> /\ verifierDid' = d
      /\ auditStale' = (auditCalls # <<>>)
  BY DEF TypeVerifier
<1>2. auditCalls \in Seq(LogVerifiers) /\ verifierAudit \subseteq DOMAIN log
  BY DEF VerifierTypeOK
<1>3. ~auditStale' => DOMAIN auditCalls = {}
  BY <1>1, <1>2, NoCalls
<1>4. CASE d \in LogVerifiers
  <2>1. /\ auditLoading' = TRUE /\ auditError' = FALSE /\ verifierAudit' = verifierAudit
        /\ auditCalls' = Append(auditCalls, d)
    BY <1>4 DEF TypeVerifier, Sent
  <2>2. /\ auditCalls' \in Seq(LogVerifiers) /\ auditCalls'[Len(auditCalls) + 1] = d
        /\ DOMAIN auditCalls' = (DOMAIN auditCalls) \cup {Len(auditCalls) + 1}
    BY <1>2, <1>4, <2>1, AppendKeeps
  <2>3. AuditInv'
    BY <1>1, <1>3, <2>1, <2>2 DEF AuditInv, AuditIsOfVerifier
  <2> QED
    BY <1>1, <1>2, <1>4, <2>1, <2>2, <2>3, FormFrame, LogStays
<1>5. CASE d \notin LogVerifiers
  <2>1. verifierAudit' = {} /\ UNCHANGED <<auditLoading, auditError, auditCalls>>
    BY <1>5 DEF TypeVerifier
  <2>2. AuditInv'
    BY <1>1, <1>3, <2>1 DEF AuditInv, AuditIsOfVerifier
  <2>3. {auditLoading', auditError', auditStale'} \subseteq BOOLEAN
    BY <1>1, <2>1 DEF VerifierTypeOK
  <2> QED
    BY <1>1, <1>2, <2>1, <2>2, <2>3, FormFrame, LogStays
<1> QED
  BY <1>4, <1>5

LEMMA AuditStep ==
  ASSUME VerifierTypeOK, FormInv, AuditInv, log \in Seq(LogRow), AuditNext
  PROVE  VerifierTypeOK' /\ FormInv' /\ AuditInv' /\ LogGrows /\ address' = address
<1>1. CASE \E d \in LogVerifiers \cup {NotADid} : d # verifierDid /\ TypeVerifier(d)
  BY <1>1, VerifierTyped
<1>2. CASE \E i \in DOMAIN auditCalls : GotAudit(i) \/ AuditFails(i)
  <2>1. PICK i \in DOMAIN auditCalls : GotAudit(i) \/ AuditFails(i)
    BY <1>2
  <2>2. UNCHANGED <<address, log, requestVars, verifierDid>> /\ auditLoading' = FALSE
    BY <2>1 DEF GotAudit, AuditFails
  <2>3. auditCalls \in Seq(LogVerifiers)
    BY DEF VerifierTypeOK
  <2>4. /\ auditCalls' \in Seq(LogVerifiers)
        /\ \A j \in DOMAIN auditCalls' : \E k \in DOMAIN auditCalls : auditCalls'[j] = auditCalls[k]
    BY <2>1, <2>3, RemoveAtKeeps DEF GotAudit, AuditFails, Taken
  <2>5. LogGrows
    BY <2>2, LogStays
  <2>6. CASE GotAudit(i)
    <3>1. /\ verifierAudit' = SelectByVerifier(auditCalls[i])
          /\ auditError' = auditError /\ auditStale' = auditStale
      BY <2>6 DEF GotAudit
    <3>2. verifierAudit' \subseteq DOMAIN log'
      BY <2>2, <3>1 DEF SelectByVerifier
    <3>3. AuditInv'
      BY <2>2, <2>4, <3>1 DEF AuditInv, AuditIsOfVerifier, SelectByVerifier
    <3>4. {auditLoading', auditError', auditStale'} \subseteq BOOLEAN
      BY <2>2, <3>1 DEF VerifierTypeOK
    <3>5. verifierDid' \in LogVerifiers \cup {None, NotADid}
      BY <2>2 DEF VerifierTypeOK
    <3> QED
      BY <2>2, <2>4, <2>5, <3>2, <3>3, <3>4, <3>5, FormFrame
  <2>7. CASE AuditFails(i)
    <3>1. auditError' = TRUE /\ auditStale' = TRUE /\ verifierAudit' = verifierAudit
      BY <2>7 DEF AuditFails
    <3>2. verifierAudit' \subseteq DOMAIN log' /\ verifierDid' \in LogVerifiers \cup {None, NotADid}
      BY <2>2, <3>1 DEF VerifierTypeOK
    <3>3. AuditInv'
      BY <3>1 DEF AuditInv, AuditIsOfVerifier
    <3> QED
      BY <2>2, <2>4, <2>5, <3>1, <3>2, <3>3, FormFrame
  <2> QED
    BY <2>1, <2>6, <2>7
<1> QED
  BY <1>1, <1>2 DEF AuditNext
--------------------------------------------------------------------------------
\* The status of the vault

\* After an erasure without a race, the marker is there or has done its work, and nothing
\* is under way that could call the vault active again.
VaultInv ==
  /\ vaultPage = "vault" => address # None
  /\ vaultPage # "vault" => subscription = "none"
  /\ ~late /\ orphan = "none" /\ erasedHere # {} =>
       /\ checks = <<>> /\ creating = None
       /\ erasedDid # None \/ (isErased /\ ~profileExists)
       /\ vaultPage = "vault" => isErased /\ ~profileExists

LEMMA VaultStart == VaultInit => VaultTypeOK /\ VaultInv
<1>1. VaultInit => checks \in Seq(Check)
  BY EmptySeq DEF VaultInit
<1> QED
  BY <1>1 DEF VaultInit, VaultTypeOK, VaultInv

\* The steps of the checks: one is sent, served or answered.
LEMMA CheckSent ==
  ASSUME VaultTypeOK, NEW a \in Accounts, NEW here \in BOOLEAN, CheckProfile(a, here)
  PROVE  checks' \in Seq(Check) /\ vaultLoading' \in BOOLEAN
<1> DEFINE c == [account |-> a, pc |-> "sent", here |-> here]
<1>1. c \in Check
  BY DEF Check
<1>2. checks' = checks \/ checks' = Append(checks, c)
  BY DEF CheckProfile, Sent
<1>3. checks \in Seq(Check)
  BY DEF VaultTypeOK
<1>4. checks' \in Seq(Check)
  BY <1>1, <1>2, <1>3, AppendKeeps
<1>5. vaultLoading' \in BOOLEAN
  BY DEF CheckProfile, VaultTypeOK
<1> QED
  BY <1>4, <1>5

LEMMA PageLeft ==
  ASSUME VaultTypeOK, LeavePage
  PROVE  /\ checks' \in Seq(Check) /\ vaultLoading' = FALSE /\ subscription' = "none"
         /\ creating' \in [account : Accounts, here : BOOLEAN] \cup {None}
         /\ orphan' \in {"none", "opening", "live"} /\ (orphan' = "none" => orphan = "none")
         /\ checks = <<>> => checks' = <<>>
         /\ creating = None => creating' = None
<1>1. checks \in Seq(Check) /\ Len(checks) \in Nat /\ DOMAIN checks = 1..Len(checks)
  BY NoCalls DEF VaultTypeOK
<1>2. \A i \in 1..Len(checks) : [checks[i] EXCEPT !.here = FALSE] \in Check
  <2>1. \A i \in 1..Len(checks) : checks[i] \in Check
    BY <1>1, ElementOfSeq
  <2> QED
    BY <2>1 DEF Check
<1>3. checks' = [i \in 1..Len(checks) |-> [checks[i] EXCEPT !.here = FALSE]]
  BY <1>1 DEF LeavePage
<1>4. checks' \in [1..Len(checks) -> Check]
  BY <1>2, <1>3
<1>5. checks' \in Seq(Check)
  BY <1>1, <1>4, SeqDef
<1>6. checks = <<>> => checks' = <<>>
  <2>1. DOMAIN checks' = DOMAIN checks
    BY <1>1, <1>3
  <2> QED
    BY <1>1, <1>5, <2>1, NoCalls
<1>7. /\ creating' \in [account : Accounts, here : BOOLEAN] \cup {None}
      /\ creating = None => creating' = None
  BY DEF LeavePage, VaultTypeOK
<1>8. /\ vaultLoading' = FALSE /\ subscription' = "none"
      /\ orphan' \in {"none", "opening", "live"} /\ (orphan' = "none" => orphan = "none")
  BY DEF LeavePage, VaultTypeOK
<1> QED
  BY <1>5, <1>6, <1>7, <1>8

LEMMA VaultTypeStep ==
  ASSUME VaultTypeOK, VaultInv, address \in Accounts \cup {None}, VaultNext
  PROVE  VaultTypeOK' /\ address' \in Accounts \cup {None}
<1> USE DEF VaultTypeOK
<1>1. CASE \E a \in Accounts : VaultConnect(a)
  <2>1. PICK a \in Accounts : VaultConnect(a)
    BY <1>1
  <2>2. CASE orphan = "live" /\ OnAddress(a, FALSE)
    <3>1. checks' \in Seq(Check) /\ vaultLoading' \in BOOLEAN /\ erasedDid' = None
      BY <2>2, CheckSent DEF OnAddress
    <3> QED
      BY <2>1, <3>1 DEF VaultConnect, stateVars
  <2>3. CASE UNCHANGED <<erasedDid, checks, vaultLoading>>
    BY <2>1, <2>3 DEF VaultConnect, stateVars
  <2> QED
    BY <2>1, <2>2, <2>3 DEF VaultConnect
<1>2. CASE VaultDisconnect
  <2>1. CASE LeavePage
    BY <1>2, <2>1, PageLeft DEF VaultDisconnect, stateVars, gdprVars, pageVars
  <2>2. CASE UNCHANGED <<pageVars, checks, creating>>
    BY <1>2, <2>2 DEF VaultDisconnect, stateVars, gdprVars, pageVars
  <2> QED
    BY <1>2, <2>1, <2>2 DEF VaultDisconnect
<1>3. CASE VisitVault
  BY <1>3 DEF VisitVault, SetProfileStatus, stateVars, gdprVars
<1>4. CASE VaultOpened
  <2>1. address \in Accounts
    BY <1>4 DEF VaultOpened, VaultInv
  <2>2. checks' \in Seq(Check) /\ vaultLoading' \in BOOLEAN /\ erasedDid' = None
    <3>1. PICK a \in Accounts : a = address
      BY <2>1
    <3>2. CheckProfile(a, TRUE) /\ erasedDid' = None
      BY <1>4, <3>1 DEF VaultOpened, OnAddress, CheckProfile
    <3> QED
      BY <3>2, CheckSent
  <2> QED
    BY <1>4, <2>2 DEF VaultOpened, stateVars, gdprVars
<1>5. CASE OrphanOpened
  <2>1. CASE address # None /\ OnAddress(address, FALSE)
    <3>1. checks' \in Seq(Check) /\ vaultLoading' \in BOOLEAN /\ erasedDid' = None
      <4>1. PICK a \in Accounts : a = address
        BY <2>1
      <4>2. CheckProfile(a, FALSE) /\ erasedDid' = None
        BY <2>1, <4>1 DEF OnAddress, CheckProfile
      <4> QED
        BY <4>2, CheckSent
    <3> QED
      BY <1>5, <3>1 DEF OrphanOpened, stateVars, gdprVars
  <2>2. CASE UNCHANGED <<erasedDid, checks, vaultLoading>>
    BY <1>5, <2>2 DEF OrphanOpened, stateVars, gdprVars
  <2> QED
    BY <1>5, <2>1, <2>2 DEF OrphanOpened
<1>6. CASE \E p \in {"gdpr", "other"} : VisitOther(p)
  <2>1. PICK p \in {"gdpr", "other"} : VisitOther(p)
    BY <1>6
  <2>2. LeavePage
    BY <2>1 DEF VisitOther
  <2> QED
    BY <2>1, <2>2, PageLeft DEF VisitOther, stateVars
<1>7. CASE Refresh
  <2>1. address \in Accounts
    BY <1>7 DEF Refresh, VaultInv
  <2>2. checks' \in Seq(Check) /\ vaultLoading' \in BOOLEAN
    <3>1. PICK a \in Accounts : a = address
      BY <2>1
    <3>2. CheckProfile(a, TRUE)
      BY <1>7, <3>1 DEF Refresh, CheckProfile
    <3> QED
      BY <3>2, CheckSent
  <2> QED
    BY <1>7, <2>2 DEF Refresh, stateVars, gdprVars
<1>8. CASE CreateProfile
  <2>1. address \in Accounts
    BY <1>8 DEF CreateProfile, VaultInv
  <2> QED
    BY <1>8, <2>1 DEF CreateProfile, stateVars, gdprVars
<1>9. CASE CreateDone
  <2>1. status' \in [Accounts -> {"none", "active", "erased"}]
    BY <1>9 DEF CreateDone
  <2> QED
    BY <1>9, <2>1 DEF CreateDone, SetProfileStatus, gdprVars
<1>10. CASE CreateFails
  <2>1. status' \in [Accounts -> {"none", "active", "erased"}]
    BY <1>10 DEF CreateFails
  <2> QED
    BY <1>10, <2>1 DEF CreateFails, stateVars, gdprVars
<1>11. CASE \E i \in DOMAIN checks : ServeCheck(i)
  <2>1. PICK i \in DOMAIN checks : ServeCheck(i)
    BY <1>11
  <2>2. checks[i] \in Check /\ DOMAIN checks = 1..Len(checks)
    BY ElementOfSeq, NoCalls
  <2> DEFINE c == [checks[i] EXCEPT !.pc = IF status[checks[i].account] = "active"
                                             THEN "found" ELSE "not found"]
  <2>3. c \in Check
    BY <2>2 DEF Check
  <2>4. checks' = [checks EXCEPT ![i] = c]
    BY <2>1 DEF ServeCheck
  <2> HIDE DEF c
  <2>5. checks' \in Seq(Check)
    BY <2>2, <2>3, <2>4, ExceptSeq
  <2> QED
    BY <2>1, <2>5 DEF ServeCheck, stateVars, pageVars, gdprVars
<1>12. CASE \E i \in DOMAIN checks : GotCheck(i)
  <2>1. PICK i \in DOMAIN checks : GotCheck(i)
    BY <1>12
  <2>2. checks' \in Seq(Check)
    BY <2>1, RemoveAtKeeps DEF GotCheck, Taken
  <2> QED
    BY <2>1, <2>2 DEF GotCheck, SetProfileStatus, stateVars, gdprVars
<1>13. CASE Erase
  BY <1>13 DEF Erase, stateVars, pageVars
<1>14. CASE EraseMined
  <2>1. /\ status' \in [Accounts -> {"none", "active", "erased"}]
        /\ erasing' \in [account : Accounts, mined : BOOLEAN]
    BY <1>14 DEF EraseMined
  <2> QED
    BY <1>14, <2>1 DEF EraseMined, stateVars, pageVars
<1>15. CASE EraseConfirmed
  <2>1. /\ erasedDid' \in Accounts /\ erasedHere' \subseteq Accounts /\ late' \in BOOLEAN
        /\ erasureShown' \in {"form", "done", "error"} /\ erasing' = None
    BY <1>15 DEF EraseConfirmed
  <2>2. CASE vaultPage' = "other" /\ LeavePage
    BY <1>15, <2>1, <2>2, PageLeft DEF EraseConfirmed, stateVars
  <2>3. CASE UNCHANGED <<pageVars, checks, creating>>
    BY <1>15, <2>1, <2>3 DEF EraseConfirmed, stateVars, pageVars
  <2> QED
    BY <1>15, <2>2, <2>3 DEF EraseConfirmed
<1>16. CASE EraseFails
  BY <1>16 DEF EraseFails, stateVars, pageVars
<1> QED
  BY <1>1, <1>2, <1>3, <1>4, <1>5, <1>6, <1>7, <1>8, <1>9, <1>10, <1>11, <1>12, <1>13, <1>14,
     <1>15, <1>16 DEF VaultNext

LEMMA VaultInvStep ==
  ASSUME VaultTypeOK, VaultInv, address \in Accounts \cup {None}, VaultNext
  PROVE  VaultInv'
<1> DEFINE Race    == late \/ orphan # "none" \/ erasedHere = {}
           Quiet   == checks = <<>> /\ creating = None
           Marked  == erasedDid # None
           Erased  == isErased /\ ~profileExists
<1>0. Race \/ (Quiet /\ (Marked \/ Erased) /\ (vaultPage = "vault" => Erased))
  BY DEF VaultInv, VaultTypeOK
<1>00. /\ vaultPage = "vault" => address # None
       /\ vaultPage # "vault" => subscription = "none"
  BY DEF VaultInv
<1>000. Quiet => DOMAIN checks = {}
  BY NoCalls DEF VaultTypeOK
<1> SUFFICES /\ vaultPage' = "vault" => address' # None
             /\ vaultPage' # "vault" => subscription' = "none"
             /\ Race' \/ (Quiet' /\ (Marked' \/ Erased') /\ (vaultPage' = "vault" => Erased'))
  BY DEF VaultInv
<1> USE BrowserAssumption
<1>1. CASE \E a \in Accounts : VaultConnect(a)
  <2>1. PICK a \in Accounts : VaultConnect(a)
    BY <1>1
  <2>2. /\ vaultPage # "vault" /\ address' = a /\ a # None
        /\ UNCHANGED <<stateVars, vaultPage, subscription, orphan, creating, erasedHere, late>>
        /\ orphan = "none" => UNCHANGED <<erasedDid, checks>>
    BY <2>1 DEF VaultConnect
  <2> QED
    BY <1>0, <1>00, <2>2 DEF stateVars
<1>2. CASE VaultDisconnect
  <2>1. UNCHANGED <<stateVars, erasedDid, erasedHere, late>> /\ address' = None
    BY <1>2 DEF VaultDisconnect
  <2>2. CASE vaultPage' = "other" /\ LeavePage
    BY <1>0, <2>1, <2>2, PageLeft DEF stateVars
  <2>3. CASE vaultPage # "vault" /\ UNCHANGED <<pageVars, checks, creating>>
    BY <1>0, <1>00, <2>1, <2>3 DEF stateVars, pageVars
  <2> QED
    BY <1>2, <2>2, <2>3 DEF VaultDisconnect
<1>3. CASE VisitVault
  <2>1. /\ address # None /\ vaultPage' = "vault"
        /\ UNCHANGED <<address, erasedDid, orphan, checks, creating, erasedHere, late>>
        /\ IF erasedDid # None THEN profileExists' = FALSE /\ isErased' = TRUE
                               ELSE UNCHANGED stateVars
    BY <1>3 DEF VisitVault, SetProfileStatus
  <2> QED
    BY <1>0, <2>1 DEF stateVars
<1>4. CASE VaultOpened
  <2>1. /\ vaultPage = "vault" /\ UNCHANGED <<address, stateVars, vaultPage, orphan, creating, erasedHere, late>>
        /\ profileExists \/ isErased => checks' = checks
    BY <1>4, <1>00 DEF VaultOpened, OnAddress, CheckProfile
  <2> QED
    BY <1>0, <1>00, <2>1 DEF stateVars
<1>5. CASE OrphanOpened
  BY <1>00, <1>5 DEF OrphanOpened
<1>6. CASE \E p \in {"gdpr", "other"} : VisitOther(p)
  <2>1. PICK p \in {"gdpr", "other"} : VisitOther(p)
    BY <1>6
  <2>2. /\ LeavePage /\ vaultPage' = p /\ UNCHANGED <<address, stateVars, erasedDid, erasedHere, late>>
    BY <2>1 DEF VisitOther
  <2> QED
    BY <1>0, <2>2, PageLeft DEF stateVars
<1>7. CASE Refresh
  <2>1. /\ vaultPage = "vault"
        /\ UNCHANGED <<address, stateVars, erasedDid, vaultPage, subscription, orphan, creating, erasedHere, late>>
        /\ profileExists \/ isErased => checks' = checks
    BY <1>7 DEF Refresh, CheckProfile
  <2> QED
    BY <1>0, <1>00, <2>1 DEF stateVars
<1>8. CASE CreateProfile
  <2>1. /\ vaultPage = "vault" /\ ~isErased
        /\ UNCHANGED <<address, vaultPage, subscription, orphan, erasedHere, late>>
    BY <1>8 DEF CreateProfile
  <2> QED
    BY <1>0, <1>00, <2>1
<1>9. CASE CreateDone
  <2>1. /\ creating # None /\ erasedHere' = erasedHere \ {creating.account}
        /\ UNCHANGED <<address, vaultPage, subscription, orphan, late>>
    BY <1>9 DEF CreateDone
  <2> QED
    BY <1>0, <1>00, <2>1
<1>10. CASE CreateFails
  <2>1. /\ creating # None /\ erasedHere' = erasedHere \ {creating.account}
        /\ UNCHANGED <<address, vaultPage, subscription, orphan, late>>
    BY <1>10 DEF CreateFails
  <2> QED
    BY <1>0, <1>00, <2>1
<1>11. CASE \E i \in DOMAIN checks : ServeCheck(i) \/ GotCheck(i)
  <2>1. /\ DOMAIN checks # {}
        /\ UNCHANGED <<address, vaultPage, subscription, orphan, erasedHere, late>>
    BY <1>11 DEF ServeCheck, GotCheck, pageVars
  <2> QED
    BY <1>0, <1>00, <1>000, <2>1
<1>12. CASE Erase \/ EraseMined \/ EraseFails
  <2>1. UNCHANGED <<address, stateVars, erasedDid, pageVars, checks, creating, erasedHere, late>>
    BY <1>12 DEF Erase, EraseMined, EraseFails
  <2> QED
    BY <1>0, <1>00, <2>1 DEF stateVars, pageVars
<1>13. CASE EraseConfirmed
  <2>1. /\ erasing # None /\ erasedDid' = erasing.account /\ address' = None
        /\ late' = (late \/ checks # <<>> \/ creating # None)
    BY <1>13 DEF EraseConfirmed
  <2>2. Marked'
    BY <2>1 DEF VaultTypeOK
  <2>3. CASE vaultPage' = "other" /\ LeavePage
    BY <2>1, <2>2, <2>3, PageLeft
  <2>4. CASE vaultPage # "vault" /\ UNCHANGED <<pageVars, checks, creating>>
    BY <1>00, <2>1, <2>2, <2>4 DEF pageVars
  <2> QED
    BY <1>13, <2>3, <2>4 DEF EraseConfirmed
<1> QED
  BY <1>1, <1>2, <1>3, <1>4, <1>5, <1>6, <1>7, <1>8, <1>9, <1>10, <1>11, <1>12, <1>13 DEF VaultNext

LEMMA VaultFrame ==
  ASSUME VaultTypeOK, VaultInv, vaultPage # "vault", UNCHANGED vaultVars
  PROVE  VaultTypeOK' /\ VaultInv' /\ vaultPage' # "vault"
BY DEF vaultVars, stateVars, pageVars, gdprVars, VaultTypeOK, VaultInv

LEMMA VaultIsNotActive == VaultInv => ErasedIsNotActive
BY DEF VaultInv, ErasedIsNotActive
--------------------------------------------------------------------------------
\* The tabs of the profile

\* Without an overlap, every request and the profile shown are of the selected context; and
\* unless one has failed, of the account.
OverviewInv ==
  /\ profileListeners >= 1
  /\ ~profileOverlap =>
       /\ \A i \in DOMAIN profileCalls : profileCalls[i].ctx = selectedContext
       /\ profile # None => profile.ctx = selectedContext
       /\ address # None /\ ~profileFailed =>
            /\ \A i \in DOMAIN profileCalls : profileCalls[i].account = address
            /\ profile # None /\ profileCalls = <<>> => profile.account = address

\* The fields that were not edited are as they were loaded: in the form, in what is being
\* saved, and in the row, unless that was written elsewhere.
EditInv ==
  /\ editCall # None => editLoading /\ saving = None
  /\ loaded # None =>
       \A f \in Fields \ edited :
         /\ form[f] = loaded.row[f]
         /\ saving # None => saving.row[f] = loaded.row[f]
         /\ ~overtaken => rows[loaded.name][f] = loaded.row[f]

\* A subscription waits for the connected account; the list is its own, or will be,
\* or the error stands.
PrivacyInv ==
  /\ watchers = <<>> => privacyError
  /\ \A i \in DOMAIN watchers : watchers[i] \in {None, address}
  /\ address # None =>
       consentsOf = address \/ privacyError \/ \E i \in DOMAIN watchers : watchers[i] # None

LEMMA ProfileStart ==
  ASSUME ProfilePagesInit, address \in Accounts \cup {None}
  PROVE  /\ ProfilePagesTypeOK /\ OverviewInv /\ EditInv /\ PrivacyInv
         /\ profile = None /\ saving = None /\ loaded = None /\ consentsOf = None
<1>1. PICK r \in FieldValues, n \in [Accounts -> BOOLEAN] :
        rows = [m \in RowName |-> IF n[m.account] /\ m.ctx = ProfileContext
                                   THEN [f \in Fields |-> r] ELSE None]
  BY DEF ProfilePagesInit
<1>2. rows \in [RowName -> Row \cup {None}]
  BY <1>1 DEF Row
<1> DEFINE m == [account |-> address, ctx |-> ProfileContext]
<1>3. address # None => m \in RowName
  BY ProfilePagesAssumption DEF RowName
<1>4. /\ profileCalls \in Seq(RowName)
      /\ address # None => \A i \in DOMAIN profileCalls : profileCalls[i] = m
      /\ address = None => DOMAIN profileCalls = {}
  <2>1. CASE address = None
    BY <2>1, EmptySeq, NoCalls DEF ProfilePagesInit
  <2>2. CASE address # None
    <3>1. profileCalls = <<m>>
      BY <2>2 DEF ProfilePagesInit
    <3> HIDE DEF m
    <3> QED
      BY <1>3, <2>2, <3>1
  <2> QED
    BY <2>1, <2>2
<1>5. /\ watchers \in Seq(Accounts \cup {None}) /\ watchers # <<>>
      /\ \A i \in DOMAIN watchers : watchers[i] = address
      /\ address # None => \E i \in DOMAIN watchers : watchers[i] # None
  <2>1. watchers = <<address>>
    BY DEF ProfilePagesInit
  <2> QED
    BY <2>1
<1>6. NoRow \in Row
  BY DEF NoRow, Row
<1>7. ProfilePagesTypeOK
  <2>1. editCall \in RowName \cup {None} /\ profileListeners \in 0..MaxListeners
    BY <1>3, ProfilePagesAssumption DEF ProfilePagesInit
  <2>2. {profileError, profileLoading, profileOverlap, profileFailed, editLoading, privacyError,
         privacyLoading, overtaken} \subseteq BOOLEAN
    BY DEF ProfilePagesInit
  <2> QED
    BY <1>2, <1>4, <1>5, <1>6, <2>1, <2>2, ProfilePagesAssumption
       DEF ProfilePagesInit, ProfilePagesTypeOK
<1>8. OverviewInv
  BY <1>4 DEF ProfilePagesInit, OverviewInv
<1>9. EditInv
  BY DEF ProfilePagesInit, EditInv
<1>10. PrivacyInv
  BY <1>5 DEF ProfilePagesInit, PrivacyInv
<1> QED
  BY <1>7, <1>8, <1>9, <1>10 DEF ProfilePagesInit

\* Requests of the overview for one account and context.
LEMMA Asked ==
  ASSUME profileCalls \in Seq(RowName), NEW n \in Nat, NEW a \in Accounts, NEW c \in ProfileContexts,
         Ask(n, a, c)
  PROVE  /\ profileCalls' \in Seq(RowName) /\ profileFailed' = FALSE
         /\ n >= 1 => profileCalls' # <<>>
         /\ profileCalls = <<>> =>
              \A j \in DOMAIN profileCalls' : profileCalls'[j].account = a /\ profileCalls'[j].ctx = c
<1> DEFINE m    == [account |-> a, ctx |-> c]
           more == [k \in 1..n |-> m]
<1>1. m \in RowName
  BY DEF RowName
<1>2. more \in Seq(RowName) /\ Len(more) = n /\ \A k \in 1..n : more[k] = m
  <2>1. more \in [1..n -> RowName]
    BY <1>1
  <2>2. more \in Seq(RowName) /\ DOMAIN more = 1..n
    BY <2>1, SeqDef
  <2> HIDE DEF more, m
  <2>3. Len(more) = n
    BY <2>2, LenProperties
  <2> QED
    BY <2>2, <2>3 DEF more
<1>3. profileCalls' = profileCalls \o more /\ profileFailed' = FALSE
  BY DEF Ask
<1> HIDE DEF more
<1>4. /\ profileCalls' \in Seq(RowName) /\ Len(profileCalls') = Len(profileCalls) + n
      /\ \A j \in 1..(Len(profileCalls) + n) :
           profileCalls'[j] = IF j <= Len(profileCalls) THEN profileCalls[j]
                              ELSE more[j - Len(profileCalls)]
  BY <1>2, <1>3, ConcatProperties
<1>5. /\ Len(profileCalls) \in Nat /\ (profileCalls = <<>> <=> Len(profileCalls) = 0)
      /\ DOMAIN profileCalls' = 1..Len(profileCalls')
      /\ (profileCalls' = <<>> <=> Len(profileCalls') = 0)
  BY <1>4, NoCalls
<1>6. profileCalls = <<>> => \A j \in DOMAIN profileCalls' : profileCalls'[j] = m
  BY <1>2, <1>4, <1>5
<1>7. m.account = a /\ m.ctx = c
  OBVIOUS
<1>8. n >= 1 => profileCalls' # <<>>
  BY <1>4, <1>5
<1> HIDE DEF m
<1> QED
  BY <1>3, <1>4, <1>6, <1>7, <1>8

LEMMA OverviewStep ==
  ASSUME ProfilePagesTypeOK, OverviewInv, address \in Accounts \cup {None}, OverviewNext
  PROVE  /\ ProfilePagesTypeOK' /\ OverviewInv' /\ address' \in Accounts \cup {None}
         /\ UNCHANGED <<editVars, privacyVars>>
<1>0. /\ profileCalls \in Seq(RowName) /\ profileListeners \in Nat /\ profileListeners >= 1
      /\ selectedContext \in ProfileContexts
      /\ (profileCalls = <<>> <=> DOMAIN profileCalls = {})
  BY NoCalls, ProfilePagesAssumption DEF ProfilePagesTypeOK, OverviewInv
<1>1. CASE \E c \in ProfileContexts : ChooseProfileContext(c)
  <2>1. PICK c \in ProfileContexts : ChooseProfileContext(c)
    BY <1>1
  <2>2. /\ UNCHANGED <<address, rows, editVars, privacyVars>>
        /\ profileListeners < MaxListeners /\ profileListeners' = profileListeners + 1
        /\ profile' = None /\ selectedContext' = c /\ profileOverlap' = (profileCalls # <<>>)
        /\ profileError' \in BOOLEAN /\ profileLoading' \in BOOLEAN
    BY <2>1 DEF ChooseProfileContext, LoadProfile
  <2>3. profileListeners' \in 0..MaxListeners /\ profileListeners' >= 1
    BY <1>0, <2>2, ProfilePagesAssumption
  <2>4. CASE address = None /\ UNCHANGED <<profileCalls, profileFailed>>
    <3>1. ProfilePagesTypeOK'
      BY <2>2, <2>3, <2>4 DEF ProfilePagesTypeOK, editVars, privacyVars
    <3>2. OverviewInv'
      BY <1>0, <2>2, <2>3, <2>4 DEF OverviewInv
    <3> QED
      BY <2>2, <3>1, <3>2
  <2>5. CASE address # None /\ Ask(1, address, c)
    <3>1. PICK a \in Accounts : a = address
      BY <2>5
    <3>2. Ask(1, a, c)
      BY <2>5, <3>1 DEF Ask
    <3>3. /\ profileCalls' \in Seq(RowName) /\ profileFailed' = FALSE
          /\ profileCalls = <<>> =>
               \A j \in DOMAIN profileCalls' : profileCalls'[j].account = a /\ profileCalls'[j].ctx = c
      BY <1>0, <3>2, Asked
    <3>4. ProfilePagesTypeOK'
      BY <2>2, <2>3, <3>3 DEF ProfilePagesTypeOK, editVars, privacyVars
    <3>5. OverviewInv'
      BY <2>2, <2>3, <3>1, <3>3 DEF OverviewInv
    <3> QED
      BY <2>2, <3>4, <3>5
  <2> QED
    BY <2>1, <2>4, <2>5 DEF ChooseProfileContext, LoadProfile
<1>2. CASE \E i \in DOMAIN profileCalls : GotProfile(i)
  <2>1. PICK i \in DOMAIN profileCalls : GotProfile(i)
    BY <1>2
  <2>2. /\ UNCHANGED <<address, rows, selectedContext, profileListeners, profileOverlap, editVars,
                       privacyVars>>
        /\ profileLoading' = FALSE
    BY <2>1 DEF GotProfile
  <2>3. profileCalls[i] \in RowName
    BY <1>0, ElementOfSeq, NoCalls
  <2>4. /\ profileCalls' \in Seq(RowName)
        /\ \A j \in DOMAIN profileCalls' : \E k \in DOMAIN profileCalls : profileCalls'[j] = profileCalls[k]
    BY <1>0, <2>1, RemoveAtKeeps DEF GotProfile, Taken
  <2>5. \/ profile' = profileCalls[i] /\ UNCHANGED <<profileError, profileFailed>>
        \/ profileError' = TRUE /\ profileFailed' = TRUE /\ UNCHANGED profile
    BY <2>1 DEF GotProfile
  <2>6. ProfilePagesTypeOK'
    BY <2>2, <2>3, <2>4, <2>5 DEF ProfilePagesTypeOK, editVars, privacyVars
  <2>7. OverviewInv'
    BY <2>2, <2>4, <2>5 DEF OverviewInv
  <2> QED
    BY <2>2, <2>6, <2>7
<1>3. CASE \E a \in Accounts \cup {None} : a # address /\ OverviewAddress(a)
  <2>1. PICK a \in Accounts \cup {None} : OverviewAddress(a)
    BY <1>3
  <2>2. /\ address' = a /\ profileOverlap' = (profileOverlap \/ profileCalls # <<>>)
        /\ UNCHANGED <<rows, selectedContext, profile, profileListeners, editVars, privacyVars>>
    BY <2>1 DEF OverviewAddress
  <2>3. profileOverlap' \in BOOLEAN
    BY <2>2
  <2>4. CASE a = None
    <3>1. profileError' = TRUE /\ profileLoading' = FALSE /\ UNCHANGED <<profileCalls, profileFailed>>
      BY <2>1, <2>4 DEF OverviewAddress
    <3>2. ProfilePagesTypeOK'
      BY <2>2, <2>3, <3>1 DEF ProfilePagesTypeOK, editVars, privacyVars
    <3>3. OverviewInv'
      BY <2>2, <2>4, <3>1 DEF OverviewInv, ProfilePagesTypeOK
    <3> QED
      BY <2>2, <3>2, <3>3
  <2>5. CASE a # None
    <3>1. UNCHANGED <<profileError, profileLoading>> /\ Ask(profileListeners, a, selectedContext)
      BY <2>1, <2>5 DEF OverviewAddress
    <3>2. PICK n \in Nat, c \in ProfileContexts : n = profileListeners /\ c = selectedContext
      BY <1>0
    <3>3. Ask(n, a, c)
      BY <3>1, <3>2 DEF Ask
    <3>4. /\ profileCalls' \in Seq(RowName) /\ profileFailed' = FALSE /\ profileCalls' # <<>>
          /\ profileCalls = <<>> =>
               \A j \in DOMAIN profileCalls' : profileCalls'[j].account = a /\ profileCalls'[j].ctx = c
      BY <1>0, <2>5, <3>2, <3>3, Asked
    <3>5. ProfilePagesTypeOK'
      BY <2>2, <2>3, <3>1, <3>4 DEF ProfilePagesTypeOK, editVars, privacyVars
    <3>6. OverviewInv'
      BY <2>2, <3>2, <3>4 DEF OverviewInv, ProfilePagesTypeOK
    <3> QED
      BY <2>2, <3>5, <3>6
  <2> QED
    BY <2>4, <2>5
<1> QED
  BY <1>1, <1>2, <1>3 DEF OverviewNext

\* Rows that change elsewhere do not touch the overview.
LEMMA RowsElsewhere ==
  ASSUME ProfilePagesTypeOK, NEW m \in RowName, NEW r \in {NoRow, None}, RowElsewhere(m, r)
  PROVE  /\ ProfilePagesTypeOK' /\ address' = address
         /\ UNCHANGED <<overviewVars, privacyVars>> /\ saving' = saving /\ loaded' = loaded
         /\ OverviewInv => OverviewInv'
         /\ EditInv => EditInv'
<1>1. /\ rows' = [rows EXCEPT ![m] = r]
      /\ overtaken' = (overtaken \/ (loaded # None /\ loaded.name = m))
      /\ UNCHANGED <<address, form, formContext, editLoading, editCall, saving, loaded, edited,
                     overviewVars, privacyVars>>
  BY DEF RowElsewhere, Upsert
<1>2. r \in Row \cup {None}
  BY DEF NoRow, Row
<1>3. rows' \in [RowName -> Row \cup {None}] /\ overtaken' \in BOOLEAN
  BY <1>1, <1>2 DEF ProfilePagesTypeOK
<1>4. ProfilePagesTypeOK'
  BY <1>1, <1>3 DEF ProfilePagesTypeOK, overviewVars, privacyVars
<1>5. OverviewInv => OverviewInv'
  BY <1>1 DEF OverviewInv, overviewVars
<1>6. EditInv => EditInv'
  <2>1. loaded # None /\ ~overtaken' => ~overtaken /\ rows'[loaded.name] = rows[loaded.name]
    BY <1>1 DEF ProfilePagesTypeOK
  <2> QED
    BY <1>1, <2>1 DEF EditInv
<1> QED
  BY <1>1, <1>4, <1>5, <1>6

\* A form that is new is empty and was loaded with nothing.
LEMMA FormIsNew ==
  ASSUME NewForm, address \in Accounts \cup {None}
  PROVE  /\ form' \in Row /\ formContext' \in ProfileContexts /\ editLoading' \in BOOLEAN
         /\ editCall' \in RowName \cup {None} /\ (editCall' # None => editLoading')
         /\ loaded' = None /\ edited' = {} /\ overtaken' = FALSE
<1>1. NoRow \in Row
  BY DEF NoRow, Row
<1>2. ProfileContext \in ProfileContexts
  BY ProfilePagesAssumption
<1>3. address # None => [account |-> address, ctx |-> ProfileContext] \in RowName
  BY <1>2 DEF RowName
<1> QED
  BY <1>1, <1>2, <1>3 DEF NewForm

LEMMA EditStep ==
  ASSUME ProfilePagesTypeOK, EditInv, address \in Accounts \cup {None}, EditNext
  PROVE  /\ ProfilePagesTypeOK' /\ EditInv' /\ address' \in Accounts \cup {None}
         /\ UNCHANGED <<overviewVars, privacyVars>>
<1> USE DEF overviewVars, privacyVars
<1>1. CASE GotForm
  <2>1. /\ editCall # None /\ editCall \in RowName /\ rows \in [RowName -> Row \cup {None}]
        /\ saving = None
    BY <1>1 DEF GotForm, ProfilePagesTypeOK, EditInv
  <2>2. /\ editLoading' = FALSE /\ editCall' = None
        /\ UNCHANGED <<address, rows, saving, edited, overtaken, overviewVars, privacyVars>>
    BY <1>1 DEF GotForm
  <2>3. CASE /\ rows[editCall] # None
             /\ form' = PatchValue(rows[editCall]) /\ formContext' = editCall.ctx
             /\ loaded' = [name |-> editCall, row |-> rows[editCall]]
    <3>1. rows[editCall] \in Row /\ editCall.ctx \in ProfileContexts
      BY <2>1, <2>3 DEF RowName
    <3>2. /\ loaded' \in [name : RowName, row : Row] /\ loaded'.name = editCall
          /\ loaded'.row = rows[editCall] /\ form' = rows[editCall] /\ formContext' \in ProfileContexts
      BY <2>1, <2>3, <3>1 DEF PatchValue
    <3>3. ProfilePagesTypeOK'
      BY <2>2, <3>1, <3>2 DEF ProfilePagesTypeOK
    <3>4. EditInv'
      BY <2>1, <2>2, <3>2 DEF EditInv
    <3> QED
      BY <2>2, <3>3, <3>4
  <2>4. CASE UNCHANGED <<form, formContext, loaded>>
    BY <2>1, <2>2, <2>4 DEF ProfilePagesTypeOK, EditInv
  <2> QED
    BY <1>1, <2>3, <2>4 DEF GotForm
<1>2. CASE Cancel
  <2>1. NewForm /\ saving = None /\ UNCHANGED <<address, rows, saving, overviewVars, privacyVars>>
    BY <1>2 DEF Cancel
  <2> QED
    BY <2>1, FormIsNew DEF ProfilePagesTypeOK, EditInv
<1>3. CASE Submit
  <2>1. /\ ~editLoading /\ address \in Accounts
        /\ saving' = [name |-> [account |-> address, ctx |-> formContext], row |-> form]
        /\ UNCHANGED <<address, rows, form, formContext, editLoading, editCall, loaded, edited, overtaken,
                       overviewVars, privacyVars>>
    BY <1>3 DEF Submit
  <2>2. /\ saving' \in [name : RowName, row : Row] /\ saving'.row = form
        /\ editCall = None
    BY <2>1 DEF ProfilePagesTypeOK, EditInv, RowName
  <2>3. ProfilePagesTypeOK'
    BY <2>1, <2>2 DEF ProfilePagesTypeOK
  <2>4. EditInv'
    BY <2>1, <2>2 DEF EditInv
  <2> QED
    BY <2>1, <2>3, <2>4
<1>4. CASE Upserted
  <2>1. /\ saving # None /\ rows' = [rows EXCEPT ![saving.name] = saving.row] /\ saving' = None
        /\ NewForm /\ UNCHANGED <<address, overviewVars, privacyVars>>
    BY <1>4 DEF Upserted, Upsert
  <2>2. rows' \in [RowName -> Row \cup {None}]
    BY <2>1 DEF ProfilePagesTypeOK
  <2>3. ProfilePagesTypeOK'
    BY <2>1, <2>2, FormIsNew DEF ProfilePagesTypeOK
  <2>4. EditInv'
    BY <2>1, FormIsNew DEF EditInv
  <2> QED
    BY <2>1, <2>3, <2>4
<1>5. CASE SaveFails
  <2>1. /\ saving # None /\ saving' = None
        /\ rows' = [rows EXCEPT ![saving.name] = saving.row] \/ rows' = rows
        /\ UNCHANGED <<address, form, formContext, editLoading, editCall, loaded, edited, overtaken,
                       overviewVars, privacyVars>>
    BY <1>5 DEF SaveFails, Upsert
  <2>2. rows' \in [RowName -> Row \cup {None}]
    BY <2>1 DEF ProfilePagesTypeOK
  <2>3. ProfilePagesTypeOK'
    BY <2>1, <2>2 DEF ProfilePagesTypeOK
  <2>4. loaded # None => \/ rows'[loaded.name] = rows[loaded.name]
                         \/ rows'[loaded.name] = saving.row
    BY <2>1 DEF ProfilePagesTypeOK
  <2>5. EditInv'
    BY <2>1, <2>4 DEF EditInv
  <2> QED
    BY <2>1, <2>3, <2>5
<1>6. CASE \E f \in Fields, v \in FieldValues \cup {None} : EditField(f, v)
  <2>1. PICK f \in Fields, v \in FieldValues \cup {None} : EditField(f, v)
    BY <1>6
  <2>2. /\ form' = [form EXCEPT ![f] = v] /\ edited' = edited \cup {f}
        /\ UNCHANGED <<address, rows, formContext, editLoading, editCall, saving, loaded, overtaken,
                       overviewVars, privacyVars>>
    BY <2>1 DEF EditField
  <2>3. /\ form \in [Fields -> FieldValues \cup {None}] /\ form' \in Row
        /\ \A g \in Fields \ edited' : form'[g] = form[g] /\ g \in Fields \ edited
    BY <2>2 DEF ProfilePagesTypeOK, Row
  <2>4. ProfilePagesTypeOK'
    BY <2>2, <2>3 DEF ProfilePagesTypeOK
  <2>5. EditInv'
    BY <2>2, <2>3 DEF EditInv
  <2> QED
    BY <2>2, <2>4, <2>5
<1>7. CASE \E c \in ProfileContexts : c # formContext /\ EditContext(c)
  <2>1. PICK c \in ProfileContexts : EditContext(c)
    BY <1>7
  <2>2. /\ formContext' = c
        /\ UNCHANGED <<address, rows, form, editLoading, editCall, saving, loaded, edited, overtaken,
                       overviewVars, privacyVars>>
    BY <2>1 DEF EditContext
  <2> QED
    BY <2>2 DEF ProfilePagesTypeOK, EditInv
<1>8. CASE \E a \in Accounts \cup {None} : a # address /\ EditAddress(a)
  <2>1. address' \in Accounts \cup {None} /\ UNCHANGED profileVars
    BY <1>8 DEF EditAddress
  <2> QED
    BY <2>1 DEF ProfilePagesTypeOK, EditInv, profileVars, editVars
<1> QED
  BY <1>1, <1>2, <1>3, <1>4, <1>5, <1>6, <1>7, <1>8 DEF EditNext

\* A subscription more, or none.
LEMMA ConsentsLoad ==
  ASSUME ProfilePagesTypeOK, PrivacyInv, address \in Accounts \cup {None}, LoadConsents,
         address' = address
  PROVE  /\ watchers' \in Seq(Accounts \cup {None}) /\ consentsOf' = consentsOf /\ PrivacyInv'
         /\ privacyError' \in BOOLEAN /\ privacyLoading' \in BOOLEAN
<1>1. /\ watchers' \in Seq(Accounts \cup {None}) /\ watchers' # <<>>
      /\ DOMAIN watchers' = (DOMAIN watchers) \cup {Len(watchers) + 1}
      /\ watchers'[Len(watchers) + 1] = address
      /\ \A j \in DOMAIN watchers : watchers'[j] = watchers[j]
  BY AppendKeeps DEF LoadConsents, ProfilePagesTypeOK
<1>2. privacyError' \in BOOLEAN /\ privacyLoading' \in BOOLEAN /\ consentsOf' = consentsOf
  BY DEF LoadConsents
<1>3. PrivacyInv'
  BY <1>1 DEF PrivacyInv
<1> QED
  BY <1>1, <1>2, <1>3

LEMMA PrivacyStep ==
  ASSUME ProfilePagesTypeOK, PrivacyInv, address \in Accounts \cup {None}, PrivacyNext
  PROVE  /\ ProfilePagesTypeOK' /\ PrivacyInv' /\ address' \in Accounts \cup {None}
         /\ UNCHANGED <<overviewVars, editVars>>
<1> USE DEF overviewVars, editVars
<1>0. watchers \in Seq(Accounts \cup {None}) /\ (watchers = <<>> <=> DOMAIN watchers = {})
  BY NoCalls DEF ProfilePagesTypeOK
<1>1. CASE RefreshConsents
  <2>1. LoadConsents /\ UNCHANGED <<address, rows, revoking, erasingProfile, overviewVars, editVars>>
    BY <1>1 DEF RefreshConsents
  <2>2. /\ watchers' \in Seq(Accounts \cup {None}) /\ consentsOf' = consentsOf /\ PrivacyInv'
        /\ privacyError' \in BOOLEAN /\ privacyLoading' \in BOOLEAN
    BY <2>1, ConsentsLoad
  <2> QED
    BY <2>1, <2>2 DEF ProfilePagesTypeOK
<1>2. CASE Revoke
  <2>1. /\ address # None /\ revoking' = address
        /\ UNCHANGED <<address, rows, consentsOf, watchers, privacyError, privacyLoading,
                       erasingProfile, overviewVars, editVars>>
    BY <1>2 DEF Revoke, ListShown
  <2> QED
    BY <2>1 DEF ProfilePagesTypeOK, PrivacyInv
<1>3. CASE Revoked
  <2>1. revoking' = None /\ UNCHANGED <<address, rows, erasingProfile, overviewVars, editVars>>
    BY <1>3 DEF Revoked
  <2>2. CASE LoadConsents
    <3>1. /\ watchers' \in Seq(Accounts \cup {None}) /\ consentsOf' = consentsOf /\ PrivacyInv'
          /\ privacyError' \in BOOLEAN /\ privacyLoading' \in BOOLEAN
      BY <2>1, <2>2, ConsentsLoad
    <3> QED
      BY <2>1, <3>1 DEF ProfilePagesTypeOK
  <2>3. CASE UNCHANGED <<consentsOf, watchers, privacyError, privacyLoading>>
    BY <2>1, <2>3 DEF ProfilePagesTypeOK, PrivacyInv
  <2> QED
    BY <1>3, <2>2, <2>3 DEF Revoked
<1>4. CASE RequestErasure
  <2>1. /\ erasingProfile' = address
        /\ UNCHANGED <<address, rows, consentsOf, watchers, privacyError, privacyLoading, revoking,
                       overviewVars, editVars>>
    BY <1>4 DEF RequestErasure
  <2> QED
    BY <2>1 DEF ProfilePagesTypeOK, PrivacyInv
<1>5. CASE ErasureSubmitted
  <2>1. /\ erasingProfile' = None
        /\ rows' \in {rows, [m \in RowName |-> IF m.account = erasingProfile THEN None ELSE rows[m]]}
        /\ UNCHANGED <<address, consentsOf, watchers, privacyError, privacyLoading, revoking,
                       overviewVars, editVars>>
    BY <1>5 DEF ErasureSubmitted
  <2>2. rows' \in [RowName -> Row \cup {None}]
    BY <2>1 DEF ProfilePagesTypeOK
  <2> QED
    BY <2>1, <2>2 DEF ProfilePagesTypeOK, PrivacyInv
<1>6. CASE \E i \in DOMAIN watchers : GotConsents(i)
  <2>1. PICK i \in DOMAIN watchers : GotConsents(i)
    BY <1>6
  <2>2. /\ watchers[i] # None /\ consentsOf' = watchers[i] /\ privacyLoading' = FALSE
        /\ watchers' = [watchers EXCEPT ![i] = None]
        /\ UNCHANGED <<address, rows, privacyError, revoking, erasingProfile, overviewVars, editVars>>
    BY <2>1 DEF GotConsents
  <2>3. watchers[i] \in Accounts /\ watchers[i] = address
    BY <1>0, <2>2, ElementOfSeq, NoCalls DEF PrivacyInv
  <2>4. /\ watchers' \in Seq(Accounts \cup {None}) /\ DOMAIN watchers' = DOMAIN watchers
        /\ \A j \in DOMAIN watchers : watchers'[j] \in {None, watchers[j]}
    BY <1>0, <2>2
  <2>5. watchers' # <<>>
    BY <1>0, <2>4, NoCalls
  <2>6. ProfilePagesTypeOK'
    BY <2>2, <2>3, <2>4 DEF ProfilePagesTypeOK
  <2>7. PrivacyInv'
    BY <2>2, <2>3, <2>4, <2>5 DEF PrivacyInv
  <2> QED
    BY <2>2, <2>6, <2>7
<1>7. CASE \E i \in DOMAIN watchers : ConsentsFail(i)
  <2>1. PICK i \in DOMAIN watchers : ConsentsFail(i)
    BY <1>7
  <2>2. /\ privacyError' = TRUE /\ privacyLoading' = FALSE /\ watchers' = RemoveAt(watchers, i)
        /\ UNCHANGED <<address, rows, consentsOf, revoking, erasingProfile, overviewVars, editVars>>
    BY <2>1 DEF ConsentsFail
  <2>3. /\ watchers' \in Seq(Accounts \cup {None})
        /\ \A j \in DOMAIN watchers' : \E k \in DOMAIN watchers : watchers'[j] = watchers[k]
    BY <1>0, <2>2, RemoveAtKeeps
  <2>4. ProfilePagesTypeOK'
    BY <2>2, <2>3 DEF ProfilePagesTypeOK
  <2>5. PrivacyInv'
    BY <2>2, <2>3 DEF PrivacyInv
  <2> QED
    BY <2>2, <2>4, <2>5
<1>8. CASE \E a \in Accounts \cup {None} : a # address /\ PrivacyAddress(a)
  <2>1. PICK a \in Accounts \cup {None} : PrivacyAddress(a)
    BY <1>8
  <2>2. /\ address' = a /\ watchers' = [i \in DOMAIN watchers |-> a]
        /\ IF a = None THEN privacyError' = TRUE /\ privacyLoading' = FALSE
                       ELSE UNCHANGED <<privacyError, privacyLoading>>
        /\ UNCHANGED <<rows, consentsOf, revoking, erasingProfile, overviewVars, editVars>>
    BY <2>1 DEF PrivacyAddress, Switched
  <2>3. watchers' \in Seq(Accounts \cup {None}) /\ DOMAIN watchers' = DOMAIN watchers
    <3>1. DOMAIN watchers = 1..Len(watchers) /\ Len(watchers) \in Nat
      BY <1>0, LenProperties
    <3>2. watchers' \in [1..Len(watchers) -> Accounts \cup {None}]
      BY <2>2, <3>1
    <3> QED
      BY <3>1, <3>2, SeqDef
  <2>4. /\ \A j \in DOMAIN watchers' : watchers'[j] = a
        /\ (watchers' = <<>> <=> watchers = <<>>) /\ (watchers' # <<>> <=> DOMAIN watchers' # {})
    BY <1>0, <2>2, <2>3, NoCalls
  <2>5. ProfilePagesTypeOK'
    BY <2>2, <2>3 DEF ProfilePagesTypeOK
  <2>6. PrivacyInv'
    BY <2>2, <2>4 DEF PrivacyInv
  <2> QED
    BY <2>2, <2>5, <2>6
<1> QED
  BY <1>1, <1>2, <1>3, <1>4, <1>5, <1>6, <1>7, <1>8 DEF PrivacyNext

--------------------------------------------------------------------------------
\* The vault page's settings

\* What is stored was saved, and whoever seals or saves has been connected in this tab.
StoreInv ==
  /\ \A k \in Setting : /\ (store[k] = None) <=> (saved[k] = None)
                        /\ store[k] # None => saved[k].value = store[k].value
  /\ IsFiniteSet(connected) /\ (address # None => address \in connected)
  /\ cryptoKey # None => cryptoKey.account \in connected
  /\ \A i \in DOMAIN initCalls : initCalls[i].key.account \in connected
  /\ \A i \in DOMAIN puts : puts[i].account \in connected

\* Between two visits the fields are blank; in one, the page waits for one signature
\* at most, and then loads one setting after the other.
VisitInv ==
  /\ onVault => address # None
  /\ ~onVault => toLoad = <<>> /\ reading = None /\ shown = Blank /\ has = {} /\ unread = {}
  /\ \A i \in DOMAIN puts : puts[i].here => onVault
  /\ \A i \in DOMAIN initCalls : initCalls[i].by = "page" => onVault /\ toLoad = None
  /\ \A i, j \in DOMAIN initCalls : initCalls[i].by = "page" /\ initCalls[j].by = "page" => i = j
  /\ reading # None => toLoad \notin {None, <<>>} /\ reading.item = Head(toLoad)

Pending(k) == \E i \in DOMAIN puts : puts[i].item = k

\* A value is being saved, and not only cleared.
Saving(k) == \E i \in DOMAIN puts : puts[i].item = k /\ puts[i].entry # None

SealedHere(k) ==
  \/ saved[k].account \in connected
  \/ store[k].key # None /\ store[k].key.account \in connected

\* Unless two calls for one setting were under way, a field shows what is being saved
\* or, if nothing is and the last save has not failed, what is stored.
FieldsInv ==
  (onVault /\ ~crossPut) =>
    /\ \A i \in DOMAIN puts : puts[i].here
    /\ \A i, j \in DOMAIN puts : puts[i].item = puts[j].item => i = j
    /\ reading # None => /\ ~Pending(reading.item)
                         /\ reading.text # None => store[reading.item] # None
                         /\ reading.text # None /\ reading.item \notin unread =>
                              reading.text = store[reading.item].value /\ SealedHere(reading.item)
    /\ \A k \in has : store[k] # None
    /\ \A k \in Setting \ unread :
         /\ \A i \in DOMAIN puts : puts[i].item = k /\ puts[i].entry # None =>
                                     shown[k] = puts[i].entry.value
         /\ k \notin rejected /\ shown[k] # None /\ ~Saving(k) =>
              saved[k] # None /\ shown[k] = saved[k].value /\ SealedHere(k)

LEMMA SettingsStart ==
  ASSUME SettingsInit
  PROVE  /\ SettingsTypeOK /\ VisitInv /\ FieldsInv
         /\ address = None => StoreInv
<1>1. /\ initCalls = <<>> /\ initCalls \in Seq([key : Key, by : {"connect", "page"}])
      /\ puts = <<>> /\ puts \in Seq(Put) /\ toLoad \in Seq(Setting)
  BY EmptySeq DEF SettingsInit
<1>2. DOMAIN initCalls = {} /\ DOMAIN puts = {}
  BY <1>1, NoCalls
<1>3. 1 \in 1..MaxDay
  BY SettingsAssumption
<1>4. IsFiniteSet(connected)
  BY FS_EmptySet DEF SettingsInit
<1>5. /\ store \in [Setting -> Entry \cup {None}] /\ shown \in [Setting -> Text \cup {None}]
      /\ saved \in [Setting -> [value : Values, account : Accounts] \cup {None}]
      /\ \A k \in Setting : store[k] = None /\ saved[k] = None
  BY DEF SettingsInit, Blank
<1>6. SettingsTypeOK
  BY <1>1, <1>3, <1>5 DEF SettingsInit, SettingsTypeOK
<1>7. address = None => StoreInv
  BY <1>2, <1>4, <1>5 DEF SettingsInit, StoreInv
<1>8. VisitInv
  BY <1>2 DEF SettingsInit, VisitInv
<1>9. FieldsInv
  BY DEF SettingsInit, FieldsInv
<1> QED
  BY <1>6, <1>7, <1>8, <1>9

\* A transaction keeps the store and what has been saved in step.
LEMMA Committed ==
  ASSUME SettingsTypeOK, StoreInv, NEW p \in Put, Commit(p)
  PROVE  /\ store' \in [Setting -> Entry \cup {None}]
         /\ saved' \in [Setting -> [value : Values, account : Accounts] \cup {None}]
         /\ \A k \in Setting : /\ (store'[k] = None) <=> (saved'[k] = None)
                               /\ store'[k] # None => saved'[k].value = store'[k].value
         /\ \A k \in Setting : k # p.item => store'[k] = store[k] /\ saved'[k] = saved[k]
         /\ store'[p.item] = p.entry
         /\ p.entry # None => saved'[p.item] = [value |-> p.entry.value, account |-> p.account]
<1> DEFINE s == IF p.entry = None THEN None
                ELSE [value |-> p.entry.value, account |-> p.account]
<1>1. /\ p.item \in Setting /\ p.entry \in Entry \cup {None} /\ p.account \in Accounts
  BY DEF Put
<1>2. p.entry # None => p.entry.value \in Values
  BY <1>1 DEF Entry
<1>3. s \in [value : Values, account : Accounts] \cup {None}
  BY <1>1, <1>2
<1>4. s = None <=> p.entry = None
  <2>1. p.entry # None => s \in [value : Values, account : Accounts]
    BY <1>1, <1>2
  <2> QED
    BY <2>1, SettingsAssumption
<1>5. p.entry # None => s = [value |-> p.entry.value, account |-> p.account]
  OBVIOUS
<1>6. store' = [store EXCEPT ![p.item] = p.entry] /\ saved' = [saved EXCEPT ![p.item] = s]
  BY DEF Commit
<1> HIDE DEF s
<1>7. /\ store' \in [Setting -> Entry \cup {None}]
      /\ saved' \in [Setting -> [value : Values, account : Accounts] \cup {None}]
  BY <1>1, <1>3, <1>6 DEF SettingsTypeOK
<1>8. /\ \A k \in Setting : k # p.item => store'[k] = store[k] /\ saved'[k] = saved[k]
      /\ store'[p.item] = p.entry /\ saved'[p.item] = s
  BY <1>1, <1>6 DEF SettingsTypeOK
<1>9. \A k \in Setting : /\ (store'[k] = None) <=> (saved'[k] = None)
                         /\ store'[k] # None => saved'[k].value = store'[k].value
  <2> TAKE k \in Setting
  <2>1. CASE k # p.item
    BY <2>1, <1>8 DEF StoreInv
  <2>2. CASE k = p.item
    BY <2>2, <1>4, <1>5, <1>8
  <2> QED
    BY <2>1, <2>2
<1> QED
  BY <1>5, <1>7, <1>8, <1>9

\* Calls that go on without the page have the same keys, items and accounts.
LEMMA VaultLeft ==
  ASSUME SettingsTypeOK, LeaveVault
  PROVE  /\ initCalls' \in Seq([key : Key, by : {"connect", "page"}]) /\ puts' \in Seq(Put)
         /\ DOMAIN initCalls' = DOMAIN initCalls /\ DOMAIN puts' = DOMAIN puts
         /\ \A i \in DOMAIN initCalls : /\ initCalls'[i].key = initCalls[i].key
                                        /\ initCalls'[i].by = "connect"
         /\ \A i \in DOMAIN puts : puts'[i].account = puts[i].account /\ ~puts'[i].here
<1> DEFINE Call == [key : Key, by : {"connect", "page"}]
<1>1. /\ initCalls \in Seq(Call) /\ Len(initCalls) \in Nat /\ DOMAIN initCalls = 1..Len(initCalls)
      /\ puts \in Seq(Put) /\ Len(puts) \in Nat /\ DOMAIN puts = 1..Len(puts)
  BY NoCalls DEF SettingsTypeOK
<1>2. \A i \in 1..Len(initCalls) : initCalls[i] \in Call
  BY <1>1, ElementOfSeq
<1>3. \A i \in 1..Len(puts) : puts[i] \in Put
  BY <1>1, ElementOfSeq
<1>4. initCalls' = [i \in 1..Len(initCalls) |-> [initCalls[i] EXCEPT !.by = "connect"]]
  BY <1>1 DEF LeaveVault
<1>5. puts' = [i \in 1..Len(puts) |-> [puts[i] EXCEPT !.here = FALSE]]
  BY <1>1 DEF LeaveVault
<1>6. /\ initCalls' \in [1..Len(initCalls) -> Call] /\ DOMAIN initCalls' = 1..Len(initCalls)
      /\ \A i \in DOMAIN initCalls : /\ initCalls'[i].key = initCalls[i].key
                                     /\ initCalls'[i].by = "connect"
  BY <1>1, <1>2, <1>4
<1>7. /\ puts' \in [1..Len(puts) -> Put] /\ DOMAIN puts' = 1..Len(puts)
      /\ \A i \in DOMAIN puts : puts'[i].account = puts[i].account /\ ~puts'[i].here
  <2>1. \A i \in 1..Len(puts) : /\ [puts[i] EXCEPT !.here = FALSE] \in Put
                                /\ [puts[i] EXCEPT !.here = FALSE].account = puts[i].account
                                /\ ~[puts[i] EXCEPT !.here = FALSE].here
    BY <1>3 DEF Put
  <2> QED
    BY <1>1, <1>5, <2>1
<1> HIDE DEF Call
<1>8. initCalls' \in Seq(Call) /\ puts' \in Seq(Put)
  <2>1. initCalls' \in Seq(Call)
    BY <1>1, <1>6, SeqDef
  <2>2. puts' \in Seq(Put)
    BY <1>1, <1>7, SeqDef
  <2> QED
    BY <2>1, <2>2
<1> QED
  BY <1>1, <1>6, <1>7, <1>8 DEF Call

\* The steps of a key: one is asked for, or one comes or is refused.
LEMMA KeyAsked ==
  ASSUME SettingsTypeOK, NEW a \in Accounts, NEW by \in {"connect", "page"}, InitEncryption(a, by)
  PROVE  /\ initCalls' \in Seq([key : Key, by : {"connect", "page"}])
         /\ DOMAIN initCalls' = (DOMAIN initCalls) \cup {Len(initCalls) + 1}
         /\ initCalls'[Len(initCalls) + 1].key.account = a /\ initCalls'[Len(initCalls) + 1].by = by
         /\ \A i \in DOMAIN initCalls : initCalls'[i] = initCalls[i]
<1> DEFINE c == [key |-> KeyFor(a), by |-> by]
           Call == [key : Key, by : {"connect", "page"}]
<1>1. c \in Call /\ c.key.account = a /\ c.by = by
  BY DEF Key, KeyFor, SettingsTypeOK
<1>2. initCalls' = Append(initCalls, c) /\ initCalls \in Seq(Call)
  BY DEF InitEncryption, Sent, SettingsTypeOK
<1> HIDE DEF c, Call
<1>3. /\ initCalls' \in Seq(Call)
      /\ DOMAIN initCalls' = (DOMAIN initCalls) \cup {Len(initCalls) + 1}
      /\ initCalls'[Len(initCalls) + 1] = c
      /\ \A i \in DOMAIN initCalls : initCalls'[i] = initCalls[i]
  BY <1>1, <1>2, AppendKeeps
<1> QED
  BY <1>1, <1>3 DEF Call

LEMMA PutSent ==
  ASSUME SettingsTypeOK, NEW k \in Setting, NEW e \in Entry \cup {None}, NEW a \in Accounts,
         Sent(puts, [item |-> k, entry |-> e, account |-> a, here |-> TRUE])
  PROVE  /\ puts' \in Seq(Put)
         /\ DOMAIN puts' = (DOMAIN puts) \cup {Len(puts) + 1}
         /\ puts'[Len(puts) + 1] = [item |-> k, entry |-> e, account |-> a, here |-> TRUE]
         /\ \A i \in DOMAIN puts : puts'[i] = puts[i]
<1> DEFINE p == [item |-> k, entry |-> e, account |-> a, here |-> TRUE]
<1>1. p \in Put
  BY DEF Put
<1>2. puts' = Append(puts, p) /\ puts \in Seq(Put)
  BY DEF Sent, SettingsTypeOK
<1> HIDE DEF p
<1>3. /\ puts' \in Seq(Put) /\ DOMAIN puts' = (DOMAIN puts) \cup {Len(puts) + 1}
      /\ puts'[Len(puts) + 1] = p /\ \A i \in DOMAIN puts : puts'[i] = puts[i]
  BY <1>1, <1>2, AppendKeeps
<1> QED
  BY <1>3 DEF p

LEMMA Decrypted ==
  ASSUME SettingsTypeOK, StoreInv, NEW k \in Setting
  PROVE  /\ Decrypt(store[k]) \in Text \cup {None}
         /\ Decrypt(store[k]) # None => store[k] # None
         /\ Decrypt(store[k]) # None /\ cryptoKey # None =>
              /\ Decrypt(store[k]) = store[k].value
              /\ store[k].key = cryptoKey
<1>1. store[k] \in Entry \cup {None}
  BY DEF SettingsTypeOK
<1>2. store[k] # None => store[k].value \in Values
  BY <1>1 DEF Entry
<1> QED
  BY <1>2 DEF Decrypt, Text

LEMMA SettingsTypeStep ==
  ASSUME SettingsTypeOK, StoreInv, VisitInv, address \in Accounts \cup {None}, SettingsNext
  PROVE  SettingsTypeOK' /\ address' \in Accounts \cup {None}
<1> DEFINE Call == [key : Key, by : {"connect", "page"}]
<1>0. /\ initCalls \in Seq(Call) /\ puts \in Seq(Put) /\ Items \in Seq(Setting)
      /\ <<>> \in Seq(Setting) /\ <<>> \in Seq(Call) /\ <<>> \in Seq(Put)
      /\ Blank \in [Setting -> Text \cup {None}]
  BY SettingsAssumption, EmptySeq DEF SettingsTypeOK, Blank
<1>1. ASSUME NEW a \in Accounts, SettingsConnect(a)
      PROVE  SettingsTypeOK' /\ address' \in Accounts \cup {None}
  <2>1. initCalls' \in Seq(Call)
    BY <1>0, <1>1, KeyAsked DEF SettingsConnect
  <2> QED
    BY <1>1, <2>1 DEF SettingsConnect, SettingsTypeOK, storeVars, fieldVars
<1>2. CASE SettingsDisconnect
  <2>1. initCalls' \in Seq(Call) /\ puts' \in Seq(Put)
    BY <1>2, VaultLeft DEF SettingsDisconnect
  <2> QED
    BY <1>0, <1>2, <2>1 DEF SettingsDisconnect, LeaveVault, NoFields, SettingsTypeOK, storeVars
<1>3. CASE Reload
  <2>1. /\ store' \in [Setting -> Entry \cup {None}]
        /\ saved' \in [Setting -> [value : Values, account : Accounts] \cup {None}]
    <3>1. CASE UNCHANGED <<store, saved>>
      BY <3>1 DEF SettingsTypeOK
    <3>2. CASE puts # <<>> /\ Commit(Head(puts))
      <4>1. PICK p \in Put : p = Head(puts)
        BY <1>0, <3>2, HeadTailProperties
      <4>2. Commit(p)
        BY <3>2, <4>1 DEF Commit
      <4> QED
        BY <4>2, Committed
    <3> QED
      BY <1>3, <3>1, <3>2 DEF Reload
  <2> QED
    BY <1>0, <1>3, <2>1 DEF Reload, NoFields, SettingsTypeOK
<1>4. CASE NextDay
  BY <1>4, SettingsAssumption DEF NextDay, SettingsTypeOK, storeVars, callVars, fieldVars
<1>5. ASSUME NEW i \in DOMAIN initCalls, Signed(i) \/ Refused(i)
      PROVE  SettingsTypeOK' /\ address' \in Accounts \cup {None}
  <2>1. initCalls[i] \in Call
    <3>1. DOMAIN initCalls = 1..Len(initCalls)
      BY <1>0, NoCalls
    <3> HIDE DEF Call
    <3> QED
      BY <1>0, <3>1, ElementOfSeq
  <2>2. initCalls[i].key \in Key
    BY <2>1
  <2>3. cryptoKey' \in Key \cup {None}
    BY <1>5, <2>2 DEF Signed, Refused, SettingsTypeOK
  <2>4. GoOn(i)
    BY <1>5 DEF Signed, Refused
  <2>5. initCalls' \in Seq(Call)
    BY <1>0, <2>4, RemoveAtKeeps DEF GoOn, Taken
  <2>6. toLoad' = None \/ toLoad' \in Seq(Setting)
    BY <1>0, <2>4 DEF GoOn, SettingsTypeOK
  <2> QED
    BY <2>3, <2>4, <2>5, <2>6 DEF GoOn, SettingsTypeOK
<1>6. CASE OpenVault
  <2>1. initCalls' \in Seq(Call)
    <3>1. PICK a \in Accounts : a = address
      BY <1>6 DEF OpenVault
    <3>2. InitEncryption(a, "page") \/ UNCHANGED initCalls
      BY <1>6, <3>1 DEF OpenVault, InitEncryption
    <3> QED
      BY <1>0, <3>2, KeyAsked
  <2> QED
    BY <1>0, <1>6, <2>1 DEF OpenVault, SettingsTypeOK, storeVars
<1>7. CASE CloseVault
  <2>1. initCalls' \in Seq(Call) /\ puts' \in Seq(Put)
    BY <1>7, VaultLeft DEF CloseVault
  <2> QED
    BY <1>0, <1>7, <2>1 DEF CloseVault, LeaveVault, NoFields, SettingsTypeOK, storeVars
<1>8. CASE ReadItem
  <2>1. Head(toLoad) \in Setting
    BY <1>8, HeadTailProperties DEF ReadItem, SettingsTypeOK
  <2>2. PICK k \in Setting : k = Head(toLoad)
    BY <2>1
  <2>3. Decrypt(store[k]) \in Text \cup {None}
    BY Decrypted
  <2>4. /\ reading' = [item |-> k, text |-> Decrypt(store[k])]
        /\ unread' = IF cryptoKey = None THEN unread \cup {k} ELSE unread
        /\ crossPut' = (crossPut \/ \E i \in DOMAIN puts : puts[i].item = k)
    BY <1>8, <2>2 DEF ReadItem
  <2>5. /\ reading' \in [item : Setting, text : Text \cup {None}] /\ unread' \subseteq Setting
        /\ crossPut' \in BOOLEAN
    BY <2>3, <2>4 DEF SettingsTypeOK
  <2> QED
    BY <1>8, <2>5 DEF ReadItem, SettingsTypeOK, storeVars, callVars
<1>9. CASE GotItem
  <2>1. reading.item \in Setting /\ reading.text \in Text \cup {None}
    BY <1>9 DEF GotItem, SettingsTypeOK
  <2>2. toLoad' \in Seq(Setting)
    BY <1>9, HeadTailProperties DEF GotItem, VisitInv, SettingsTypeOK
  <2>3. shown' \in [Setting -> Text \cup {None}] /\ has' \subseteq Setting
    BY <1>9, <2>1 DEF GotItem, SettingsTypeOK
  <2> QED
    BY <1>9, <2>2, <2>3 DEF GotItem, SettingsTypeOK, storeVars, callVars
<1>10. ASSUME NEW k \in Setting, NEW e \in Entry \cup {None}, StartPut(k, e),
              shown' \in [Setting -> Text \cup {None}]
       PROVE  SettingsTypeOK' /\ address' \in Accounts \cup {None}
  <2>1. PICK a \in Accounts : a = address
    BY <1>10 DEF StartPut, VisitInv
  <2>2. Sent(puts, [item |-> k, entry |-> e, account |-> a, here |-> TRUE])
    BY <1>10, <2>1 DEF StartPut
  <2>3. puts' \in Seq(Put)
    BY <2>2, PutSent
  <2>4. crossPut' \in BOOLEAN
    BY <1>10 DEF StartPut, SettingsTypeOK
  <2> QED
    BY <1>10, <2>3, <2>4 DEF StartPut, SettingsTypeOK, storeVars
<1>11. ASSUME NEW k \in Setting, ClearItem(k)
       PROVE  SettingsTypeOK' /\ address' \in Accounts \cup {None}
  BY <1>10, <1>11 DEF ClearItem, SettingsTypeOK
<1>12. ASSUME NEW k \in Setting, NEW v \in Values, SaveItem(k, v)
       PROVE  SettingsTypeOK' /\ address' \in Accounts \cup {None}
  <2>1. PICK e \in Entry : e = Encrypt(v)
    BY DEF Encrypt, Entry, SettingsTypeOK
  <2>2. StartPut(k, e)
    BY <1>12, <2>1 DEF SaveItem, StartPut
  <2>3. shown' \in [Setting -> Text \cup {None}]
    BY <1>12 DEF SaveItem, SettingsTypeOK, Text
  <2> QED
    BY <1>10, <2>2, <2>3
<1>13. ASSUME NEW i \in DOMAIN puts, PutDone(i)
       PROVE  SettingsTypeOK' /\ address' \in Accounts \cup {None}
  <2>1. PICK p \in Put : p = puts[i]
    BY <1>0, ElementOfSeq, NoCalls
  <2>2. Commit(p)
    BY <1>13, <2>1 DEF PutDone, Commit
  <2>3. /\ store' \in [Setting -> Entry \cup {None}]
        /\ saved' \in [Setting -> [value : Values, account : Accounts] \cup {None}]
    BY <2>2, Committed
  <2>4. puts' \in Seq(Put)
    BY <1>0, <1>13, RemoveAtKeeps DEF PutDone, Taken
  <2>5. p.item \in Setting
    BY DEF Put
  <2>6. shown' \in [Setting -> Text \cup {None}] /\ has' \subseteq Setting
    BY <1>13, <2>1, <2>5 DEF PutDone, SettingsTypeOK
  <2>7. rejected' \subseteq Setting
    BY <1>13 DEF PutDone, SettingsTypeOK
  <2> QED
    BY <1>13, <2>3, <2>4, <2>6, <2>7 DEF PutDone, SettingsTypeOK
<1>14. ASSUME NEW i \in DOMAIN puts, PutFails(i)
       PROVE  SettingsTypeOK' /\ address' \in Accounts \cup {None}
  <2>1. PICK p \in Put : p = puts[i]
    BY <1>0, ElementOfSeq, NoCalls
  <2>2. puts' \in Seq(Put)
    BY <1>0, <1>14, RemoveAtKeeps DEF PutFails, Taken
  <2>3. rejected' \subseteq Setting
    BY <1>14, <2>1 DEF PutFails, SettingsTypeOK, Put
  <2> QED
    BY <1>14, <2>2, <2>3 DEF PutFails, SettingsTypeOK, storeVars
<1>15. CASE ReadFails
  BY <1>0, <1>15 DEF ReadFails, SettingsTypeOK, storeVars, callVars
<1> QED
  BY <1>1, <1>2, <1>3, <1>4, <1>5, <1>6, <1>7, <1>8, <1>9, <1>11, <1>12, <1>13, <1>14, <1>15
     DEF SettingsNext

LEMMA StoreStep ==
  ASSUME SettingsTypeOK, StoreInv, VisitInv, address \in Accounts \cup {None}, SettingsNext
  PROVE  StoreInv'
<1> DEFINE InStep == \A k \in Setting : /\ (store[k] = None) <=> (saved[k] = None)
                                        /\ store[k] # None => saved[k].value = store[k].value
           Here   == IsFiniteSet(connected) /\ (address # None => address \in connected)
           Sealer == cryptoKey # None => cryptoKey.account \in connected
           Askers == \A i \in DOMAIN initCalls : initCalls[i].key.account \in connected
           Savers == \A i \in DOMAIN puts : puts[i].account \in connected
<1> SUFFICES InStep' /\ Here' /\ Sealer' /\ Askers' /\ Savers'
  BY DEF StoreInv
<1>0. /\ InStep /\ Here /\ Sealer /\ Askers /\ Savers
      /\ puts \in Seq(Put) /\ initCalls \in Seq([key : Key, by : {"connect", "page"}])
  BY DEF StoreInv, SettingsTypeOK
<1>1. ASSUME NEW a \in Accounts, SettingsConnect(a)
      PROVE  InStep' /\ Here' /\ Sealer' /\ Askers' /\ Savers'
  <2>1. Here'
    BY <1>0, <1>1, FS_AddElement DEF SettingsConnect
  <2>2. Askers'
    <3>1. CASE InitEncryption(a, "connect")
      BY <1>0, <1>1, <3>1, KeyAsked DEF SettingsConnect
    <3>2. CASE UNCHANGED initCalls
      BY <1>0, <1>1, <3>2 DEF SettingsConnect
    <3> QED
      BY <1>1, <3>1, <3>2 DEF SettingsConnect
  <2> QED
    BY <1>0, <1>1, <2>1, <2>2 DEF SettingsConnect, storeVars
<1>2. CASE LeaveVault /\ address' \in {None, address} /\ UNCHANGED <<day, storeVars, connected>>
  <2>1. Askers' /\ Savers'
    BY <1>0, <1>2, VaultLeft
  <2> QED
    BY <1>0, <1>2, <2>1 DEF storeVars
<1>3. CASE Reload
  <2>1. InStep'
    <3>1. CASE UNCHANGED <<store, saved>>
      BY <1>0, <3>1
    <3>2. CASE puts # <<>> /\ Commit(Head(puts))
      <4>1. PICK p \in Put : p = Head(puts)
        BY <1>0, <3>2, HeadTailProperties
      <4>2. Commit(p)
        BY <3>2, <4>1 DEF Commit
      <4> QED
        BY <4>2, Committed
    <3> QED
      BY <1>3, <3>1, <3>2 DEF Reload
  <2>2. DOMAIN initCalls' = {} /\ DOMAIN puts' = {}
    BY <1>3, EmptySeq, NoCalls DEF Reload
  <2>3. IsFiniteSet(connected')
    BY <1>3, FS_EmptySet DEF Reload
  <2> QED
    BY <1>3, <2>1, <2>2, <2>3 DEF Reload
<1>4. CASE NextDay \/ ReadItem \/ GotItem \/ ReadFails
  BY <1>0, <1>4 DEF NextDay, ReadItem, GotItem, ReadFails, storeVars, callVars
<1>5. ASSUME NEW i \in DOMAIN initCalls, Signed(i) \/ Refused(i)
      PROVE  InStep' /\ Here' /\ Sealer' /\ Askers' /\ Savers'
  <2>1. GoOn(i)
    BY <1>5 DEF Signed, Refused
  <2>2. Askers'
    BY <1>0, <2>1, RemoveAtKeeps DEF GoOn, Taken
  <2>3. Sealer'
    BY <1>0, <1>5, <2>1 DEF Signed, Refused, GoOn
  <2> QED
    BY <1>0, <2>1, <2>2, <2>3 DEF GoOn
<1>6. CASE OpenVault
  <2>1. Askers'
    <3>1. PICK a \in Accounts : a = address
      BY <1>6 DEF OpenVault
    <3>2. CASE InitEncryption(a, "page")
      BY <1>0, <1>6, <3>1, <3>2, KeyAsked, BrowserAssumption DEF OpenVault
    <3>3. CASE UNCHANGED initCalls
      BY <1>0, <1>6, <3>3 DEF OpenVault
    <3> QED
      BY <1>6, <3>1, <3>2, <3>3 DEF OpenVault, InitEncryption
  <2> QED
    BY <1>0, <1>6, <2>1 DEF OpenVault, storeVars
<1>7. ASSUME NEW k \in Setting, NEW e \in Entry \cup {None}, StartPut(k, e)
      PROVE  InStep' /\ Here' /\ Sealer' /\ Askers' /\ Savers'
  <2>1. PICK a \in Accounts : a = address
    BY <1>7 DEF StartPut, VisitInv
  <2>2. Sent(puts, [item |-> k, entry |-> e, account |-> a, here |-> TRUE])
    BY <1>7, <2>1 DEF StartPut
  <2>3. a \in connected
    BY <1>0, <2>1, BrowserAssumption
  <2>4. Savers'
    <3>1. /\ DOMAIN puts' = (DOMAIN puts) \cup {Len(puts) + 1}
          /\ puts'[Len(puts) + 1] = [item |-> k, entry |-> e, account |-> a, here |-> TRUE]
          /\ \A i \in DOMAIN puts : puts'[i] = puts[i]
      BY <2>2, PutSent
    <3>2. puts'[Len(puts) + 1].account = a
      BY <3>1
    <3> QED
      BY <1>0, <1>7, <2>3, <3>1, <3>2 DEF StartPut
  <2> QED
    BY <1>0, <1>7, <2>4 DEF StartPut, storeVars
<1>8. ASSUME NEW k \in Setting, ClearItem(k) \/ \E v \in Values : SaveItem(k, v)
      PROVE  InStep' /\ Here' /\ Sealer' /\ Askers' /\ Savers'
  <2>1. \A v \in Values : Encrypt(v) \in Entry
    BY DEF Encrypt, Entry, SettingsTypeOK
  <2>2. PICK e \in Entry \cup {None} : StartPut(k, e)
    <3>1. CASE ClearItem(k)
      BY <3>1 DEF ClearItem
    <3>2. CASE \E v \in Values : SaveItem(k, v)
      <4>1. PICK v \in Values : SaveItem(k, v)
        BY <3>2
      <4>2. PICK e \in Entry : e = Encrypt(v)
        BY <2>1
      <4>3. StartPut(k, e)
        BY <4>1, <4>2 DEF SaveItem, StartPut
      <4> QED
        BY <4>3
    <3> QED
      BY <1>8, <3>1, <3>2
  <2> QED
    BY <1>7, <2>2
<1>9. ASSUME NEW i \in DOMAIN puts, PutDone(i)
      PROVE  InStep' /\ Here' /\ Sealer' /\ Askers' /\ Savers'
  <2>1. PICK p \in Put : p = puts[i]
    BY <1>0, ElementOfSeq, NoCalls
  <2>2. Commit(p)
    BY <1>9, <2>1 DEF PutDone, Commit
  <2>3. InStep'
    BY <2>2, Committed
  <2>4. Savers'
    BY <1>0, <1>9, RemoveAtKeeps DEF PutDone, Taken
  <2> QED
    BY <1>0, <1>9, <2>3, <2>4 DEF PutDone
<1>10. SettingsDisconnect \/ CloseVault =>
         LeaveVault /\ address' \in {None, address} /\ UNCHANGED <<day, storeVars, connected>>
  BY DEF SettingsDisconnect, CloseVault
<1>11. ASSUME NEW i \in DOMAIN puts, PutFails(i)
       PROVE  InStep' /\ Here' /\ Sealer' /\ Askers' /\ Savers'
  <2>1. Savers'
    BY <1>0, <1>11, RemoveAtKeeps DEF PutFails, Taken
  <2> QED
    BY <1>0, <1>11, <2>1 DEF PutFails, storeVars
<1> QED
  BY <1>1, <1>2, <1>3, <1>4, <1>5, <1>6, <1>8, <1>9, <1>10, <1>11 DEF SettingsNext

LEMMA VisitStep ==
  ASSUME SettingsTypeOK, VisitInv, address \in Accounts \cup {None}, SettingsNext
  PROVE  VisitInv'
<1> DEFINE Open   == /\ onVault => address # None
                     /\ ~onVault => toLoad = <<>> /\ reading = None /\ shown = Blank /\ has = {}
                                    /\ unread = {}
           Mine   == \A i \in DOMAIN puts : puts[i].here => onVault
           Waits  == \A i \in DOMAIN initCalls : initCalls[i].by = "page" => onVault /\ toLoad = None
           Once   == \A i, j \in DOMAIN initCalls :
                       initCalls[i].by = "page" /\ initCalls[j].by = "page" => i = j
           Reads  == reading # None => toLoad \notin {None, <<>>} /\ reading.item = Head(toLoad)
<1> SUFFICES Open' /\ Mine' /\ Waits' /\ Once' /\ Reads'
  BY DEF VisitInv
<1>0. /\ Open /\ Mine /\ Waits /\ Once /\ Reads /\ puts \in Seq(Put)
      /\ initCalls \in Seq([key : Key, by : {"connect", "page"}])
  BY DEF VisitInv, SettingsTypeOK
<1>1. ASSUME NEW a \in Accounts, SettingsConnect(a)
      PROVE  Open' /\ Mine' /\ Waits' /\ Once' /\ Reads'
  <2>1. Open' /\ Mine' /\ Reads'
    BY <1>0, <1>1, BrowserAssumption DEF SettingsConnect, fieldVars
  <2>2. CASE InitEncryption(a, "connect")
    <3>1. Waits' /\ Once'
      BY <1>0, <1>1, <2>2, KeyAsked DEF SettingsConnect, fieldVars
    <3> QED
      BY <2>1, <3>1
  <2>3. CASE UNCHANGED initCalls
    BY <1>0, <1>1, <2>1, <2>3 DEF SettingsConnect, fieldVars
  <2> QED
    BY <1>1, <2>2, <2>3 DEF SettingsConnect
<1>2. CASE SettingsDisconnect \/ CloseVault
  <2>1. LeaveVault
    BY <1>2 DEF SettingsDisconnect, CloseVault
  <2>2. Mine' /\ Waits' /\ Once'
    BY <2>1, VaultLeft
  <2> QED
    BY <2>1, <2>2 DEF LeaveVault, NoFields
<1>3. CASE Reload
  <2>1. DOMAIN initCalls' = {} /\ DOMAIN puts' = {}
    BY <1>3, EmptySeq, NoCalls DEF Reload
  <2> QED
    BY <1>3, <2>1 DEF Reload, NoFields
<1>4. CASE NextDay
  BY <1>0, <1>4 DEF NextDay, fieldVars, callVars
<1>5. ASSUME NEW i \in DOMAIN initCalls, Signed(i) \/ Refused(i)
      PROVE  Open' /\ Mine' /\ Waits' /\ Once' /\ Reads'
  <2>1. GoOn(i)
    BY <1>5 DEF Signed, Refused
  <2>2. \A j \in DOMAIN initCalls' : \E k \in DOMAIN initCalls :
          k # i /\ initCalls'[j] = initCalls[k]
    BY <1>0, <2>1, RemoveAtKeeps DEF GoOn, Taken
  <2>3. \A j1, j2 \in DOMAIN initCalls' : j1 # j2 =>
          \E k1, k2 \in DOMAIN initCalls :
             k1 # k2 /\ initCalls'[j1] = initCalls[k1] /\ initCalls'[j2] = initCalls[k2]
    BY <1>0, <2>1, RemoveAtApart DEF GoOn, Taken
  <2>4. Once'
    BY <1>0, <2>3
  <2>5. Mine' /\ Waits' /\ Reads' /\ Open'
    <3>1. CASE initCalls[i].by = "page"
      <4>1. \A j \in DOMAIN initCalls' : initCalls'[j].by # "page"
        BY <1>0, <2>2, <3>1
      <4>2. onVault /\ reading = None
        BY <1>0, <3>1
      <4> QED
        BY <1>0, <2>1, <4>1, <4>2 DEF GoOn
    <3>2. CASE initCalls[i].by # "page"
      <4>1. toLoad' = toLoad
        BY <2>1, <3>2 DEF GoOn
      <4> QED
        BY <1>0, <2>1, <2>2, <4>1 DEF GoOn
    <3> QED
      BY <3>1, <3>2
  <2> QED
    BY <2>4, <2>5
<1>6. CASE OpenVault
  <2>1. \A i \in DOMAIN initCalls : initCalls[i].by # "page"
    BY <1>0, <1>6 DEF OpenVault
  <2>2. reading' = None /\ onVault' /\ address' # None /\ Mine'
    BY <1>0, <1>6 DEF OpenVault
  <2>3. CASE toLoad' = None /\ InitEncryption(address, "page")
    <3>1. PICK a \in Accounts : a = address
      BY <1>6 DEF OpenVault
    <3>2. InitEncryption(a, "page")
      BY <2>3, <3>1 DEF InitEncryption
    <3>3. Waits' /\ Once'
      BY <2>1, <2>2, <2>3, <3>2, KeyAsked
    <3> QED
      BY <2>2, <3>3
  <2>4. CASE UNCHANGED initCalls
    BY <2>1, <2>2, <2>4
  <2> QED
    BY <1>6, <2>3, <2>4 DEF OpenVault
<1>7. CASE ReadItem
  <2>1. onVault
    BY <1>0, <1>7 DEF ReadItem
  <2> QED
    BY <1>0, <1>7, <2>1 DEF ReadItem, callVars
<1>8. CASE GotItem
  <2>1. onVault /\ toLoad # None
    BY <1>0, <1>8 DEF GotItem
  <2>2. \A i \in DOMAIN initCalls : initCalls[i].by # "page"
    BY <1>0, <2>1
  <2> QED
    BY <1>0, <1>8, <2>1, <2>2 DEF GotItem, callVars
<1>11. CASE ReadFails
  <2>1. onVault /\ toLoad # None
    BY <1>0, <1>11 DEF ReadFails
  <2>2. \A i \in DOMAIN initCalls : initCalls[i].by # "page"
    BY <1>0, <2>1
  <2> QED
    BY <1>0, <1>11, <2>1, <2>2 DEF ReadFails, callVars
<1>12. CASE \E i \in DOMAIN puts : PutFails(i)
  <2>1. PICK i \in DOMAIN puts : PutFails(i)
    BY <1>12
  <2>2. Mine'
    BY <1>0, <2>1, RemoveAtKeeps DEF PutFails, Taken
  <2> QED
    BY <1>0, <2>1, <2>2 DEF PutFails
<1>9. CASE \E k \in Setting : ClearItem(k) \/ \E v \in Values : SaveItem(k, v)
  <2>1. /\ onVault /\ UNCHANGED <<address, initCalls, toLoad, reading, onVault>>
    BY <1>9 DEF ClearItem, SaveItem, StartPut
  <2> QED
    BY <1>0, <2>1
<1>10. CASE \E i \in DOMAIN puts : PutDone(i)
  <2>1. PICK i \in DOMAIN puts : PutDone(i)
    BY <1>10
  <2>2. Mine'
    BY <1>0, <2>1, RemoveAtKeeps DEF PutDone, Taken
  <2>3. ~onVault => UNCHANGED <<shown, has>>
    BY <1>0, <2>1 DEF PutDone
  <2> QED
    BY <1>0, <2>1, <2>2, <2>3 DEF PutDone
<1> QED
  BY <1>1, <1>2, <1>3, <1>4, <1>5, <1>6, <1>7, <1>8, <1>9, <1>10, <1>11, <1>12 DEF SettingsNext

LEMMA FieldsStep ==
  ASSUME SettingsTypeOK, StoreInv, VisitInv, FieldsInv, address \in Accounts \cup {None},
         SettingsNext
  PROVE  FieldsInv'
<1> DEFINE Mine  == \A i \in DOMAIN puts : puts[i].here
           Apart == \A i, j \in DOMAIN puts : puts[i].item = puts[j].item => i = j
           Read  == reading # None =>
                      /\ ~Pending(reading.item)
                      /\ reading.text # None => store[reading.item] # None
                      /\ reading.text # None /\ reading.item \notin unread =>
                           reading.text = store[reading.item].value /\ SealedHere(reading.item)
           Has   == \A k \in has : store[k] # None
           Saves(k) == \A i \in DOMAIN puts : puts[i].item = k /\ puts[i].entry # None =>
                                                shown[k] = puts[i].entry.value
           Shows(k) == k \notin rejected /\ shown[k] # None /\ ~Saving(k) =>
                         saved[k] # None /\ shown[k] = saved[k].value /\ SealedHere(k)
           Holds == Mine /\ Apart /\ Read /\ Has /\ \A k \in Setting \ unread : Saves(k) /\ Shows(k)
<1>0. (onVault /\ ~crossPut) => Holds
  BY DEF FieldsInv
<1>00. /\ puts \in Seq(Put) /\ shown \in [Setting -> Text \cup {None}]
       /\ store \in [Setting -> Entry \cup {None}] /\ unread \subseteq Setting
       /\ \A k \in Setting : (store[k] = None) <=> (saved[k] = None)
       /\ \A k \in Setting : store[k] # None => saved[k].value = store[k].value
  BY DEF SettingsTypeOK, StoreInv
<1> SUFFICES ASSUME (onVault /\ ~crossPut)'
             PROVE  Holds'
  BY DEF FieldsInv
<1>1. ASSUME NEW a \in Accounts, SettingsConnect(a)
      PROVE  Holds'
  <2>1. ~onVault'
    BY <1>1 DEF SettingsConnect, VisitInv
  <2> QED
    BY <2>1
<1>2. CASE SettingsDisconnect \/ CloseVault \/ Reload
  <2>1. ~onVault'
    BY <1>2 DEF SettingsDisconnect, CloseVault, Reload, LeaveVault
  <2> QED
    BY <2>1
<1>3. CASE NextDay \/ \E i \in DOMAIN initCalls : Signed(i) \/ Refused(i)
  <2>1. UNCHANGED <<store, puts, saved, onVault, reading, shown, has, unread, rejected, connected,
                    crossPut>>
    BY <1>3 DEF NextDay, Signed, Refused, GoOn, storeVars, callVars, fieldVars
  <2> QED
    BY <1>0, <2>1 DEF Pending, Saving, SealedHere
<1>4. CASE OpenVault
  <2>1. /\ reading' = None /\ shown' = Blank /\ has' = {} /\ puts' = <<>>
    BY <1>4 DEF OpenVault, VisitInv
  <2>2. DOMAIN puts' = {}
    BY <2>1, EmptySeq, NoCalls
  <2>3. \A k \in Setting : shown'[k] = None
    BY <2>1 DEF Blank
  <2> QED
    BY <2>1, <2>2, <2>3
<1>5. CASE ReadItem
  <2>1. Head(toLoad) \in Setting
    BY <1>5, HeadTailProperties DEF ReadItem, SettingsTypeOK
  <2>2. PICK k \in Setting : k = Head(toLoad)
    BY <2>1
  <2>3. /\ reading' = [item |-> k, text |-> Decrypt(store[k])]
        /\ unread' = IF cryptoKey = None THEN unread \cup {k} ELSE unread
        /\ ~crossPut /\ ~Pending(k) /\ onVault
        /\ UNCHANGED <<store, saved, cryptoKey, puts, shown, has, rejected, connected>>
    BY <1>5, <2>2 DEF ReadItem, Pending, storeVars, callVars
  <2>4. Holds
    BY <1>0, <2>3
  <2>5. /\ Decrypt(store[k]) # None => store[k] # None
        /\ Decrypt(store[k]) # None /\ cryptoKey # None =>
             Decrypt(store[k]) = store[k].value /\ store[k].key = cryptoKey
    BY Decrypted
  <2>6. Decrypt(store[k]) # None /\ cryptoKey # None => SealedHere(k)
    BY <2>5 DEF SealedHere, StoreInv
  <2>7. reading'.item = k /\ reading'.text = Decrypt(store[k])
    BY <2>3
  <2>8. k \notin unread' => cryptoKey # None
    BY <2>3
  <2>9. Read'
    BY <2>3, <2>5, <2>6, <2>7, <2>8 DEF Pending, Saving, SealedHere
  <2>10. unread \subseteq unread'
    BY <2>3
  <2> QED
    BY <2>3, <2>4, <2>9, <2>10 DEF Pending, Saving, SealedHere
<1>6. CASE GotItem
  <2>1. reading.item \in Setting
    BY <1>6 DEF GotItem, SettingsTypeOK
  <2>2. PICK k \in Setting : k = reading.item
    BY <2>1
  <2>3. /\ reading # None /\ reading' = None
        /\ UNCHANGED <<store, saved, puts, unread, rejected, onVault, connected, crossPut>>
    BY <1>6 DEF GotItem, storeVars, callVars
  <2>4. Holds
    BY <1>0, <2>3
  <2>5. CASE UNCHANGED <<shown, has>>
    BY <2>3, <2>4, <2>5 DEF Pending, Saving, SealedHere
  <2>6. CASE /\ reading.text # None
             /\ shown' = [shown EXCEPT ![reading.item] = reading.text]
             /\ has' = has \cup {reading.item}
    <3>1. /\ shown'[k] = reading.text
          /\ \A m \in Setting : m # k => shown'[m] = shown[m]
      BY <1>00, <2>2, <2>6
    <3>2. Has'
      BY <2>2, <2>3, <2>4, <2>6
    <3>3. \A m \in Setting \ unread : m # k => Saves(m)' /\ Shows(m)'
      BY <2>3, <2>4, <3>1 DEF Pending, Saving, SealedHere
    <3>4. k \notin unread => Saves(k)' /\ Shows(k)'
      <4>1. ~Pending(k) /\ store[k] # None
        BY <2>2, <2>3, <2>4, <2>6
      <4>2. k \notin unread => reading.text = store[k].value /\ SealedHere(k)
        BY <2>2, <2>3, <2>4, <2>6
      <4>3. saved[k] # None /\ saved[k].value = store[k].value
        BY <1>00, <4>1
      <4> QED
        BY <2>3, <3>1, <4>1, <4>2, <4>3 DEF Pending, Saving, SealedHere
    <3> QED
      BY <2>3, <2>4, <3>2, <3>3, <3>4
  <2> QED
    BY <1>6, <2>5, <2>6 DEF GotItem
<1>7. ASSUME NEW k \in Setting, NEW e \in Entry \cup {None}, StartPut(k, e),
             \A m \in Setting : m # k => shown'[m] = shown[m],
             shown'[k] = IF e = None THEN shown[k] ELSE e.value
      PROVE  Holds'
  <2>1. PICK a \in Accounts : a = address
    BY <1>7 DEF StartPut, VisitInv
  <2>2. Sent(puts, [item |-> k, entry |-> e, account |-> a, here |-> TRUE])
    BY <1>7, <2>1 DEF StartPut
  <2>3. PICK n : n = Len(puts) + 1
    OBVIOUS
  <2> DEFINE p == [item |-> k, entry |-> e, account |-> a, here |-> TRUE]
  <2>4. /\ DOMAIN puts' = (DOMAIN puts) \cup {n} /\ puts'[n] = p
        /\ \A i \in DOMAIN puts : puts'[i] = puts[i]
    BY <2>2, <2>3, PutSent
  <2>5. p.item = k /\ p.entry = e /\ p.here
    OBVIOUS
  <2> HIDE DEF p
  <2>6. /\ ~crossPut /\ onVault /\ ~Pending(k) /\ (reading # None => reading.item # k)
        /\ UNCHANGED <<store, saved, reading, has, unread, rejected, connected>>
    BY <1>7 DEF StartPut, Pending, storeVars
  <2>7. Holds
    BY <1>0, <2>6
  <2>8. \A i \in DOMAIN puts : puts[i].item # k
    BY <2>6 DEF Pending
  <2>9. Mine' /\ Apart'
    BY <2>4, <2>5, <2>7, <2>8
  <2>10. \A m \in Setting : m # k => (Saving(m)' <=> Saving(m))
    BY <2>4, <2>5 DEF Saving
  <2>11. reading # None => ~Pending(reading.item)'
    BY <2>4, <2>5, <2>6, <2>7 DEF Pending
  <2>12. Read'
    BY <2>6, <2>7, <2>11 DEF SealedHere, Pending
  <2>13. Has'
    BY <2>6, <2>7
  <2>14. \A m \in Setting \ unread : m # k => Saves(m)' /\ Shows(m)'
    BY <1>7, <2>4, <2>5, <2>6, <2>7, <2>10 DEF SealedHere
  <2>15. k \notin unread => Saves(k)' /\ Shows(k)'
    <3>1. Saves(k)'
      BY <1>7, <2>4, <2>5, <2>8
    <3>2. CASE e # None
      <4>1. Saving(k)'
        BY <2>4, <2>5, <3>2 DEF Saving
      <4> QED
        BY <3>1, <4>1
    <3>3. CASE e = None
      <4>1. ~Saving(k) /\ shown'[k] = shown[k]
        BY <1>7, <2>8, <3>3 DEF Saving
      <4> QED
        BY <2>6, <2>7, <3>1, <4>1 DEF SealedHere
    <3> QED
      BY <3>2, <3>3
  <2> QED
    BY <2>6, <2>9, <2>12, <2>13, <2>14, <2>15
<1>8. ASSUME NEW k \in Setting, ClearItem(k)
      PROVE  Holds'
  BY <1>7, <1>8 DEF ClearItem
<1>9. ASSUME NEW k \in Setting, NEW v \in Values, SaveItem(k, v)
      PROVE  Holds'
  <2>1. PICK e \in Entry : e = Encrypt(v)
    BY DEF Encrypt, Entry, SettingsTypeOK
  <2>2. StartPut(k, e)
    BY <1>9, <2>1 DEF SaveItem, StartPut
  <2>3. e.value = v
    BY <2>1 DEF Encrypt
  <2>4. /\ shown'[k] = v
        /\ \A m \in Setting : m # k => shown'[m] = shown[m]
    BY <1>00, <1>9 DEF SaveItem
  <2> QED
    BY <1>7, <2>2, <2>3, <2>4, SettingsAssumption
<1>10. ASSUME NEW i \in DOMAIN puts, PutDone(i)
       PROVE  Holds'
  <2>1. puts[i] \in Put
    BY <1>00, ElementOfSeq, NoCalls
  <2>2. PICK p \in Put : p = puts[i]
    BY <2>1
  <2>3. PICK k \in Setting : k = p.item
    BY DEF Put
  <2>4. Commit(p)
    BY <1>10, <2>2 DEF PutDone, Commit
  <2>5. /\ \A m \in Setting : m # k => store'[m] = store[m] /\ saved'[m] = saved[m]
        /\ store'[k] = p.entry
        /\ p.entry # None => saved'[k] = [value |-> p.entry.value, account |-> p.account]
        /\ \A m \in Setting : (store'[m] = None) <=> (saved'[m] = None)
    BY <2>3, <2>4, Committed
  <2>6. /\ onVault /\ ~crossPut /\ UNCHANGED <<reading, unread, connected>>
        /\ Taken(puts, i) /\ rejected \ {k} \subseteq rejected'
    BY <1>10, <2>2, <2>3 DEF PutDone
  <2>7. Holds
    BY <1>0, <2>6
  <2>8. \A j \in DOMAIN puts' : \E m \in DOMAIN puts : m # i /\ puts'[j] = puts[m]
    BY <1>00, <2>6, RemoveAtKeeps DEF Taken
  <2>9. \A j1, j2 \in DOMAIN puts' : j1 # j2 =>
          \E k1, k2 \in DOMAIN puts : k1 # k2 /\ puts'[j1] = puts[k1] /\ puts'[j2] = puts[k2]
    BY <1>00, <2>6, RemoveAtApart DEF Taken
  <2>10. Mine' /\ Apart'
    BY <2>7, <2>8, <2>9
  <2>11. p.here
    BY <2>2, <2>7
  <2>12. \A m \in Setting : m # k => (Pending(m) <=> Pending(m)') /\ (Saving(m) <=> Saving(m)')
    <3>1. \A j \in DOMAIN puts : j # i => \E m \in DOMAIN puts' : puts'[m] = puts[j]
      BY <1>00, <2>6, RemoveAtLeaves DEF Taken
    <3> QED
      BY <2>2, <2>3, <2>8, <3>1 DEF Pending, Saving
  <2>13. ~Pending(k)'
    BY <2>2, <2>3, <2>7, <2>8 DEF Pending
  <2>14. /\ \A m \in Setting : m # k => shown'[m] = shown[m]
         /\ p.entry = None => shown'[k] = None /\ has' = has \ {k}
         /\ p.entry # None => shown'[k] = shown[k] /\ has' = has \cup {k}
    BY <1>00, <1>10, <2>2, <2>3, <2>11 DEF PutDone
  <2>15. Has'
    <3>1. \A m \in has : m \in Setting
      BY DEF SettingsTypeOK
    <3> QED
      BY <2>5, <2>7, <2>14, <3>1
  <2>16. Read'
    <3>1. reading # None => reading.item \in Setting /\ reading.item # k
      BY <2>2, <2>3, <2>7 DEF Pending, SettingsTypeOK
    <3> QED
      BY <2>5, <2>6, <2>7, <2>12, <3>1 DEF SealedHere
  <2>17. \A m \in Setting \ unread : m # k => Saves(m)' /\ Shows(m)'
    BY <2>5, <2>6, <2>7, <2>8, <2>12, <2>14 DEF SealedHere
  <2>18. k \notin unread => Saves(k)' /\ Shows(k)'
    <3>1. Saves(k)'
      BY <2>13 DEF Pending
    <3>2. CASE p.entry = None
      BY <2>14, <3>1, <3>2
    <3>3. CASE p.entry # None
      <4>1. saved'[k].value = p.entry.value /\ saved'[k].account = p.account
        BY <2>5, <3>3
      <4>2. p.account \in connected
        BY <2>2 DEF StoreInv
      <4>3. k \notin unread => shown'[k] = p.entry.value
        BY <2>2, <2>3, <2>7, <2>14, <3>3
      <4>4. saved'[k] # None
        BY <2>5, <3>3
      <4>5. SealedHere(k)'
        BY <2>6, <4>1, <4>2 DEF SealedHere
      <4> QED
        BY <3>1, <4>1, <4>3, <4>4, <4>5
    <3> QED
      BY <3>2, <3>3
  <2> QED
    BY <2>6, <2>10, <2>15, <2>16, <2>17, <2>18
<1>11. ASSUME NEW i \in DOMAIN puts, PutFails(i)
       PROVE  Holds'
  <2>1. puts[i] \in Put
    BY <1>00, ElementOfSeq, NoCalls
  <2>2. PICK p \in Put : p = puts[i]
    BY <2>1
  <2>3. PICK k \in Setting : k = p.item
    BY DEF Put
  <2>4. /\ onVault /\ ~crossPut /\ Taken(puts, i)
        /\ UNCHANGED <<store, saved, reading, shown, has, unread, connected>>
    BY <1>11 DEF PutFails, storeVars
  <2>5. Holds
    BY <1>0, <2>4
  <2>6. \A j \in DOMAIN puts' : \E m \in DOMAIN puts : m # i /\ puts'[j] = puts[m]
    BY <1>00, <2>4, RemoveAtKeeps DEF Taken
  <2>7. \A j1, j2 \in DOMAIN puts' : j1 # j2 =>
          \E k1, k2 \in DOMAIN puts : k1 # k2 /\ puts'[j1] = puts[k1] /\ puts'[j2] = puts[k2]
    BY <1>00, <2>4, RemoveAtApart DEF Taken
  <2>8. Mine' /\ Apart' /\ Has'
    BY <2>4, <2>5, <2>6, <2>7
  <2>9. p.here /\ rejected \subseteq rejected' /\ (p.entry # None => k \in rejected')
    BY <1>11, <2>2, <2>3, <2>5 DEF PutFails
  <2>10. \A j \in DOMAIN puts : j # i => \E m \in DOMAIN puts' : puts'[m] = puts[j]
    BY <1>00, <2>4, RemoveAtLeaves DEF Taken
  <2>11. \A m \in Setting : m # k => (Saving(m) <=> Saving(m)')
    BY <2>2, <2>3, <2>6, <2>10 DEF Saving
  <2>12. p.entry = None => (Saving(k) <=> Saving(k)')
    BY <2>2, <2>3, <2>6, <2>10 DEF Saving
  <2>13. Read'
    BY <2>4, <2>5, <2>6 DEF Pending, SealedHere
  <2>14. \A m \in Setting \ unread : Saves(m)'
    BY <2>4, <2>5, <2>6
  <2>15. \A m \in Setting \ unread : Shows(m)'
    BY <2>4, <2>5, <2>9, <2>11, <2>12 DEF SealedHere
  <2> QED
    BY <2>4, <2>8, <2>13, <2>14, <2>15
<1>12. CASE ReadFails
  <2>1. /\ reading' = None /\ onVault /\ ~crossPut
        /\ UNCHANGED <<store, saved, puts, shown, has, unread, rejected, connected>>
    BY <1>12 DEF ReadFails, storeVars, callVars
  <2> QED
    BY <1>0, <2>1 DEF Pending, Saving, SealedHere
<1> QED
  BY <1>1, <1>2, <1>3, <1>4, <1>5, <1>6, <1>8, <1>9, <1>10, <1>11, <1>12 DEF SettingsNext

\* What the settings promise follows.
LEMMA SettingsKept ==
  ASSUME SettingsTypeOK, StoreInv, VisitInv, FieldsInv
  PROVE  SettingsComeBack /\ SettingsStayWithTheirAccount
<1>1. ASSUME Settled
      PROVE  \A k \in Setting : ~Saving(k)
  BY <1>1, EmptySeq, NoCalls DEF Settled, Saving
<1>2. SettingsComeBack
  BY <1>1 DEF SettingsComeBack, Settled, FieldsInv
<1>3. ASSUME Settled, Cardinality(connected) = 1
      PROVE  connected = {address}
  <2>1. \E a : connected = {a}
    BY <1>3, FS_Singleton DEF StoreInv
  <2>2. address \in connected
    BY <1>3 DEF Settled, VisitInv, StoreInv
  <2> QED
    BY <2>1, <2>2
<1>4. ASSUME Settled
      PROVE  \A k \in Setting \ (unread \cup rejected) : shown[k] # None => SealedHere(k)
  BY <1>1, <1>4 DEF Settled, FieldsInv
<1>5. SettingsStayWithTheirAccount
  BY <1>3, <1>4 DEF SettingsStayWithTheirAccount, SealedHere
<1> QED
  BY <1>2, <1>5

--------------------------------------------------------------------------------
\* The disclosure history

\* How many rows are newer: fewer than all, for a row of the set; fewer for a later row
\* of it; and no fewer when the set grows.
LEMMA NewerFinite ==
  ASSUME NEW S \in SUBSET Nat, IsFiniteSet(S), NEW i \in Nat
  PROVE  /\ Newer(i, S) \in Nat
         /\ i \in S => Newer(i, S) < Cardinality(S)
<1> DEFINE N == {k \in S : k > i}
<1>1. N \in SUBSET S
  OBVIOUS
<1>2. i \notin N
  OBVIOUS
<1>3. Newer(i, S) = Cardinality(N)
  BY DEF Newer
<1> HIDE DEF N
<1>4. /\ IsFiniteSet(N) /\ Cardinality(N) <= Cardinality(S)
      /\ Cardinality(S) = Cardinality(N) => S = N
  BY <1>1, FS_Subset
<1>5. Cardinality(N) \in Nat /\ Cardinality(S) \in Nat
  BY <1>4, FS_CardinalityType
<1>6. i \in S => Cardinality(S) # Cardinality(N)
  BY <1>2, <1>4
<1> QED
  BY <1>3, <1>4, <1>5, <1>6

LEMMA NewerGrows ==
  ASSUME NEW S \in SUBSET Nat, NEW T \in SUBSET Nat, S \subseteq T, IsFiniteSet(T), NEW i \in Nat
  PROVE  Newer(i, S) <= Newer(i, T)
<1> DEFINE M == {k \in S : k > i}
           N == {k \in T : k > i}
<1>1. M \in SUBSET N /\ N \in SUBSET T
  OBVIOUS
<1>2. Newer(i, S) = Cardinality(M) /\ Newer(i, T) = Cardinality(N)
  BY DEF Newer
<1> HIDE DEF M, N
<1>3. IsFiniteSet(N)
  BY <1>1, FS_Subset
<1> QED
  BY <1>1, <1>2, <1>3, FS_Subset

LEMMA NewerApart ==
  ASSUME NEW S \in SUBSET Nat, IsFiniteSet(S), NEW i \in S, NEW j \in S, i < j
  PROVE  Newer(j, S) < Newer(i, S)
<1> DEFINE M == {k \in S : k > j}
           N == {k \in S : k > i}
<1>1. M \in SUBSET N /\ N \in SUBSET S /\ j \in N /\ j \notin M
  <2>1. \A k \in S : k > j => k > i
    OBVIOUS
  <2>2. j \in N /\ j \notin M
    OBVIOUS
  <2>3. M \in SUBSET N /\ N \in SUBSET S
    BY <2>1
  <2> QED
    BY <2>2, <2>3
<1>2. Newer(j, S) = Cardinality(M) /\ Newer(i, S) = Cardinality(N)
  BY DEF Newer
<1> HIDE DEF M, N
<1>3. IsFiniteSet(N)
  BY <1>1, FS_Subset
<1>4. /\ IsFiniteSet(M) /\ Cardinality(M) <= Cardinality(N)
      /\ Cardinality(N) = Cardinality(M) => N = M
  BY <1>1, <1>3, FS_Subset
<1>5. Cardinality(M) \in Nat /\ Cardinality(N) \in Nat
  BY <1>3, <1>4, FS_CardinalityType
<1> QED
  BY <1>1, <1>2, <1>4, <1>5

\* No two rows have the same number of newer ones, and so every number is taken.
LEMMA RankTaken ==
  ASSUME NEW S \in SUBSET Nat, IsFiniteSet(S), NEW o \in Nat, o < Cardinality(S)
  PROVE  \E i \in S : Newer(i, S) = o
<1> DEFINE n == Cardinality(S)
           f == [i \in S |-> Newer(i, S)]
<1>1. n \in Nat
  BY FS_CardinalityType
<1>2. \A i \in S : Newer(i, S) \in 0..(n - 1)
  BY <1>1, NewerFinite
<1>3. \A i, j \in S : Newer(i, S) = Newer(j, S) => i = j
  <2>1. \A i \in S : Newer(i, S) \in Nat
    BY NewerFinite
  <2>2. \A i, j \in S : i < j => Newer(j, S) < Newer(i, S)
    BY NewerApart
  <2>3. \A i, j \in S : i < j => Newer(j, S) # Newer(i, S)
    BY <2>1, <2>2
  <2> QED
    BY <2>3
<1>4. f \in [S -> 0..(n - 1)] /\ \A i, j \in S : f[i] = f[j] => i = j
  BY <1>2, <1>3
<1>5. f \in Injection(S, 0..(n - 1))
  BY <1>4 DEF Injection, IsInjective
<1>6. IsFiniteSet(0..(n - 1)) /\ Cardinality(0..(n - 1)) = n
  <2>1. n - 1 \in Int /\ (0 > n - 1 <=> n = 0)
    BY <1>1
  <2>2. /\ IsFiniteSet(0..(n - 1))
        /\ Cardinality(0..(n - 1)) = IF 0 > n - 1 THEN 0 ELSE (n - 1) - 0 + 1
    BY <2>1, FS_Interval
  <2> QED
    BY <1>1, <2>1, <2>2
<1>7. f \in Surjection(S, 0..(n - 1))
  <2> HIDE DEF f
  <2> QED
    BY <1>5, <1>6, FS_Injection
<1>8. o \in 0..(n - 1)
  BY <1>1
<1>9. \E i \in S : f[i] = o
  BY <1>7, <1>8 DEF Surjection
<1> QED
  BY <1>9

\* The rows that match are finitely many, and stay when the table grows.
LEMMA MatchingFinite ==
  ASSUME log \in Seq(LogRow), NEW a, NEW g
  PROVE  /\ Matching(a, g) \in SUBSET Nat /\ Matching(a, g) \subseteq DOMAIN log
         /\ IsFiniteSet(Matching(a, g))
         /\ Cardinality(Matching(a, g)) \in 0..Len(log)
<1> DEFINE S == Matching(a, g)
<1>1. DOMAIN log = 1..Len(log) /\ Len(log) \in Nat
  BY LenProperties
<1>2. S \in SUBSET (1..Len(log))
  BY <1>1 DEF Matching
<1>3. IsFiniteSet(1..Len(log)) /\ Cardinality(1..Len(log)) = Len(log)
  <2>1. 1 > Len(log) <=> Len(log) = 0
    BY <1>1
  <2>2. /\ IsFiniteSet(1..Len(log))
        /\ Cardinality(1..Len(log)) = IF 1 > Len(log) THEN 0 ELSE Len(log) - 1 + 1
    BY <1>1, FS_Interval
  <2> QED
    BY <1>1, <2>1, <2>2
<1> HIDE DEF S
<1>4. IsFiniteSet(S) /\ Cardinality(S) <= Len(log)
  BY <1>2, <1>3, FS_Subset
<1>5. Cardinality(S) \in Nat
  BY <1>4, FS_CardinalityType
<1>6. Cardinality(S) \in 0..Len(log)
  BY <1>1, <1>4, <1>5
<1>7. 1..Len(log) \subseteq Nat
  BY <1>1
<1> QED
  BY <1>1, <1>2, <1>4, <1>6, <1>7 DEF S

\* The rows of one page are Limit at most.
LEMMA PageFits ==
  ASSUME log \in Seq(LogRow), NEW a \in Accounts, NEW g \in Filters, NEW o \in Nat
  PROVE  /\ SelectPage(a, g, Limit, o) \subseteq Matching(a, g)
         /\ IsFiniteSet(SelectPage(a, g, Limit, o))
         /\ Cardinality(SelectPage(a, g, Limit, o)) <= Limit
<1> DEFINE S == Matching(a, g)
           P == SelectPage(a, g, Limit, o)
           D == o..(o + Limit - 1)
           f == [i \in P |-> Newer(i, S)]
<1>1. S \in SUBSET Nat /\ IsFiniteSet(S)
  BY MatchingFinite
<1>2. P \in SUBSET S /\ \A i \in P : Newer(i, S) \in D
  BY DEF SelectPage
<1>3. IsFiniteSet(D) /\ Cardinality(D) = Limit
  <2>1. o \in Int /\ o + Limit - 1 \in Int /\ ~(o > o + Limit - 1)
    BY HistoryAssumption
  <2>2. /\ IsFiniteSet(D)
        /\ Cardinality(D) = IF o > o + Limit - 1 THEN 0 ELSE (o + Limit - 1) - o + 1
    BY <2>1, FS_Interval
  <2> QED
    BY <2>1, <2>2, HistoryAssumption
<1> HIDE DEF S, P, D
<1>4. \A i, j \in S : Newer(i, S) = Newer(j, S) => i = j
  <2>1. \A i \in S : Newer(i, S) \in Nat
    BY <1>1, NewerFinite
  <2>2. \A i, j \in S : i < j => Newer(j, S) < Newer(i, S)
    BY <1>1, NewerApart
  <2>3. \A i, j \in S : i < j => Newer(j, S) # Newer(i, S)
    BY <2>1, <2>2
  <2> QED
    BY <1>1, <2>3
<1>5. f \in Injection(P, D)
  <2>1. f \in [P -> D] /\ \A i, j \in P : f[i] = f[j] => i = j
    BY <1>2, <1>4
  <2> QED
    BY <2>1 DEF Injection, IsInjective
<1>6. IsFiniteSet(P) /\ Cardinality(P) <= Cardinality(D)
  <2> HIDE DEF f
  <2> QED
    BY <1>3, <1>5, FS_Injection
<1> QED
  BY <1>2, <1>3, <1>6 DEF P, S

LEMMA MatchingGrows ==
  ASSUME log \in Seq(LogRow), LogGrows, NEW a, NEW g
  PROVE  /\ Matching(a, g) \subseteq Matching(a, g)'
         /\ Matching(a, g)' \in SUBSET Nat /\ IsFiniteSet(Matching(a, g)')
         /\ Cardinality(Matching(a, g)) \in Nat /\ Cardinality(Matching(a, g)') \in Nat
         /\ Cardinality(Matching(a, g)) <= Cardinality(Matching(a, g)')
<1> DEFINE S == Matching(a, g)
           T == Matching(a, g)'
<1>1. S \in SUBSET T
  BY DEF Matching, Matches, LogGrows
<1>2. T \in SUBSET Nat /\ IsFiniteSet(T)
  <2>1. DOMAIN log' = 1..Len(log') /\ Len(log') \in Nat
    BY LenProperties DEF LogGrows
  <2>2. T \in SUBSET (1..Len(log'))
    BY <2>1 DEF Matching
  <2>3. IsFiniteSet(1..Len(log'))
    BY <2>1, FS_Interval
  <2> HIDE DEF T
  <2>4. IsFiniteSet(T)
    BY <2>2, <2>3, FS_Subset
  <2>5. 1..Len(log') \subseteq Nat
    BY <2>1
  <2> QED
    BY <2>2, <2>4, <2>5
<1> HIDE DEF S, T
<1>3. IsFiniteSet(S) /\ Cardinality(S) <= Cardinality(T)
  BY <1>1, <1>2, FS_Subset
<1>4. Cardinality(S) \in Nat /\ Cardinality(T) \in Nat
  BY <1>2, <1>3, FS_CardinalityType
<1> QED
  BY <1>1, <1>2, <1>3, <1>4 DEF S, T

\* Pages are turned by whole pages: the offset is a multiple of Limit, and no page
\* that is kept or under way has more than Limit rows.
PageOffset == {k * Limit : k \in Nat}

HistoryCallsInv ==
  /\ offset \in PageOffset
  /\ \A i \in DOMAIN listCalls : /\ listCalls[i].rows \subseteq DOMAIN log
                                 /\ Cardinality(listCalls[i].rows) <= Limit

\* What the connected account's filter matches, and the rows of the first page's
\* time that are on the pages before offset o.
Listed == Matching(address, contextFilter)

Passed(o) == {r \in due : Newer(r, Listed) < o}

\* Between two pages every row of the first page's time on this page or on one before
\* has been seen, and the total that was counted is not too high.
WalkRests ==
  /\ due \subseteq Listed /\ disclosures \subseteq Listed
  /\ total <= Cardinality(Listed)
  /\ Passed(offset + Limit) \subseteq seen
  /\ offset + Limit >= total => due \subseteq seen
  /\ disclosures = {} => due = {}
  /\ offset = 0 \/ offset < Cardinality(Listed)

\* A page under way, once it is selected, brings what is not seen yet of the rows up to it.
WalkGoesOn(c) ==
  /\ c.subject = address /\ c.ctx = contextFilter /\ c.offset = offset
  /\ offset # 0 => /\ due \subseteq Listed /\ Passed(offset) \subseteq seen
                   /\ offset < Cardinality(Listed)
  /\ c.pc = "selected" =>
       /\ due \subseteq Listed /\ c.rows \subseteq Listed
       /\ Passed(offset + Limit) \subseteq seen \cup c.rows
       /\ c.rows = {} => due = {}

\* Without races and failures one page at most is under way.
WalkInv ==
  (address # None /\ ~listOverlap) =>
    /\ Len(listCalls) <= 1 /\ (listLoading <=> listCalls # <<>>)
    /\ ~listLoading => WalkRests
    /\ \A i \in DOMAIN listCalls : WalkGoesOn(listCalls[i])

LEMMA OffsetTurned ==
  ASSUME NEW o \in PageOffset
  PROVE  /\ o \in Nat /\ 0 \in PageOffset /\ o + Limit \in PageOffset
         /\ o > 0 => o - Limit \in PageOffset
<1>1. PICK k \in Nat : o = k * Limit
  BY DEF PageOffset
<1>2. Limit \in Nat /\ Limit > 0
  BY HistoryAssumption
<1>3. (k + 1) * Limit = k * Limit + Limit /\ k + 1 \in Nat /\ 0 * Limit = 0 /\ k * Limit \in Nat
  BY <1>2
<1>4. ASSUME o > 0
      PROVE  k - 1 \in Nat /\ (k - 1) * Limit = o - Limit
  <2>1. k # 0
    BY <1>1, <1>3, <1>4
  <2>2. k - 1 \in Nat /\ (k - 1) * Limit = k * Limit - Limit
    BY <1>2, <2>1
  <2> QED
    BY <1>1, <2>2
<1> QED
  BY <1>1, <1>3, <1>4 DEF PageOffset

LEMMA HistoryStart ==
  ASSUME HistoryInit, log = <<>>
  PROVE  HistoryTypeOK /\ HistoryCallsInv
<1>1. listCalls \in Seq(ListCall) /\ listCalls = <<>> /\ DOMAIN listCalls = {}
  BY EmptySeq, NoCalls DEF HistoryInit
<1>2. Len(log) = 0 /\ Cardinality(disclosures) = 0
  BY FS_EmptySet, EmptySeq DEF HistoryInit
<1>3. 0 * Limit = 0
  BY HistoryAssumption
<1>4. HistoryTypeOK
  <2>1. Cardinality(disclosures) <= Limit /\ 0 \in 0..Len(log)
    BY <1>2, HistoryAssumption
  <2> QED
    BY <1>1, <2>1, HistoryAssumption DEF HistoryInit, HistoryTypeOK
<1>5. HistoryCallsInv
  BY <1>1, <1>3 DEF HistoryInit, HistoryCallsInv, PageOffset
<1> QED
  BY <1>4, <1>5

\* A list is asked for.
LEMMA ListAsked ==
  ASSUME HistoryTypeOK, NEW a \in Accounts, NEW g \in Filters, NEW o \in Nat,
         LoadDisclosures(a, g, o)
  PROVE  /\ listCalls' \in Seq(ListCall) /\ listLoading' = TRUE /\ listOverlap' \in BOOLEAN
         /\ listCalls' # <<>>
         /\ DOMAIN listCalls' = (DOMAIN listCalls) \cup {Len(listCalls) + 1}
         /\ \A i \in DOMAIN listCalls : listCalls'[i] = listCalls[i]
         /\ listCalls'[Len(listCalls) + 1] =
              [pc |-> "sent", subject |-> a, ctx |-> g, offset |-> o, rows |-> {}]
         /\ ~listOverlap' => /\ listCalls = <<>> /\ Len(listCalls') = 1 /\ DOMAIN listCalls' = {1}
                             /\ o # 0 => ~listOverlap
<1> DEFINE c == [pc |-> "sent", subject |-> a, ctx |-> g, offset |-> o, rows |-> {}]
<1>1. c \in ListCall
  BY DEF ListCall
<1>2. listCalls \in Seq(ListCall) /\ listCalls' = Append(listCalls, c)
  BY DEF LoadDisclosures, Sent, HistoryTypeOK
<1>3. listLoading' = TRUE /\ listOverlap' = (listCalls # <<>> \/ (listOverlap /\ o # 0))
  BY DEF LoadDisclosures
<1> HIDE DEF c
<1>4. /\ listCalls' \in Seq(ListCall) /\ listCalls' # <<>>
      /\ Len(listCalls') = Len(listCalls) + 1
      /\ DOMAIN listCalls' = (DOMAIN listCalls) \cup {Len(listCalls) + 1}
      /\ listCalls'[Len(listCalls) + 1] = c
      /\ \A i \in DOMAIN listCalls : listCalls'[i] = listCalls[i]
  BY <1>1, <1>2, AppendKeeps
<1>5. listCalls = <<>> => Len(listCalls') = 1 /\ DOMAIN listCalls' = {1}
  <2>1. listCalls = <<>> => Len(listCalls) = 0 /\ DOMAIN listCalls = {}
    BY <1>2, NoCalls
  <2>2. 0 + 1 = 1
    OBVIOUS
  <2> QED
    BY <1>4, <2>1, <2>2
<1>6. ~listOverlap' => listCalls = <<>> /\ (o # 0 => ~listOverlap)
  BY <1>3
<1>7. listOverlap' \in BOOLEAN
  BY <1>3
<1> QED
  BY <1>3, <1>4, <1>5, <1>6, <1>7 DEF c

LEMMA HistoryTypeStep ==
  ASSUME HistoryTypeOK, HistoryCallsInv, log \in Seq(LogRow), address \in Accounts \cup {None},
         HistoryNext
  PROVE  HistoryTypeOK' /\ HistoryCallsInv' /\ address' \in Accounts \cup {None}
<1>0. /\ listCalls \in Seq(ListCall) /\ log' = log /\ 0 \in PageOffset /\ 0 \in Nat
      /\ Len(log) \in Nat /\ 0 \in 0..Len(log)
  <2>1. log' = log
    BY DEF HistoryNext, HistoryAddress, ApplyFilter, NextPage, PrevPage, TurnTo, ServePage,
           GotPage, PageFails
  <2>2. 0 \in PageOffset
    BY OffsetTurned DEF HistoryCallsInv
  <2>3. Len(log) \in Nat
    BY LenProperties
  <2> QED
    BY <2>1, <2>2, <2>3 DEF HistoryTypeOK
<1> DEFINE Small(c) == c.rows \subseteq DOMAIN log /\ Cardinality(c.rows) <= Limit
           Frame == /\ disclosures' \subseteq DOMAIN log /\ Cardinality(disclosures') <= Limit
                    /\ total' \in 0..Len(log) /\ contextFilter' \in Filters
                    /\ listLoading' \in BOOLEAN /\ listOverlap' \in BOOLEAN
                    /\ due' \subseteq DOMAIN log /\ seen' \subseteq DOMAIN log
           Calls == /\ offset' \in PageOffset /\ listCalls' \in Seq(ListCall)
                    /\ \A i \in DOMAIN listCalls' : Small(listCalls'[i])
<1>1. ASSUME Frame, Calls
      PROVE  HistoryTypeOK' /\ HistoryCallsInv'
  <2>1. offset' \in Nat
    BY <1>1, OffsetTurned
  <2>2. HistoryTypeOK'
    BY <1>0, <1>1, <2>1 DEF HistoryTypeOK
  <2> QED
    BY <1>0, <1>1, <2>2 DEF HistoryCallsInv
<1>2. \A i \in DOMAIN listCalls : Small(listCalls[i])
  BY DEF HistoryCallsInv
<1>3. ASSUME NEW a \in Accounts, NEW g \in Filters, NEW o \in PageOffset,
             LoadDisclosures(a, g, o), offset' = o
      PROVE  Calls /\ listLoading' \in BOOLEAN /\ listOverlap' \in BOOLEAN
  <2>1. o \in Nat
    BY OffsetTurned
  <2>2. PICK c : c = [pc |-> "sent", subject |-> a, ctx |-> g, offset |-> o, rows |-> {}]
    OBVIOUS
  <2>3. c.rows = {}
    BY <2>2
  <2>4. /\ listCalls' \in Seq(ListCall) /\ listLoading' = TRUE /\ listOverlap' \in BOOLEAN
        /\ DOMAIN listCalls' = (DOMAIN listCalls) \cup {Len(listCalls) + 1}
        /\ \A i \in DOMAIN listCalls : listCalls'[i] = listCalls[i]
        /\ listCalls'[Len(listCalls) + 1] = c
    BY <1>3, <2>1, <2>2, ListAsked
  <2>5. Small(c)
    BY <2>3, FS_EmptySet, HistoryAssumption
  <2> HIDE DEF Small
  <2> QED
    BY <1>2, <1>3, <2>4, <2>5
<1>4. ASSUME NEW a \in Accounts \cup {None}, HistoryAddress(a)
      PROVE  Frame /\ Calls
  <2>1. CASE a = None
    <3>1. Calls
      <4>1. UNCHANGED <<offset, listCalls>>
        BY <1>4, <2>1 DEF HistoryAddress
      <4> HIDE DEF Small
      <4> QED
        BY <1>0, <1>2, <4>1 DEF HistoryCallsInv
    <3>2. disclosures' = {} /\ Cardinality(disclosures') <= Limit
      <4>1. disclosures' = {}
        BY <1>4, <2>1 DEF HistoryAddress
      <4>2. Cardinality({}) = 0
        BY FS_EmptySet
      <4> QED
        BY <4>1, <4>2, HistoryAssumption
    <3> HIDE DEF Calls
    <3> QED
      BY <1>4, <2>1, <3>1, <3>2 DEF HistoryAddress, HistoryTypeOK
  <2>2. CASE a # None
    <3>1. a \in Accounts /\ contextFilter \in Filters
      BY <2>2 DEF HistoryTypeOK
    <3>2. LoadDisclosures(a, contextFilter, 0) /\ offset' = 0
      BY <1>4, <2>2 DEF HistoryAddress
    <3>3. PICK g \in Filters : g = contextFilter
      BY <3>1
    <3>4. LoadDisclosures(a, g, 0)
      BY <3>2, <3>3 DEF LoadDisclosures
    <3>5. Calls /\ listLoading' \in BOOLEAN /\ listOverlap' \in BOOLEAN
      BY <1>0, <1>3, <3>1, <3>2, <3>4
    <3> HIDE DEF Calls
    <3> QED
      BY <1>0, <1>4, <2>2, <3>5 DEF HistoryAddress, HistoryTypeOK
  <2> QED
    BY <2>1, <2>2
<1>5. ASSUME NEW g \in Filters, ApplyFilter(g)
      PROVE  Frame /\ Calls
  <2>1. PICK a \in Accounts : a = address
    BY <1>5 DEF ApplyFilter
  <2>2. LoadDisclosures(a, g, 0) /\ offset' = 0
    BY <1>5, <2>1 DEF ApplyFilter, LoadDisclosures
  <2>3. Calls /\ listLoading' \in BOOLEAN /\ listOverlap' \in BOOLEAN
    BY <1>0, <1>3, <2>2
  <2> HIDE DEF Calls
  <2> QED
    BY <1>5, <2>3 DEF ApplyFilter, HistoryTypeOK
<1>6. ASSUME NEW o \in PageOffset, TurnTo(o)
      PROVE  Frame /\ Calls
  <2>1. PICK a \in Accounts : a = address
    BY <1>6 DEF TurnTo
  <2>2. PICK g \in Filters : g = contextFilter
    BY DEF HistoryTypeOK
  <2>3. LoadDisclosures(a, g, o) /\ offset' = o
    BY <1>6, <2>1, <2>2 DEF TurnTo, LoadDisclosures
  <2>4. Calls /\ listLoading' \in BOOLEAN /\ listOverlap' \in BOOLEAN
    BY <1>3, <2>3
  <2> HIDE DEF Calls
  <2> QED
    BY <1>6, <2>4 DEF TurnTo, HistoryTypeOK
<1>7. ASSUME NextPage \/ PrevPage
      PROVE  Frame /\ Calls
  <2>1. /\ offset \in PageOffset /\ offset \in Nat /\ offset + Limit \in PageOffset
        /\ offset > 0 => offset - Limit \in PageOffset
    BY OffsetTurned DEF HistoryCallsInv
  <2>2. CASE NextPage
    <3>1. PICK o \in PageOffset : o = offset + Limit
      BY <2>1
    <3>2. TurnTo(o)
      BY <2>2, <3>1 DEF NextPage, TurnTo, LoadDisclosures
    <3> QED
      BY <1>6, <3>2
  <2>3. CASE PrevPage
    <3>1. PICK o \in PageOffset : o = offset - Limit
      BY <2>1, <2>3 DEF PrevPage
    <3>2. TurnTo(o)
      BY <2>3, <3>1 DEF PrevPage, TurnTo, LoadDisclosures
    <3> QED
      BY <1>6, <3>2
  <2> HIDE DEF Frame, Calls
  <2> QED
    BY <1>7, <2>2, <2>3
<1>8. ASSUME NEW i \in DOMAIN listCalls
      PROVE  listCalls[i] \in ListCall
  <2>1. DOMAIN listCalls = 1..Len(listCalls)
    BY <1>0, NoCalls
  <2> QED
    BY <1>0, <2>1, ElementOfSeq
<1>9. ASSUME NEW i \in DOMAIN listCalls, ServePage(i)
      PROVE  Frame /\ Calls
  <2>1. PICK c \in ListCall : c = listCalls[i]
    BY <1>8
  <2>2. c.subject \in Accounts /\ c.ctx \in Filters /\ c.offset \in Nat
    BY DEF ListCall
  <2>3. PICK p : p = SelectPage(c.subject, c.ctx, Limit, c.offset)
    OBVIOUS
  <2>4. p \subseteq Matching(c.subject, c.ctx) /\ Cardinality(p) <= Limit
    BY <2>2, <2>3, PageFits
  <2>5. p \subseteq DOMAIN log
    BY <2>4 DEF Matching
  <2>6. DOMAIN log \in SUBSET Nat
    <3>1. DOMAIN log = 1..Len(log)
      BY LenProperties
    <3> QED
      BY <1>0, <3>1
  <2>7. PICK d : d = [c EXCEPT !.pc = "selected", !.rows = p]
    OBVIOUS
  <2>8. d \in ListCall /\ d.rows = p
    BY <2>5, <2>6, <2>7 DEF ListCall
  <2>9. listCalls' = [listCalls EXCEPT ![i] = d]
    BY <1>9, <2>1, <2>3, <2>7 DEF ServePage
  <2>10. /\ listCalls' \in Seq(ListCall) /\ DOMAIN listCalls' = DOMAIN listCalls
         /\ listCalls'[i] = d /\ \A j \in DOMAIN listCalls : j # i => listCalls'[j] = listCalls[j]
    <3>1. DOMAIN listCalls = 1..Len(listCalls)
      BY <1>0, NoCalls
    <3>2. listCalls' \in Seq(ListCall)
      BY <1>0, <2>8, <2>9, <3>1, ExceptSeq
    <3> QED
      BY <2>9, <3>2
  <2>11. Small(d)
    BY <2>4, <2>5, <2>8
  <2> HIDE DEF Small
  <2>12. Calls
    BY <1>2, <1>9, <2>10, <2>11 DEF ServePage, HistoryCallsInv
  <2>13. due' \subseteq DOMAIN log /\ seen' \subseteq DOMAIN log
    BY <1>9 DEF ServePage, ExportFor, HistoryTypeOK
  <2> HIDE DEF Calls
  <2> QED
    BY <1>9, <2>12, <2>13 DEF ServePage, HistoryTypeOK
<1>10. ASSUME NEW i \in DOMAIN listCalls, Taken(listCalls, i), offset' = offset
       PROVE  Calls
  <2>1. /\ listCalls' \in Seq(ListCall)
        /\ \A j \in DOMAIN listCalls' : \E k \in DOMAIN listCalls : k # i /\ listCalls'[j] = listCalls[k]
    BY <1>0, <1>10, RemoveAtKeeps DEF Taken
  <2> HIDE DEF Small
  <2> QED
    BY <1>2, <1>10, <2>1 DEF HistoryCallsInv
<1>11. ASSUME NEW i \in DOMAIN listCalls, GotPage(i)
       PROVE  Frame /\ Calls
  <2>1. Calls
    BY <1>10, <1>11 DEF GotPage
  <2>2. Small(listCalls[i]) /\ listCalls[i] \in ListCall
    BY <1>2, <1>8
  <2>3. total' \in 0..Len(log)
    BY <1>11, MatchingFinite DEF GotPage, CountRows
  <2> HIDE DEF Calls
  <2> QED
    BY <1>11, <2>1, <2>2, <2>3 DEF GotPage, HistoryTypeOK
<1>12. ASSUME NEW i \in DOMAIN listCalls, PageFails(i)
       PROVE  Frame /\ Calls
  <2>1. Calls
    BY <1>10, <1>12 DEF PageFails
  <2> HIDE DEF Calls
  <2> QED
    BY <1>12, <2>1 DEF PageFails, HistoryTypeOK
<1>13. address' \in Accounts \cup {None}
  BY DEF HistoryNext, HistoryAddress, ApplyFilter, NextPage, PrevPage, TurnTo, ServePage,
         GotPage, PageFails
<1>14. Frame /\ Calls
  <2> HIDE DEF Frame, Calls
  <2> QED
    BY <1>4, <1>5, <1>7, <1>9, <1>11, <1>12 DEF HistoryNext
<1> QED
  <2> HIDE DEF Frame, Calls
  <2> QED
    BY <1>1, <1>13, <1>14

\* The page at offset o holds the rows of rank o to o + Limit - 1, and is not empty
\* if there are rows enough.
LEMMA PageCovers ==
  ASSUME log \in Seq(LogRow), NEW a \in Accounts, NEW g \in Filters, NEW o \in Nat
  PROVE  /\ \A r \in Matching(a, g) :
              Newer(r, Matching(a, g)) < o + Limit /\ ~(Newer(r, Matching(a, g)) < o) =>
                r \in SelectPage(a, g, Limit, o)
         /\ o < Cardinality(Matching(a, g)) => SelectPage(a, g, Limit, o) # {}
         /\ Matching(a, g) # {} => Cardinality(Matching(a, g)) > 0
<1> DEFINE S == Matching(a, g)
<1>1. S \in SUBSET Nat /\ IsFiniteSet(S) /\ Cardinality(S) \in Nat
  BY MatchingFinite, FS_CardinalityType
<1>2. SelectPage(a, g, Limit, o) = {i \in S : Newer(i, S) \in o..(o + Limit - 1)}
  BY DEF SelectPage
<1> HIDE DEF S
<1>3. \A r \in S : Newer(r, S) \in Nat
  BY <1>1, NewerFinite
<1>4. \A r \in S : Newer(r, S) < o + Limit /\ ~(Newer(r, S) < o) => Newer(r, S) \in o..(o + Limit - 1)
  BY <1>3, HistoryAssumption
<1>5. o \in o..(o + Limit - 1)
  BY HistoryAssumption
<1>6. o < Cardinality(S) => \E r \in S : Newer(r, S) = o
  BY <1>1, RankTaken
<1>7. S # {} => Cardinality(S) > 0
  BY <1>1, FS_EmptySet
<1> QED
  BY <1>2, <1>4, <1>5, <1>6, <1>7 DEF S

\* A first page starts the walk with the rows that match.
LEMMA FirstPageDue ==
  ASSUME NEW a \in Accounts, NEW g \in Filters
  PROVE  {r \in ExportFor(a) : g \in {None, Unsafe} \/ log[r].ctx = g} = Matching(a, g)
<1>1. SanitizeFilter(g) = None <=> g \in {None, Unsafe}
  BY DEF SanitizeFilter
<1>2. g \notin {None, Unsafe} => SanitizeFilter(g) = g
  BY DEF SanitizeFilter
<1> QED
  BY <1>1, <1>2 DEF ExportFor, Matching, Matches

\* The page of a walk is asked for: the first one, or one that the walk has come to.
LEMMA WalkAsked ==
  ASSUME HistoryTypeOK, NEW a \in Accounts, NEW g \in Filters, NEW o \in Nat,
         LoadDisclosures(a, g, o), address' = a, contextFilter' = g, offset' = o,
         UNCHANGED <<log, due, seen>>,
         ~listOverlap /\ listCalls = <<>> /\ o # 0 =>
           /\ a = address /\ g = contextFilter /\ due \subseteq Listed
           /\ Passed(o) \subseteq seen /\ o < Cardinality(Listed)
  PROVE  WalkInv'
<1>1. PICK c : c = [pc |-> "sent", subject |-> a, ctx |-> g, offset |-> o, rows |-> {}]
  OBVIOUS
<1>2. c.pc = "sent" /\ c.subject = a /\ c.ctx = g /\ c.offset = o
  BY <1>1
<1>3. /\ listCalls' \in Seq(ListCall) /\ listLoading' = TRUE /\ listCalls' # <<>>
      /\ listCalls'[Len(listCalls) + 1] = c
      /\ ~listOverlap' => /\ listCalls = <<>> /\ Len(listCalls') = 1 /\ DOMAIN listCalls' = {1}
                          /\ o # 0 => ~listOverlap
  BY <1>1, ListAsked
<1> SUFFICES ASSUME ~listOverlap'
             PROVE  /\ Len(listCalls') <= 1 /\ (listLoading' <=> listCalls' # <<>>)
                    /\ ~listLoading' => WalkRests'
                    /\ \A i \in DOMAIN listCalls' : WalkGoesOn(listCalls[i])'
  BY DEF WalkInv
<1>4. listCalls'[1] = c
  <2>1. Len(listCalls) = 0
    BY <1>3, EmptySeq
  <2> QED
    BY <1>3, <2>1
<1>5. o # 0 => UNCHANGED <<address, contextFilter, log, due, seen>>
  BY <1>3
<1>6. o # 0 => /\ due' \subseteq Listed' /\ Passed(o)' \subseteq seen'
               /\ o < Cardinality(Listed')
  BY <1>3, <1>5 DEF Listed, Passed, Matching, Matches, Newer
<1>7. WalkGoesOn(listCalls[1])'
  BY <1>2, <1>4, <1>6 DEF WalkGoesOn, Passed
<1>8. \A i \in DOMAIN listCalls' : WalkGoesOn(listCalls[i])'
  <2> SUFFICES ASSUME NEW i \in DOMAIN listCalls'
               PROVE  WalkGoesOn(listCalls[i])'
    OBVIOUS
  <2>1. i = 1
    BY <1>3
  <2> QED
    BY <1>7, <2>1 DEF WalkGoesOn
<1>9. Len(listCalls') <= 1
  BY <1>3
<1> QED
  BY <1>3, <1>8, <1>9

LEMMA WalkStep ==
  ASSUME HistoryTypeOK, HistoryCallsInv, WalkInv, log \in Seq(LogRow),
         address \in Accounts \cup {None}, HistoryNext
  PROVE  WalkInv'
<1>0. /\ listCalls \in Seq(ListCall) /\ Limit \in Nat /\ Limit > 0
      /\ DOMAIN listCalls = 1..Len(listCalls) /\ Len(listCalls) \in Nat
  BY NoCalls, HistoryAssumption DEF HistoryTypeOK
<1>1. ASSUME NEW a \in Accounts \cup {None}, HistoryAddress(a)
      PROVE  WalkInv'
  <2>1. CASE a = None
    BY <1>1, <2>1 DEF HistoryAddress, WalkInv
  <2>2. CASE a # None
    <3>1. PICK g \in Filters : g = contextFilter
      BY DEF HistoryTypeOK
    <3>2. PICK b \in Accounts : b = a
      BY <2>2
    <3>3. /\ LoadDisclosures(b, g, 0) /\ address' = b /\ contextFilter' = g /\ offset' = 0
          /\ UNCHANGED <<log, due, seen>>
      BY <1>1, <2>2, <3>1, <3>2 DEF HistoryAddress, LoadDisclosures
    <3> QED
      BY <3>3, WalkAsked
  <2> QED
    BY <2>1, <2>2
<1>2. ASSUME NEW g \in Filters, ApplyFilter(g)
      PROVE  WalkInv'
  <2>1. PICK b \in Accounts : b = address
    BY <1>2 DEF ApplyFilter
  <2>2. /\ LoadDisclosures(b, g, 0) /\ address' = b /\ contextFilter' = g /\ offset' = 0
        /\ UNCHANGED <<log, due, seen>>
    BY <1>2, <2>1 DEF ApplyFilter, LoadDisclosures
  <2> QED
    BY <2>2, WalkAsked
<1>3. ASSUME NEW o \in Nat, TurnTo(o), (o = offset + Limit /\ o < total) \/ o <= offset
      PROVE  WalkInv'
  <2>1. PICK b \in Accounts : b = address
    BY <1>3 DEF TurnTo
  <2>2. PICK g \in Filters : g = contextFilter
    BY DEF HistoryTypeOK
  <2>3. /\ LoadDisclosures(b, g, o) /\ address' = b /\ contextFilter' = g /\ offset' = o
        /\ UNCHANGED <<log, due, seen>>
    BY <1>3, <2>1, <2>2 DEF TurnTo, LoadDisclosures
  <2>4. ASSUME ~listOverlap, listCalls = <<>>, o # 0
        PROVE  /\ b = address /\ g = contextFilter /\ due \subseteq Listed
               /\ Passed(o) \subseteq seen /\ o < Cardinality(Listed)
    <3>1. address # None
      BY <1>3 DEF TurnTo
    <3>2. WalkRests
      BY <2>4, <3>1 DEF WalkInv
    <3>3. Cardinality(Listed) \in Nat /\ total \in Nat /\ offset \in Nat
      BY MatchingFinite, FS_CardinalityType DEF Listed, HistoryTypeOK
    <3>4. o < Cardinality(Listed)
      BY <1>3, <2>4, <3>2, <3>3 DEF WalkRests
    <3>5. \A r \in due : Newer(r, Listed) \in Nat
      <4>1. \A r \in due : r \in Listed
        BY <3>2 DEF WalkRests
      <4>2. Listed \in SUBSET Nat /\ IsFiniteSet(Listed)
        BY MatchingFinite DEF Listed
      <4> QED
        BY <4>1, <4>2, NewerFinite
    <3>6. Passed(o) \subseteq Passed(offset + Limit)
      BY <1>0, <1>3, <3>3, <3>5 DEF Passed
    <3> QED
      BY <2>1, <2>2, <3>2, <3>4, <3>6 DEF WalkRests
  <2> QED
    BY <2>3, <2>4, WalkAsked
<1>4. ASSUME NextPage \/ PrevPage
      PROVE  WalkInv'
  <2>1. /\ offset \in Nat /\ offset + Limit \in Nat
        /\ offset > 0 => offset - Limit \in Nat /\ offset - Limit <= offset
    <3>1. /\ offset \in Nat /\ offset + Limit \in PageOffset
          /\ offset > 0 => offset - Limit \in PageOffset
      BY OffsetTurned DEF HistoryCallsInv
    <3>2. \A o \in PageOffset : o \in Nat
      BY OffsetTurned
    <3> QED
      BY <1>0, <3>1, <3>2
  <2>2. CASE NextPage
    <3>1. PICK o \in Nat : o = offset + Limit
      BY <2>1
    <3>2. TurnTo(o) /\ o < total
      BY <2>2, <3>1 DEF NextPage, TurnTo, LoadDisclosures
    <3> QED
      BY <1>3, <3>1, <3>2
  <2>3. CASE PrevPage
    <3>1. PICK o \in Nat : o = offset - Limit /\ o <= offset
      BY <2>1, <2>3 DEF PrevPage
    <3>2. TurnTo(o)
      BY <2>3, <3>1 DEF PrevPage, TurnTo, LoadDisclosures
    <3> QED
      BY <1>3, <3>1, <3>2
  <2> QED
    BY <1>4, <2>2, <2>3
<1>5. ASSUME NEW i \in DOMAIN listCalls
      PROVE  listCalls[i] \in ListCall
  BY <1>0, <1>5, ElementOfSeq
<1>6. ASSUME NEW i \in DOMAIN listCalls, ServePage(i)
      PROVE  WalkInv'
  <2> SUFFICES ASSUME address # None, ~listOverlap
               PROVE  WalkInv'
    BY <1>6 DEF ServePage, WalkInv
  <2>1. PICK c \in ListCall : c = listCalls[i]
    BY <1>5
  <2>2. c.subject \in Accounts /\ c.ctx \in Filters /\ c.offset \in Nat
    BY DEF ListCall
  <2>3. WalkGoesOn(c) /\ Len(listCalls) <= 1 /\ (listLoading <=> listCalls # <<>>)
    BY <2>1 DEF WalkInv
  <2>4. c.subject = address /\ c.ctx = contextFilter /\ c.offset = offset
    BY <2>3 DEF WalkGoesOn
  <2>5. Len(listCalls) = 1 /\ DOMAIN listCalls = {1} /\ i = 1 /\ listCalls # <<>>
    <3>1. Len(listCalls) = 1 /\ i = 1
      BY <1>0, <2>3
    <3>2. 1..1 = {1} /\ 1 # 0
      OBVIOUS
    <3> QED
      BY <1>0, <3>1, <3>2, NoCalls
  <2>6. PICK p : p = SelectPage(c.subject, c.ctx, Limit, c.offset)
    OBVIOUS
  <2>7. PICK d : d = [c EXCEPT !.pc = "selected", !.rows = p]
    OBVIOUS
  <2>8. d.pc = "selected" /\ d.rows = p /\ d.subject = address /\ d.ctx = contextFilter /\ d.offset = offset
    BY <2>4, <2>7 DEF ListCall
  <2>9. listCalls' = [listCalls EXCEPT ![i] = d]
    BY <1>6, <2>1, <2>6, <2>7 DEF ServePage
  <2>10. DOMAIN listCalls' = {1} /\ listCalls'[1] = d /\ Len(listCalls') = 1 /\ listCalls' # <<>>
    <3>1. d \in ListCall
      <4>1. p \subseteq DOMAIN log /\ DOMAIN log \subseteq Nat
        BY <2>2, <2>6, PageFits, MatchingFinite, LenProperties
      <4> QED
        BY <2>7, <4>1 DEF ListCall
    <3>2. listCalls' \in Seq(ListCall)
      BY <1>0, <2>9, <3>1, ExceptSeq
    <3>3. DOMAIN listCalls' = {1} /\ listCalls'[1] = d
      BY <2>5, <2>9
    <3>4. DOMAIN listCalls' # {}
      BY <3>3
    <3>5. Len(listCalls') = Len(listCalls)
      BY <1>0, <2>9, <3>1, ExceptSeq
    <3> QED
      BY <2>5, <3>2, <3>3, <3>4, <3>5, NoCalls
  <2>11. UNCHANGED <<address, log, offset, contextFilter, listLoading, listOverlap>>
    BY <1>6 DEF ServePage
  <2>12. Listed' = Listed
    BY <2>11 DEF Listed, Matching, Matches
  <2>13. Listed = Matching(c.subject, c.ctx) /\ p = SelectPage(c.subject, c.ctx, Limit, offset)
    BY <2>4, <2>6 DEF Listed
  <2>14. /\ p \subseteq Listed
         /\ \A r \in Listed : Newer(r, Listed) < offset + Limit /\ ~(Newer(r, Listed) < offset) => r \in p
         /\ offset < Cardinality(Listed) => p # {}
         /\ Listed # {} => Cardinality(Listed) > 0
    BY <2>2, <2>4, <2>13, PageFits, PageCovers
  <2>15. /\ Passed(offset)' = {r \in due' : Newer(r, Listed) < offset}
         /\ Passed(offset + Limit)' = {r \in due' : Newer(r, Listed) < offset + Limit}
    BY <2>11, <2>12 DEF Passed, Newer
  <2>16. /\ due' \subseteq Listed
         /\ offset # 0 => Passed(offset)' \subseteq seen'
         /\ Passed(offset + Limit)' \subseteq seen' \cup p
         /\ p = {} => due' = {}
    <3>1. CASE offset = 0
      <4>1. due' = Listed
        BY <1>6, <2>1, <2>2, <2>4, <2>13, <3>1, FirstPageDue DEF ServePage
      <4>2. \A r \in Listed : ~(Newer(r, Listed) < 0)
        BY MatchingFinite, NewerFinite DEF Listed
      <4>3. Passed(offset + Limit)' \subseteq p
        BY <2>14, <2>15, <3>1, <4>1, <4>2
      <4> QED
        BY <2>14, <3>1, <4>1, <4>3
    <3>2. CASE offset # 0
      <4>1. due' = due /\ seen' = seen
        BY <1>6, <2>1, <2>4, <3>2 DEF ServePage
      <4>2. due \subseteq Listed /\ Passed(offset) \subseteq seen /\ offset < Cardinality(Listed)
        BY <2>3, <3>2 DEF WalkGoesOn
      <4>3. Passed(offset + Limit)' \subseteq seen \cup p
        BY <2>14, <2>15, <4>1, <4>2 DEF Passed
      <4>4. Passed(offset)' \subseteq seen'
        BY <2>15, <4>1, <4>2 DEF Passed
      <4> QED
        BY <2>14, <4>1, <4>2, <4>3, <4>4
    <3> QED
      BY <3>1, <3>2
  <2>17. offset # 0 => offset < Cardinality(Listed)
    BY <2>3 DEF WalkGoesOn
  <2>18. WalkGoesOn(listCalls[1])'
    BY <2>8, <2>10, <2>11, <2>12, <2>14, <2>16, <2>17 DEF WalkGoesOn
  <2>19. listLoading'
    BY <2>3, <2>5, <2>11
  <2> QED
    BY <2>10, <2>18, <2>19 DEF WalkInv
<1>7. ASSUME NEW i \in DOMAIN listCalls, GotPage(i)
      PROVE  WalkInv'
  <2> SUFFICES ASSUME address # None, ~listOverlap
               PROVE  WalkInv'
    BY <1>7 DEF GotPage, WalkInv
  <2>1. PICK c \in ListCall : c = listCalls[i]
    BY <1>5
  <2>2. c.pc = "selected" /\ disclosures' = c.rows /\ total' = CountRows(c.subject, c.ctx)
        /\ seen' = seen \cup c.rows /\ ~listLoading' /\ Taken(listCalls, i)
        /\ UNCHANGED <<address, log, offset, contextFilter, listOverlap, due>>
    BY <1>7, <2>1 DEF GotPage
  <2>3. WalkGoesOn(c) /\ Len(listCalls) <= 1
    BY <2>1 DEF WalkInv
  <2>4. listCalls' = <<>> /\ DOMAIN listCalls' = {}
    <3>1. listCalls' \in Seq(ListCall) /\ Len(listCalls') = Len(listCalls) - 1
      BY <1>0, <2>2, RemoveAtKeeps DEF Taken
    <3>2. Len(listCalls') = 0
      <4>1. Len(listCalls') \in Nat
        BY <3>1, LenProperties
      <4> QED
        BY <1>0, <2>3, <3>1, <4>1
    <3> QED
      BY <3>1, <3>2, NoCalls
  <2>5. Listed' = Listed
    BY <2>2 DEF Listed, Matching, Matches
  <2>6. total' = Cardinality(Listed)
    BY <2>2, <2>3 DEF CountRows, Listed, WalkGoesOn
  <2>7. /\ due \subseteq Listed /\ c.rows \subseteq Listed
        /\ Passed(offset + Limit) \subseteq seen \cup c.rows
        /\ c.rows = {} => due = {}
        /\ offset # 0 => offset < Cardinality(Listed)
    BY <2>2, <2>3 DEF WalkGoesOn
  <2>8. Passed(offset + Limit)' = Passed(offset + Limit)
    BY <2>2, <2>5 DEF Passed, Newer
  <2>9. Cardinality(Listed) <= offset + Limit => due \subseteq seen'
    <3>1. \A r \in due : Newer(r, Listed) \in Nat /\ Newer(r, Listed) < Cardinality(Listed)
      <4>1. Listed \in SUBSET Nat /\ IsFiniteSet(Listed)
        BY MatchingFinite DEF Listed
      <4> QED
        BY <2>7, <4>1, NewerFinite
    <3>2. Cardinality(Listed) \in Nat /\ offset \in Nat
      BY MatchingFinite DEF Listed, HistoryTypeOK
    <3>3. Cardinality(Listed) <= offset + Limit => due \subseteq Passed(offset + Limit)
      BY <1>0, <3>1, <3>2 DEF Passed
    <3> QED
      BY <2>2, <2>7, <3>3
  <2>10. total' <= Cardinality(Listed)
    <3>1. Cardinality(Listed) \in Nat
      BY MatchingFinite DEF Listed
    <3> QED
      BY <2>6, <3>1
  <2>11. offset + Limit >= total' => due \subseteq seen'
    BY <2>6, <2>9
  <2>12. WalkRests'
    BY <2>2, <2>5, <2>7, <2>8, <2>10, <2>11 DEF WalkRests
  <2>13. Len(listCalls') <= 1
    BY <2>4, EmptySeq
  <2> QED
    BY <2>2, <2>4, <2>12, <2>13 DEF WalkInv
<1>8. ASSUME NEW i \in DOMAIN listCalls, PageFails(i)
      PROVE  WalkInv'
  BY <1>8 DEF PageFails, WalkInv
<1> QED
  BY <1>1, <1>2, <1>4, <1>6, <1>7, <1>8 DEF HistoryNext

\* A row that others log keeps the types, and the walk: ranks only grow.
LEMMA HistoryTypeFrame ==
  ASSUME HistoryTypeOK, log \in Seq(LogRow), LogGrows, UNCHANGED historyVars
  PROVE  HistoryTypeOK'
<1>1. Len(log) \in Nat /\ Len(log') \in Nat
  BY LenProperties DEF LogGrows
<1> QED
  BY <1>1 DEF HistoryTypeOK, historyVars, listVars, LogGrows

LEMMA HistoryFrame ==
  ASSUME HistoryTypeOK, HistoryCallsInv, WalkInv, log \in Seq(LogRow), LogGrows,
         UNCHANGED historyVars, UNCHANGED address
  PROVE  HistoryTypeOK' /\ HistoryCallsInv' /\ WalkInv'
<1>1. HistoryTypeOK'
  BY HistoryTypeFrame
<1>2. HistoryCallsInv'
  BY DEF HistoryCallsInv, historyVars, listVars, LogGrows
<1>3. UNCHANGED <<address, disclosures, total, offset, contextFilter, listLoading, listCalls,
                  listOverlap, due, seen>>
  BY DEF historyVars, listVars
<1>4. /\ Listed \subseteq Listed' /\ Listed' \in SUBSET Nat /\ IsFiniteSet(Listed')
      /\ Cardinality(Listed) \in Nat /\ Cardinality(Listed') \in Nat
      /\ Cardinality(Listed) <= Cardinality(Listed')
  <2>1. PICK a, g : a = address /\ g = contextFilter
    OBVIOUS
  <2>2. Listed = Matching(a, g) /\ Listed' = Matching(a, g)'
    BY <1>3, <2>1 DEF Listed, Matching, Matches
  <2> QED
    BY <2>2, MatchingGrows
<1>5. ASSUME NEW o \in Nat, due \subseteq Listed
      PROVE  Passed(o)' \subseteq Passed(o)
  <2>1. Listed \in SUBSET Nat /\ IsFiniteSet(Listed)
    BY MatchingFinite DEF Listed
  <2>2. PICK S, T : S = Listed /\ T = Listed'
    OBVIOUS
  <2>3. \A r \in due : Newer(r, S) <= Newer(r, T) /\ Newer(r, S) \in Nat /\ Newer(r, T) \in Nat
    BY <1>4, <1>5, <2>1, <2>2, NewerGrows, NewerFinite
  <2>4. Passed(o) = {r \in due : Newer(r, S) < o} /\ Passed(o)' = {r \in due : Newer(r, T) < o}
    BY <1>3, <2>2 DEF Passed, Newer
  <2> QED
    BY <2>3, <2>4
<1>6. offset \in Nat /\ offset + Limit \in Nat /\ total \in Nat
  <2>1. Len(log) \in Nat
    BY LenProperties
  <2> QED
    BY <2>1, HistoryAssumption DEF HistoryTypeOK
<1>7. ASSUME due \subseteq Listed
      PROVE  /\ Passed(offset)' \subseteq Passed(offset)
             /\ Passed(offset + Limit)' \subseteq Passed(offset + Limit)
  <2>1. PICK o, q : o = offset /\ q = offset + Limit
    OBVIOUS
  <2>2. o \in Nat /\ q \in Nat
    BY <1>6, <2>1
  <2>3. Passed(o)' \subseteq Passed(o) /\ Passed(q)' \subseteq Passed(q)
    BY <1>5, <1>7, <2>2
  <2>4. Passed(offset)' = Passed(o)' /\ Passed(offset + Limit)' = Passed(q)'
    BY <1>3, <2>1 DEF Passed
  <2> QED
    BY <2>1, <2>3, <2>4
<1>8. WalkRests => WalkRests'
  BY <1>3, <1>4, <1>6, <1>7 DEF WalkRests
<1>9. ASSUME NEW c, WalkGoesOn(c)
      PROVE  /\ c.subject = address /\ c.ctx = contextFilter /\ c.offset = offset
             /\ offset # 0 => /\ due \subseteq Listed' /\ Passed(offset)' \subseteq seen
                              /\ offset < Cardinality(Listed')
             /\ c.pc = "selected" =>
                  /\ due \subseteq Listed' /\ c.rows \subseteq Listed'
                  /\ Passed(offset + Limit)' \subseteq seen \cup c.rows
                  /\ c.rows = {} => due = {}
  <2>1. due \subseteq Listed => /\ Passed(offset)' \subseteq Passed(offset)
                               /\ Passed(offset + Limit)' \subseteq Passed(offset + Limit)
    BY <1>7
  <2>2. offset < Cardinality(Listed) => offset < Cardinality(Listed')
    BY <1>4, <1>6
  <2>3. /\ c.subject = address /\ c.ctx = contextFilter /\ c.offset = offset
        /\ offset # 0 => due \subseteq Listed' /\ Passed(offset)' \subseteq seen
    BY <1>4, <1>9, <2>1 DEF WalkGoesOn
  <2>4. offset # 0 => offset < Cardinality(Listed')
    BY <1>9, <2>2 DEF WalkGoesOn
  <2>5. c.pc = "selected" =>
          /\ due \subseteq Listed' /\ c.rows \subseteq Listed'
          /\ Passed(offset + Limit)' \subseteq seen \cup c.rows
          /\ c.rows = {} => due = {}
    BY <1>4, <1>9, <2>1 DEF WalkGoesOn
  <2> QED
    BY <2>3, <2>4, <2>5
<1>10. \A i \in DOMAIN listCalls : WalkGoesOn(listCalls[i]) => WalkGoesOn(listCalls[i])'
  BY <1>3, <1>9 DEF WalkGoesOn
<1>11. WalkInv'
  BY <1>3, <1>8, <1>10 DEF WalkInv
<1> QED
  BY <1>1, <1>2, <1>11

\* What the history promises follows.
LEMMA HistoryShows ==
  ASSUME HistoryTypeOK, WalkInv, address \in Accounts \cup {None}
  PROVE  HistoryShowsItsFilter /\ PagesCoverTheHistory
<1>1. \A r \in Listed : /\ log[r].subject = address
                        /\ contextFilter \in {None, Unsafe} \/ log[r].ctx = contextFilter
  BY DEF Listed, Matching, Matches, SanitizeFilter
<1> QED
  BY <1>1 DEF WalkInv, WalkRests, HistoryShowsItsFilter, PagesCoverTheHistory

--------------------------------------------------------------------------------
\* The pages together: the page that is shown has its invariant, and the others are as they
\* were at the start.
VerifierPart == VerifierTypeOK /\ FormInv /\ AuditInv

ContextsPart ==
  /\ ContextsTypeOK
  /\ page = "contexts" => ContextsInv
  /\ page # "contexts" => contexts = DefaultContexts /\ groupedAttributes = {}

HistoryPart ==
  /\ HistoryTypeOK
  /\ page = "history" => HistoryCallsInv /\ WalkInv
  /\ page # "history" => disclosures = {} /\ due = {}

SettingsPart ==
  /\ SettingsTypeOK
  /\ page = "settings" => StoreInv /\ VisitInv /\ FieldsInv
  /\ page # "settings" => ~onVault

VaultPart ==
  /\ VaultTypeOK /\ VaultInv
  /\ page # "vault" => vaultPage # "vault"

ProfilePart ==
  /\ ProfilePagesTypeOK
  /\ page = "overview" => OverviewInv
  /\ page # "overview" => profile = None
  /\ page = "edit" => EditInv
  /\ page # "edit" => saving = None /\ loaded = None
  /\ page = "privacy" => PrivacyInv
  /\ page # "privacy" => consentsOf = None

PagesInv ==
  /\ page \in Page /\ address \in Accounts \cup {None} /\ log \in Seq(LogRow)
  /\ ToolsTypeOK /\ ToolsInv /\ ContextsPart
  /\ VerifierPart /\ HistoryPart /\ SettingsPart /\ VaultPart /\ ProfilePart

LEMMA PagesStart == PagesInit => PagesInv
<1> SUFFICES ASSUME PagesInit
             PROVE  PagesInv
  OBVIOUS
<1>1. page \in Page /\ log = <<>> /\ log \in Seq(LogRow)
  BY EmptySeq, PagesAssumption DEF PagesInit
<1>2. address \in Accounts \cup {None} /\ (page \notin ProfileTab => address = None)
  BY DEF PagesInit
<1>3. ToolsTypeOK /\ ToolsInv /\ ContextsPart
  <2>1. contexts = DefaultContexts /\ groupedAttributes = {}
    BY DEF PagesInit, ContextsInit
  <2> QED
    BY <2>1, ToolsStart, ContextsStart DEF PagesInit, ContextsPart
<1>4. VerifierPart
  BY <1>1, VerifierStart DEF PagesInit, VerifierPart
<1>5. HistoryPart
  <2>1. disclosures = {} /\ due = {} /\ HistoryInit
    BY DEF PagesInit, HistoryInit
  <2>2. HistoryTypeOK /\ HistoryCallsInv
    BY <1>1, <2>1, HistoryStart
  <2>3. page = "history" => address = None
    BY <1>2 DEF ProfileTab
  <2>4. page = "history" => WalkInv
    BY <2>3 DEF WalkInv
  <2> QED
    BY <2>1, <2>2, <2>4 DEF HistoryPart
<1>6. SettingsPart
  <2>1. SettingsInit /\ ~onVault
    BY DEF PagesInit, SettingsInit
  <2>2. page = "settings" => address = None
    BY <1>2 DEF ProfileTab
  <2>3. SettingsTypeOK
    BY <2>1, SettingsStart
  <2>4. page = "settings" => StoreInv /\ VisitInv /\ FieldsInv
    BY <2>1, <2>2, SettingsStart
  <2> QED
    BY <2>1, <2>3, <2>4 DEF SettingsPart
<1>7. VaultPart
  <2>1. vaultPage # "vault"
    BY DEF PagesInit, VaultInit
  <2> QED
    BY <2>1, VaultStart DEF PagesInit, VaultPart
<1>8. ProfilePart
  BY <1>2, ProfileStart DEF PagesInit, ProfilePart
<1> QED
  BY <1>1, <1>2, <1>3, <1>4, <1>5, <1>6, <1>7, <1>8 DEF PagesInv

\* What a step of one page leaves to the others.
LEMMA OthersStay ==
  ASSUME PagesInv, UNCHANGED page
  PROVE  /\ UNCHANGED toolsVars => ToolsTypeOK' /\ ToolsInv'
         /\ UNCHANGED contextsVars /\ (page = "contexts" => UNCHANGED address) => ContextsPart'
         /\ LogGrows /\ UNCHANGED verifierVars => VerifierPart'
         /\ LogGrows /\ UNCHANGED historyVars /\ (page = "history" => UNCHANGED address) =>
              HistoryPart'
         /\ UNCHANGED settingsVars /\ page # "settings" => SettingsPart'
         /\ UNCHANGED vaultVars /\ page # "vault" => VaultPart'
         /\ UNCHANGED profileVars /\ page \notin ProfileTab => ProfilePart'
<1>1. UNCHANGED toolsVars => ToolsTypeOK' /\ ToolsInv'
  BY DEF PagesInv, toolsVars, ToolsTypeOK, ToolsInv, ResultIsOfItsTool
<1>2. UNCHANGED contextsVars /\ (page = "contexts" => UNCHANGED address) => ContextsPart'
  BY DEF PagesInv, ContextsPart, contextsVars, contextPageVars, ContextsTypeOK, ContextsInv, GroupsAreOfContext
<1>3. LogGrows /\ UNCHANGED verifierVars => VerifierPart'
  BY VerifierFrame DEF PagesInv, VerifierPart
<1>4. ASSUME LogGrows, UNCHANGED historyVars, page = "history" => UNCHANGED address
      PROVE  HistoryPart'
  <2>1. HistoryTypeOK /\ log \in Seq(LogRow)
    BY DEF PagesInv, HistoryPart
  <2>2. HistoryTypeOK'
    BY <1>4, <2>1, HistoryTypeFrame
  <2>3. CASE page = "history"
    BY <1>4, <2>1, <2>2, <2>3, HistoryFrame DEF PagesInv, HistoryPart
  <2>4. CASE page # "history"
    BY <1>4, <2>2, <2>4 DEF PagesInv, HistoryPart, historyVars, listVars
  <2> QED
    BY <2>3, <2>4
<1>5. UNCHANGED settingsVars /\ page # "settings" => SettingsPart'
  BY DEF PagesInv, SettingsPart, SettingsTypeOK, settingsVars, storeVars, callVars, fieldVars
<1>6. UNCHANGED vaultVars /\ page # "vault" => VaultPart'
  BY VaultFrame DEF PagesInv, VaultPart
<1>7. UNCHANGED profileVars /\ page \notin ProfileTab => ProfilePart'
  BY DEF PagesInv, ProfilePart, ProfileTab, ProfilePagesTypeOK, profileVars, overviewVars, editVars, privacyVars
<1> QED
  BY <1>1, <1>2, <1>3, <1>4, <1>5, <1>6, <1>7

LEMMA PagesStep == PagesInv /\ [PagesNext]_pagesVars => PagesInv'
<1> SUFFICES ASSUME PagesInv, [PagesNext]_pagesVars
             PROVE  PagesInv'
  OBVIOUS
<1>0. /\ page \in Page /\ address \in Accounts \cup {None} /\ log \in Seq(LogRow)
      /\ ToolsTypeOK /\ ToolsInv /\ ContextsPart
      /\ VerifierPart /\ HistoryPart /\ SettingsPart /\ VaultPart /\ ProfilePart
  BY DEF PagesInv
<1>00. log' = log => LogGrows
  BY <1>0, LogStays
<1>000. LogGrows => log' \in Seq(LogRow)
  BY DEF LogGrows
<1>1. CASE HistoryTab
  <2>1. /\ page = "history" /\ page \notin ProfileTab /\ HistoryNext /\ UNCHANGED page
        /\ UNCHANGED <<contextsVars, verifierVars, toolsVars, settingsVars, vaultVars, profileVars>>
    BY <1>1 DEF HistoryTab, ProfileTab
  <2>2. HistoryTypeOK' /\ HistoryCallsInv' /\ address' \in Accounts \cup {None} /\ WalkInv'
    BY <1>0, <2>1, HistoryTypeStep, WalkStep DEF HistoryPart
  <2>3. log' = log
    BY <2>1 DEF HistoryNext, HistoryAddress, ApplyFilter, NextPage, PrevPage, TurnTo, ServePage,
           GotPage, PageFails
  <2>4. HistoryPart'
    BY <2>1, <2>2 DEF HistoryPart
  <2> QED
    BY <1>0, <1>00, <2>1, <2>2, <2>3, <2>4, OthersStay DEF PagesInv
<1>2. CASE ContextsTab
  <2>1. /\ page = "contexts" /\ page \notin ProfileTab /\ ContextsNext /\ UNCHANGED <<page, log>>
        /\ UNCHANGED <<historyVars, verifierVars, toolsVars, settingsVars, vaultVars, profileVars>>
    BY <1>2 DEF ContextsTab, ProfileTab
  <2>2. ContextsTypeOK' /\ ContextsInv' /\ address' \in Accounts \cup {None}
    BY <1>0, <2>1, ContextsStep DEF ContextsPart
  <2>3. ContextsPart'
    BY <2>1, <2>2 DEF ContextsPart
  <2> QED
    BY <1>0, <1>00, <2>1, <2>2, <2>3, OthersStay DEF PagesInv
<1>3. CASE FormTab
  <2>1. /\ page = "form" /\ page \notin ProfileTab /\ UNCHANGED page
        /\ FormNext \/ \E d \in LogVerifiers : TypeVerifier(d)
        /\ UNCHANGED <<historyVars, contextsVars, toolsVars, settingsVars, vaultVars, profileVars>>
    BY <1>3 DEF FormTab, ProfileTab
  <2>2. CASE FormNext
    <3>1. VerifierPart' /\ LogGrows /\ address' \in Accounts \cup {None}
      BY <1>0, <2>2, FormStep DEF VerifierPart
    <3> QED
      BY <1>0, <1>000, <2>1, <3>1, OthersStay DEF PagesInv
  <2>3. ASSUME NEW d \in LogVerifiers, TypeVerifier(d)
        PROVE  PagesInv'
    <3>1. VerifierPart' /\ LogGrows /\ address' = address
      BY <1>0, <2>3, VerifierTyped DEF VerifierPart
    <3> QED
      BY <1>0, <1>000, <2>1, <3>1, OthersStay DEF PagesInv
  <2> QED
    BY <2>1, <2>2, <2>3
<1>4. CASE AuditTab
  <2>1. /\ page = "audit" /\ page \notin ProfileTab /\ UNCHANGED page
        /\ AuditNext \/ FormNext
        /\ UNCHANGED <<historyVars, contextsVars, toolsVars, settingsVars, vaultVars, profileVars>>
    BY <1>4 DEF AuditTab, ProfileTab, FormNext
  <2>2. VerifierPart' /\ LogGrows /\ address' \in Accounts \cup {None}
    BY <1>0, <2>1, AuditStep, FormStep DEF VerifierPart
  <2> QED
    BY <1>0, <1>000, <2>1, <2>2, OthersStay DEF PagesInv
<1>5. CASE ToolsTab
  <2>1. /\ page = "tools" /\ page \notin ProfileTab /\ ToolsNext /\ UNCHANGED <<page, log>>
        /\ UNCHANGED <<historyVars, contextsVars, verifierVars, settingsVars, vaultVars, profileVars>>
    BY <1>5 DEF ToolsTab, ProfileTab
  <2>2. ToolsTypeOK' /\ ToolsInv' /\ address' \in Accounts \cup {None}
    BY <1>0, <2>1, ToolsStep
  <2> QED
    BY <1>0, <1>00, <2>1, <2>2, OthersStay DEF PagesInv
<1>6. CASE SettingsTab
  <2>1. /\ page = "settings" /\ page \notin ProfileTab /\ SettingsNext /\ UNCHANGED <<page, log>>
        /\ UNCHANGED <<historyVars, contextsVars, verifierVars, toolsVars, vaultVars, profileVars>>
    BY <1>6 DEF SettingsTab, ProfileTab
  <2>2. SettingsTypeOK /\ StoreInv /\ VisitInv /\ FieldsInv
    BY <1>0, <2>1 DEF SettingsPart
  <2>3. SettingsTypeOK' /\ StoreInv' /\ VisitInv' /\ FieldsInv' /\ address' \in Accounts \cup {None}
    BY <1>0, <2>1, <2>2, SettingsTypeStep, StoreStep, VisitStep, FieldsStep
  <2>4. SettingsPart'
    BY <2>1, <2>3 DEF SettingsPart
  <2> QED
    BY <1>0, <1>00, <2>1, <2>3, <2>4, OthersStay DEF PagesInv
<1>7. CASE VaultTab
  <2>1. /\ page = "vault" /\ page \notin ProfileTab /\ VaultNext /\ UNCHANGED <<page, log>>
        /\ UNCHANGED <<historyVars, contextsVars, verifierVars, toolsVars, settingsVars, profileVars>>
    BY <1>7 DEF VaultTab, ProfileTab
  <2>2. VaultTypeOK' /\ VaultInv' /\ address' \in Accounts \cup {None}
    BY <1>0, <2>1, VaultTypeStep, VaultInvStep DEF VaultPart
  <2>3. VaultPart'
    BY <2>1, <2>2 DEF VaultPart
  <2> QED
    BY <1>0, <1>00, <2>1, <2>2, <2>3, OthersStay DEF PagesInv
<1>8. CASE ProfileTabs
  <2>1. /\ page \in ProfileTab /\ page \notin {"history", "contexts", "settings", "vault"}
        /\ UNCHANGED <<page, log>>
        /\ UNCHANGED <<historyVars, contextsVars, verifierVars, toolsVars, settingsVars, vaultVars>>
    BY <1>8 DEF ProfileTabs, ProfileTab
  <2>2. ProfilePart' /\ address' \in Accounts \cup {None}
    <3>1. CASE page = "overview" /\ OverviewNext
      BY <1>0, <2>1, <3>1, OverviewStep DEF ProfilePart, editVars, privacyVars
    <3>2. CASE page = "edit" /\ EditNext
      BY <1>0, <2>1, <3>2, EditStep DEF ProfilePart, overviewVars, privacyVars
    <3>3. CASE page = "privacy" /\ PrivacyNext
      BY <1>0, <2>1, <3>3, PrivacyStep DEF ProfilePart, overviewVars, editVars
    <3> QED
      BY <1>8, <3>1, <3>2, <3>3 DEF ProfileTabs
  <2> QED
    BY <1>0, <1>00, <2>1, <2>2, OthersStay DEF PagesInv
<1>9. CASE Elsewhere
  <2>1. CASE /\ page \in {"history", "audit"}
             /\ \E r \in LogRow : InsertRow(r)
             /\ UNCHANGED <<page, address, historyVars, contextsVars, verifierVars, toolsVars,
                            settingsVars, vaultVars, profileVars>>
    <3>1. LogGrows
      BY <1>0, <2>1, LogInserted
    <3>2. page \notin ProfileTab /\ page # "settings" /\ page # "vault"
      BY <2>1 DEF ProfileTab
    <3> QED
      BY <1>0, <1>000, <2>1, <3>1, <3>2, OthersStay DEF PagesInv
  <2>2. ASSUME page \in {"overview", "edit"}, NEW m \in RowName, NEW r \in {NoRow, None}, RowElsewhere(m, r),
               UNCHANGED <<page, log, historyVars, contextsVars, verifierVars, toolsVars,
                           settingsVars, vaultVars>>
        PROVE  PagesInv'
    <3>1. ProfilePart' /\ address' = address
      BY <1>0, <2>2, RowsElsewhere DEF ProfilePart, overviewVars, privacyVars
    <3>2. page # "history" /\ page # "contexts" /\ page # "settings" /\ page # "vault"
      BY <2>2
    <3> QED
      BY <1>0, <1>00, <2>2, <3>1, <3>2, OthersStay DEF PagesInv
  <2> QED
    BY <1>9, <2>1, <2>2 DEF Elsewhere
<1>10. CASE UNCHANGED pagesVars
  <2>1. UNCHANGED <<page, address, log, historyVars, contextsVars, verifierVars, toolsVars,
                    settingsVars, vaultVars, profileVars>>
    BY <1>10 DEF pagesVars
  <2>2. SettingsPart'
    BY <1>0, <2>1 DEF SettingsPart, SettingsTypeOK, StoreInv, VisitInv, FieldsInv, Pending, Saving, SealedHere,
                      settingsVars, storeVars, callVars, fieldVars
  <2>3. VaultPart'
    BY <1>0, <2>1 DEF VaultPart, VaultTypeOK, VaultInv, vaultVars, stateVars, pageVars, gdprVars
  <2>4. ProfilePart'
    BY <1>0, <2>1 DEF ProfilePart, ProfilePagesTypeOK, OverviewInv, EditInv, PrivacyInv,
                      profileVars, overviewVars, editVars, privacyVars
  <2> QED
    BY <1>0, <1>00, <2>1, <2>2, <2>3, <2>4, OthersStay DEF PagesInv
<1> QED
  BY <1>1, <1>2, <1>3, <1>4, <1>5, <1>6, <1>7, <1>8, <1>9, <1>10 DEF PagesNext

LEMMA PagesInvariant == PagesSpec => []PagesInv
<1>1. PagesInit => PagesInv
  BY PagesStart
<1>2. PagesInv /\ [PagesNext]_pagesVars => PagesInv'
  BY PagesStep
<1> QED
  BY <1>1, <1>2, PTL DEF PagesSpec

--------------------------------------------------------------------------------
\* Every variable of the pages keeps its type.
THEOREM PagesTyped == PagesSpec => []PagesTypeOK
<1>1. PagesInv => PagesTypeOK
  BY DEF PagesInv, PagesTypeOK, ContextsPart, VerifierPart, HistoryPart, SettingsPart, VaultPart,
         ProfilePart
<1> QED
  BY <1>1, PagesInvariant, PTL

\* Each page lists what is selected on it, for any number of accounts, contexts, rows and
\* requests under way, apart from the races that the parts name; the contexts page lists the
\* connected account's attributes only once a context has been loaded since it connected.
THEOREM PagesShowWhatIsSelected == PagesSpec => []ShowsWhatIsSelected
<1>1. ASSUME PagesInv
      PROVE  ShowsWhatIsSelected
  <2>1. HistoryShowsItsFilter /\ PagesCoverTheHistory
    <3>1. CASE page = "history"
      BY <1>1, <3>1, HistoryShows DEF PagesInv, HistoryPart
    <3>2. CASE page # "history"
      BY <1>1, <3>2 DEF PagesInv, HistoryPart, HistoryShowsItsFilter, PagesCoverTheHistory
    <3> QED
      BY <3>1, <3>2
  <2>2. AuditIsOfVerifier
    BY <1>1 DEF PagesInv, VerifierPart, AuditInv
  <2>3. GroupsAreOfContext
    <3>1. CASE page = "contexts"
      BY <1>1, <3>1 DEF PagesInv, ContextsPart, ContextsInv
    <3>2. CASE page # "contexts"
      BY <1>1, <3>2 DEF PagesInv, ContextsPart, GroupsAreOfContext
    <3> QED
      BY <3>1, <3>2
  <2>4. OverviewIsOfContext
    <3>1. CASE page = "overview"
      BY <1>1, <3>1 DEF PagesInv, ProfilePart, OverviewInv, OverviewIsOfContext
    <3>2. CASE page # "overview"
      BY <1>1, <3>2 DEF PagesInv, ProfilePart, OverviewIsOfContext
    <3> QED
      BY <3>1, <3>2
  <2>5. ResultIsOfItsTool
    BY <1>1 DEF PagesInv, ToolsInv, ResultIsOfItsTool
  <2>6. ConsentsAreOfAccount
    <3>1. CASE page = "privacy"
      BY <1>1, <3>1 DEF PagesInv, ProfilePart, PrivacyInv, ConsentsAreOfAccount, ListShown
    <3>2. CASE page # "privacy"
      BY <1>1, <3>2 DEF PagesInv, ProfilePart, ConsentsAreOfAccount, ListShown
    <3> QED
      BY <3>1, <3>2
  <2> QED
    BY <2>1, <2>2, <2>3, <2>4, <2>5, <2>6 DEF ShowsWhatIsSelected
<1> QED
  BY <1>1, PagesInvariant, PTL

\* A context keeps its name on the way from the page to the API, but for double hyphens and
\* names of more than 255 characters; and a credential goes out with a CID of its claim, but for
\* the races with a change of claim, and for a CID that the user has typed.
THEOREM PagesSendWhatIsMeant == PagesSpec => []SendsWhatIsMeant
<1>1. ASSUME PagesInv
      PROVE  ContextsMeet
  <2>1. CASE page = "contexts"
    BY <1>1, <2>1, ContextsMeetInv DEF PagesInv, ContextsPart
  <2>2. CASE page # "contexts"
    BY <1>1, <2>2, ContextsMeetDefaults DEF PagesInv, ContextsPart
  <2> QED
    BY <2>1, <2>2
<1>2. PagesInv => CidsBelongToClaims
  BY DEF PagesInv, VerifierPart, FormInv
<1>3. PagesInv => SendsWhatIsMeant
  BY <1>1, <1>2 DEF SendsWhatIsMeant
<1> QED
  BY <1>3, PagesInvariant, PTL

\* Settings come back as they were saved, and to the account that saved them, over reloads,
\* days, races of signatures and saves that fail, whose value stays in the field until the
\* next visit; and saving a profile keeps what was not edited, over lost answers, unless
\* another tab has written the row since it was loaded.
THEOREM PagesKeepWhatIsSaved == PagesSpec => []SavedIsKept
<1>1. ASSUME PagesInv
      PROVE  SavedIsKept
  <2>1. SettingsComeBack /\ SettingsStayWithTheirAccount
    <3>1. CASE page = "settings"
      BY <1>1, <3>1, SettingsKept DEF PagesInv, SettingsPart
    <3>2. CASE page # "settings"
      BY <1>1, <3>2 DEF PagesInv, SettingsPart, SettingsComeBack, SettingsStayWithTheirAccount, Settled
    <3> QED
      BY <3>1, <3>2
  <2>2. SaveKeepsTheRest
    <3>1. CASE page = "edit"
      <4> SUFFICES ASSUME saving # None, loaded # None, saving.name = loaded.name, NEW f \in Fields
                   PROVE  /\ saving.row[f] # loaded.row[f] => f \in edited
                          /\ ~overtaken /\ saving.row[f] # rows[saving.name][f] => f \in edited
        BY DEF SaveKeepsTheRest
      <4>1. f \notin edited => /\ saving.row[f] = loaded.row[f]
                               /\ ~overtaken => rows[loaded.name][f] = loaded.row[f]
        BY <1>1, <3>1 DEF PagesInv, ProfilePart, EditInv
      <4>2. saving.row[f] # loaded.row[f] => f \in edited
        BY <4>1
      <4>3. ~overtaken /\ saving.row[f] # rows[saving.name][f] => f \in edited
        BY <4>1
      <4> QED
        BY <4>2, <4>3
    <3>2. CASE page # "edit"
      BY <1>1, <3>2 DEF PagesInv, ProfilePart, SaveKeepsTheRest
    <3> QED
      BY <3>1, <3>2
  <2> QED
    BY <2>1, <2>2 DEF SavedIsKept
<1> QED
  BY <1>1, PagesInvariant, PTL

\* An account whose erasure was confirmed in this tab is not shown as active there, apart
\* from the late answers and orphaned subscriptions that the property names.
THEOREM PagesShowTheErasure == PagesSpec => []ErasedIsNotActive
<1>1. PagesInv => ErasedIsNotActive
  BY VaultIsNotActive DEF PagesInv, VaultPart
<1> QED
  BY <1>1, PagesInvariant, PTL
================================================================================
