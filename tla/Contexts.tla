-------------------------------- MODULE Contexts --------------------------------
(***************************************************************************)
(* The list of contexts (context.service.ts), the two pages that add to    *)
(* it, and the attributes that the contexts page shows for the selected    *)
(* one (contexts.component.ts).                                            *)
(***************************************************************************)
EXTENDS Browser, ContextNames

CONSTANTS DefaultContexts, \* DEFAULT_CONTEXTS
          Typed            \* what the user types as a new context

ASSUME ContextsAssumption ==
  /\ Typed \subseteq Context /\ None \notin Context
  /\ DefaultContexts \subseteq {c \in Context : c.mark = "plain" /\ ~c.upper}

VARIABLES contexts,          \* ContextService.contexts
          currentContext, contextLoading,
          profileAttributes, \* null, or attributes, named by account and context
          groupedAttributes, \* none, or one group: its context and attributes
          contextCalls,      \* GETs of the profile under way
          contextOverlap,    \* history: was one under way when the last was sent?
          contextMoved,      \* history: has the address changed since?
          looselyAdded       \* history: what the credentials page has added

contextPageVars == <<currentContext, contextLoading, profileAttributes, groupedAttributes,
                     contextCalls, contextOverlap, contextMoved>>
contextsVars == <<contexts, contextPageVars, looselyAdded>>

Attribute == [account : Accounts, ctx : Context]
Group     == [ctx : Context \cup {None}, attributes : SUBSET Attribute]

ContextsTypeOK ==
  /\ contexts \subseteq Context
  /\ currentContext \in contexts \cup {None}
  /\ {contextLoading, contextOverlap, contextMoved} \subseteq BOOLEAN
  /\ profileAttributes = None \/ profileAttributes \subseteq Attribute
  /\ groupedAttributes \subseteq Group
  /\ contextCalls \in Seq([account : Accounts, ctx : contexts])
  /\ looselyAdded \subseteq contexts

\* The contexts page as it is created.
NewContextPage ==
  /\ currentContext' = None /\ contextLoading' = FALSE
  /\ profileAttributes' = None /\ groupedAttributes' = {}
  /\ contextCalls' = <<>> /\ contextOverlap' = FALSE /\ contextMoved' = FALSE

ContextsInit ==
  /\ contexts = DefaultContexts /\ looselyAdded = {}
  /\ currentContext = None /\ contextLoading = FALSE
  /\ profileAttributes = None /\ groupedAttributes = {}
  /\ contextCalls = <<>> /\ contextOverlap = FALSE /\ contextMoved = FALSE

--------------------------------------------------------------------------------
\* ContextService.addContext
ServiceAddContext(c) == contexts' = contexts \cup {Lower(c)}

\* sanitizeContextInput: lower case; "--" goes, and so do quotes and SQL words; the
\* length is as it is.
SanitizeContextInput(c) ==
  IF c.mark = "dashes" THEN [Lower(c) EXCEPT !.mark = "plain"] ELSE Lower(c)

\* Seeded bug: the pattern allows blanks.
WellFormed_Blanks(c) == c.mark \notin {"foreign"}

\* Both pages: /^[a-z0-9-]+$/
WellFormed(c) == c.mark \notin {"blank", "foreign"}

\* loadContext for context c, up to the request.
LoadContext(c) ==
  /\ profileAttributes' = None
  /\ \/ /\ address = None \/ c = None
        /\ contextLoading' = FALSE
        /\ UNCHANGED contextCalls
     \/ /\ address # None /\ c # None
        /\ contextLoading' = TRUE
        /\ Sent(contextCalls, [account |-> address, ctx |-> c])
  /\ contextOverlap' = (contextCalls # <<>>) /\ contextMoved' = FALSE
  /\ UNCHANGED groupedAttributes

\* onContextChange; the field is disabled while a context loads.
SelectContext(c) ==
  /\ ~contextLoading /\ c # currentContext
  /\ currentContext' = c
  /\ LoadContext(c)
  /\ UNCHANGED <<address, contexts, looselyAdded>>

\* "Refresh current context"
RefreshContext ==
  /\ ~contextLoading /\ currentContext # None
  /\ LoadContext(currentContext)
  /\ UNCHANGED <<address, contexts, currentContext, looselyAdded>>

\* addContext of the contexts page.  The button is disabled while a context loads,
\* the enter key is not.
AddContext(typed) ==
  LET c == SanitizeContextInput(typed)
  IN  /\ WellFormed(c) /\ c \notin contexts
      /\ ServiceAddContext(c)
      /\ currentContext' = c
      /\ LoadContext(c)
      /\ UNCHANGED <<address, looselyAdded>>

\* addContext of the credentials page, for which the contexts page was left; "--"
\* passes the pattern.
AddOnCredentialsPage(typed) ==
  LET c == Lower(typed)
  IN  /\ WellFormed(c) /\ c \notin contexts
      /\ ServiceAddContext(c)
      /\ looselyAdded' = looselyAdded \cup {c}
      /\ NewContextPage
      /\ UNCHANGED address

\* Seeded bug: an empty answer leaves the groups of the context before.
GotContext_KeepsGroups(i) ==
  /\ \E attrs \in SUBSET {contextCalls[i]} :
       /\ profileAttributes' = attrs
       /\ groupedAttributes' = IF attrs = {} THEN groupedAttributes
                               ELSE {[ctx |-> currentContext, attributes |-> attrs]}
  /\ contextLoading' = FALSE
  /\ Taken(contextCalls, i)
  /\ UNCHANGED <<address, contexts, currentContext, contextOverlap, contextMoved, looselyAdded>>

\* The attributes of the account and context that were asked for, in a group of the one that
\* is selected by now.
GotContext(i) ==
  /\ \E attrs \in SUBSET {contextCalls[i]} :
       /\ profileAttributes' = attrs
       /\ groupedAttributes' = IF attrs = {} THEN {}
                               ELSE {[ctx |-> currentContext, attributes |-> attrs]}
  /\ contextLoading' = FALSE
  /\ Taken(contextCalls, i)
  /\ UNCHANGED <<address, contexts, currentContext, contextOverlap, contextMoved, looselyAdded>>

\* The groups stay.
ContextFails(i) ==
  /\ NetMayFail
  /\ profileAttributes' = None /\ contextLoading' = FALSE
  /\ Taken(contextCalls, i)
  /\ UNCHANGED <<address, contexts, currentContext, groupedAttributes, contextOverlap, contextMoved,
                 looselyAdded>>

\* The page reads the address when it loads a context, and does not listen to it.
ContextsAddress(a) ==
  /\ address' = a
  /\ contextMoved' = TRUE
  /\ UNCHANGED <<contexts, currentContext, contextLoading, profileAttributes, groupedAttributes,
                 contextCalls, contextOverlap, looselyAdded>>

ContextsNext ==
  \/ \E c \in contexts \cup {None} : SelectContext(c)
  \/ RefreshContext
  \/ \E typed \in Typed : AddContext(typed) \/ AddOnCredentialsPage(typed)
  \/ \E i \in DOMAIN contextCalls : GotContext(i) \/ ContextFails(i)
  \/ \E a \in Accounts \cup {None} : a # address /\ ContextsAddress(a)

--------------------------------------------------------------------------------
\* Properties

\* A context means the same everywhere: grants (contextMiddleware), revocations and
\* lists (sanitizeContext) and the verifier page leave every offered name as it is,
\* so that what is granted in it is found again.  There are two exceptions, in which a
\* consent is stored under another name than it is listed, revoked and verified by: a
\* double hyphen that the credentials page lets through, and a name of more than 255
\* characters, which only the middleware cuts.
ContextsMeet ==
  \A c \in contexts :
    \/ MiddlewareContext(c) = c /\ SanitizeContext(c) = c /\ NormalizeContext(c) = c
    \/ c \in looselyAdded /\ c.mark = "dashes"
    \/ c.mark = "long"

\* "{{ currentContext() }} Attributes": the group under that heading holds the
\* profile's attributes in the selected context, of the account that is connected.  The
\* exceptions are a request that was still under way when the last was sent, and an
\* answer that fails, after which the groups of an earlier context stay while the profile
\* is null; and, as the page does not listen to the address, the attributes of the
\* account before stay until a context is loaded again.
GroupsAreOfContext ==
  (profileAttributes # None /\ ~contextOverlap) =>
    \A g \in groupedAttributes :
      /\ g.ctx = currentContext /\ g.attributes = profileAttributes
      /\ \A x \in g.attributes : /\ x.ctx = currentContext
                                 /\ ~contextMoved => x.account = address
================================================================================
