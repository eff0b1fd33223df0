--------------------------------- MODULE Tools ---------------------------------
(***************************************************************************)
(* The advanced page (advanced.component.ts): resolving a DID and          *)
(* verifying a raw credential share one result and one heading.            *)
(***************************************************************************)
EXTENDS Browser

VARIABLES did, verifyPayload, \* is there input, and can it be parsed?
          resolving, verifying,
          result,             \* null, or the tool that it comes from and whether it succeeded
          currentTool,
          crossTool           \* history: were both tools under way since the last start?

toolsVars == <<did, verifyPayload, resolving, verifying, result, currentTool, crossTool>>

Tool       == {"resolve", "verify"}
ToolResult == [tool : Tool, error : BOOLEAN]

ToolsTypeOK ==
  /\ did \in {None, "did"} /\ verifyPayload \in {None, "text", "json"}
  /\ {resolving, verifying, crossTool} \subseteq BOOLEAN
  /\ result = None \/ result \in ToolResult
  /\ currentTool \in Tool \cup {None}

ToolsInit ==
  /\ did = None /\ verifyPayload = None
  /\ resolving = FALSE /\ verifying = FALSE
  /\ result = None /\ currentTool = None /\ crossTool = FALSE

--------------------------------------------------------------------------------
TypeInput ==
  /\ did' \in {None, "did"} /\ verifyPayload' \in {None, "text", "json"}
  /\ UNCHANGED <<address, resolving, verifying, result, currentTool, crossTool>>

\* Seeded bug: the last result stays until the next one comes.
Resolve_KeepsResult ==
  /\ address # None /\ did # None /\ ~resolving
  /\ resolving' = TRUE /\ currentTool' = "resolve"
  /\ crossTool' = verifying
  /\ UNCHANGED <<address, did, verifyPayload, verifying, result>>

\* resolve; its button is disabled while it runs, not while the other tool does.
Resolve ==
  /\ address # None /\ did # None /\ ~resolving
  /\ resolving' = TRUE /\ result' = None /\ currentTool' = "resolve"
  /\ crossTool' = verifying
  /\ UNCHANGED <<address, did, verifyPayload, verifying>>

\* verify; text that is no JSON is refused with an alert.
Verify ==
  /\ address # None /\ verifyPayload = "json" /\ ~verifying
  /\ verifying' = TRUE /\ result' = None /\ currentTool' = "verify"
  /\ crossTool' = resolving
  /\ UNCHANGED <<address, did, verifyPayload, resolving>>

GotResolution ==
  /\ resolving
  /\ \E e \in BOOLEAN : result' = [tool |-> "resolve", error |-> e]
  /\ resolving' = FALSE
  /\ UNCHANGED <<address, did, verifyPayload, verifying, currentTool, crossTool>>

GotVerification ==
  /\ verifying
  /\ \E e \in BOOLEAN : result' = [tool |-> "verify", error |-> e]
  /\ verifying' = FALSE
  /\ UNCHANGED <<address, did, verifyPayload, resolving, currentTool, crossTool>>

\* The wallet connects or disconnects; what runs goes on.
ToolsAddress(a) == address' = a /\ UNCHANGED toolsVars

ToolsNext ==
  \/ TypeInput \/ Resolve \/ Verify \/ GotResolution \/ GotVerification
  \/ \E a \in Accounts \cup {None} : a # address /\ ToolsAddress(a)

--------------------------------------------------------------------------------
\* Properties

\* "DID Resolution" or "Credential Verification" heads a result of that tool, and
\* none of before is shown while it runs, unless the other one was still running
\* when it was started: then whichever answer is the last stays, under the heading of
\* the one that was started last.
ResultIsOfItsTool ==
  ~crossTool => /\ result # None => result.tool = currentTool
                /\ (resolving \/ verifying) => result = None
================================================================================
