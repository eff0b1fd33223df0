---------------------------------- MODULE Pages ----------------------------------
(***************************************************************************)
(* The pages of the wallet application that read and edit what the API     *)
(* keeps, each in a tab of its own.  A page's component lives as long as   *)
(* the page is shown, so one page is followed at a time; what other tabs   *)
(* and devices do meanwhile to the tables of the API are the steps of      *)
(* Elsewhere.                                                              *)
(***************************************************************************)
EXTENDS History, Contexts, VerifierPage, Tools, Settings, Vault, ProfilePages

CONSTANTS Followed,      \* the pages that are followed
          MaxFormLog     \* bound: disclosures made with the verifier's form

VARIABLE page

Page == {"history", "contexts", "form", "audit", "tools", "settings", "vault",
         "overview", "edit", "privacy"}

ProfileTab == {"overview", "edit", "privacy"}

ASSUME PagesAssumption == Followed \subseteq Page

pagesVars == <<page, address, log, historyVars, contextsVars, verifierVars, toolsVars,
               settingsVars, vaultVars, profileVars>>

PagesTypeOK ==
  /\ page \in Page /\ address \in Accounts \cup {None} /\ log \in Seq(LogRow)
  /\ HistoryTypeOK /\ ContextsTypeOK /\ VerifierTypeOK /\ ToolsTypeOK
  /\ SettingsTypeOK /\ VaultTypeOK /\ ProfilePagesTypeOK

\* The tabs of a profile are opened with or without an account, the other pages before
\* the address arrives; what only another page reads is left at one value.
PagesInit ==
  /\ page \in Followed
  /\ address \in IF page \in ProfileTab THEN Accounts \cup {None} ELSE {None}
  /\ log = <<>>
  /\ HistoryInit /\ ContextsInit /\ VerifierInit /\ ToolsInit /\ SettingsInit /\ VaultInit
  /\ ProfilePagesInit
  /\ page # "vault" => \A a \in Accounts : status[a] = "none"
  /\ page \notin ProfileTab => \A m \in RowName : rows[m] = None

--------------------------------------------------------------------------------
\* Rows that others have logged, for the two pages that list them; and rows of
\* profiles that were saved or erased in another tab, while one is shown or edited.
Elsewhere ==
  \/ /\ page \in {"history", "audit"}
     /\ \E r \in LogRow : r.subject # r.verifier /\ InsertRow(r)
     /\ UNCHANGED <<page, address, historyVars, contextsVars, verifierVars, toolsVars,
                    settingsVars, vaultVars, profileVars>>
  \/ /\ page \in {"overview", "edit"}
     /\ \E m \in RowName, r \in {NoRow, None} : r # rows[m] /\ RowElsewhere(m, r)
     /\ UNCHANGED <<page, log, historyVars, contextsVars, verifierVars, toolsVars,
                    settingsVars, vaultVars>>

HistoryTab ==
  /\ page = "history" /\ HistoryNext
  /\ UNCHANGED <<page, contextsVars, verifierVars, toolsVars, settingsVars, vaultVars, profileVars>>

ContextsTab ==
  /\ page = "contexts" /\ ContextsNext
  /\ UNCHANGED <<page, log, historyVars, verifierVars, toolsVars, settingsVars, vaultVars, profileVars>>

\* The verifier's form and the trail beside it have nothing in common but the verifier that
\* is typed in; each is followed on its own.
FormTab ==
  /\ page = "form"
  /\ FormNext \/ (verifierDid = None /\ \E d \in LogVerifiers : TypeVerifier(d))
  /\ Len(log') <= MaxFormLog
  /\ UNCHANGED <<page, historyVars, contextsVars, toolsVars, settingsVars, vaultVars, profileVars>>

AuditTab ==
  /\ page = "audit"
  /\ AuditNext \/ \E a \in Accounts \cup {None} : a # address /\ VerifierAddress(a)
  /\ UNCHANGED <<page, historyVars, contextsVars, toolsVars, settingsVars, vaultVars, profileVars>>

ToolsTab ==
  /\ page = "tools" /\ ToolsNext
  /\ UNCHANGED <<page, log, historyVars, contextsVars, verifierVars, settingsVars, vaultVars,
                 profileVars>>

SettingsTab ==
  /\ page = "settings" /\ SettingsNext
  /\ UNCHANGED <<page, log, historyVars, contextsVars, verifierVars, toolsVars, vaultVars, profileVars>>

VaultTab ==
  /\ page = "vault" /\ VaultNext
  /\ UNCHANGED <<page, log, historyVars, contextsVars, verifierVars, toolsVars, settingsVars,
                 profileVars>>

ProfileTabs ==
  /\ \/ page = "overview" /\ OverviewNext
     \/ page = "edit" /\ EditNext
     \/ page = "privacy" /\ PrivacyNext
  /\ UNCHANGED <<page, log, historyVars, contextsVars, verifierVars, toolsVars, settingsVars, vaultVars>>

PagesNext ==
  \/ HistoryTab \/ ContextsTab \/ FormTab \/ AuditTab \/ ToolsTab \/ SettingsTab \/ VaultTab
  \/ ProfileTabs \/ Elsewhere

PagesSpec == PagesInit /\ [][PagesNext]_pagesVars

--------------------------------------------------------------------------------
\* Properties

\* What a page lists is what is selected on it: the history under its filter, and all of it
\* when its pages are turned; the trail of the verifier; the attributes of the context; the
\* profile of account and context; the result of the tool; the consents of the account.
\* Each part names the races in which the page shows something else, among them what the
\* contexts page shows after a change of account until it loads again.
ShowsWhatIsSelected ==
  /\ HistoryShowsItsFilter /\ PagesCoverTheHistory /\ AuditIsOfVerifier /\ GroupsAreOfContext
  /\ OverviewIsOfContext /\ ResultIsOfItsTool /\ ConsentsAreOfAccount

\* What a page sends means to the API what the page has shown: contexts keep their
\* name on the way, but for double hyphens and more than 255 characters, and a credential
\* goes out with a CID of its claim, or one that was typed.
SendsWhatIsMeant == ContextsMeet /\ CidsBelongToClaims

\* What is saved stays: settings that are read with a key come back as they were saved,
\* and to the account that saved them, unless the save has failed and was reported to
\* have; a saved profile keeps what was not edited, but not what another tab has saved
\* since it was loaded.
SavedIsKept == SettingsComeBack /\ SettingsStayWithTheirAccount /\ SaveKeepsTheRest
================================================================================
