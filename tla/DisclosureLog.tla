----------------------------- MODULE DisclosureLog -----------------------------
(***************************************************************************)
(* Table disclosures and the queries of disclosureController.js.  Rows are *)
(* only ever inserted: by verifyVC and by both erasure handlers.           *)
(***************************************************************************)
EXTENDS Browser

CONSTANTS LogVerifiers,  \* who may receive a disclosure
          LogContexts,   \* contexts of disclosures
          Unsafe,        \* a filter with a quote, semicolon or backslash
          MaxLog         \* bound of the table

VARIABLE log             \* rows in the order of their insertion

LogRow == [subject : Accounts, verifier : LogVerifiers, ctx : LogContexts]

ASSUME LogAssumption == Unsafe \notin LogContexts \cup {None} /\ MaxLog \in Nat

\* INSERT INTO disclosures
InsertRow(r) == Len(log) < MaxLog /\ log' = Append(log, r)

\* An unsafe filter is dropped, any other is compared as it was typed.
SanitizeFilter(f) == IF f = Unsafe THEN None ELSE f

Matches(i, subject, f) ==
  /\ log[i].subject = subject
  /\ SanitizeFilter(f) = None \/ log[i].ctx = SanitizeFilter(f)

Matching(subject, f) == {i \in DOMAIN log : Matches(i, subject, f)}

\* ORDER BY disclosed_at DESC: how many of the rows in S come before row i.
Newer(i, S) == Cardinality({k \in S : k > i})

\* getDisclosuresBySubject: the first statement, the rows of one page ...
SelectPage(subject, f, limit, offset) ==
  {i \in Matching(subject, f) : Newer(i, Matching(subject, f)) \in offset..(offset + limit - 1)}

\* ... and the second one, COUNT(*), which sees a later table.
CountRows(subject, f) == Cardinality(Matching(subject, f))

\* getDisclosuresByVerifier
SelectByVerifier(v) == {i \in DOMAIN log : log[i].verifier = v}

\* exportDisclosuresForSubject
ExportFor(subject) == {i \in DOMAIN log : log[i].subject = subject}
================================================================================
