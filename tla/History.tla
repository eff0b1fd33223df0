-------------------------------- MODULE History --------------------------------
(***************************************************************************)
(* The disclosure history (disclosures.component.ts): a filter, pages of   *)
(* Limit rows and a total, over a table that grows between two pages, and  *)
(* between the two statements of one page.                                 *)
(***************************************************************************)
EXTENDS DisclosureLog

CONSTANTS Limit,       \* rows per page
          Filters      \* what the user types as filter, None for nothing

ASSUME HistoryAssumption == Limit \in Nat \ {0} /\ None \in Filters

VARIABLES disclosures, \* row numbers of the page that is shown
          total, offset, contextFilter, listLoading,
          listCalls,   \* GETs under way
          listOverlap, \* history: have two of them been under way, or has one failed,
                       \* since the first page?
          due,         \* history: rows that matched when the first page was selected
          seen         \* history: rows shown since then

listVars == <<disclosures, total, offset, contextFilter, listLoading, listCalls>>
historyVars == <<listVars, listOverlap, due, seen>>

ListCall == [pc : {"sent", "selected"}, subject : Accounts, ctx : Filters, offset : Nat,
             rows : SUBSET Nat]

HistoryTypeOK ==
  /\ disclosures \subseteq DOMAIN log /\ Cardinality(disclosures) <= Limit
  /\ total \in 0..Len(log) /\ offset \in Nat
  /\ contextFilter \in Filters
  /\ listLoading \in BOOLEAN /\ listOverlap \in BOOLEAN
  /\ listCalls \in Seq(ListCall)
  /\ due \subseteq DOMAIN log /\ seen \subseteq DOMAIN log

HistoryInit ==
  /\ disclosures = {} /\ total = 0 /\ offset = 0 /\ contextFilter = None
  /\ listLoading = FALSE /\ listCalls = <<>>
  /\ listOverlap = FALSE /\ due = {} /\ seen = {}

--------------------------------------------------------------------------------
\* loadDisclosures for filter f at offset o, up to the request.
LoadDisclosures(a, f, o) ==
  /\ listLoading' = TRUE
  /\ Sent(listCalls, [pc |-> "sent", subject |-> a, ctx |-> f, offset |-> o, rows |-> {}])
  /\ listOverlap' = (listCalls # <<>> \/ (listOverlap /\ o # 0))

\* The address arrives: the account's first page, under the filter that was set
\* before; without an account the list is cleared.
HistoryAddress(a) ==
  /\ address' = a
  /\ \/ /\ a # None
        /\ offset' = 0 /\ total' = 0
        /\ LoadDisclosures(a, contextFilter, 0)
        /\ UNCHANGED disclosures
     \/ /\ a = None
        /\ disclosures' = {}
        /\ UNCHANGED <<offset, total, listLoading, listCalls, listOverlap>>
  /\ UNCHANGED <<log, contextFilter, due, seen>>

\* Seeded bug: the page number outlives the filter.
ApplyFilter_KeepsOffset(f) ==
  /\ address # None
  /\ contextFilter' = f
  /\ LoadDisclosures(address, f, offset)
  /\ UNCHANGED <<address, log, disclosures, total, offset, due, seen>>

\* applyFilter, clearFilter (None)
ApplyFilter(f) ==
  /\ address # None
  /\ contextFilter' = f /\ offset' = 0
  /\ LoadDisclosures(address, f, 0)
  /\ UNCHANGED <<address, log, disclosures, total, due, seen>>

\* Pages are turned by what the last answer counted; the buttons work while
\* a page is loading.
TurnTo(o) ==
  /\ address # None
  /\ offset' = o
  /\ LoadDisclosures(address, contextFilter, o)
  /\ UNCHANGED <<address, log, disclosures, total, contextFilter, due, seen>>

\* Seeded bug: the first row of the next page is taken for shown.
NextPage_OneTooFar == offset + Limit < total /\ TurnTo(offset + Limit + 1)

NextPage == offset + Limit < total /\ TurnTo(offset + Limit)

\* Seeded bug: the first page has one before it.
PrevPage_NoFirst == total > Limit /\ TurnTo(offset - Limit)

PrevPage == offset > 0 /\ total > Limit /\ TurnTo(offset - Limit)

--------------------------------------------------------------------------------
\* The first statement; a first page starts a new walk through the history.
ServePage(i) ==
  /\ listCalls[i].pc = "sent"
  /\ LET c == listCalls[i]
     IN  /\ listCalls' = [listCalls EXCEPT ![i].pc = "selected",
                             ![i].rows = SelectPage(c.subject, c.ctx, Limit, c.offset)]
         /\ IF c.offset = 0
              THEN /\ due' = {r \in ExportFor(c.subject) :
                                c.ctx \in {None, Unsafe} \/ log[r].ctx = c.ctx}
                   /\ seen' = {}
              ELSE UNCHANGED <<due, seen>>
  /\ UNCHANGED <<address, log, disclosures, total, offset, contextFilter, listLoading, listOverlap>>

\* The second statement, and next of the page.
GotPage(i) ==
  /\ listCalls[i].pc = "selected"
  /\ LET c == listCalls[i]
     IN  /\ disclosures' = c.rows
         /\ total' = CountRows(c.subject, c.ctx)
         /\ seen' = seen \cup c.rows
  /\ listLoading' = FALSE
  /\ Taken(listCalls, i)
  /\ UNCHANGED <<address, log, offset, contextFilter, listOverlap, due>>

\* There is no error handler: the page goes on saying that it loads, and offset
\* and buttons have moved on.
PageFails(i) ==
  /\ NetMayFail
  /\ Taken(listCalls, i)
  /\ listOverlap' = TRUE
  /\ UNCHANGED <<address, log, disclosures, total, offset, contextFilter, listLoading, due, seen>>

HistoryNext ==
  \/ \E a \in Accounts \cup {None} : a # address /\ HistoryAddress(a)
  \/ \E f \in Filters : ApplyFilter(f)
  \/ NextPage \/ PrevPage
  \/ \E i \in DOMAIN listCalls : ServePage(i) \/ GotPage(i) \/ PageFails(i)

--------------------------------------------------------------------------------
\* Properties

\* However the table grows between two pages and between the statements of one,
\* the rows on the page are the connected account's and pass the filter that was
\* applied; overlapping requests may leave those of another page or filter, and after
\* a request that failed the page in view has been skipped.
HistoryShowsItsFilter ==
  (address # None /\ ~listLoading /\ ~listOverlap) =>
    \A r \in disclosures :
      /\ log[r].subject = address
      /\ contextFilter \in {None, Unsafe} \/ log[r].ctx = contextFilter

\* Who turns the pages until "next" is disabled has seen every disclosure that the
\* export would have listed when the first page was read, although offsets shift with each
\* new row and the total is older than the page; and "No disclosures yet" is only
\* said when there was none.
PagesCoverTheHistory ==
  (address # None /\ ~listLoading /\ ~listOverlap) =>
    /\ offset + Limit >= total => due \subseteq seen
    /\ disclosures = {} => due = {}
================================================================================
