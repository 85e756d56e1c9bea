--------------------------- MODULE WorkspacePages ---------------------------
(***************************************************************************)
(* The sales and the operations page of the web application.  The address  *)
(* holds the filters and the opened row; each page follows it with         *)
(* requests whose answers come in any order, or not at all, while the user *)
(* goes on.                                                                *)
(*                                                                         *)
(* A query is a filter with its sorting and cursor.  The router delivers   *)
(* one address at a time, and a navigation under way gives way to a newer  *)
(* one.                                                                    *)
(***************************************************************************)
EXTENDS Naturals, FiniteSets

CONSTANTS
  Queries,      \* addresses with range and currency
  Bare,         \* an address without, as the navigation bar links to
  Preset,       \* the query the page makes of it
  Openable,         \* orders and issues; every query lists them all
  Nothing,
  MaxVersion    \* bound: requests of one page

ASSUME WorkspaceAssumption == Preset \in Queries /\ Nothing \notin Queries \cup {Bare}

Opened == Openable \cup {Nothing}

VARIABLES
  open,         \* the page on the screen; the other has no state
  sales,        \* SalesPage: address, versions, signals
  operations,   \* OperationsPage
  calls         \* requests of the page that have not been answered

workspaceVars == <<open, sales, operations, calls>>

NoAddress == [query |-> Nothing, row |-> Nothing]

WorkspaceInit ==
  /\ open \in {"sales", "operations"}
  /\ sales = [url |-> NoAddress, next |-> NoAddress, version |-> 0, options |-> FALSE,
              shown |-> Nothing, detail |-> Nothing, loading |-> TRUE,
              detailLoading |-> FALSE, error |-> FALSE]
  /\ operations = [url |-> NoAddress, version |-> 0, loaded |-> Nothing, shown |-> Nothing,
                   selected |-> Nothing, loading |-> TRUE, error |-> FALSE, acting |-> FALSE]
  /\ calls = {}

-----------------------------------------------------------------------------
(* SalesPage.                                                              *)

Call(kind, version, url) == [kind |-> kind, version |-> version, url |-> url]

\* fault: an answer counts whenever it comes
AlwaysCurrent(c) == TRUE

\* version === requestVersion
SalesCurrent(c) == c.version = sales.version

\* synchronize, up to its first await
SalesSynchronize(url) ==
  LET version == sales.version + 1
  IN  /\ version <= MaxVersion
      /\ calls' = calls \cup {Call(IF sales.options THEN "data" ELSE "options", version, url)}
      /\ sales' = [sales EXCEPT !.url = url, !.next = NoAddress, !.version = version,
                                !.loading = TRUE, !.error = FALSE]

\* A bare address is replaced at once; what synchronize does before is undone by it.
SalesNavigate ==
  /\ \E q \in Queries, row \in Opened : SalesSynchronize([query |-> q, row |-> row])
  /\ UNCHANGED operations

SalesArrive ==
  /\ sales.url = NoAddress /\ ~sales.options
  /\ SalesSynchronize([query |-> Bare, row |-> Nothing])
  /\ UNCHANGED operations

\* A navigation the page itself has begun.
SalesRedirect ==
  /\ sales.next # NoAddress
  /\ SalesSynchronize(sales.next)
  /\ UNCHANGED operations

SalesRetry ==
  /\ sales.url # NoAddress /\ sales.error
  /\ SalesSynchronize(sales.url)
  /\ UNCHANGED operations

\* Filter options: then the data, or a range and a currency for a bare address.
SalesOptionsCome(c) ==
  /\ c.kind = "options"
  /\ IF ~SalesCurrent(c)
       THEN sales' = sales /\ calls' = calls \ {c}
       ELSE IF c.url.query = Bare
         THEN /\ sales' = [sales EXCEPT !.options = TRUE, !.loading = FALSE,
                             !.next = [query |-> Preset, row |-> c.url.row]]
              /\ calls' = calls \ {c}
         ELSE /\ sales' = [sales EXCEPT !.options = TRUE]
              /\ calls' = (calls \ {c}) \cup {[c EXCEPT !.kind = "data"]}
  /\ UNCHANGED operations

\* Orders and overview: then the order of the address.
SalesDataComes(c) ==
  /\ c.kind = "data"
  /\ IF ~SalesCurrent(c)
       THEN sales' = sales /\ calls' = calls \ {c}
       ELSE IF c.url.row = Nothing
         THEN /\ sales' = [sales EXCEPT !.shown = c.url.query, !.detail = Nothing, !.loading = FALSE]
              /\ calls' = calls \ {c}
         ELSE /\ sales' = [sales EXCEPT !.shown = c.url.query, !.detailLoading = TRUE]
              /\ calls' = (calls \ {c}) \cup {[c EXCEPT !.kind = "detail"]}
  /\ UNCHANGED operations

SalesDetailComes(c) ==
  /\ c.kind = "detail"
  /\ calls' = calls \ {c}
  /\ sales' = IF SalesCurrent(c)
       THEN [sales EXCEPT !.detail = c.url.row, !.detailLoading = FALSE, !.loading = FALSE]
       ELSE sales
  /\ UNCHANGED operations

\* A failed request; without its order the address loses it.
SalesFails(c) ==
  /\ calls' = calls \ {c}
  /\ sales' = IF ~SalesCurrent(c) THEN sales
       ELSE IF c.kind = "detail"
         THEN [sales EXCEPT !.detailLoading = FALSE, !.loading = FALSE,
                            !.next = [sales.url EXCEPT !.row = Nothing]]
         ELSE [sales EXCEPT !.error = TRUE, !.loading = FALSE]
  /\ UNCHANGED operations

\* closeOrder, up to its navigation
SalesClose ==
  /\ sales.detailLoading \/ sales.detail # Nothing
  /\ sales' = [sales EXCEPT !.detailLoading = FALSE, !.detail = Nothing,
                            !.next = [sales.url EXCEPT !.row = Nothing]]
  /\ UNCHANGED <<operations, calls>>

-----------------------------------------------------------------------------
(* OperationsPage.                                                         *)

\* The end of synchronize: the issue of its address, among those shown.
Selected(page, url) == IF page.shown = Nothing THEN Nothing ELSE url.row

\* load; "follow" goes on with the end of synchronize, "reload" does not.
Load(kind, page, url) ==
  /\ page.version < MaxVersion
  /\ operations' = [page EXCEPT !.version = @ + 1, !.loading = TRUE, !.error = FALSE]
  /\ calls' = calls \cup {Call(kind, page.version + 1, url)}

\* What is loaded already is not loaded again.
Follow(page) ==
  IF page.url.query # page.loaded
    THEN Load("follow", page, page.url)
    ELSE operations' = page /\ UNCHANGED calls

\* synchronize
OperationsNavigate ==
  /\ \E q \in Queries, row \in Opened :
       LET url == [query |-> q, row |-> row]
       IN  Follow([operations EXCEPT !.url = url, !.selected =
                    IF q = operations.loaded THEN Selected(operations, url) ELSE @])
  /\ UNCHANGED sales

\* After an alert or the policy has been changed, and by the retry button.
OperationsReload ==
  /\ operations.acting \/ operations.error
  /\ Load("reload", [operations EXCEPT !.acting = FALSE], operations.url)
  /\ UNCHANGED sales

\* toggleAlert, saveSettings: the request, which may also fail
OperationsAct ==
  /\ operations.shown # Nothing
  /\ operations' = [operations EXCEPT !.acting = ~@]
  /\ UNCHANGED <<sales, calls>>

OperationsCurrent(c) == c.version = operations.version

Followed(page, c) ==
  IF c.kind = "follow" THEN [page EXCEPT !.selected = Selected(page, c.url)] ELSE page

OperationsDataComes(c) ==
  /\ calls' = calls \ {c}
  /\ operations' = Followed(
       IF OperationsCurrent(c)
         THEN [operations EXCEPT !.shown = c.url.query, !.loaded = c.url.query, !.loading = FALSE]
         ELSE operations, c)
  /\ UNCHANGED sales

OperationsFails(c) ==
  /\ calls' = calls \ {c}
  /\ operations' = Followed(
       IF OperationsCurrent(c) THEN [operations EXCEPT !.error = TRUE, !.loading = FALSE]
                               ELSE operations, c)
  /\ UNCHANGED sales

\* openIssue and closeIssue, with their navigation
OperationsOpen ==
  /\ operations.shown # Nothing
  /\ \E row \in Opened :
       Follow([operations EXCEPT !.url.row = row, !.selected = row])
  /\ UNCHANGED sales

-----------------------------------------------------------------------------
SalesNext ==
  \/ SalesNavigate \/ SalesArrive \/ SalesRedirect \/ SalesRetry \/ SalesClose
  \/ \E c \in calls :
       SalesOptionsCome(c) \/ SalesDataComes(c) \/ SalesDetailComes(c) \/ SalesFails(c)

OperationsNext ==
  \/ OperationsNavigate \/ OperationsReload \/ OperationsAct \/ OperationsOpen
  \/ \E c \in calls : OperationsDataComes(c) \/ OperationsFails(c)

WorkspaceNext ==
  /\ \/ open = "sales" /\ SalesNext
     \/ open = "operations" /\ OperationsNext
  /\ UNCHANGED open

WorkspaceSpec == WorkspaceInit /\ [][WorkspaceNext]_workspaceVars

-----------------------------------------------------------------------------
(* Properties.                                                             *)

\* Once the sales page has stopped loading, its cards, chart and rows answer the
\* filters in the address, and an open order is the one the address names,
\* whatever order the answers came in.
SalesShowsAddress ==
  ~sales.loading /\ ~sales.error /\ sales.next = NoAddress =>
    /\ sales.shown = sales.url.query
    /\ sales.detail \in {Nothing, sales.url.row}

\* The same of the operations page (docs/ARCHITECTURE.md, "Analytical reads").
OperationsShowsAddress ==
  ~operations.loading /\ ~operations.error => operations.shown = operations.url.query
=============================================================================
