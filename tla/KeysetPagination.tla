-------------------------- MODULE KeysetPagination --------------------------
(***************************************************************************)
(* A client walks through one of the paged listings: audit events          *)
(* (GovernanceService.auditEvents), orders by occurrence                   *)
(* (SalesAnalyticsService.listOrders) or issues of one severity            *)
(* (OperationsService.issues), while rows come and go.                     *)
(*                                                                         *)
(* A row has an instant, in the database's microseconds, and an id.  A     *)
(* cursor carries the instant of the last row as a JavaScript Date printed *)
(* it.                                                                     *)
(***************************************************************************)
EXTENDS Naturals, Sequences, FiniteSets

CONSTANTS
  RowIds,       \* 1..n, in the order of the ids' values
  MaxInstant,   \* bound: instants are 0..MaxInstant
  PerMilli,     \* instants of the database in one of a Date
  PageSize,
  MaxPages      \* bound on the pages of a walk

ASSUME PaginationAssumption ==
  /\ RowIds \subseteq Nat /\ IsFiniteSet(RowIds) /\ MaxInstant \in Nat
  /\ PerMilli \in Nat \ {0} /\ PageSize \in Nat \ {0} /\ MaxPages \in Nat

VARIABLES
  instant,      \* instant[i]: of the row with this id, or Unwritten
  listing,      \* direction of the listing walked, and the hash of its filters
  cursor,       \* of the next page; NoCursor at the start
  walk,         \* "walking", "ended" or "invalid"
  given,        \* ids handed to the client, page after page
  lasting,      \* history: rows that have been there since the walk began
  blurred       \* history: milliseconds in which a row had a finer instant since then

pageVars == <<instant, listing, cursor, walk, given, lasting, blurred>>

Unwritten == MaxInstant + 1
Instants == 0..MaxInstant
NoCursor == [start |-> TRUE]
Filters == {"some", "other"}
Present == {i \in RowIds : instant[i] # Unwritten}

\* Date.toISOString: the instant's whole milliseconds.
Iso(t) == t - (t % PerMilli)

\* The milliseconds of instants that a Date does not keep.
Finer(instants) == {Iso(t) : t \in {u \in instants : Iso(u) # u}}

PagesInit ==
  /\ instant \in [RowIds -> Instants \cup {Unwritten}]
  /\ listing \in [direction : {"asc", "desc"}, filter : {"some"}]
  /\ cursor = NoCursor /\ walk = "walking" /\ given = <<>>
  /\ lasting = Present /\ blurred = Finer({instant[i] : i \in Present})

\* Rows are ingested with any instant, and purged.
RowAdded(i) ==
  /\ i \notin Present /\ walk = "walking"
  /\ \E t \in Instants : /\ instant' = [instant EXCEPT ![i] = t]
                         /\ blurred' = blurred \cup Finer({t})
  /\ UNCHANGED <<listing, cursor, walk, given, lasting>>

RowPurged(i) ==
  /\ i \in Present /\ walk = "walking"
  /\ instant' = [instant EXCEPT ![i] = Unwritten]
  /\ lasting' = lasting \ {i}
  /\ UNCHANGED <<listing, cursor, walk, given, blurred>>

\* The client changes the filters or the direction on the way, with the cursor it has.
QueryChanged ==
  /\ cursor # NoCursor /\ walk = "walking"
  /\ listing' \in [direction : {"asc", "desc"}, filter : Filters] \ {listing}
  /\ UNCHANGED <<instant, cursor, walk, given, lasting, blurred>>

-----------------------------------------------------------------------------
(* One page.                                                               *)

\* (t, i) < (u, j)
Less(t, i, u, j) == t < u \/ (t = u /\ i < j)

\* ORDER BY instant, id, both in the direction of the listing.
Before(i, j) ==
  IF listing.direction = "asc"
    THEN Less(instant[i], i, instant[j], j)
    ELSE Less(instant[j], j, instant[i], i)

\* fault: the id is not compared
BeyondInstant(i) ==
  \/ cursor = NoCursor
  \/ listing.direction = "asc" /\ cursor.instant < instant[i]
  \/ listing.direction = "desc" /\ instant[i] < cursor.instant

\* The cursor predicate: strictly after the row it was made of.
Beyond(i) ==
  \/ cursor = NoCursor
  \/ listing.direction = "asc" /\ Less(cursor.instant, cursor.id, instant[i], i)
  \/ listing.direction = "desc" /\ Less(instant[i], i, cursor.instant, cursor.id)

\* The hash of the filters, and the direction, must be those of the cursor.
ValidCursor == cursor # NoCursor => cursor.of = listing

Rest == {i \in Present : Beyond(i)}
Rank(i, rows) == Cardinality({j \in rows : Before(j, i)})
Ordered(rows) ==
  [n \in 1..Cardinality(rows) |-> CHOOSE i \in rows : Rank(i, rows) = n - 1]

\* pageSize + 1 rows are read: one more tells that there is a next page.
FetchPage ==
  /\ walk = "walking" /\ ValidCursor
  /\ Len(given) < MaxPages * PageSize
  /\ LET rows == Ordered(Rest)
         visible == SubSeq(rows, 1, IF Len(rows) > PageSize THEN PageSize ELSE Len(rows))
     IN  /\ given' = given \o visible
         /\ IF Len(rows) > PageSize
              THEN /\ cursor' = [of |-> listing, id |-> visible[Len(visible)],
                                 instant |-> Iso(instant[visible[Len(visible)]])]
                   /\ UNCHANGED walk
              ELSE walk' = "ended" /\ UNCHANGED cursor
  /\ UNCHANGED <<instant, listing, lasting, blurred>>

CursorRefused ==
  /\ walk = "walking" /\ ~ValidCursor
  /\ walk' = "invalid"
  /\ UNCHANGED <<instant, listing, cursor, given, lasting, blurred>>

\* exportCsv: the same rows in one read, maxRows + 1 of them.
Exported(maxRows) ==
  LET rows == Ordered(Present)
  IN  [rows      |-> SubSeq(rows, 1, IF Len(rows) > maxRows THEN maxRows ELSE Len(rows)),
       truncated |-> Len(rows) > maxRows]

-----------------------------------------------------------------------------
PagesNext ==
  \/ \E i \in RowIds : RowAdded(i) \/ RowPurged(i)
  \/ QueryChanged \/ FetchPage \/ CursorRefused

PagesSpec == PagesInit /\ [][PagesNext]_pageVars

-----------------------------------------------------------------------------
(* Properties.                                                             *)

Lists(rows, i) == \E n \in DOMAIN rows : rows[n] = i
Follows(rows, i, j) == \E m, n \in DOMAIN rows : m < n /\ rows[m] = i /\ rows[n] = j

\* "Stable keyset pagination": whatever is added or purged between the pages, a
\* walk gives a row that stays once: never twice, and not at all only while the
\* walk has not ended.  It does not hold when the columns are finer than a Date.
EveryRowOnce ==
  /\ \A m, n \in 1..Len(given) : given[m] = given[n] /\ given[m] \in lasting => m = n
  /\ walk = "ended" => \A i \in lasting : Lists(given, i)

\* The direction of the walk, whatever the client asks for in between.
Direction == IF cursor = NoCursor THEN listing.direction ELSE cursor.of.direction

\* A row that stays, on the side of a rounded cursor that is safe, or in a millisecond
\* where nothing is rounded.
Clear(i) == Iso(instant[i]) \notin blurred
NotRepeated(i) == i \in lasting /\ (Direction = "desc" \/ Clear(i))
NotMissed(i) == i \in lasting /\ (Direction = "asc" \/ Clear(i))

\* What holds of a walk over columns of any precision.  A row that stays is never
\* given twice by a descending walk and never missed by an ascending one that ends;
\* and in either direction it is given exactly once where no instant of its millisecond
\* is rounded, whatever happens in the others and whatever is added or purged.  An
\* export of the listing has the rows of such milliseconds in the walk's order, unless
\* it says that it is cut off.
RowsOnceUnlessBlurred ==
  /\ \A m, n \in 1..Len(given) : given[m] = given[n] /\ NotRepeated(given[m]) => m = n
  /\ walk = "ended" => \A i \in lasting : NotMissed(i) => Lists(given, i)
  /\ walk = "ended" => \A maxRows \in 1..Cardinality(RowIds) :
       LET export == Exported(maxRows)
           clear  == {i \in lasting : Clear(i)}
       IN  \/ export.truncated
           \/ \A i, j \in clear : /\ Lists(export.rows, i)
                                  /\ Follows(export.rows, i, j) <=> Follows(given, i, j)
=============================================================================
