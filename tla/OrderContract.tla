--------------------------- MODULE OrderContract ----------------------------
(***************************************************************************)
(* What an order must be to be accepted: orderIngestionSchema for          *)
(* deliveries by REST and webhook, and parseOrderCsv, which builds orders  *)
(* from the rows of a file and accepts all of them or none; and the        *)
(* transaction that then stores the accepted ones, with what the tables    *)
(* (CHECK and UNIQUE constraints, 64 bit arithmetic) and the statements    *)
(* themselves still refuse.                                                *)
(*                                                                         *)
(* Amounts are integers up to SafeInteger; a database integer is in -Wide  *)
(* .. Wide - 1.  An instant counts what the database tells apart, of which *)
(* a JavaScript Date keeps the milliseconds.  Names, kinds and other       *)
(* columns a row repeats for its order are one value, `about`, and those   *)
(* only its first row is asked for are another, `extra`.  A document comes *)
(* under a key not used before; repeated keys, concurrent transactions and *)
(* their failures are OrderIngestion's.                                    *)
(***************************************************************************)
EXTENDS Integers, Sequences, FiniteSets, Functions

CONSTANTS
  Files,          \* CSV files: sequences of rows, see FileRow
  Bodies,         \* orders sent as JSON, see Candidate
  ProductTables,  \* products others may have committed: functions from id to sku
  Unreadable,     \* values with a text or an instant PostgreSQL cannot read: a NUL,
                  \* the year 0, an offset of 16 hours or more
  MaxRows,        \* DATA_IMPORT_MAX_ROWS
  MaxQuantity, SafeInteger, Wide,
  PerMillisecond  \* instants the database tells apart in one millisecond

VARIABLE parse    \* the document being read and stored, or the outcome

Blank == -1       \* an empty cell, and what Number() makes NaN of

\* One row: the cell of its order's id, which the schema trims to an identifier, the
\* columns of orderColumns, the others of its order, its payment (none, or a set with
\* one) and the columns of its item.
FileRow(order, columns, extra, payment, item) ==
  [order |-> order, columns |-> columns, extra |-> extra, payment |-> payment, item |-> item]
Cell(id, spelling) == [id |-> id, spelling |-> spelling]
Columns(about, subtotal, discount, tax, total) ==
  [about |-> about, subtotal |-> subtotal, discount |-> discount, tax |-> tax, total |-> total]
LineItem(id, product, sku, quantity, price, discount, tax, total) ==
  [id |-> id, product |-> product, sku |-> sku, quantity |-> quantity, price |-> price,
   discount |-> discount, tax |-> tax, total |-> total]

\* An order before validation; tax stands for tax and shipping.  Of a location only
\* its id counts, and only where a fulfilment may name one.
Candidate(id, columns, extra, location, items, payment, fulfilments, returns) ==
  [id |-> id, columns |-> columns, extra |-> extra, location |-> location, items |-> items,
   payment |-> payment, fulfilments |-> fulfilments, returns |-> returns]
Fulfilment(id, location, shipped, delivered) ==
  [id |-> id, location |-> location, first |-> shipped, then |-> delivered]
OrderReturn(id, amount, requested, received) ==
  [id |-> id, amount |-> amount, first |-> requested, then |-> received]

\* What is read has these parts, with integers for numbers.
IsColumns(c) ==
  /\ c = Columns(c.about, c.subtotal, c.discount, c.tax, c.total)
  /\ {c.subtotal, c.discount, c.tax, c.total} \subseteq Int
IsLineItem(i) ==
  /\ i = LineItem(i.id, i.product, i.sku, i.quantity, i.price, i.discount, i.tax, i.total)
  /\ {i.quantity, i.price, i.discount, i.tax, i.total} \subseteq Int
ArePayments(ps) == ps \subseteq [captured : Int, refunded : Int]
HasInstants(e) == {e.first, e.then} \subseteq Int

IsRow(r) ==
  /\ r = FileRow(r.order, r.columns, r.extra, r.payment, r.item)
  /\ IsColumns(r.columns) /\ ArePayments(r.payment) /\ IsLineItem(r.item)
IsCandidate(o) ==
  /\ IsColumns(o.columns) /\ ArePayments(o.payment)
  /\ o.items \in Seq(Range(o.items)) /\ \A i \in Range(o.items) : IsLineItem(i)
  /\ \A e \in Range(o.fulfilments) \cup Range(o.returns) : HasInstants(e)
  /\ \A e \in Range(o.returns) : e.amount \in Int

\* A sum of the contract's is at most the largest amount twice, which the database's
\* integers hold, as they hold a quantity.
ASSUME ContractAssumption ==
  /\ MaxRows \in Nat /\ MaxQuantity \in Nat /\ SafeInteger \in Nat
  /\ Wide \in Nat /\ MaxQuantity < Wide /\ 2 * SafeInteger < Wide
  /\ PerMillisecond \in Nat \ {0}
  /\ \A f \in Files : f \in Seq(Range(f)) /\ \A r \in Range(f) : IsRow(r)
  /\ \A o \in Bodies : IsCandidate(o)

-----------------------------------------------------------------------------
(* The contract.                                                           *)

Amount(n) == n \in 0..SafeInteger
Amounts(r) ==
  \A field \in DOMAIN r \ {"id", "about", "product", "sku", "quantity"} : Amount(r[field])

ValidItem(i) ==
  /\ i.quantity \in 1..MaxQuantity
  /\ Amounts(i)
  /\ i.total = i.quantity * i.price - i.discount + i.tax

ValidPayment(p) == Amounts(p) /\ p.refunded <= p.captured

NoInstant == -1
Milliseconds(instant) == instant \div PerMillisecond

\* Two optional instants, compared as Dates.
InOrder(event) ==
  NoInstant \in {event.first, event.then} \/ Milliseconds(event.then) >= Milliseconds(event.first)

\* uniqueBy
UniqueIds(s) == \A i, j \in DOMAIN s : s[i].id = s[j].id => i = j

Totals(items) == SumFunction([i \in DOMAIN items |-> items[i].total])

ValidOrder(o) ==
  LET c == o.columns
  IN  /\ Amounts(c)
      /\ o.items # <<>> /\ \A i \in Range(o.items) : ValidItem(i)
      /\ \A p \in o.payment : ValidPayment(p)
      /\ \A e \in Range(o.fulfilments) \cup Range(o.returns) : InOrder(e)
      /\ \A e \in Range(o.returns) : Amount(e.amount)
      /\ c.total = c.subtotal - c.discount + c.tax
      /\ c.subtotal = Totals(o.items)
      /\ UniqueIds(o.items) /\ UniqueIds(o.fulfilments) /\ UniqueIds(o.returns)

-----------------------------------------------------------------------------
(* The tables.                                                             *)

Fits(n) == -Wide <= n /\ n < Wide
NotNegative(r) ==
  \A field \in DOMAIN r \ {"id", "about", "product", "sku"} : Fits(r[field]) /\ r[field] >= 0

\* A CHECK evaluates its sum from the left, and fails when a part overflows.
SumMatches(total, start, discount, tax) ==
  /\ Fits(start) /\ Fits(start - discount) /\ Fits(start - discount + tax)
  /\ total = start - discount + tax

StorableItem(i) ==
  NotNegative(i) /\ i.quantity > 0 /\ SumMatches(i.total, i.quantity * i.price, i.discount, i.tax)

StorablePayment(p) == NotNegative(p) /\ p.refunded <= p.captured
StorableEvent(e) == NoInstant \in {e.first, e.then} \/ e.then >= e.first

\* The CHECK and UNIQUE constraints of one order's rows.
WithinConstraints(o) ==
  /\ NotNegative(o.columns)
  /\ SumMatches(o.columns.total, o.columns.subtotal, o.columns.discount, o.columns.tax)
  /\ \A i \in Range(o.items) : StorableItem(i)
  /\ \A p \in o.payment : StorablePayment(p)
  /\ \A e \in Range(o.fulfilments) \cup Range(o.returns) : StorableEvent(e)
  /\ \A e \in Range(o.returns) : Fits(e.amount) /\ e.amount >= 0
  /\ UniqueIds(o.items) /\ UniqueIds(o.fulfilments) /\ UniqueIds(o.returns)

-----------------------------------------------------------------------------
(* The transaction.                                                        *)

\* claimRequest: an other order of the document has used the key, which is made of
\* the identifier.
KeyUsed(o, stored) == \E q \in stored : q.id = o.id /\ q # o

\* One INSERT ... ON CONFLICT DO UPDATE for all items: a second row of a product
\* would change the row the statement has just written.
UpdatesTwice(o) ==
  \E i, j \in DOMAIN o.items : i # j /\ o.items[i].product = o.items[j].product

\* products_sku_unique, row by row: another product has the sku, in the table or
\* since an earlier row of the statement.
SkuTaken(o, table) ==
  \E i \in DOMAIN o.items :
    LET written == {o.items[j] : j \in 1..i - 1}
        stale == {item.product : item \in written \cup {o.items[i]}}
    IN  \/ \E item \in written : item.sku = o.items[i].sku /\ item.product # o.items[i].product
        \/ \E p \in DOMAIN table \ stale : table[p] = o.items[i].sku

HasUnreadable(o) ==
  Unreadable \cap ({o.columns.about, o.extra} \cup {i.product : i \in Range(o.items)}) # {}

\* FULFILMENT_LOCATION_UNKNOWN
UnknownLocation(o) ==
  \E f \in Range(o.fulfilments) : f.location # {} /\ f.location # o.location

Storable(o, table, stored) ==
  /\ ~KeyUsed(o, stored) /\ ~HasUnreadable(o)
  /\ ~UpdatesTwice(o) /\ ~SkuTaken(o, table)
  /\ WithinConstraints(o) /\ ~UnknownLocation(o)

\* The products this transaction has written, an order's added.
WithProducts(own, o) ==
  [p \in DOMAIN own \cup {i.product : i \in Range(o.items)} |->
    IF \E i \in Range(o.items) : i.product = p
      THEN (CHOOSE i \in Range(o.items) : i.product = p).sku
      ELSE own[p]]

\* What a statement may see: its transaction's products, whose rows and skus it has
\* locked, and those others have committed by then.
Committable(own) ==
  {[p \in DOMAIN own \cup DOMAIN t |-> IF p \in DOMAIN own THEN own[p] ELSE t[p]] :
     t \in {u \in ProductTables : \A p \in DOMAIN u \ DOMAIN own : u[p] \notin Range(own)}}

NoProducts == [p \in {} |-> p]
AcceptedDocument(orders, file) ==
  [at |-> "accepted", orders |-> orders, file |-> file, stored |-> {}, own |-> NoProducts]

\* ingestOrderInTransaction for an order of the document (in the file's order, left
\* open here): its rows are written, or the transaction is given up with all of them.
StoreOrder ==
  /\ parse.at = "accepted"
  /\ \E o \in parse.orders \ parse.stored : \E table \in Committable(parse.own) :
       parse' = IF Storable(o, table, parse.stored)
                  THEN [parse EXCEPT !.stored = @ \cup {o}, !.own = WithProducts(@, o)]
                  ELSE [at |-> "rejected", order |-> o, seen |-> table, stored |-> parse.stored]

\* COMMIT
CommitOrders ==
  /\ parse.at = "accepted" /\ parse.stored = parse.orders
  /\ parse' = [at |-> "stored", orders |-> parse.stored, file |-> parse.file]

-----------------------------------------------------------------------------
(* parseOrderCsv.                                                          *)

NoDocument == [at |-> "idle"]
NoGroups == <<>>
ContractInit == parse = NoDocument

\* A file without rows or with too many is refused before its rows are read.
ReadFile ==
  /\ parse = NoDocument
  /\ \E f \in Files :
       parse' = IF Len(f) \in 1..MaxRows
                  THEN [at |-> "grouping", file |-> f, next |-> 1, groups |-> NoGroups,
                        issues |-> FALSE]
                  ELSE [at |-> "refused"]

\* fault: the rows of an order are not compared
NeverDisagrees(first, row) == FALSE

\* A column of orderColumns differs, as text.
Disagrees(first, row) == first.columns # row.columns

GroupRow ==
  LET row == parse.file[parse.next]
      known == row.order \in DOMAIN parse.groups
      before == IF known THEN parse.groups[row.order] ELSE <<>>
  IN  /\ parse.at = "grouping" /\ parse.next <= Len(parse.file)
      /\ parse' = [parse EXCEPT
           !.next = @ + 1,
           !.issues = @ \/ (known /\ Disagrees(Head(before), row)),
           !.groups = [id \in DOMAIN @ \cup {row.order} |->
                        IF id = row.order THEN Append(before, row) ELSE parse.groups[id]]]

\* number(name, 0), and Number(cell || 0), and Number('') for the item's numbers;
\* number(name) leaves NaN, which no rule accepts.
OrZero(cell) == IF cell = Blank THEN 0 ELSE cell

ColumnsOf(row) ==
  LET c == row.columns
  IN  Columns(c.about, c.subtotal, OrZero(c.discount), OrZero(c.tax), c.total)
ItemOf(row) ==
  LET i == row.item
  IN  LineItem(i.id, i.product, i.sku, OrZero(i.quantity), OrZero(i.price), OrZero(i.discount),
               OrZero(i.tax), OrZero(i.total))
PaymentOf(row) ==
  {[p EXCEPT !.captured = OrZero(@), !.refunded = OrZero(@)] : p \in row.payment}

\* toOrder: the order's columns and the payment come from its first row; a row has no
\* fulfilments and no returns.
ToOrder(id, rows) ==
  Candidate(id, ColumnsOf(Head(rows)), Head(rows).extra, {},
            [i \in DOMAIN rows |-> ItemOf(rows[i])], PaymentOf(Head(rows)), <<>>, <<>>)

Orders == {ToOrder(cell.id, parse.groups[cell]) : cell \in DOMAIN parse.groups}

ValidateGroups ==
  /\ parse.at = "grouping" /\ parse.next > Len(parse.file)
  /\ parse' = IF ~parse.issues /\ \A o \in Orders : ValidOrder(o)
                THEN AcceptedDocument(Orders, parse.file)
                ELSE [at |-> "refused"]

\* orderIngestionSchema on a request's body
ReadDelivery ==
  /\ parse = NoDocument
  /\ \E o \in Bodies :
       parse' = IF ValidOrder(o)
                  THEN AcceptedDocument({o}, <<>>)
                  ELSE [at |-> "refused"]

Respond == parse.at \in {"refused", "stored", "rejected"} /\ parse' = NoDocument

ContractNext ==
  \/ ReadFile \/ GroupRow \/ ValidateGroups \/ ReadDelivery
  \/ StoreOrder \/ CommitOrders
  \/ Respond
ContractSpec == ContractInit /\ [][ContractNext]_parse

-----------------------------------------------------------------------------
(* Properties.                                                             *)

\* Two instants the contract cannot tell apart and the database can.
OneMillisecond(e) == e.then < e.first /\ Milliseconds(e.then) = Milliseconds(e.first)

\* What the contract does not look at and the transaction refuses.
Overlooked(o, table, stored) ==
  \/ KeyUsed(o, stored)
  \/ HasUnreadable(o)
  \/ UpdatesTwice(o)
  \/ SkuTaken(o, table)
  \/ UnknownLocation(o)
  \/ \E e \in Range(o.fulfilments) \cup Range(o.returns) : OneMillisecond(e)

\* What the contract accepts is stored whole or refused for one of the six reasons
\* it does not look at: no amount, no sum (nor arithmetic that leaves the database's
\* integers), no quantity, payment or repeated id is refused by a table after the
\* contract let it pass; and every row of a stored file is an item, once, of an order
\* stored with the columns the row repeats.
AcceptedIsStoredWhole ==
  /\ parse.at = "rejected" => Overlooked(parse.order, parse.seen, parse.stored)
  /\ parse.at = "stored" => \A row \in Range(parse.file) : \E o \in parse.orders :
       /\ o.id = row.order.id /\ o.columns = ColumnsOf(row)
       /\ Cardinality({i \in DOMAIN o.items : o.items[i] = ItemOf(row)}) = 1
=============================================================================
