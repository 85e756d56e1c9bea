--------------------------- MODULE OrderIngestion ---------------------------
(***************************************************************************)
(* DataCoreService: orders and stock positions of one organization arrive  *)
(* over REST, by webhook and in imports, any number of times and together. *)
(* A transaction ingests one snapshot, or those of an import one after the *)
(* other.  It locks every row it upserts until it ends; what it writes     *)
(* shows when it commits.                                                  *)
(***************************************************************************)
EXTENDS Naturals, Sequences, FiniteSets, Functions

CONSTANTS
  Snapshots,    \* what the sources send (records, see Order and Position)
  Imports,      \* files: the orders of each, in the order of its rows
  DeliveryKeys, \* idempotency keys of single deliveries
  Senders,      \* transactions under way at once
  NoSender

\* The lines of a snapshot name products; a file without orders is refused before any is
\* ingested.
ASSUME IngestionAssumption ==
  /\ \A s \in Snapshots : s.lines \in Seq(STRING)
  /\ \A f \in Imports : f \in Seq(Snapshots) /\ f # <<>>
  /\ NoSender \notin Senders

\* The parts of a snapshot that name rows: an order's channel, optional location
\* and customer (sets with at most one member), the products of its lines and the
\* locations its fulfilments name; a stock position's location and product.
Order(channel, location, customer, lines, shippedFrom) ==
  [kind |-> "order", channel |-> channel, location |-> location,
   customer |-> customer, lines |-> lines, shippedFrom |-> shippedFrom]
Position(location, product) ==
  [kind |-> "inventory", location |-> {location}, lines |-> <<product>>]

VARIABLES
  receipts,     \* ingestion_requests, committed: key -> set of the snapshot it stands for
  stored,       \* orders and inventory, committed: row -> set of its last snapshot
  rowHolder,    \* row -> the transaction that holds it, or NoSender
  sender,       \* what each transaction is doing
  effects       \* history: snapshots written under a key since it has a receipt

ingestionVars == <<receipts, stored, rowHolder, sender, effects>>

ImportKeys == UNION {{<<f, f[i]>> : i \in DOMAIN f} : f \in Imports}
AllKeys == DeliveryKeys \cup ImportKeys

OptionalRow(kind, name) == IF name = {} THEN <<>> ELSE <<<<kind, CHOOSE n \in name : TRUE>>>>
ProductRows(s) == [i \in DOMAIN s.lines |-> <<"product", s.lines[i]>>]

\* The row that holds the snapshot: one order for each channel, one position.
Target(s) ==
  IF s.kind = "order" THEN <<"order", s.channel>> ELSE <<"inventory", s.location, s.lines>>

\* fault: the product of a position is stored before its location
PlanProductFirst(s) ==
  IF s.kind = "order"
    THEN <<<<"channel", s.channel>>>> \o OptionalRow("location", s.location)
           \o OptionalRow("customer", s.customer) \o ProductRows(s) \o <<Target(s)>>
    ELSE ProductRows(s) \o OptionalRow("location", s.location) \o <<Target(s)>>

\* upsertChannel, upsertLocation, upsertCustomer, upsertProducts (row by row, in
\* the order of the lines) and upsertOrder; upsertLocation,
\* upsertInventoryProduct and the position.
Plan(s) ==
  IF s.kind = "order"
    THEN <<<<"channel", s.channel>>>> \o OptionalRow("location", s.location)
           \o OptionalRow("customer", s.customer) \o ProductRows(s) \o <<Target(s)>>
    ELSE OptionalRow("location", s.location) \o ProductRows(s) \o <<Target(s)>>

Rows == {<<"receipt", k>> : k \in AllKeys} \cup UNION {Range(Plan(s)) : s \in Snapshots}

NotSending == [at |-> "idle"]

IngestionInit ==
  /\ receipts = [k \in AllKeys |-> {}]
  /\ stored = [r \in {Target(s) : s \in Snapshots} |-> {}]
  /\ rowHolder = [r \in Rows |-> NoSender]
  /\ sender = [c \in Senders |-> NotSending]
  /\ effects = [k \in AllKeys |-> 0]

-----------------------------------------------------------------------------
(* A transaction.                                                          *)

Doing(c, place) == sender[c].at = place
Item(c) == Head(sender[c].items)
Receipt(c) == <<"receipt", Item(c).key>>
Written(c) == sender[c].written

\* "row" waits for the next row of the plan, `rows` are those still to lock.
Wanted(c) == IF Doing(c, "row") THEN Head(sender[c].rows) ELSE Receipt(c)
Waits(c) == Doing(c, "insert") \/ Doing(c, "read") \/ (Doing(c, "row") /\ sender[c].rows # <<>>)
Unheld(c, row) == rowHolder[row] \in {NoSender, c}

Deliver(c, items) ==
  /\ Doing(c, "idle")
  /\ sender' = [sender EXCEPT ![c] = [at |-> "insert", of |-> Len(items), items |-> items, written |-> {}]]
  /\ UNCHANGED <<receipts, stored, rowHolder, effects>>

DeliverOne(c) ==
  \E s \in Snapshots, k \in DeliveryKeys : Deliver(c, <<[key |-> k, snapshot |-> s]>>)

DeliverImport(c) ==
  \E f \in Imports : Deliver(c, [i \in DOMAIN f |-> [key |-> <<f, f[i]>>, snapshot |-> f[i]]])

\* Every lock is given back, nothing is written; the sender may try again.
Rollback(c) ==
  /\ rowHolder' = [r \in Rows |-> IF rowHolder[r] = c THEN NoSender ELSE rowHolder[r]]
  /\ sender' = [sender EXCEPT ![c] = NotSending]
  /\ UNCHANGED <<receipts, stored, effects>>

NextItem(c) ==
  LET rest == Tail(sender[c].items)
  IN  [sender[c] EXCEPT !.items = rest, !.at = IF rest = <<>> THEN "commit" ELSE "insert"]

\* fault: an earlier delivery that has not committed yet is not waited for
InsertAnyway(c) == TRUE

\* INSERT ... ON CONFLICT DO NOTHING waits for another transaction that has
\* inserted the same key and not for one that has only locked it.
MayInsert(c) == Unheld(c, Receipt(c)) \/ receipts[Item(c).key] # {}

\* claimRequest: INSERT
InsertReceipt(c) ==
  /\ Doing(c, "insert") /\ MayInsert(c)
  /\ IF receipts[Item(c).key] = {}
       THEN /\ rowHolder' = [rowHolder EXCEPT ![Receipt(c)] = c]
            /\ sender' = [sender EXCEPT ![c] =
                 [at |-> "row", of |-> @.of, items |-> @.items, written |-> @.written,
                  rows |-> Plan(Item(c).snapshot)]]
       ELSE /\ sender' = [sender EXCEPT ![c].at = "read"]
            /\ UNCHANGED rowHolder
  /\ UNCHANGED <<receipts, stored, effects>>

\* claimRequest: SELECT ... FOR UPDATE of a receipt that is there: a replay gets
\* the stored answer, other content is a conflict.
ReadReceipt(c) ==
  /\ Doing(c, "read") /\ Unheld(c, Receipt(c))
  /\ receipts[Item(c).key] = {Item(c).snapshot}
  /\ rowHolder' = [rowHolder EXCEPT ![Receipt(c)] = c]
  /\ sender' = [sender EXCEPT ![c] = NextItem(c)]
  /\ UNCHANGED <<receipts, stored, effects>>

\* IDEMPOTENCY_KEY_REUSED, or the receipt has been purged since the INSERT.
ReceiptDisagrees(c) ==
  /\ Doing(c, "read") /\ Unheld(c, Receipt(c))
  /\ receipts[Item(c).key] # {Item(c).snapshot}
  /\ Rollback(c)

\* One statement must not update the same product twice.
RepeatsProduct(s) == \E i, j \in DOMAIN s.lines : i # j /\ s.lines[i] = s.lines[j]

LockRow(c) ==
  /\ Doing(c, "row") /\ sender[c].rows # <<>>
  /\ Unheld(c, Wanted(c))
  /\ ~(Wanted(c)[1] = "product" /\ RepeatsProduct(Item(c).snapshot))
  /\ rowHolder' = [rowHolder EXCEPT ![Wanted(c)] = c]
  /\ sender' = [sender EXCEPT ![c].rows = Tail(@)]
  /\ UNCHANGED <<receipts, stored, effects>>

RefuseProducts(c) ==
  /\ Doing(c, "row") /\ sender[c].rows # <<>>
  /\ Wanted(c)[1] = "product" /\ RepeatsProduct(Item(c).snapshot)
  /\ Rollback(c)

Unshippable(s) == s.kind = "order" /\ ~(s.shippedFrom \subseteq s.location)

\* replaceOrderChildren, completeRequest and the audit event.
WriteItem(c) ==
  /\ Doing(c, "row") /\ sender[c].rows = <<>>
  /\ ~Unshippable(Item(c).snapshot)
  /\ sender' = [sender EXCEPT ![c] =
       [at |-> NextItem(c).at, of |-> @.of, items |-> NextItem(c).items,
        written |-> Written(c) \cup {Item(c)}]]
  /\ UNCHANGED <<receipts, stored, rowHolder, effects>>

\* FULFILMENT_LOCATION_UNKNOWN
RefuseFulfilment(c) ==
  /\ Doing(c, "row") /\ sender[c].rows = <<>>
  /\ Unshippable(Item(c).snapshot)
  /\ Rollback(c)

CommitItems(c) ==
  /\ Doing(c, "commit")
  /\ receipts' = [k \in AllKeys |->
       receipts[k] \cup {i.snapshot : i \in {j \in Written(c) : j.key = k}}]
  /\ stored' = [r \in DOMAIN stored |->
       LET new == {i.snapshot : i \in {j \in Written(c) : Target(j.snapshot) = r}}
       IN  IF new = {} THEN stored[r] ELSE new]
  /\ effects' = [k \in AllKeys |->
       effects[k] + Cardinality({i \in Written(c) : i.key = k})]
  /\ rowHolder' = [r \in Rows |-> IF rowHolder[r] = c THEN NoSender ELSE rowHolder[r]]
  /\ sender' = [sender EXCEPT ![c] = NotSending]

\* The connection or the process is lost, a statement times out.
Fail(c) ==
  /\ ~Doing(c, "idle")
  /\ Rollback(c)

\* Retention deletes a receipt nobody has locked.
PurgeReceipt(k) ==
  /\ receipts[k] # {} /\ rowHolder[<<"receipt", k>>] = NoSender
  /\ receipts' = [receipts EXCEPT ![k] = {}]
  /\ effects' = [effects EXCEPT ![k] = 0]
  /\ UNCHANGED <<stored, rowHolder, sender>>

-----------------------------------------------------------------------------
IngestionNext ==
  \/ \E c \in Senders :
       \/ DeliverOne(c) \/ DeliverImport(c)
       \/ InsertReceipt(c) \/ ReadReceipt(c) \/ ReceiptDisagrees(c)
       \/ LockRow(c) \/ RefuseProducts(c) \/ WriteItem(c) \/ RefuseFulfilment(c)
       \/ CommitItems(c) \/ Fail(c)
  \/ \E k \in AllKeys : PurgeReceipt(k)

IngestionSpec == IngestionInit /\ [][IngestionNext]_ingestionVars

-----------------------------------------------------------------------------
(* Properties.                                                             *)

\* While a receipt is kept its snapshot has been written once under it, however
\* often and however close together the delivery was repeated.
EffectPerReceipt ==
  \A k \in AllKeys : effects[k] = Cardinality(receipts[k]) /\ effects[k] <= 1

Blocked(c) == Waits(c) /\ ~(Doing(c, "insert") /\ MayInsert(c)) /\ ~Unheld(c, Wanted(c))

\* Every member waits for a row that a member holds, and holds one a member waits for.
Circle(S) ==
  /\ \A c \in S : Blocked(c)
  /\ {rowHolder[Wanted(c)] : c \in S} = S

\* Orders and stock positions ingested one at a time lock their rows in one order
\* of the tables; only the lines of orders can close a circle of waiting.
OnlyProductsDeadlock ==
  \A S \in (SUBSET Senders) \ {{}} :
    Circle(S) /\ (\A c \in S : sender[c].of = 1) =>
      \A c \in S : Wanted(c)[1] = "product"
=============================================================================
