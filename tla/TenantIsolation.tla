-------------------------- MODULE TenantIsolation ---------------------------
(***************************************************************************)
(* The tables that hold an organization's data, their row level security   *)
(* and the foreign keys between them, and the transactions of              *)
(* DatabaseService that name the organization on a pooled connection.      *)
(*                                                                         *)
(* A row is its table, its organization and the rows it refers to.  The    *)
(* role is the runtime role: neither owner nor superuser, and row security *)
(* is forced.  PostgreSQL checks references without row security.          *)
(***************************************************************************)
EXTENDS Integers, FiniteSets

CONSTANTS
  Organizations,
  Connections,   \* the pool
  Callers,
  Tables,        \* the tables in use, of those in Schemas
  MaxRows,       \* how many rows may exist at once
  Absent         \* no row, no connection, no snapshot

VARIABLES
  rows,          \* the committed rows, by id
  setting,       \* app.organization_id of each connection's session
  caller

tenantVars == <<rows, setting, caller>>

-----------------------------------------------------------------------------
(* The schema: what each table refers to, besides its organization.        *)

Reference(table, onDelete, required) ==
  [to |-> table, onDelete |-> onDelete, required |-> required]

Cascades(table)  == Reference(table, "cascade", TRUE)
Restricts(table) == Reference(table, "restrict", TRUE)
MayName(table)   == Reference(table, "restrict", FALSE)

CatalogueReferences ==
  [t \in {"channels", "locations", "products", "inventory", "customer_references"} |->
     IF t = "inventory" THEN {Cascades("products"), Cascades("locations")} ELSE {}]

OrderReferences ==
  [t \in {"orders"} |->
     {Restricts("channels"), MayName("locations"), MayName("customer_references")}]

OrderPartReferences ==
  [t \in {"order_items", "payment_summaries", "fulfilments", "returns"} |->
     {Cascades("orders")}
       \cup (IF t = "order_items" THEN {Restricts("products")} ELSE {})
       \cup (IF t = "fulfilments" THEN {MayName("locations")} ELSE {})]

IngestionReferences ==
  [t \in {"data_imports", "webhook_endpoints", "ingestion_requests"} |-> {}]

ExportReferences == [t \in {"sales_exports"} |-> {}]

OperationsReferences ==
  [t \in {"operations_thresholds", "operations_alert_acknowledgements"} |-> {}]

GovernanceReferences ==
  [t \in {"organization_governance_settings", "organization_invitations",
          "governance_jobs"} |-> {}]

ArtifactReferences ==
  [t \in {"governance_job_artifacts"} |-> {Cascades("governance_jobs")}]

Schemas ==
  {CatalogueReferences, OrderReferences, OrderPartReferences,
   IngestionReferences, ExportReferences, OperationsReferences, GovernanceReferences,
   ArtifactReferences}

\* Only the tables in use can be referred to.
References(table) ==
  {r \in UNION {s[table] : s \in {x \in Schemas : table \in DOMAIN x}} : r.to \in Tables}

-----------------------------------------------------------------------------
(* The policy.  A setting nobody has made reads as null; one that a        *)
(* transaction made for itself reads as '' afterwards.                     *)

Null  == "null"
Blank == ""

ASSUME TenantAssumption ==
  /\ Organizations \cap {Null, Blank} = {}
  /\ Absent \notin Connections

CurrentOrganization(value) == IF value = Blank THEN Null ELSE value

Ids == 1..MaxRows
Row(table, org, to) == [table |-> table, org |-> org, to |-> to]

\* What a transaction has before it, its own changes included.
View(k) ==
  [i \in Ids |->
     IF i \in caller[k].deletes THEN Absent
     ELSE IF i \in DOMAIN caller[k].inserts THEN caller[k].inserts[i]
     ELSE IF caller[k].mode = "read" THEN caller[k].snapshot[i]
     ELSE rows[i]]

Visible(k) ==
  {i \in Ids : /\ View(k)[i] # Absent
               /\ View(k)[i].org = CurrentOrganization(setting[caller[k].conn])}

-----------------------------------------------------------------------------
Modes == {"write", "read", "plain"}

NotWorking ==
  [pc |-> "idle", mode |-> "plain", org |-> Null, conn |-> Absent, snapshot |-> Absent,
   known |-> {}, inserts |-> <<>>, deletes |-> {}]

TenantInit ==
  /\ rows = [i \in Ids |-> Absent]
  /\ setting = [c \in Connections |-> Null]
  /\ caller = [k \in Callers |-> NotWorking]

Taken == {caller[k].conn : k \in Callers} \ {Absent}

\* transaction: a connection of the pool and BEGIN.
Begin(k, mode, org) ==
  /\ caller[k].pc = "idle"
  /\ mode = "plain" <=> org = Null
  /\ \E c \in Connections \ Taken :
       caller' = [caller EXCEPT ![k] =
         [NotWorking EXCEPT !.pc = IF mode = "plain" THEN "working" ELSE "begun",
                            !.mode = mode, !.org = org, !.conn = c]]
  /\ UNCHANGED <<rows, setting>>

\* tenantTransaction: set_config for this transaction only; the snapshot of a
\* repeatable read begins with it.
SetOrganization(k) ==
  /\ caller[k].pc = "begun"
  /\ setting' = [setting EXCEPT ![caller[k].conn] = caller[k].org]
  /\ caller' = [caller EXCEPT ![k].pc = "working", ![k].snapshot = rows]
  /\ UNCHANGED rows

\* The policy cannot be evaluated for a setting that is no uuid.
Read(k) ==
  /\ caller[k].pc = "working"
  /\ caller' = [caller EXCEPT ![k] =
       IF CurrentOrganization(setting[@.conn]) = Blank THEN [@ EXCEPT !.pc = "failed"]
       ELSE [@ EXCEPT !.known = caller[k].known \cup Visible(k)]]
  /\ UNCHANGED <<rows, setting>>

\* The row exists in the organization of the one that refers to it.
Refers(k, to, org) ==
  \A i \in to : View(k)[i] # Absent /\ View(k)[i].org = org

Others(k) == Callers \ {k}
\* A row locked by a reference or a removal of another transaction makes this one wait.
ReferredByOthers(k, ids) ==
  \E o \in Others(k) : \E i \in DOMAIN caller[o].inserts : caller[o].inserts[i].to \cap ids # {}
RemovedByOthers(k, ids) ==
  \E o \in Others(k) : caller[o].deletes \cap ids # {}

FreeIds ==
  {i \in Ids : rows[i] = Absent /\ \A k \in Callers : i \notin DOMAIN caller[k].inserts}

\* The columns of a row name rows that this transaction has read.
Columns(k, table) ==
  {to \in SUBSET caller[k].known :
     \E named \in [to -> References(table)] :
       /\ \A t \in to : View(k)[t] # Absent => View(k)[t].table = named[t].to
       /\ \A t, u \in to : named[t] = named[u] => t = u
       /\ \A r \in References(table) : r.required => \E t \in to : named[t] = r}

With(f, i, row) == [j \in DOMAIN f \cup {i} |-> IF j = i THEN row ELSE f[j]]

Insert(k) ==
  /\ caller[k].pc = "working" /\ caller[k].mode = "write"
  /\ \E table \in Tables : \E to \in Columns(k, table) : \E i \in FreeIds :
       /\ \A j \in FreeIds : i <= j
       /\ ~RemovedByOthers(k, to)
       /\ caller' = [caller EXCEPT ![k] =
            IF /\ CurrentOrganization(setting[@.conn]) = @.org
               /\ Refers(k, to, @.org)
            THEN [@ EXCEPT !.inserts =
                    With(caller[k].inserts, i, Row(table, caller[k].org, to))]
            ELSE [@ EXCEPT !.pc = "failed"]]
  /\ UNCHANGED <<rows, setting>>

\* The rows that refer to these, by the given rule.
Referring(k, ids, rule) ==
  {i \in Ids : /\ View(k)[i] # Absent
               /\ \E t \in View(k)[i].to \cap ids : \E r \in References(View(k)[i].table) :
                    r.to = View(k)[t].table /\ r.onDelete = rule}

\* A removal takes along what cascades and is refused by what does not.
Delete(k) ==
  /\ caller[k].pc = "working" /\ caller[k].mode = "write"
  /\ \E i \in Visible(k) :
       LET gone == {i} \cup Referring(k, {i}, "cascade")
                       \cup Referring(k, Referring(k, {i}, "cascade"), "cascade")
       IN  /\ ~ReferredByOthers(k, gone) /\ ~RemovedByOthers(k, gone)
           /\ caller' = [caller EXCEPT ![k] =
                IF Referring(k, gone, "restrict") \ gone = {}
                THEN [@ EXCEPT !.deletes = caller[k].deletes \cup gone]
                ELSE [@ EXCEPT !.pc = "failed"]]
  /\ UNCHANGED <<rows, setting>>

\* fault: the setting stays with the connection.
SettingLasts(k) == setting

\* With the transaction its setting ends, and the connection goes back to the pool.
SettingEnds(k) ==
  IF caller[k].mode = "plain" \/ caller[k].pc = "begun" THEN setting
  ELSE [setting EXCEPT ![caller[k].conn] = Blank]

Commit(k) ==
  /\ caller[k].pc = "working"
  /\ rows' = IF caller[k].mode = "read" THEN rows ELSE View(k)
  /\ setting' = SettingEnds(k)
  /\ caller' = [caller EXCEPT ![k] = NotWorking]

Rollback(k) ==
  /\ caller[k].pc \in {"begun", "working", "failed"}
  /\ setting' = SettingEnds(k)
  /\ caller' = [caller EXCEPT ![k] = NotWorking]
  /\ UNCHANGED rows

TenantNext ==
  \E k \in Callers :
    \/ \E mode \in Modes, org \in Organizations \cup {Null} : Begin(k, mode, org)
    \/ SetOrganization(k) \/ Read(k) \/ Insert(k) \/ Delete(k)
    \/ Commit(k) \/ Rollback(k)

TenantSpec == TenantInit /\ [][TenantNext]_tenantVars

-----------------------------------------------------------------------------
(* The properties.                                                         *)

\* On whatever connection of the pool a transaction runs and whoever had it before, it
\* sees the rows of the organization it names and no other, one that names none sees no
\* row and no error (docs/adr/0005: tenant isolation by row security); and whatever
\* transactions insert and remove around each other, a row refers to rows that exist,
\* of its own organization.
TenantsApart ==
  /\ \A k \in Callers : caller[k].pc = "working" =>
       /\ CurrentOrganization(setting[caller[k].conn]) # Blank
       /\ Visible(k) = {i \in Ids : View(k)[i] # Absent /\ View(k)[i].org = caller[k].org}
  /\ \A i \in Ids : rows[i] # Absent =>
       \A t \in rows[i].to : rows[t] # Absent /\ rows[t].org = rows[i].org
=============================================================================
