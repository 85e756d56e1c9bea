--------------------------- MODULE DatabaseProofs ---------------------------
(***************************************************************************)
(* Theorems about TenantIsolation: types, and tenants that stay apart, for *)
(* any number of organizations, connections, callers and rows and any      *)
(* choice of the tables; about MigrationGate: the schema a process serves  *)
(* on, for any number of gates, processes and releases; about              *)
(* KeysetPagination: walks that give each row once, for any rows and pages *)
(* of any size; about SalesAnalytics: figures of a report that add up, for *)
(* any orders; and about Operations: cards, rows, issues and health that   *)
(* tell of the same orders and stock, for any orders, places and policies. *)
(***************************************************************************)
EXTENDS TenantIsolation, MigrationGate, KeysetPagination, SalesAnalytics, Operations,
        FiniteSetTheorems, SequenceTheorems, TLAPS

-----------------------------------------------------------------------------
(* The inductive invariant.                                                *)

RowSet == [table : Tables, org : Organizations, to : SUBSET Ids]

RowStates == {Absent} \cup RowSet

Inserts == {<<>>} \cup UNION {[D -> RowSet] : D \in SUBSET Ids}

CallerRecord ==
  [pc : {"idle", "begun", "working", "failed"}, mode : Modes,
   org : Organizations \cup {Null}, conn : Connections \cup {Absent},
   snapshot : {Absent} \cup [Ids -> RowStates],
   known : SUBSET Ids, inserts : Inserts, deletes : SUBSET Ids]

TenantTypeOK ==
  /\ rows \in [Ids -> RowStates]
  /\ setting \in [Connections -> Organizations \cup {Null, Blank}]
  /\ caller \in [Callers -> CallerRecord]

\* A connection belongs to one transaction at a time.
ConnectionsOwned ==
  \A k \in Callers :
    /\ caller[k].pc = "idle" <=> caller[k].conn = Absent
    /\ caller[k].conn # Absent => \A o \in Callers \ {k} : caller[o].conn # caller[k].conn

\* Its setting names the organization of the transaction that made it, and none
\* before and after.
SettingsOwned ==
  /\ \A k \in Callers : caller[k].pc # "idle" =>
       /\ caller[k].mode = "plain" <=> caller[k].org = Null
       /\ caller[k].pc = "begun" => caller[k].mode # "plain"
       /\ IF caller[k].mode = "plain" \/ caller[k].pc = "begun"
            THEN setting[caller[k].conn] \in {Null, Blank}
            ELSE setting[caller[k].conn] = caller[k].org
  /\ \A c \in Connections :
       (\A k \in Callers : caller[k].conn # c) => setting[c] \in {Null, Blank}

\* Only a writing transaction has changes of its own.
OnlyWritersChange ==
  \A k \in Callers : caller[k].mode # "write" =>
    DOMAIN caller[k].inserts = {} /\ caller[k].deletes = {}

\* Row r may refer to row s.
Fits(r, s) ==
  /\ s # Absent /\ s.org = r.org
  /\ \E ref \in References(r.table) : ref.to = s.table

Consistent(view) ==
  \A i \in Ids : view[i] # Absent => \A t \in view[i].to : Fits(view[i], view[t])

\* The committed rows refer to each other as they should, and would if any of the
\* transactions committed now.
ViewsConsistent ==
  /\ Consistent(rows)
  /\ \A k \in Callers : caller[k].mode = "write" => Consistent(View(k))

\* New rows have identities of their own, and what is removed is there.
IdsApart ==
  \A k \in Callers :
    /\ \A i \in DOMAIN caller[k].inserts :
         rows[i] = Absent /\ \A o \in Others(k) : i \notin DOMAIN caller[o].inserts
    /\ \A i \in caller[k].deletes : rows[i] # Absent \/ i \in DOMAIN caller[k].inserts

\* Transactions remove different rows, and none that another one's new row needs.
RemovalsApart ==
  \A k \in Callers, o \in Callers : o # k =>
    /\ caller[k].deletes \cap caller[o].deletes = {}
    /\ \A i \in DOMAIN caller[o].inserts :
         caller[o].inserts[i].to \cap caller[k].deletes = {}

TenantInv ==
  /\ TenantTypeOK /\ ConnectionsOwned /\ SettingsOwned
  /\ OnlyWritersChange /\ ViewsConsistent /\ IdsApart /\ RemovalsApart

-----------------------------------------------------------------------------
(* The schema.                                                             *)

Parents == {"products", "locations", "orders", "governance_jobs"}
Parts   == {"inventory", "order_items", "payment_summaries", "fulfilments", "returns",
            "governance_job_artifacts"}

\* A reference is followed or refused, and what goes with another row is nobody's
\* parent: a removal reaches no further than one step.
LEMMA ReferenceRules ==
  ASSUME NEW table, NEW r \in References(table)
  PROVE  /\ r.onDelete \in {"cascade", "restrict"}
         /\ r.onDelete = "cascade" => r.to \in Parents /\ table \in Parts
<1>1. PICK x \in Schemas : table \in DOMAIN x /\ r \in x[table]
  BY DEF References
<1>2. CASE x = CatalogueReferences
  BY <1>1, <1>2 DEF CatalogueReferences, Cascades, Reference, Parents, Parts
<1>3. CASE x = OrderReferences
  BY <1>1, <1>3 DEF OrderReferences, Restricts, MayName, Reference
<1>4. CASE x = OrderPartReferences
  BY <1>1, <1>4
  DEF OrderPartReferences, Cascades, Restricts, MayName, Reference, Parents, Parts
<1>5. CASE x \in {IngestionReferences, ExportReferences, OperationsReferences,
                 GovernanceReferences}
  BY <1>1, <1>5
  DEF IngestionReferences, ExportReferences, OperationsReferences, GovernanceReferences
<1>6. CASE x = ArtifactReferences
  BY <1>1, <1>6 DEF ArtifactReferences, Cascades, Reference, Parents, Parts
<1> QED
  BY <1>1, <1>2, <1>3, <1>4, <1>5, <1>6 DEF Schemas

-----------------------------------------------------------------------------
(* What a transaction sees.                                                *)

\* New rows are rows.
LEMMA InsertedRows ==
  ASSUME NEW f \in Inserts
  PROVE  DOMAIN f \subseteq Ids /\ \A i \in DOMAIN f : f[i] \in RowSet
<1>1. CASE f = <<>>
  BY <1>1
<1>2. CASE f \in UNION {[D -> RowSet] : D \in SUBSET Ids}
  BY <1>2
<1> QED
  BY <1>1, <1>2 DEF Inserts

\* A writing transaction sees its own changes, and else what is committed.
LEMMA ViewAt ==
  ASSUME NEW k \in Callers, caller[k].mode = "write", NEW i \in Ids
  PROVE  View(k)[i] = IF i \in caller[k].deletes THEN Absent
                      ELSE IF i \in DOMAIN caller[k].inserts THEN caller[k].inserts[i]
                      ELSE rows[i]
  BY DEF View

\* So it does after a step.
LEMMA ViewAtNext ==
  ASSUME NEW k \in Callers, caller'[k].mode = "write", NEW i \in Ids
  PROVE  View(k)'[i] = IF i \in caller'[k].deletes THEN Absent
                       ELSE IF i \in DOMAIN caller'[k].inserts THEN caller'[k].inserts[i]
                       ELSE rows'[i]
  BY DEF View

\* What it sees are rows.
LEMMA ViewRows ==
  ASSUME TenantInv, NEW k \in Callers, caller[k].mode # "read"
  PROVE  View(k) \in [Ids -> RowStates]
<1>1. caller[k].inserts \in Inserts
  BY DEF TenantInv, TenantTypeOK, CallerRecord
<1>2. \A i \in DOMAIN caller[k].inserts : caller[k].inserts[i] \in RowSet
  BY <1>1, InsertedRows
<1> QED
  BY <1>2 DEF View, RowStates, TenantInv, TenantTypeOK

-----------------------------------------------------------------------------
(* Connections and their settings.                                         *)

\* Nothing of a transaction is left when it has ended.
LEMMA NotWorkingFields ==
  /\ NotWorking \in CallerRecord
  /\ NotWorking.pc = "idle" /\ NotWorking.mode = "plain" /\ NotWorking.conn = Absent
  /\ NotWorking.deletes = {} /\ DOMAIN NotWorking.inserts = {}
<1>1. <<>> \in Inserts
  BY DEF Inserts
<1>2. /\ NotWorking.inserts = <<>> /\ NotWorking.deletes = {} /\ NotWorking.conn = Absent
      /\ NotWorking.pc = "idle" /\ NotWorking.mode = "plain"
  BY DEF NotWorking
<1>3. NotWorking \in CallerRecord
  BY <1>1 DEF NotWorking, CallerRecord, Modes
<1> QED
  BY <1>2, <1>3

\* A transaction that goes on keeps its connection, its mode and its organization.
LEMMA WorkingConnections ==
  ASSUME TenantInv, NEW k \in Callers, caller[k].pc = "working",
         NEW x, caller' = [caller EXCEPT ![k] = x], x.pc \in {"working", "failed"},
         x.conn = caller[k].conn, x.mode = caller[k].mode, x.org = caller[k].org,
         UNCHANGED setting
  PROVE  ConnectionsOwned' /\ SettingsOwned'
<1>1. caller'[k] = x /\ \A o \in Callers \ {k} : caller'[o] = caller[o]
  BY DEF TenantInv, TenantTypeOK
<1>2. \A o \in Callers : /\ caller'[o].conn = caller[o].conn
                         /\ caller'[o].mode = caller[o].mode
                         /\ caller'[o].org = caller[o].org
                         /\ caller'[o].pc = "idle" <=> caller[o].pc = "idle"
                         /\ caller'[o].pc = "begun" <=> caller[o].pc = "begun"
  BY <1>1
<1>3. ConnectionsOwned'
  BY <1>2 DEF TenantInv, ConnectionsOwned
<1>4. SettingsOwned'
  BY <1>2 DEF TenantInv, SettingsOwned
<1> QED
  BY <1>3, <1>4

\* A connection of the pool is nobody else's, and its setting names nobody.
LEMMA BeginConnections ==
  ASSUME TenantInv, NEW k \in Callers, NEW mode \in Modes,
         NEW org \in Organizations \cup {Null}, Begin(k, mode, org)
  PROVE  /\ ConnectionsOwned' /\ SettingsOwned' /\ caller' \in [Callers -> CallerRecord]
         /\ \A o \in Callers :
              \/ caller'[o] = caller[o]
              \/ DOMAIN caller'[o].inserts = {} /\ caller'[o].deletes = {}
<1>1. PICK c \in Connections \ Taken : caller' = [caller EXCEPT ![k] =
        [NotWorking EXCEPT !.pc = IF mode = "plain" THEN "working" ELSE "begun",
                           !.mode = mode, !.org = org, !.conn = c]]
  BY DEF Begin
<1> DEFINE x == [NotWorking EXCEPT !.pc = IF mode = "plain" THEN "working" ELSE "begun",
                                   !.mode = mode, !.org = org, !.conn = c]
<1>2. /\ x \in CallerRecord /\ x.pc = (IF mode = "plain" THEN "working" ELSE "begun")
      /\ x.mode = mode /\ x.org = org /\ x.conn = c
      /\ x.deletes = {} /\ DOMAIN x.inserts = {}
  BY NotWorkingFields DEF CallerRecord
<1>3. caller' = [caller EXCEPT ![k] = x]
  BY <1>1
<1> HIDE DEF x
<1>4. caller'[k] = x /\ \A o \in Callers \ {k} : caller'[o] = caller[o]
  BY <1>3 DEF TenantInv, TenantTypeOK
<1>5. c # Absent /\ \A o \in Callers : caller[o].conn # c
  BY TenantAssumption DEF Taken
<1>6. caller' \in [Callers -> CallerRecord]
  BY <1>2, <1>3 DEF TenantInv, TenantTypeOK
<1>7. ConnectionsOwned'
  BY <1>2, <1>4, <1>5 DEF TenantInv, ConnectionsOwned
<1>8. setting[c] \in {Null, Blank} /\ (mode = "plain" <=> org = Null)
  BY <1>5 DEF TenantInv, SettingsOwned, Begin
<1>9. SettingsOwned'
  <2>1. setting' = setting
    BY DEF Begin
  <2>2. ASSUME NEW o \in Callers, caller'[o].pc # "idle"
        PROVE  /\ caller'[o].mode = "plain" <=> caller'[o].org = Null
               /\ caller'[o].pc = "begun" => caller'[o].mode # "plain"
               /\ IF caller'[o].mode = "plain" \/ caller'[o].pc = "begun"
                    THEN setting[caller'[o].conn] \in {Null, Blank}
                    ELSE setting[caller'[o].conn] = caller'[o].org
    <3>1. CASE o = k
      BY <1>2, <1>4, <1>8, <3>1
    <3>2. CASE o # k
      BY <1>4, <2>2, <3>2 DEF TenantInv, SettingsOwned
    <3> QED
      BY <3>1, <3>2
  <2>3. ASSUME NEW d \in Connections, \A o \in Callers : caller'[o].conn # d
        PROVE  setting[d] \in {Null, Blank}
    <3>1. caller[k].conn = Absent
      BY DEF Begin, TenantInv, ConnectionsOwned
    <3>2. \A o \in Callers : caller[o].conn # d
      BY <1>4, <2>3, <3>1, TenantAssumption
    <3> QED
      BY <3>2 DEF TenantInv, SettingsOwned
  <2> QED
    BY <2>1, <2>2, <2>3 DEF SettingsOwned
<1> QED
  BY <1>2, <1>4, <1>6, <1>7, <1>9

\* set_config makes the setting that of the transaction's organization.
LEMMA SetOrganizationConnections ==
  ASSUME TenantInv, NEW k \in Callers, SetOrganization(k)
  PROVE  /\ ConnectionsOwned' /\ SettingsOwned' /\ caller' \in [Callers -> CallerRecord]
         /\ setting' \in [Connections -> Organizations \cup {Null, Blank}]
         /\ \A o \in Callers : /\ caller'[o].mode = caller[o].mode
                               /\ caller'[o].inserts = caller[o].inserts
                               /\ caller'[o].deletes = caller[o].deletes
<1> DEFINE x == [caller[k] EXCEPT !.pc = "working", !.snapshot = rows]
<1>1. caller' = [caller EXCEPT ![k] = x]
  BY DEF SetOrganization, TenantInv, TenantTypeOK
<1>2. caller[k] \in CallerRecord /\ rows \in [Ids -> RowStates] /\ caller[k].pc = "begun"
  BY DEF TenantInv, TenantTypeOK, SetOrganization
<1>3. /\ x \in CallerRecord /\ x.pc = "working" /\ x.mode = caller[k].mode
      /\ x.org = caller[k].org /\ x.conn = caller[k].conn
      /\ x.inserts = caller[k].inserts /\ x.deletes = caller[k].deletes
  BY <1>2 DEF CallerRecord
<1> HIDE DEF x
<1>4. caller'[k] = x /\ \A o \in Callers \ {k} : caller'[o] = caller[o]
  BY <1>1 DEF TenantInv, TenantTypeOK
<1>5. caller' \in [Callers -> CallerRecord]
  BY <1>1, <1>3 DEF TenantInv, TenantTypeOK
<1>6. caller[k].conn # Absent /\ caller[k].conn \in Connections
  BY <1>2 DEF TenantInv, ConnectionsOwned, CallerRecord
<1>7. /\ setting' = [setting EXCEPT ![caller[k].conn] = caller[k].org]
      /\ setting' \in [Connections -> Organizations \cup {Null, Blank}]
  BY <1>2, <1>6 DEF SetOrganization, TenantInv, TenantTypeOK, CallerRecord
<1>8. ConnectionsOwned'
  BY <1>2, <1>3, <1>4 DEF TenantInv, ConnectionsOwned
<1>9. /\ caller[k].mode # "plain" /\ caller[k].org # Null
      /\ setting'[caller[k].conn] = caller[k].org
      /\ \A c \in Connections \ {caller[k].conn} : setting'[c] = setting[c]
  <2>1. caller[k].mode # "plain" /\ caller[k].org # Null
    BY <1>2 DEF TenantInv, SettingsOwned
  <2>2. setting \in [Connections -> Organizations \cup {Null, Blank}]
    BY DEF TenantInv, TenantTypeOK
  <2> QED
    BY <1>6, <1>7, <2>1, <2>2
<1>10. SettingsOwned'
  <2>1. ASSUME NEW o \in Callers, caller'[o].pc # "idle"
        PROVE  /\ caller'[o].mode = "plain" <=> caller'[o].org = Null
               /\ caller'[o].pc = "begun" => caller'[o].mode # "plain"
               /\ IF caller'[o].mode = "plain" \/ caller'[o].pc = "begun"
                    THEN setting'[caller'[o].conn] \in {Null, Blank}
                    ELSE setting'[caller'[o].conn] = caller'[o].org
    <3>1. CASE o = k
      BY <1>3, <1>4, <1>9, <3>1
    <3>2. CASE o # k
      <4>1. caller'[o] = caller[o]
        BY <1>4, <3>2
      <4>2. caller[o].conn \in Connections \ {caller[k].conn}
        BY <1>6, <2>1, <3>2, <4>1 DEF TenantInv, ConnectionsOwned, TenantTypeOK, CallerRecord
      <4> QED
        BY <1>9, <2>1, <4>1, <4>2 DEF TenantInv, SettingsOwned
    <3> QED
      BY <3>1, <3>2
  <2>2. ASSUME NEW d \in Connections, \A o \in Callers : caller'[o].conn # d
        PROVE  setting'[d] \in {Null, Blank}
    BY <1>3, <1>4, <1>9, <2>2 DEF TenantInv, SettingsOwned
  <2> QED
    BY <2>1, <2>2 DEF SettingsOwned
<1>11. \A o \in Callers : /\ caller'[o].mode = caller[o].mode
                          /\ caller'[o].inserts = caller[o].inserts
                          /\ caller'[o].deletes = caller[o].deletes
  BY <1>3, <1>4
<1> QED
  BY <1>5, <1>7, <1>8, <1>10, <1>11

\* With the end of a transaction its setting is gone from the connection.
LEMMA EndConnections ==
  ASSUME TenantInv, NEW k \in Callers, caller[k].pc # "idle",
         setting' = SettingEnds(k), caller' = [caller EXCEPT ![k] = NotWorking]
  PROVE  /\ ConnectionsOwned' /\ SettingsOwned' /\ caller' \in [Callers -> CallerRecord]
         /\ setting' \in [Connections -> Organizations \cup {Null, Blank}]
<1>1. caller'[k] = NotWorking /\ \A o \in Callers \ {k} : caller'[o] = caller[o]
  BY DEF TenantInv, TenantTypeOK
<1>2. caller' \in [Callers -> CallerRecord]
  BY NotWorkingFields DEF TenantInv, TenantTypeOK
<1>3. caller[k].conn \in Connections /\ caller[k].conn # Absent
  BY DEF TenantInv, ConnectionsOwned, TenantTypeOK, CallerRecord
<1>4. ConnectionsOwned'
  BY <1>1, <1>3, NotWorkingFields DEF TenantInv, ConnectionsOwned
<1>5. setting \in [Connections -> Organizations \cup {Null, Blank}]
  BY DEF TenantInv, TenantTypeOK
<1>6. /\ setting'[caller[k].conn] \in {Null, Blank}
      /\ \A c \in Connections \ {caller[k].conn} : setting'[c] = setting[c]
      /\ setting' \in [Connections -> Organizations \cup {Null, Blank}]
  <2>1. CASE caller[k].mode = "plain" \/ caller[k].pc = "begun"
    BY <1>5, <2>1 DEF SettingEnds, TenantInv, SettingsOwned
  <2>2. CASE ~(caller[k].mode = "plain" \/ caller[k].pc = "begun")
    BY <1>3, <1>5, <2>2 DEF SettingEnds
  <2> QED
    BY <2>1, <2>2
<1>7. SettingsOwned'
  <2>1. ASSUME NEW o \in Callers, caller'[o].pc # "idle"
        PROVE  /\ caller'[o].mode = "plain" <=> caller'[o].org = Null
               /\ caller'[o].pc = "begun" => caller'[o].mode # "plain"
               /\ IF caller'[o].mode = "plain" \/ caller'[o].pc = "begun"
                    THEN setting'[caller'[o].conn] \in {Null, Blank}
                    ELSE setting'[caller'[o].conn] = caller'[o].org
    <3>1. o # k /\ caller'[o] = caller[o]
      BY <1>1, <2>1, NotWorkingFields
    <3>2. caller[o].conn \in Connections \ {caller[k].conn}
      BY <1>3, <2>1, <3>1 DEF TenantInv, ConnectionsOwned, TenantTypeOK, CallerRecord
    <3> QED
      BY <1>6, <2>1, <3>1, <3>2 DEF TenantInv, SettingsOwned
  <2>2. ASSUME NEW d \in Connections, \A o \in Callers : caller'[o].conn # d
        PROVE  setting'[d] \in {Null, Blank}
    <3>1. CASE d = caller[k].conn
      BY <1>6, <3>1
    <3>2. CASE d # caller[k].conn
      BY <1>1, <1>6, <2>2, <3>2 DEF TenantInv, SettingsOwned
    <3> QED
      BY <3>1, <3>2
  <2> QED
    BY <2>1, <2>2 DEF SettingsOwned
<1> QED
  BY <1>2, <1>4, <1>6, <1>7

-----------------------------------------------------------------------------
(* The rows and the changes of the transactions.                           *)

\* Rows that refer to each other as they should do so in any copy of them.
LEMMA ConsistentSame ==
  ASSUME NEW v, NEW w, v \in [Ids -> RowStates], Consistent(v), \A i \in Ids : w[i] = v[i]
  PROVE  Consistent(w)
<1> SUFFICES ASSUME NEW i \in Ids, w[i] # Absent, NEW t \in w[i].to
             PROVE  Fits(w[i], w[t])
  BY DEF Consistent
<1>1. v[i] \in RowSet
  BY DEF RowStates
<1>2. t \in Ids
  BY <1>1 DEF RowSet
<1> QED
  BY <1>2 DEF Consistent

\* A step that changes no row and no transaction's changes, or forgets the changes of
\* some, keeps what is said of them.
LEMMA SameChanges ==
  ASSUME TenantInv, rows' = rows,
         \A o \in Callers :
           \/ /\ caller'[o].mode = caller[o].mode
              /\ caller'[o].inserts = caller[o].inserts
              /\ caller'[o].deletes = caller[o].deletes
           \/ DOMAIN caller'[o].inserts = {} /\ caller'[o].deletes = {}
  PROVE  OnlyWritersChange' /\ ViewsConsistent' /\ IdsApart' /\ RemovalsApart'
<1>1. OnlyWritersChange'
  BY DEF TenantInv, OnlyWritersChange
<1>2. ViewsConsistent'
  <2>1. Consistent(rows)'
    BY DEF TenantInv, ViewsConsistent, Consistent, Fits
  <2>2. ASSUME NEW o \in Callers, caller'[o].mode = "write"
        PROVE  Consistent(View(o))'
    <3>1. CASE /\ caller'[o].mode = caller[o].mode
               /\ caller'[o].inserts = caller[o].inserts
               /\ caller'[o].deletes = caller[o].deletes
      <4>1. View(o) \in [Ids -> RowStates] /\ Consistent(View(o))
        BY <2>2, <3>1, ViewRows DEF TenantInv, ViewsConsistent
      <4>2. \A i \in Ids : View(o)'[i] = View(o)[i]
        BY <2>2, <3>1, ViewAt, ViewAtNext
      <4> QED
        BY <4>1, <4>2, ConsistentSame
    <3>2. CASE DOMAIN caller'[o].inserts = {} /\ caller'[o].deletes = {}
      <4>1. rows \in [Ids -> RowStates] /\ Consistent(rows)
        BY DEF TenantInv, ViewsConsistent, TenantTypeOK
      <4>2. \A i \in Ids : View(o)'[i] = rows[i]
        BY <2>2, <3>2, ViewAtNext
      <4> QED
        BY <4>1, <4>2, ConsistentSame
    <3> QED
      BY <3>1, <3>2
  <2> QED
    BY <2>1, <2>2 DEF ViewsConsistent
<1>3. IdsApart'
  BY DEF TenantInv, IdsApart, Others
<1>4. RemovalsApart'
  BY DEF TenantInv, RemovalsApart
<1> QED
  BY <1>1, <1>2, <1>3, <1>4

\* A transaction with a mode of its own names an organization.
LEMMA WriterNames ==
  ASSUME TenantInv, NEW k \in Callers, caller[k].pc = "working", caller[k].mode = "write"
  PROVE  caller[k].org \in Organizations /\ View(k) \in [Ids -> RowStates]
         /\ Consistent(View(k)) /\ caller[k] \in CallerRecord
<1>1. caller[k].org # Null
  BY DEF TenantInv, SettingsOwned
<1>2. caller[k] \in CallerRecord
  BY DEF TenantInv, TenantTypeOK
<1>3. caller[k].org \in Organizations
  BY <1>1, <1>2 DEF CallerRecord
<1>4. View(k) \in [Ids -> RowStates] /\ Consistent(View(k))
  BY ViewRows DEF TenantInv, ViewsConsistent
<1> QED
  BY <1>2, <1>3, <1>4

\* A refused change changes nothing.
LEMMA Refused ==
  ASSUME TenantInv, NEW k \in Callers, caller[k].pc = "working",
         NEW mode, caller[k].mode = mode,
         caller' = [caller EXCEPT ![k] = [caller[k] EXCEPT !.pc = "failed"]],
         UNCHANGED <<rows, setting>>
  PROVE  TenantInv'
<1> DEFINE x == [caller[k] EXCEPT !.pc = "failed"]
<1>1. caller[k] \in CallerRecord
  BY DEF TenantInv, TenantTypeOK
<1>2. /\ x \in CallerRecord /\ x.pc = "failed" /\ x.conn = caller[k].conn
      /\ x.mode = caller[k].mode /\ x.org = caller[k].org
      /\ x.inserts = caller[k].inserts /\ x.deletes = caller[k].deletes
  BY <1>1 DEF CallerRecord
<1>3. caller' = [caller EXCEPT ![k] = x]
  OBVIOUS
<1> HIDE DEF x
<1>4. ConnectionsOwned' /\ SettingsOwned'
  BY <1>2, <1>3, WorkingConnections
<1>5. TenantTypeOK'
  BY <1>2, <1>3 DEF TenantInv, TenantTypeOK
<1>6. \A o \in Callers : /\ caller'[o].mode = caller[o].mode
                         /\ caller'[o].inserts = caller[o].inserts
                         /\ caller'[o].deletes = caller[o].deletes
  BY <1>2, <1>3 DEF TenantInv, TenantTypeOK
<1>7. OnlyWritersChange' /\ ViewsConsistent' /\ IdsApart' /\ RemovalsApart'
  BY <1>6, SameChanges
<1> QED
  BY <1>4, <1>5, <1>7 DEF TenantInv

\* A new row has an identity of its own and refers to rows its transaction sees, which
\* nobody else is removing.
LEMMA InsertStep ==
  ASSUME TenantInv, NEW k \in Callers, Insert(k)
  PROVE  TenantInv'
<1> DEFINE Step(table, to, i) ==
             /\ ~RemovedByOthers(k, to)
             /\ caller' = [caller EXCEPT ![k] =
                  IF /\ CurrentOrganization(setting[@.conn]) = @.org
                     /\ Refers(k, to, @.org)
                  THEN [@ EXCEPT !.inserts =
                          With(caller[k].inserts, i, Row(table, caller[k].org, to))]
                  ELSE [@ EXCEPT !.pc = "failed"]]
<1>1. \E table \in Tables : \E to \in Columns(k, table) : \E i \in FreeIds : Step(table, to, i)
  BY DEF Insert
<1>2. PICK table \in Tables : \E to \in Columns(k, table) : \E i \in FreeIds : Step(table, to, i)
  BY <1>1
<1>3. PICK to \in Columns(k, table) : \E i \in FreeIds : Step(table, to, i)
  BY <1>2
<1>4. PICK i \in FreeIds : Step(table, to, i)
  BY <1>3
<1>5. caller[k].pc = "working" /\ caller[k].mode = "write" /\ UNCHANGED <<rows, setting>>
  BY DEF Insert
<1> DEFINE row == Row(table, caller[k].org, to)
           new == With(caller[k].inserts, i, row)
           x == [caller[k] EXCEPT !.inserts = new]
<1>6. CASE ~(/\ CurrentOrganization(setting[caller[k].conn]) = caller[k].org
             /\ Refers(k, to, caller[k].org))
  <2>1. caller' = [caller EXCEPT ![k] = [caller[k] EXCEPT !.pc = "failed"]]
    BY <1>4, <1>6
  <2> QED
    BY <1>5, <2>1, Refused
<1>7. CASE Refers(k, to, caller[k].org) /\ caller' = [caller EXCEPT ![k] = x]
  <2>1. /\ caller[k].org \in Organizations /\ View(k) \in [Ids -> RowStates]
        /\ Consistent(View(k)) /\ caller[k] \in CallerRecord
    BY <1>5, WriterNames
  <2>2. DOMAIN caller[k].inserts \subseteq Ids
        /\ \A j \in DOMAIN caller[k].inserts : caller[k].inserts[j] \in RowSet
    BY <2>1, InsertedRows DEF CallerRecord
  <2>3. i \in Ids /\ rows[i] = Absent /\ \A o \in Callers : i \notin DOMAIN caller[o].inserts
    BY DEF FreeIds
  <2>4. to \subseteq Ids /\ \A t \in to : Fits(row, View(k)[t])
    <3>1. to \in SUBSET caller[k].known
      BY DEF Columns
    <3>2. to \subseteq Ids
      BY <2>1, <3>1 DEF CallerRecord
    <3>3. PICK named \in [to -> References(table)] :
            \A t \in to : View(k)[t] # Absent => View(k)[t].table = named[t].to
      BY DEF Columns
    <3>4. \A t \in to : View(k)[t] # Absent /\ View(k)[t].org = caller[k].org
      BY <1>7 DEF Refers
    <3>5. row.table = table /\ row.org = caller[k].org
      BY DEF Row
    <3>6. ASSUME NEW t \in to
          PROVE  Fits(row, View(k)[t])
      <4>1. named[t] \in References(row.table) /\ named[t].to = View(k)[t].table
        BY <3>3, <3>4, <3>5
      <4> QED
        BY <3>4, <3>5, <4>1 DEF Fits
    <3> QED
      BY <3>2, <3>6
  <2>5. row \in RowSet /\ row.to = to
    BY <2>1, <2>4 DEF Row, RowSet
  <2> HIDE DEF row
  <2>6. new \in Inserts
    <3>1. DOMAIN caller[k].inserts \cup {i} \in SUBSET Ids
      BY <2>2, <2>3
    <3>2. new \in [DOMAIN caller[k].inserts \cup {i} -> RowSet]
      BY <2>2, <2>5 DEF With
    <3> QED
      BY <3>1, <3>2 DEF Inserts
  <2>7. /\ DOMAIN new = DOMAIN caller[k].inserts \cup {i} /\ new[i] = row
        /\ \A j \in DOMAIN caller[k].inserts : new[j] = caller[k].inserts[j]
    BY <2>3 DEF With
  <2> HIDE DEF new
  <2>8. /\ x \in CallerRecord /\ x.pc = "working" /\ x.conn = caller[k].conn
        /\ x.mode = "write" /\ x.org = caller[k].org /\ x.inserts = new
        /\ x.deletes = caller[k].deletes
    BY <1>5, <2>1, <2>6 DEF CallerRecord
  <2> HIDE DEF x
  <2>9. caller'[k] = x /\ \A o \in Callers \ {k} : caller'[o] = caller[o]
    BY <1>7 DEF TenantInv, TenantTypeOK
  <2>10. ConnectionsOwned' /\ SettingsOwned'
    BY <1>5, <1>7, <2>8, WorkingConnections
  <2>11. TenantTypeOK'
    BY <1>5, <1>7, <2>8 DEF TenantInv, TenantTypeOK
  <2>12. OnlyWritersChange'
    BY <2>8, <2>9 DEF TenantInv, OnlyWritersChange
  <2>13. i \notin caller[k].deletes
    BY <2>3 DEF TenantInv, IdsApart
  <2>14. IdsApart'
    BY <1>5, <2>3, <2>7, <2>8, <2>9 DEF TenantInv, IdsApart, Others
  <2>15. RemovalsApart'
    <3>1. \A o \in Callers \ {k} : to \cap caller[o].deletes = {}
      BY <1>4 DEF RemovedByOthers, Others
    <3> QED
      BY <2>5, <2>7, <2>8, <2>9, <3>1 DEF TenantInv, RemovalsApart
  <2>16. ViewsConsistent'
    <3>1. Consistent(rows)'
      BY <1>5 DEF TenantInv, ViewsConsistent, Consistent, Fits
    <3>2. ASSUME NEW o \in Callers, o # k, caller'[o].mode = "write"
          PROVE  Consistent(View(o))'
      <4>1. View(o) \in [Ids -> RowStates] /\ Consistent(View(o))
        BY <2>9, <3>2, ViewRows DEF TenantInv, ViewsConsistent
      <4>2. \A j \in Ids : View(o)'[j] = View(o)[j]
        BY <1>5, <2>9, <3>2, ViewAt, ViewAtNext
      <4> QED
        BY <4>1, <4>2, ConsistentSame
    <3>3. View(k)'[i] = row /\ \A j \in Ids \ {i} : View(k)'[j] = View(k)[j]
      BY <1>5, <2>3, <2>7, <2>8, <2>9, <2>13, ViewAt, ViewAtNext
    <3>4. View(k)[i] = Absent
      BY <1>5, <2>3, ViewAt
    <3>5. Consistent(View(k))'
      <4> SUFFICES ASSUME NEW j \in Ids, View(k)'[j] # Absent, NEW t \in View(k)'[j].to
                   PROVE  Fits(View(k)'[j], View(k)'[t])
        BY DEF Consistent, Fits
      <4>1. CASE j = i
        <5>1. t \in to /\ Fits(row, View(k)[t])
          BY <2>4, <2>5, <3>3, <4>1
        <5>2. t # i
          BY <3>4, <5>1 DEF Fits
        <5> QED
          BY <2>4, <3>3, <4>1, <5>1, <5>2
      <4>2. CASE j # i
        <5>1. View(k)[j] \in RowSet /\ t \in View(k)[j].to
          BY <2>1, <3>3, <4>2 DEF RowStates
        <5>2. t \in Ids /\ Fits(View(k)[j], View(k)[t])
          BY <2>1, <3>3, <4>2, <5>1 DEF Consistent, RowSet
        <5>3. t # i
          BY <3>4, <5>2 DEF Fits
        <5> QED
          BY <3>3, <4>2, <5>2, <5>3
      <4> QED
        BY <4>1, <4>2
    <3> QED
      BY <3>1, <3>2, <3>5 DEF ViewsConsistent
  <2> QED
    BY <2>10, <2>11, <2>12, <2>14, <2>15, <2>16 DEF TenantInv
<1>8. CASE /\ CurrentOrganization(setting[caller[k].conn]) = caller[k].org
           /\ Refers(k, to, caller[k].org)
  <2>1. caller' = [caller EXCEPT ![k] = x]
    BY <1>4, <1>8
  <2> QED
    BY <1>8, <2>1, <1>7
<1> QED
  BY <1>6, <1>8

\* The rows that go when row i is removed.
Gone(k, i) ==
  {i} \cup Referring(k, {i}, "cascade")
      \cup Referring(k, Referring(k, {i}, "cascade"), "cascade")

\* What goes with a row refers to it, so it is nobody's parent: a removal takes along
\* the rows that cascade from the row it names, and no row that stays refers to one that
\* goes.
LEMMA RemovalClosed ==
  ASSUME TenantInv, NEW k \in Callers, caller[k].pc = "working", caller[k].mode = "write",
         NEW i \in Visible(k), Referring(k, Gone(k, i), "restrict") \ Gone(k, i) = {}
  PROVE  /\ Gone(k, i) \subseteq Ids
         /\ \A j \in Gone(k, i) : View(k)[j] # Absent
         /\ \A j \in Ids \ Gone(k, i) :
              View(k)[j] # Absent => View(k)[j].to \cap Gone(k, i) = {}
<1>0. PICK gone : gone = Gone(k, i)
  OBVIOUS
<1> DEFINE first == Referring(k, {i}, "cascade")
           second == Referring(k, first, "cascade")
<1>1. View(k) \in [Ids -> RowStates] /\ Consistent(View(k))
  BY WriterNames
<1>2. i \in Ids /\ View(k)[i] # Absent
  BY DEF Visible
<1>3. /\ first \subseteq Ids /\ second \subseteq Ids
      /\ \A j \in first \cup second : View(k)[j] # Absent
  BY DEF Referring
<1>4. \A j \in first : View(k)[j].table \in Parts
  BY ReferenceRules DEF Referring
<1>5. second = {}
  <2> SUFFICES ASSUME NEW j \in second
               PROVE  FALSE
    OBVIOUS
  <2>1. PICK t \in View(k)[j].to \cap first :
          \E r \in References(View(k)[j].table) :
            r.to = View(k)[t].table /\ r.onDelete = "cascade"
    BY DEF Referring
  <2>2. View(k)[t].table \in Parents
    BY <2>1, ReferenceRules
  <2> QED
    BY <1>4, <2>1, <2>2 DEF Parents, Parts
<1>6. ASSUME NEW j \in Ids \ gone, View(k)[j] # Absent, NEW t \in View(k)[j].to, t \in gone
      PROVE  FALSE
  <2>1. View(k)[j] \in RowSet
    BY <1>1, <1>6 DEF RowStates
  <2>2. t \in Ids /\ Fits(View(k)[j], View(k)[t])
    BY <1>1, <1>6, <2>1 DEF Consistent, RowSet
  <2>3. PICK r \in References(View(k)[j].table) : r.to = View(k)[t].table
    BY <2>2 DEF Fits
  <2>4. r.onDelete \in {"cascade", "restrict"}
    BY ReferenceRules
  <2>5. CASE r.onDelete = "restrict"
    <3>1. j \in Referring(k, gone, "restrict")
      BY <1>6, <2>3, <2>5 DEF Referring
    <3> QED
      BY <1>0, <1>6, <3>1
  <2>6. CASE r.onDelete = "cascade"
    <3>1. t \in {i} \cup first
      BY <1>0, <1>5, <1>6 DEF Gone
    <3>2. CASE t = i
      <4>1. j \in first
        BY <1>6, <2>3, <2>6, <3>2 DEF Referring
      <4> QED
        BY <1>0, <1>6, <4>1 DEF Gone
    <3>3. CASE t \in first
      <4>1. j \in second
        BY <1>6, <2>3, <2>6, <3>3 DEF Referring
      <4> QED
        BY <1>5, <4>1
    <3> QED
      BY <3>1, <3>2, <3>3
  <2> QED
    BY <2>4, <2>5, <2>6
<1>7. gone = {i} \cup first \cup second
  BY <1>0 DEF Gone
<1>8. gone \subseteq Ids /\ \A j \in gone : View(k)[j] # Absent
  BY <1>2, <1>3, <1>7
<1> QED
  BY <1>0, <1>6, <1>8

\* A removal leaves rows that still refer to rows that are there.
LEMMA DeleteStep ==
  ASSUME TenantInv, NEW k \in Callers, Delete(k)
  PROVE  TenantInv'
<1>1. PICK i \in Visible(k) :
        /\ ~ReferredByOthers(k, Gone(k, i)) /\ ~RemovedByOthers(k, Gone(k, i))
        /\ caller' = [caller EXCEPT ![k] =
             IF Referring(k, Gone(k, i), "restrict") \ Gone(k, i) = {}
             THEN [caller[k] EXCEPT !.deletes = caller[k].deletes \cup Gone(k, i)]
             ELSE [caller[k] EXCEPT !.pc = "failed"]]
  BY DEF Delete, Gone
<1>2. caller[k].pc = "working" /\ caller[k].mode = "write" /\ UNCHANGED <<rows, setting>>
  BY DEF Delete
<1>3. CASE Referring(k, Gone(k, i), "restrict") \ Gone(k, i) # {}
  <2>1. caller' = [caller EXCEPT ![k] = [caller[k] EXCEPT !.pc = "failed"]]
    BY <1>1, <1>3
  <2> QED
    BY <1>2, <2>1, Refused
<1>4. CASE Referring(k, Gone(k, i), "restrict") \ Gone(k, i) = {}
  <2>1. PICK gone : gone = Gone(k, i)
    OBVIOUS
  <2> DEFINE x == [caller[k] EXCEPT !.deletes = caller[k].deletes \cup gone]
  <2>2. caller' = [caller EXCEPT ![k] = x]
    BY <1>1, <1>4, <2>1
  <2>3. /\ gone \subseteq Ids /\ \A j \in gone : View(k)[j] # Absent
        /\ \A j \in Ids \ gone : View(k)[j] # Absent => View(k)[j].to \cap gone = {}
    BY <1>2, <1>4, <2>1, RemovalClosed
  <2>4. /\ View(k) \in [Ids -> RowStates] /\ Consistent(View(k))
        /\ caller[k] \in CallerRecord
    BY <1>2, WriterNames
  <2>5. /\ x \in CallerRecord /\ x.pc = "working" /\ x.conn = caller[k].conn
        /\ x.mode = "write" /\ x.org = caller[k].org /\ x.inserts = caller[k].inserts
        /\ x.deletes = caller[k].deletes \cup gone
    BY <1>2, <2>3, <2>4 DEF CallerRecord
  <2> HIDE DEF x
  <2>6. caller'[k] = x /\ \A o \in Callers \ {k} : caller'[o] = caller[o]
    BY <2>2 DEF TenantInv, TenantTypeOK
  <2>7. ConnectionsOwned' /\ SettingsOwned'
    BY <1>2, <2>2, <2>5, WorkingConnections
  <2>8. TenantTypeOK'
    BY <1>2, <2>2, <2>5 DEF TenantInv, TenantTypeOK
  <2>9. OnlyWritersChange'
    BY <2>5, <2>6 DEF TenantInv, OnlyWritersChange
  <2>10. IdsApart'
    <3>1. \A j \in gone : rows[j] # Absent \/ j \in DOMAIN caller[k].inserts
      BY <1>2, <2>3, ViewAt
    <3> QED
      BY <1>2, <2>5, <2>6, <3>1 DEF TenantInv, IdsApart, Others
  <2>11. RemovalsApart'
    <3>1. \A o \in Callers \ {k} :
            /\ caller[o].deletes \cap gone = {}
            /\ \A j \in DOMAIN caller[o].inserts : caller[o].inserts[j].to \cap gone = {}
      BY <1>1, <2>1 DEF RemovedByOthers, ReferredByOthers, Others
    <3> QED
      BY <2>5, <2>6, <3>1 DEF TenantInv, RemovalsApart
  <2>12. ViewsConsistent'
    <3>1. Consistent(rows)'
      BY <1>2 DEF TenantInv, ViewsConsistent, Consistent, Fits
    <3>2. ASSUME NEW o \in Callers, o # k, caller'[o].mode = "write"
          PROVE  Consistent(View(o))'
      <4>1. View(o) \in [Ids -> RowStates] /\ Consistent(View(o))
        BY <2>6, <3>2, ViewRows DEF TenantInv, ViewsConsistent
      <4>2. \A j \in Ids : View(o)'[j] = View(o)[j]
        BY <1>2, <2>6, <3>2, ViewAt, ViewAtNext
      <4> QED
        BY <4>1, <4>2, ConsistentSame
    <3>3. \A j \in Ids : View(k)'[j] = IF j \in gone THEN Absent ELSE View(k)[j]
      BY <1>2, <2>5, <2>6, ViewAt, ViewAtNext
    <3>4. Consistent(View(k))'
      <4> SUFFICES ASSUME NEW j \in Ids, View(k)'[j] # Absent, NEW t \in View(k)'[j].to
                   PROVE  Fits(View(k)'[j], View(k)'[t])
        BY DEF Consistent, Fits
      <4>1. j \notin gone /\ View(k)[j] # Absent /\ t \in View(k)[j].to
        BY <3>3
      <4>2. View(k)[j] \in RowSet
        BY <2>4, <4>1 DEF RowStates
      <4>3. t \in Ids /\ Fits(View(k)[j], View(k)[t])
        BY <2>4, <4>1, <4>2 DEF Consistent, RowSet
      <4>4. t \notin gone
        BY <2>3, <4>1
      <4> QED
        BY <3>3, <4>1, <4>3, <4>4
    <3> QED
      BY <3>1, <3>2, <3>4 DEF ViewsConsistent
  <2> QED
    BY <2>7, <2>8, <2>9, <2>10, <2>11, <2>12 DEF TenantInv
<1> QED
  BY <1>3, <1>4

\* A read changes only what its transaction has seen.
LEMMA ReadStep ==
  ASSUME TenantInv, NEW k \in Callers, Read(k)
  PROVE  TenantInv'
<1>1. caller[k].pc = "working" /\ UNCHANGED <<rows, setting>>
  BY DEF Read
<1> DEFINE x == [caller[k] EXCEPT !.known = caller[k].known \cup Visible(k)]
<1>2. CASE caller' = [caller EXCEPT ![k] = [caller[k] EXCEPT !.pc = "failed"]]
  BY <1>1, <1>2, Refused
<1>3. CASE caller' = [caller EXCEPT ![k] = x]
  <2>1. caller[k] \in CallerRecord /\ Visible(k) \subseteq Ids
    BY DEF TenantInv, TenantTypeOK, Visible
  <2>2. /\ x \in CallerRecord /\ x.pc = "working" /\ x.conn = caller[k].conn
        /\ x.mode = caller[k].mode /\ x.org = caller[k].org
        /\ x.inserts = caller[k].inserts /\ x.deletes = caller[k].deletes
    BY <1>1, <2>1 DEF CallerRecord
  <2> HIDE DEF x
  <2>3. ConnectionsOwned' /\ SettingsOwned'
    BY <1>1, <1>3, <2>2, WorkingConnections
  <2>4. TenantTypeOK'
    BY <1>1, <1>3, <2>2 DEF TenantInv, TenantTypeOK
  <2>5. \A o \in Callers : /\ caller'[o].mode = caller[o].mode
                           /\ caller'[o].inserts = caller[o].inserts
                           /\ caller'[o].deletes = caller[o].deletes
    BY <1>3, <2>2 DEF TenantInv, TenantTypeOK
  <2>6. OnlyWritersChange' /\ ViewsConsistent' /\ IdsApart' /\ RemovalsApart'
    BY <1>1, <2>5, SameChanges
  <2> QED
    BY <2>3, <2>4, <2>6 DEF TenantInv
<1> QED
  BY <1>2, <1>3 DEF Read

\* A transaction begins without changes.
LEMMA BeginStep ==
  ASSUME TenantInv, NEW k \in Callers, NEW mode \in Modes,
         NEW org \in Organizations \cup {Null}, Begin(k, mode, org)
  PROVE  TenantInv'
<1>1. /\ ConnectionsOwned' /\ SettingsOwned' /\ caller' \in [Callers -> CallerRecord]
      /\ \A o \in Callers :
           \/ caller'[o] = caller[o]
           \/ DOMAIN caller'[o].inserts = {} /\ caller'[o].deletes = {}
  BY BeginConnections
<1>2. UNCHANGED <<rows, setting>>
  BY DEF Begin
<1>3. \A o \in Callers :
        \/ /\ caller'[o].mode = caller[o].mode
           /\ caller'[o].inserts = caller[o].inserts
           /\ caller'[o].deletes = caller[o].deletes
        \/ DOMAIN caller'[o].inserts = {} /\ caller'[o].deletes = {}
  BY <1>1
<1>4. OnlyWritersChange' /\ ViewsConsistent' /\ IdsApart' /\ RemovalsApart'
  BY <1>2, <1>3, SameChanges
<1> QED
  BY <1>1, <1>2, <1>4 DEF TenantInv, TenantTypeOK

\* Naming the organization changes no row.
LEMMA SetOrganizationStep ==
  ASSUME TenantInv, NEW k \in Callers, SetOrganization(k)
  PROVE  TenantInv'
<1>1. /\ ConnectionsOwned' /\ SettingsOwned' /\ caller' \in [Callers -> CallerRecord]
      /\ setting' \in [Connections -> Organizations \cup {Null, Blank}]
      /\ \A o \in Callers : /\ caller'[o].mode = caller[o].mode
                            /\ caller'[o].inserts = caller[o].inserts
                            /\ caller'[o].deletes = caller[o].deletes
  BY SetOrganizationConnections
<1>2. rows' = rows
  BY DEF SetOrganization
<1>3. OnlyWritersChange' /\ ViewsConsistent' /\ IdsApart' /\ RemovalsApart'
  BY <1>1, <1>2, SameChanges
<1> QED
  BY <1>1, <1>2, <1>3 DEF TenantInv, TenantTypeOK

\* The changes of a transaction that is rolled back are forgotten.
LEMMA RollbackStep ==
  ASSUME TenantInv, NEW k \in Callers, Rollback(k)
  PROVE  TenantInv'
<1>1. /\ ConnectionsOwned' /\ SettingsOwned' /\ caller' \in [Callers -> CallerRecord]
      /\ setting' \in [Connections -> Organizations \cup {Null, Blank}]
  BY EndConnections DEF Rollback
<1>2. rows' = rows /\ caller' = [caller EXCEPT ![k] = NotWorking]
  BY DEF Rollback
<1>3. \A o \in Callers :
        \/ /\ caller'[o].mode = caller[o].mode
           /\ caller'[o].inserts = caller[o].inserts
           /\ caller'[o].deletes = caller[o].deletes
        \/ DOMAIN caller'[o].inserts = {} /\ caller'[o].deletes = {}
  BY <1>2, NotWorkingFields DEF TenantInv, TenantTypeOK
<1>4. OnlyWritersChange' /\ ViewsConsistent' /\ IdsApart' /\ RemovalsApart'
  BY <1>2, <1>3, SameChanges
<1> QED
  BY <1>1, <1>2, <1>4 DEF TenantInv, TenantTypeOK

\* What one transaction commits is what the others reckon with: the rows they see and
\* have not touched themselves are its rows, and they still refer to each other.
LEMMA CommitWrites ==
  ASSUME TenantInv, NEW k \in Callers, caller[k].mode = "write",
         rows' = View(k), caller' = [caller EXCEPT ![k] = NotWorking]
  PROVE  /\ rows' \in [Ids -> RowStates]
         /\ OnlyWritersChange' /\ ViewsConsistent' /\ IdsApart' /\ RemovalsApart'
<1>1. caller'[k] = NotWorking /\ \A o \in Callers \ {k} : caller'[o] = caller[o]
  BY DEF TenantInv, TenantTypeOK
<1>2. View(k) \in [Ids -> RowStates] /\ Consistent(View(k)) /\ Consistent(rows)
      /\ rows \in [Ids -> RowStates]
  BY ViewRows DEF TenantInv, ViewsConsistent, TenantTypeOK
<1>3. OnlyWritersChange'
  BY <1>1, NotWorkingFields DEF TenantInv, OnlyWritersChange
<1>4. RemovalsApart'
  BY <1>1, NotWorkingFields DEF TenantInv, RemovalsApart
<1>5. \A o \in Callers : \A j \in DOMAIN caller[o].inserts : j \in Ids
  BY InsertedRows DEF TenantInv, TenantTypeOK, CallerRecord
<1>6. \A j \in Ids : rows'[j] = IF j \in caller[k].deletes THEN Absent
                                ELSE IF j \in DOMAIN caller[k].inserts
                                     THEN caller[k].inserts[j]
                                ELSE rows[j]
  BY ViewAt
<1>7. IdsApart'
  <2> SUFFICES ASSUME NEW o \in Callers, o # k
               PROVE  /\ \A j \in DOMAIN caller[o].inserts :
                           /\ rows'[j] = Absent
                           /\ \A p \in Callers \ {o, k} : j \notin DOMAIN caller[p].inserts
                      /\ \A j \in caller[o].deletes :
                           rows'[j] # Absent \/ j \in DOMAIN caller[o].inserts
    BY <1>1, NotWorkingFields DEF IdsApart, Others
  <2>1. ASSUME NEW j \in DOMAIN caller[o].inserts
        PROVE  /\ rows'[j] = Absent
               /\ \A p \in Callers \ {o, k} : j \notin DOMAIN caller[p].inserts
    BY <1>5, <1>6 DEF TenantInv, IdsApart, Others
  <2>2. ASSUME NEW j \in caller[o].deletes, j \notin DOMAIN caller[o].inserts
        PROVE  rows'[j] # Absent
    <3>1. j \in Ids /\ rows[j] # Absent
      BY <2>2 DEF TenantInv, IdsApart, TenantTypeOK, CallerRecord
    <3>2. j \notin caller[k].deletes
      BY DEF TenantInv, RemovalsApart
    <3>3. j \notin DOMAIN caller[k].inserts
      BY <3>1 DEF TenantInv, IdsApart
    <3> QED
      BY <1>6, <3>1, <3>2, <3>3
  <2> QED
    BY <2>1, <2>2
<1>8. ViewsConsistent'
  <2>1. Consistent(rows)'
    BY <1>2 DEF Consistent, Fits
  <2>2. ASSUME NEW o \in Callers, caller'[o].mode = "write"
        PROVE  Consistent(View(o))'
    <3>1. o # k /\ caller'[o] = caller[o] /\ caller[o].mode = "write"
      BY <1>1, <2>2, NotWorkingFields
    <3>2. View(o) \in [Ids -> RowStates] /\ Consistent(View(o))
      BY <3>1, ViewRows DEF TenantInv, ViewsConsistent
    <3>3. \A j \in Ids : View(o)'[j] = IF j \in caller[o].deletes THEN Absent
                                       ELSE IF j \in DOMAIN caller[o].inserts
                                            THEN caller[o].inserts[j]
                                       ELSE rows'[j]
      BY <2>2, <3>1, ViewAtNext
    <3>4. \A j \in Ids : View(o)[j] = IF j \in caller[o].deletes THEN Absent
                                      ELSE IF j \in DOMAIN caller[o].inserts
                                           THEN caller[o].inserts[j]
                                      ELSE rows[j]
      BY <3>1, ViewAt
    \* A row neither of them inserted or removed is what it was.
    <3>5. ASSUME NEW t \in Ids, rows[t] # Absent,
                 t \notin caller[k].deletes, t \notin caller[o].deletes
          PROVE  View(o)'[t] = rows[t] /\ rows'[t] = rows[t]
      <4>1. t \notin DOMAIN caller[k].inserts /\ t \notin DOMAIN caller[o].inserts
        BY <3>5 DEF TenantInv, IdsApart
      <4> QED
        BY <1>6, <3>3, <3>5, <4>1
    <3> SUFFICES ASSUME NEW j \in Ids, View(o)'[j] # Absent, NEW t \in View(o)'[j].to
                 PROVE  Fits(View(o)'[j], View(o)'[t])
      BY DEF Consistent, Fits
    <3>6. j \notin caller[o].deletes
      BY <3>3
    <3>7. CASE j \in DOMAIN caller[o].inserts
      <4>1. View(o)'[j] = caller[o].inserts[j] /\ View(o)[j] = caller[o].inserts[j]
        BY <3>3, <3>4, <3>6, <3>7
      <4>2. t \in Ids /\ Fits(View(o)[j], View(o)[t])
        BY <3>2, <4>1 DEF Consistent, RowStates, RowSet
      <4>3. t \notin caller[k].deletes
        BY <3>1, <3>7, <4>1 DEF TenantInv, RemovalsApart
      <4>4. t \notin caller[o].deletes
        BY <3>4, <4>2 DEF Fits
      <4>5. View(o)'[t] = View(o)[t]
        BY <3>3, <3>4, <3>5, <4>2, <4>3, <4>4 DEF Fits
      <4> QED
        BY <4>1, <4>2, <4>5
    <3>8. CASE j \notin DOMAIN caller[o].inserts
      <4>1. View(o)'[j] = rows'[j] /\ j \notin caller[k].deletes
        BY <1>6, <3>3, <3>6, <3>8
      <4>2. CASE j \in DOMAIN caller[k].inserts
        <5>1. rows'[j] = caller[k].inserts[j] /\ View(k)[j] = caller[k].inserts[j]
          BY <1>6, <4>1, <4>2
        <5>2. t \in Ids /\ Fits(View(k)[j], View(k)[t])
          BY <1>2, <4>1, <5>1 DEF Consistent, RowStates, RowSet
        <5>3. t \notin caller[o].deletes
          BY <3>1, <4>1, <4>2, <5>1 DEF TenantInv, RemovalsApart
        <5>4. t \notin DOMAIN caller[o].inserts
          <6>1. CASE t \in DOMAIN caller[k].inserts
            BY <3>1, <6>1 DEF TenantInv, IdsApart, Others
          <6>2. CASE t \notin DOMAIN caller[k].inserts
            <7>1. rows[t] # Absent
              BY <1>6, <5>2, <6>2 DEF Fits
            <7> QED
              BY <7>1 DEF TenantInv, IdsApart
          <6> QED
            BY <6>1, <6>2
        <5>5. View(o)'[t] = View(k)[t]
          BY <3>3, <5>2, <5>3, <5>4
        <5> QED
          BY <4>1, <5>1, <5>2, <5>5
      <4>3. CASE j \notin DOMAIN caller[k].inserts
        <5>1. rows'[j] = rows[j] /\ View(k)[j] = rows[j] /\ View(o)[j] = rows[j]
          BY <1>6, <3>4, <3>6, <3>8, <4>1, <4>3
        <5>2. /\ t \in Ids /\ Fits(rows[j], rows[t])
              /\ View(k)[t] # Absent /\ View(o)[t] # Absent
          BY <1>2, <3>2, <4>1, <5>1 DEF Consistent, RowStates, RowSet, Fits
        <5>3. t \notin caller[k].deletes /\ t \notin caller[o].deletes
          BY <1>6, <3>4, <5>2
        <5>4. View(o)'[t] = rows[t]
          BY <3>5, <5>2, <5>3 DEF Fits
        <5> QED
          BY <4>1, <5>1, <5>2, <5>4
      <4> QED
        BY <4>2, <4>3
    <3> QED
      BY <3>7, <3>8
  <2> QED
    BY <2>1, <2>2 DEF ViewsConsistent
<1> QED
  BY <1>2, <1>3, <1>4, <1>7, <1>8

\* A commit ends the transaction, and its changes are the rows.
LEMMA CommitStep ==
  ASSUME TenantInv, NEW k \in Callers, Commit(k)
  PROVE  TenantInv'
<1>1. /\ ConnectionsOwned' /\ SettingsOwned' /\ caller' \in [Callers -> CallerRecord]
      /\ setting' \in [Connections -> Organizations \cup {Null, Blank}]
  BY EndConnections DEF Commit
<1>2. caller' = [caller EXCEPT ![k] = NotWorking]
  BY DEF Commit
<1>3. CASE caller[k].mode = "write"
  <2>1. rows' = View(k)
    BY <1>3 DEF Commit
  <2> QED
    BY <1>1, <1>2, <1>3, <2>1, CommitWrites DEF TenantInv, TenantTypeOK
<1>4. CASE caller[k].mode # "write"
  <2>1. rows' = rows
    <3>1. rows \in [Ids -> RowStates]
      BY DEF TenantInv, TenantTypeOK
    <3>2. CASE caller[k].mode = "read"
      BY <3>2 DEF Commit
    <3>3. CASE caller[k].mode # "read"
      <4>1. DOMAIN caller[k].inserts = {} /\ caller[k].deletes = {}
        BY <1>4 DEF TenantInv, OnlyWritersChange
      <4>2. View(k) = [i \in Ids |-> rows[i]]
        BY <3>3, <4>1 DEF View
      <4> QED
        BY <3>1, <3>3, <4>2 DEF Commit
    <3> QED
      BY <3>2, <3>3
  <2>2. \A o \in Callers :
          \/ /\ caller'[o].mode = caller[o].mode
             /\ caller'[o].inserts = caller[o].inserts
             /\ caller'[o].deletes = caller[o].deletes
          \/ DOMAIN caller'[o].inserts = {} /\ caller'[o].deletes = {}
    BY <1>2, NotWorkingFields DEF TenantInv, TenantTypeOK
  <2>3. OnlyWritersChange' /\ ViewsConsistent' /\ IdsApart' /\ RemovalsApart'
    BY <2>1, <2>2, SameChanges
  <2> QED
    BY <1>1, <2>1, <2>3 DEF TenantInv, TenantTypeOK
<1> QED
  BY <1>3, <1>4

-----------------------------------------------------------------------------
(* The invariant and the theorems.                                         *)

\* Nobody is connected to begin with, and there are no rows.
LEMMA TenantInitInv == TenantInit => TenantInv
<1> SUFFICES ASSUME TenantInit
             PROVE  TenantInv
  OBVIOUS
<1>1. \A k \in Callers : caller[k] = NotWorking
  BY DEF TenantInit
<1>2. rows = [i \in Ids |-> Absent] /\ setting = [c \in Connections |-> Null]
  BY DEF TenantInit
<1>3. TenantTypeOK
  <2>1. caller \in [Callers -> CallerRecord]
    BY NotWorkingFields DEF TenantInit
  <2>2. rows \in [Ids -> RowStates]
    BY <1>2 DEF RowStates
  <2> QED
    BY <1>2, <2>1, <2>2 DEF TenantTypeOK
<1>4. ConnectionsOwned /\ SettingsOwned /\ OnlyWritersChange /\ IdsApart /\ RemovalsApart
  BY <1>1, <1>2, NotWorkingFields
  DEF ConnectionsOwned, SettingsOwned, OnlyWritersChange, IdsApart, RemovalsApart
<1>5. ViewsConsistent
  BY <1>1, <1>2, NotWorkingFields DEF ViewsConsistent, Consistent
<1> QED
  BY <1>3, <1>4, <1>5 DEF TenantInv

\* Every step keeps the invariant.
LEMMA TenantInvStep == TenantInv /\ [TenantNext]_tenantVars => TenantInv'
<1> SUFFICES ASSUME TenantInv, [TenantNext]_tenantVars
             PROVE  TenantInv'
  OBVIOUS
<1>1. CASE UNCHANGED tenantVars
  <2>1. rows' = rows /\ setting' = setting /\ caller' = caller
    BY <1>1 DEF tenantVars
  <2>2. OnlyWritersChange' /\ ViewsConsistent' /\ IdsApart' /\ RemovalsApart'
    BY <2>1, SameChanges
  <2>3. TenantTypeOK' /\ ConnectionsOwned' /\ SettingsOwned'
    BY <2>1 DEF TenantInv, TenantTypeOK, ConnectionsOwned, SettingsOwned
  <2> QED
    BY <2>2, <2>3 DEF TenantInv
<1>2. ASSUME NEW k \in Callers, NEW mode \in Modes, NEW org \in Organizations \cup {Null},
             Begin(k, mode, org)
      PROVE  TenantInv'
  BY <1>2, BeginStep
<1>3. ASSUME NEW k \in Callers, SetOrganization(k)
      PROVE  TenantInv'
  BY <1>3, SetOrganizationStep
<1>4. ASSUME NEW k \in Callers, Read(k)
      PROVE  TenantInv'
  BY <1>4, ReadStep
<1>5. ASSUME NEW k \in Callers, Insert(k)
      PROVE  TenantInv'
  BY <1>5, InsertStep
<1>6. ASSUME NEW k \in Callers, Delete(k)
      PROVE  TenantInv'
  BY <1>6, DeleteStep
<1>7. ASSUME NEW k \in Callers, Commit(k)
      PROVE  TenantInv'
  BY <1>7, CommitStep
<1>8. ASSUME NEW k \in Callers, Rollback(k)
      PROVE  TenantInv'
  BY <1>8, RollbackStep
<1> QED
  BY <1>1, <1>2, <1>3, <1>4, <1>5, <1>6, <1>7, <1>8 DEF TenantNext

\* The invariant holds throughout.
LEMMA TenantInvariance == TenantSpec => []TenantInv
<1> QED
  BY TenantInitInv, TenantInvStep, PTL DEF TenantSpec

\* In every reachable state the rows, the settings of the pooled connections and the
\* transactions are of their types.
THEOREM TenantTypeCorrect == TenantSpec => []TenantTypeOK
<1>1. TenantInv => TenantTypeOK
  BY DEF TenantInv
<1> QED
  BY <1>1, TenantInvariance, PTL

\* A transaction sees the rows of its organization and no other, one that names none sees
\* no row and no error, and every committed row refers to rows of its own organization
\* that exist: for any number of tenants, connections and transactions.
THEOREM TenantsStayApart == TenantSpec => []TenantsApart
<1>1. TenantInv => TenantsApart
  <2> SUFFICES ASSUME TenantInv
               PROVE  TenantsApart
    OBVIOUS
  <2>1. ASSUME NEW k \in Callers, caller[k].pc = "working"
        PROVE  CurrentOrganization(setting[caller[k].conn]) = caller[k].org
               /\ caller[k].org # Blank
    <3>1. caller[k].org \in Organizations \cup {Null}
      BY DEF TenantInv, TenantTypeOK, CallerRecord
    <3>2. Null # Blank
      BY DEF Null, Blank
    <3>3. CASE caller[k].mode = "plain"
      BY <2>1, <3>2, <3>3 DEF TenantInv, SettingsOwned, CurrentOrganization
    <3>4. CASE caller[k].mode # "plain"
      <4>1. setting[caller[k].conn] = caller[k].org /\ caller[k].org # Null
        BY <2>1, <3>4 DEF TenantInv, SettingsOwned
      <4> QED
        BY <3>1, <4>1, TenantAssumption DEF CurrentOrganization
    <3> QED
      BY <3>3, <3>4
  <2>2. ASSUME NEW i \in Ids, rows[i] # Absent, NEW t \in rows[i].to
        PROVE  rows[t] # Absent /\ rows[t].org = rows[i].org
    BY <2>2 DEF TenantInv, ViewsConsistent, Consistent, Fits
  <2> QED
    BY <2>1, <2>2 DEF TenantsApart, Visible
<1> QED
  BY <1>1, TenantInvariance, PTL

-----------------------------------------------------------------------------
(* The inductive invariant of the migration gate.                          *)

Running ==
  [at : {"lock", "check", "up", "grant", "defaults", "verify", "verify as runtime", "passed",
         "failed"},
   release : Releases, next : Nat]

GateTypeOK ==
  /\ ledger \in SUBSET Nat
  /\ schema \in [AllMigrations -> Nat]
  /\ granted \in SUBSET Nat
  /\ process \in [Runners -> {Down} \cup Running]

\* The ledger names the migrations whose objects there are, each created once.
LedgerTells ==
  \A m \in AllMigrations : schema[m] = (IF m \in ledger THEN 1 ELSE 0)

\* Nothing is granted that is not there, so a new grant of all tables takes none back.
GrantsExist == granted \subseteq ledger

\* What a process has passed on its way is applied, and a gate that has granted the
\* tables has granted those of its release.
Progressed(s, gate, applied, usable) ==
  /\ s.at \in {"check", "up"} => \A m \in 1..(s.next - 1) : m \in applied
  /\ s.at \in {"grant", "passed"} => \A m \in 1..s.release : m \in applied
  /\ (gate /\ s.at \in {"defaults", "verify", "verify as runtime", "passed"}) =>
       \A m \in 1..s.release : m \in usable
  /\ s.at = "lock" => s.next = 1
  /\ s.at \in {"check", "up"} => s.next >= 1
  /\ s.at = "up" => s.next <= s.release

AllProgressed == \A p \in Runners : Progressed(process[p], p \in Gates, ledger, granted)

GateInv == GateTypeOK /\ LedgerTells /\ GrantsExist /\ AllProgressed

-----------------------------------------------------------------------------
\* No table is dropped and no grant taken back: what has been passed stays so.
LEMMA StillProgressed ==
  ASSUME NEW s, NEW gate \in BOOLEAN, NEW a, NEW u, NEW b, NEW v,
         Progressed(s, gate, a, u), a \subseteq b, u \subseteq v
  PROVE  Progressed(s, gate, b, v)
<1> QED
  BY DEF Progressed

\* One process goes on, while ledger and grants only grow.
LEMMA OneGoesOn ==
  ASSUME GateInv, NEW p \in Runners, NEW s \in {Down} \cup Running,
         process' = [process EXCEPT ![p] = s],
         ledger \subseteq ledger', granted \subseteq granted',
         Progressed(s, p \in Gates, ledger', granted')
  PROVE  process' \in [Runners -> {Down} \cup Running] /\ AllProgressed'
<1>1. process \in [Runners -> {Down} \cup Running]
  BY DEF GateInv, GateTypeOK
<1>2. ASSUME NEW q \in Runners
      PROVE  Progressed(process'[q], q \in Gates, ledger', granted')
  <2>1. CASE q = p
    BY <1>1, <2>1
  <2>2. CASE q # p
    <3>1. process'[q] = process[q] /\ (q \in Gates) \in BOOLEAN
      BY <1>1, <2>2
    <3>2. Progressed(process[q], q \in Gates, ledger, granted)
      BY DEF GateInv, AllProgressed
    <3>3. Progressed(process[q], q \in Gates, ledger', granted')
      BY <3>1, <3>2, StillProgressed
    <3> QED
      BY <3>1, <3>3
  <2> QED
    BY <2>1, <2>2
<1> QED
  BY <1>1, <1>2 DEF AllProgressed

\* A process that is at work is one of a release.
LEMMA WhoRuns ==
  ASSUME GateInv, NEW p \in Runners, process[p].at # "down"
  PROVE  process[p] \in Running /\ Progressed(process[p], p \in Gates, ledger, granted)
<1> QED
  BY DEF GateInv, GateTypeOK, AllProgressed, Down

\* A release's migrations are among all of them.
LEMMA OfRelease ==
  ASSUME NEW r \in Releases
  PROVE  r \in Nat /\ 1..r \subseteq AllMigrations
<1> QED
  BY ReleasesAssumption DEF AllMigrations

-----------------------------------------------------------------------------
(* Every action keeps the invariant.                                       *)

\* A step that leaves the tables alone and moves one process to `s`.
LEMMA QuietStep ==
  ASSUME GateInv, NEW p \in Runners, NEW s \in {Down} \cup Running,
         process' = [process EXCEPT ![p] = s],
         UNCHANGED <<ledger, schema, granted>>,
         Progressed(s, p \in Gates, ledger, granted)
  PROVE  GateInv'
<1>1. process' \in [Runners -> {Down} \cup Running] /\ AllProgressed'
  BY OneGoesOn
<1> QED
  BY <1>1 DEF GateInv, GateTypeOK, LedgerTells, GrantsExist

\* A process starts at its first migration, or at its check.
LEMMA StartStep ==
  ASSUME GateInv, NEW p \in Runners, Start(p)
  PROVE  GateInv'
<1>1. PICK r \in Releases :
        process' = [process EXCEPT ![p] =
          [at |-> IF p \in Gates THEN "lock" ELSE "verify as runtime", release |-> r,
           next |-> 1]]
  BY DEF Start
<1> DEFINE s == [at |-> IF p \in Gates THEN "lock" ELSE "verify as runtime", release |-> r,
                 next |-> 1]
<1>2. s \in Running
  BY DEF Running
<1>3. Progressed(s, p \in Gates, ledger, granted)
  BY DEF Progressed
<1>4. process' = [process EXCEPT ![p] = s] /\ UNCHANGED <<ledger, schema, granted>>
  BY <1>1 DEF Start
<1> HIDE DEF s
<1> QED
  BY <1>2, <1>3, <1>4, QuietStep

\* Creating the ledger adds no migration, and grants at most the ledger.
LEMMA LockStep ==
  ASSUME GateInv, NEW p \in Runners, Lock(p)
  PROVE  GateInv'
<1> DEFINE s == [process[p] EXCEPT !.at = "check"]
<1>1. process[p] \in Running /\ process[p].next = 1
  BY WhoRuns DEF Lock, Standing, Progressed
<1>2. s \in Running /\ s.at = "check" /\ s.next = 1
  BY <1>1 DEF Running
<1>3. /\ process' = [process EXCEPT ![p] = s] /\ schema' = schema
      /\ ledger' = ledger \cup {0}
      /\ granted' = IF defaults THEN granted \cup {0} ELSE granted
  BY <1>1 DEF Lock, Go
<1>4. Progressed(s, p \in Gates, ledger', granted')
  BY <1>2 DEF Progressed
<1>5. ledger \subseteq ledger' /\ granted \subseteq granted'
  BY <1>3
<1> HIDE DEF s
<1>6. process' \in [Runners -> {Down} \cup Running] /\ AllProgressed'
  BY <1>2, <1>3, <1>4, <1>5, OneGoesOn
<1>7. GateTypeOK' /\ GrantsExist'
  BY <1>3, <1>6 DEF GateInv, GateTypeOK, GrantsExist
<1>8. LedgerTells'
  <2>1. \A m \in AllMigrations : m # 0
    BY ReleasesAssumption DEF AllMigrations
  <2> QED
    BY <1>3, <2>1 DEF GateInv, LedgerTells
<1> QED
  BY <1>6, <1>7, <1>8 DEF GateInv

\* A migration that is in the ledger is passed over.
LEMMA CheckStep ==
  ASSUME GateInv, NEW p \in Runners, Check(p)
  PROVE  GateInv'
<1>1. /\ process[p] \in Running /\ process[p].at = "check"
      /\ process[p].next \in Nat /\ process[p].next <= process[p].release
      /\ process[p].next >= 1
      /\ \A m \in 1..(process[p].next - 1) : m \in ledger
  BY WhoRuns DEF Check, Standing, Running, Progressed
<1>2. CASE process[p].next \in ledger
  <2> DEFINE s == [process[p] EXCEPT !.next = process[p].next + 1]
  <2>1. process' = [process EXCEPT ![p] = s] /\ UNCHANGED <<ledger, schema, granted>>
    BY <1>1, <1>2 DEF Check
  <2>2. s \in Running /\ s.at = "check" /\ s.next = process[p].next + 1
    <3>1. process[p].next + 1 \in Nat
      BY <1>1
    <3> QED
      BY <1>1, <3>1 DEF Running
  <2> HIDE DEF s
  <2>3. \A m \in 1..(s.next - 1) : m \in ledger
    BY <1>1, <1>2, <2>2
  <2>4. Progressed(s, p \in Gates, ledger, granted)
    BY <1>1, <2>2, <2>3 DEF Progressed
  <2> QED
    BY <2>1, <2>2, <2>4, QuietStep
<1>3. CASE process[p].next \notin ledger
  <2> DEFINE s == [process[p] EXCEPT !.at = "up"]
  <2>1. process' = [process EXCEPT ![p] = s] /\ UNCHANGED <<ledger, schema, granted>>
    BY <1>3 DEF Check
  <2>2. /\ s \in Running /\ s.at = "up" /\ s.next = process[p].next
        /\ s.release = process[p].release
    BY <1>1 DEF Running
  <2>3. Progressed(s, p \in Gates, ledger, granted)
    BY <1>1, <2>2 DEF Progressed
  <2> HIDE DEF s
  <2> QED
    BY <2>1, <2>2, <2>3, QuietStep
<1> QED
  BY <1>2, <1>3

\* A migration that is not in the schema is applied and noted together.
LEMMA AppliedStep ==
  ASSUME GateInv, NEW p \in Runners, Apply(p), schema[process[p].next] = 0
  PROVE  GateInv'
<1> DEFINE n == process[p].next
           s == [process[p] EXCEPT !.at = "check", !.next = n + 1]
<1>1. /\ process[p] \in Running /\ n \in Nat /\ n >= 1 /\ n <= process[p].release
      /\ process[p].release \in Releases /\ \A m \in 1..(n - 1) : m \in ledger
  BY WhoRuns DEF Apply, Standing, Running, Progressed
<1> HIDE DEF n
<1>2. n \in AllMigrations
  BY <1>1, OfRelease
<1>3. s \in Running /\ s.at = "check" /\ s.next = n + 1
  <2>1. n + 1 \in Nat
    BY <1>1
  <2> QED
    BY <1>1, <2>1 DEF Running
<1>4. /\ schema' = [schema EXCEPT ![n] = 1] /\ ledger' = ledger \cup {n}
      /\ granted' = IF defaults THEN granted \cup {n} ELSE granted
  BY DEF Apply, n
<1>5. process' = [process EXCEPT ![p] = s]
  <2>1. process' = [process EXCEPT ![p].at = "check", ![p].next = n + 1]
    BY DEF Apply, n
  <2>2. process \in [Runners -> {Down} \cup Running]
    BY DEF GateInv, GateTypeOK
  <2> QED
    BY <2>1, <2>2
<1> HIDE DEF s
<1>6. Progressed(s, p \in Gates, ledger', granted')
  BY <1>1, <1>3, <1>4 DEF Progressed
<1>7. ledger \subseteq ledger' /\ granted \subseteq granted'
  BY <1>4
<1>8. process' \in [Runners -> {Down} \cup Running] /\ AllProgressed'
  BY <1>3, <1>5, <1>6, <1>7, OneGoesOn
<1>9. GateTypeOK' /\ GrantsExist' /\ LedgerTells'
  BY <1>1, <1>2, <1>4, <1>8 DEF GateInv, GateTypeOK, GrantsExist, LedgerTells
<1> QED
  BY <1>8, <1>9 DEF GateInv

\* A move to another place of the program, for which what it needs there is given.
LEMMA PlaceStep ==
  ASSUME GateInv, NEW p \in Runners, process[p].at # "down",
         NEW place \in {"grant", "verify", "verify as runtime", "passed", "failed"},
         Go(p, place), UNCHANGED <<ledger, schema, granted>>,
         place \in {"grant", "passed"} => \A m \in 1..process[p].release : m \in ledger,
         (p \in Gates /\ place \in {"verify", "verify as runtime", "passed"}) =>
           \A m \in 1..process[p].release : m \in granted
  PROVE  GateInv'
<1> DEFINE s == [process[p] EXCEPT !.at = place]
<1>1. process[p] \in Running
  BY WhoRuns
<1>2. s \in Running /\ s.at = place /\ s.release = process[p].release
  BY <1>1 DEF Running
<1>3. process' = [process EXCEPT ![p] = s]
  BY DEF Go
<1> HIDE DEF s
<1>4. Progressed(s, p \in Gates, ledger, granted)
  BY <1>2 DEF Progressed
<1> QED
  BY <1>2, <1>3, <1>4, QuietStep

\* Objects that are there already end the gate.
LEMMA RefusedStep ==
  ASSUME GateInv, NEW p \in Runners, Apply(p), schema[process[p].next] # 0
  PROVE  GateInv'
<1>1. Go(p, "failed") /\ UNCHANGED <<ledger, schema, granted>>
  BY DEF Apply, Go
<1>2. process[p].at # "down"
  BY DEF Apply, Standing
<1> QED
  BY <1>1, <1>2, PlaceStep

\* The loop over the release's migrations ends when all are in the ledger.
LEMMA UnlockStep ==
  ASSUME GateInv, NEW p \in Runners, Unlock(p)
  PROVE  GateInv'
<1>1. /\ process[p].at = "check" /\ Go(p, "grant")
      /\ UNCHANGED <<ledger, schema, granted>> /\ process[p].next > process[p].release
  BY DEF Unlock, Standing
<1>2. process[p] \in Running /\ \A m \in 1..(process[p].next - 1) : m \in ledger
  BY <1>1, WhoRuns DEF Progressed
<1>3. process[p].release \in Nat /\ process[p].next \in Nat
  BY <1>2, OfRelease DEF Running
<1>4. \A m \in 1..process[p].release : m \in ledger
  BY <1>1, <1>2, <1>3
<1> QED
  BY <1>1, <1>4, PlaceStep

\* All tables are granted, those granted before among them.
LEMMA GrantStep ==
  ASSUME GateInv, NEW p \in Runners, Grant(p)
  PROVE  GateInv'
<1> DEFINE s == [process[p] EXCEPT !.at = "defaults"]
<1>1. process[p] \in Running /\ \A m \in 1..process[p].release : m \in ledger
  BY WhoRuns DEF Grant, Standing, Progressed
<1>2. s \in Running /\ s.at = "defaults" /\ s.release = process[p].release
  BY <1>1 DEF Running
<1>3. /\ process' = [process EXCEPT ![p] = s] /\ schema' = schema
      /\ ledger' = ledger /\ granted' = ledger
  BY DEF Grant, Go
<1>4. Progressed(s, p \in Gates, ledger', granted')
  BY <1>1, <1>2, <1>3 DEF Progressed
<1>5. ledger \subseteq ledger' /\ granted \subseteq granted'
  BY <1>3 DEF GateInv, GrantsExist
<1> HIDE DEF s
<1>6. process' \in [Runners -> {Down} \cup Running] /\ AllProgressed'
  BY <1>2, <1>3, <1>4, <1>5, OneGoesOn
<1> QED
  BY <1>3, <1>6 DEF GateInv, GateTypeOK, GrantsExist, LedgerTells

\* The default privileges move no table.
LEMMA DefaultsStep ==
  ASSUME GateInv, NEW p \in Runners, GrantDefaults(p)
  PROVE  GateInv'
<1>1. /\ process[p].at = "defaults" /\ Go(p, "verify")
      /\ UNCHANGED <<ledger, schema, granted>>
  BY DEF GrantDefaults, Standing
<1>2. p \in Gates => \A m \in 1..process[p].release : m \in granted
  BY <1>1, WhoRuns DEF Progressed
<1> QED
  BY <1>1, <1>2, PlaceStep

\* A verification passes only over the release's ledger.
LEMMA VerifySteps ==
  ASSUME GateInv, NEW p \in Runners, VerifyAsOwner(p) \/ VerifyAsRuntime(p)
  PROVE  GateInv'
<1>1. process[p].at \in {"verify", "verify as runtime"} /\ UNCHANGED <<ledger, schema, granted>>
  BY DEF VerifyAsOwner, VerifyAsRuntime, Standing
<1>2. /\ process[p] \in Running
      /\ p \in Gates => \A m \in 1..process[p].release : m \in granted
  BY <1>1, WhoRuns DEF Progressed
<1>3. process[p].release \in Nat
  BY <1>2, OfRelease DEF Running
<1>4. CASE Go(p, "failed")
  BY <1>1, <1>4, PlaceStep
<1>5. CASE Go(p, "verify as runtime")
  BY <1>1, <1>2, <1>5, PlaceStep
<1>6. CASE Go(p, "passed") /\ Matches(p)
  <2>1. \A m \in 1..process[p].release : m \in ledger
    BY <1>3, <1>6 DEF Matches
  <2> QED
    BY <1>1, <1>2, <1>6, <2>1, PlaceStep
<1> QED
  BY <1>4, <1>5, <1>6 DEF VerifyAsOwner, VerifyAsRuntime

\* A process that ends leaves the tables as they are.
LEMMA StopStep ==
  ASSUME GateInv, NEW p \in Runners, Stop(p)
  PROVE  GateInv'
<1>1. process' = [process EXCEPT ![p] = Down] /\ UNCHANGED <<ledger, schema, granted>>
  BY DEF Stop
<1>2. Progressed(Down, p \in Gates, ledger, granted)
  BY DEF Progressed, Down
<1> QED
  BY <1>1, <1>2, QuietStep

\* Before the first gate there is neither ledger nor table.
LEMMA GateInitInv == MigrationsInit => GateInv
<1> SUFFICES ASSUME MigrationsInit
             PROVE  GateInv
  OBVIOUS
<1>1. AllProgressed
  <2> SUFFICES ASSUME NEW p \in Runners
               PROVE  Progressed(process[p], p \in Gates, ledger, granted)
    BY DEF AllProgressed
  <2>1. process[p] = Down
    BY DEF MigrationsInit
  <2> QED
    BY <2>1 DEF Progressed, Down
<1>2. GateTypeOK /\ LedgerTells /\ GrantsExist
  BY DEF MigrationsInit, GateTypeOK, LedgerTells, GrantsExist
<1> QED
  BY <1>1, <1>2 DEF GateInv

\* Every step keeps the invariant.
LEMMA GateInvStep == GateInv /\ [MigrationsNext]_gateVars => GateInv'
<1> SUFFICES ASSUME GateInv, [MigrationsNext]_gateVars
             PROVE  GateInv'
  OBVIOUS
<1>1. CASE UNCHANGED gateVars
  <2>1. ledger' = ledger /\ schema' = schema /\ granted' = granted /\ process' = process
    BY <1>1 DEF gateVars
  <2> QED
    BY <2>1 DEF GateInv, GateTypeOK, LedgerTells, GrantsExist, AllProgressed
<1>2. ASSUME NEW p \in Runners, Start(p) \/ Lock(p) \/ Check(p) \/ Apply(p)
      PROVE  GateInv'
  BY <1>2, StartStep, LockStep, CheckStep, AppliedStep, RefusedStep
<1>3. ASSUME NEW p \in Runners, Unlock(p) \/ Grant(p) \/ GrantDefaults(p) \/ Stop(p)
      PROVE  GateInv'
  BY <1>3, UnlockStep, GrantStep, DefaultsStep, StopStep
<1>4. ASSUME NEW p \in Runners, VerifyAsOwner(p) \/ VerifyAsRuntime(p)
      PROVE  GateInv'
  BY <1>4, VerifySteps
<1> QED
  BY <1>1, <1>2, <1>3, <1>4 DEF MigrationsNext

\* A gate that has passed has left every migration of its release applied once and
\* usable, and a process serves only where that is so, whatever gates and processes of
\* other releases do meanwhile.
THEOREM CompleteSchema == MigrationsSpec => []ServesOnCompleteSchema
<1>1. GateInv => ServesOnCompleteSchema
  <2> SUFFICES ASSUME GateInv, NEW p \in Runners, Standing(p, "passed"),
                      NEW m \in 1..process[p].release
               PROVE  schema[m] = 1 /\ (p \in Gates => m \in granted)
    BY DEF ServesOnCompleteSchema
  <2>1. /\ process[p] \in Running /\ m \in ledger
        /\ p \in Gates => m \in granted
    BY WhoRuns DEF Standing, Progressed
  <2>2. m \in AllMigrations
    BY <2>1, OfRelease DEF Running
  <2> QED
    BY <2>1, <2>2 DEF GateInv, LedgerTells
<1> QED
  BY <1>1, GateInitInv, GateInvStep, PTL DEF MigrationsSpec

-----------------------------------------------------------------------------
(* Keyset pagination.  The order of a listing, as ORDER BY and as the      *)
(* cursor's predicate know it.                                             *)

InstantsOK == instant \in [RowIds -> Instants \cup {Unwritten}]

\* A listing's order is a strict total order of its R.
LEMMA BeforeIsAnOrder ==
  ASSUME InstantsOK
  PROVE  /\ \A i \in RowIds : ~Before(i, i)
         /\ \A i, j, k \in RowIds : Before(i, j) /\ Before(j, k) => Before(i, k)
         /\ \A i, j \in RowIds : i # j => Before(i, j) \/ Before(j, i)
<1>1. \A i \in RowIds : i \in Nat /\ instant[i] \in Nat
  BY PaginationAssumption DEF InstantsOK, Instants, Unwritten
<1>2. CASE listing.direction = "asc"
  BY <1>1, <1>2 DEF Before, Less
<1>3. CASE listing.direction # "asc"
  BY <1>1, <1>3 DEF Before, Less
<1> QED
  BY <1>2, <1>3

\* The R before a row are a set, smaller than that of any later row.
LEMMA RankGrows ==
  ASSUME InstantsOK, NEW R \in SUBSET RowIds
  PROVE  /\ IsFiniteSet(R) /\ Cardinality(R) \in Nat
         /\ \A i \in R : Rank(i, R) \in Nat /\ Rank(i, R) < Cardinality(R)
         /\ \A i, j \in R : Before(i, j) => Rank(i, R) < Rank(j, R)
<1> DEFINE Pred(i) == {j \in R : Before(j, i)}
<1>1. IsFiniteSet(R) /\ Cardinality(R) \in Nat
  BY PaginationAssumption, FS_Subset, FS_CardinalityType
<1>2. ASSUME NEW i \in R
      PROVE  /\ IsFiniteSet(Pred(i)) /\ Cardinality(Pred(i)) \in Nat
             /\ i \notin Pred(i) /\ Rank(i, R) = Cardinality(Pred(i))
             /\ IsFiniteSet(Pred(i) \cup {i})
             /\ Cardinality(Pred(i) \cup {i}) = Cardinality(Pred(i)) + 1
  <2>1. Pred(i) \in SUBSET R
    OBVIOUS
  <2>2. IsFiniteSet(Pred(i))
    BY <1>1, <2>1, FS_Subset
  <2>3. i \notin Pred(i)
    BY BeforeIsAnOrder
  <2>4. Rank(i, R) = Cardinality(Pred(i))
    BY DEF Rank
  <2> HIDE DEF Pred
  <2> QED
    BY <2>2, <2>3, <2>4, FS_CardinalityType, FS_AddElement
<1>3. ASSUME NEW i \in R
      PROVE  Rank(i, R) < Cardinality(R)
  <2>1. Pred(i) \cup {i} \in SUBSET R
    OBVIOUS
  <2>2. Cardinality(Pred(i) \cup {i}) <= Cardinality(R)
    BY <1>1, <2>1, FS_Subset
  <2>3. Rank(i, R) \in Nat /\ Rank(i, R) + 1 <= Cardinality(R)
    BY <1>2, <2>2, Zenon
  <2> QED
    BY <1>1, <2>3
<1>4. ASSUME NEW i \in R, NEW j \in R, Before(i, j)
      PROVE  Rank(i, R) < Rank(j, R)
  <2>1. Pred(i) \cup {i} \in SUBSET Pred(j)
    BY <1>4, BeforeIsAnOrder
  <2>2. Cardinality(Pred(i) \cup {i}) <= Cardinality(Pred(j))
    BY <1>2, <2>1, FS_Subset
  <2>3. Rank(i, R) \in Nat /\ Rank(j, R) \in Nat /\ Rank(i, R) + 1 <= Rank(j, R)
    BY <1>2, <2>2, Zenon
  <2> QED
    BY <2>3
<1> HIDE DEF Pred
<1> QED
  BY <1>1, <1>2, <1>3, <1>4

\* A sequence of all of R, each after those before it.
IsSorted(s, R) ==
  /\ DOMAIN s = 1..Cardinality(R)
  /\ \A n \in DOMAIN s : s[n] \in R
  /\ \A i \in R : \E n \in DOMAIN s : s[n] = i
  /\ \A m, n \in DOMAIN s : m < n => Before(s[m], s[n])

\* ORDER BY gives one.
LEMMA OrderedIsSorted ==
  ASSUME InstantsOK, NEW R \in SUBSET RowIds
  PROVE  IsSorted(Ordered(R), R)
<1> DEFINE c == Cardinality(R)
           s == Ordered(R)
           rank == [i \in R |-> Rank(i, R)]
<1>1. c \in Nat /\ IsFiniteSet(R)
  BY RankGrows
<1>2. \A i, j \in R : Rank(i, R) = Rank(j, R) => i = j
  <2> SUFFICES ASSUME NEW i \in R, NEW j \in R, Rank(i, R) = Rank(j, R), i # j
               PROVE  FALSE
    OBVIOUS
  <2>1. Before(i, j) \/ Before(j, i)
    BY BeforeIsAnOrder
  <2> QED
    BY <2>1, RankGrows
<1>3. rank \in [R -> 0..(c - 1)]
  <2> SUFFICES ASSUME NEW i \in R
               PROVE  Rank(i, R) \in 0..(c - 1)
    OBVIOUS
  <2>1. Rank(i, R) \in Nat /\ Rank(i, R) < c
    BY RankGrows
  <2> QED
    BY <1>1, <2>1
<1>4. rank \in Injection(R, 0..(c - 1))
  BY <1>2, <1>3 DEF Injection, IsInjective
<1>5. IsFiniteSet(0..(c - 1)) /\ Cardinality(0..(c - 1)) = c
  <2>1. 0 \in Int /\ c - 1 \in Int
    BY <1>1
  <2>2. /\ IsFiniteSet(0..(c - 1))
        /\ Cardinality(0..(c - 1)) = IF 0 > c - 1 THEN 0 ELSE (c - 1) - 0 + 1
    BY <2>1, FS_Interval
  <2> QED
    BY <1>1, <2>2
<1>6. rank \in Surjection(R, 0..(c - 1))
  BY <1>4, <1>5, FS_Injection
<1>7. \A n \in 0..(c - 1) : \E i \in R : Rank(i, R) = n
  BY <1>6 DEF Surjection
<1>8. DOMAIN s = 1..c
  BY DEF Ordered
<1>9. ASSUME NEW n \in DOMAIN s
      PROVE  s[n] \in R /\ Rank(s[n], R) = n - 1
  <2>1. n \in 1..c /\ n - 1 \in 0..(c - 1)
    BY <1>1, <1>8, <1>9
  <2>2. \E i \in R : Rank(i, R) = n - 1
    BY <1>7, <2>1
  <2>3. s[n] = CHOOSE i \in R : Rank(i, R) = n - 1
    BY <2>1 DEF Ordered
  <2> QED
    BY <2>2, <2>3
<1>10. ASSUME NEW i \in R
       PROVE  \E n \in DOMAIN s : s[n] = i
  <2> DEFINE n == Rank(i, R) + 1
  <2>1. n \in DOMAIN s /\ n - 1 = Rank(i, R)
    BY <1>1, <1>8, RankGrows
  <2>2. s[n] \in R /\ Rank(s[n], R) = Rank(i, R)
    BY <1>9, <2>1
  <2> QED
    BY <1>2, <2>1, <2>2
<1>11. ASSUME NEW m \in DOMAIN s, NEW n \in DOMAIN s, m < n
       PROVE  Before(s[m], s[n])
  <2>1. /\ s[m] \in R /\ Rank(s[m], R) = m - 1
        /\ s[n] \in R /\ Rank(s[n], R) = n - 1
    BY <1>9
  <2>2. m \in Nat /\ n \in Nat
    BY <1>1, <1>8
  <2>3. s[m] # s[n]
    BY <1>11, <2>1, <2>2
  <2>4. ~Before(s[n], s[m])
    BY <1>11, <2>1, <2>2, RankGrows
  <2> QED
    BY <2>1, <2>3, <2>4, BeforeIsAnOrder
<1> QED
  BY <1>8, <1>9, <1>10, <1>11 DEF IsSorted

-----------------------------------------------------------------------------
(* A walk whose cursors may lose a part of an instant.                     *)

Listings == [direction : {"asc", "desc"}, filter : Filters]
Cursors == [of : Listings, id : RowIds, instant : Nat]

PagesTypeOK ==
  /\ InstantsOK
  /\ listing \in Listings
  /\ cursor \in {NoCursor} \cup Cursors
  /\ walk \in {"walking", "ended", "invalid"}
  /\ given \in Seq(RowIds)
  /\ lasting \subseteq Present

\* The milliseconds in which a row has a finer instant are noted.
BlurredNoted ==
  \A i \in Present : Iso(instant[i]) # instant[i] => Iso(instant[i]) \in blurred

Precedes(d, i, j) ==
  IF d = "asc" THEN Less(instant[i], i, instant[j], j) ELSE Less(instant[j], j, instant[i], i)

\* The cursor stands at row i, or after it.
Reached(i) ==
  /\ cursor # NoCursor
  /\ IF Direction = "asc" THEN ~Less(cursor.instant, cursor.id, instant[i], i)
     ELSE ~Less(instant[i], i, cursor.instant, cursor.id)

\* The rows that stay are given in order, and those up to the cursor are given: where
\* the rounding of the cursor is on the safe side or absent.
GivenInOrder ==
  \A m, n \in DOMAIN given :
    m < n /\ NotRepeated(given[m]) /\ NotRepeated(given[n])
      => Precedes(Direction, given[m], given[n])

GivenReached ==
  walk = "walking" =>
    \A i \in lasting : /\ NotRepeated(i) /\ Lists(given, i) => Reached(i)
                       /\ NotMissed(i) /\ Reached(i) => Lists(given, i)

EndedComplete ==
  walk = "ended" => ValidCursor /\ \A i \in lasting : NotMissed(i) => Lists(given, i)

PagesInv ==
  PagesTypeOK /\ BlurredNoted /\ GivenInOrder /\ GivenReached /\ EndedComplete

\* A cursor is a cursor.
LEMMA CursorsDiffer == \A c \in Cursors : c # NoCursor
<1> SUFFICES ASSUME NEW c \in Cursors, c = NoCursor
             PROVE  FALSE
  OBVIOUS
<1>1. "of" \in DOMAIN c
  BY DEF Cursors
<1>2. DOMAIN c = {"start"}
  BY DEF NoCursor
<1> QED
  BY <1>1, <1>2

\* Rows are numbers with instants.
LEMMA RowNumbers ==
  ASSUME PagesTypeOK
  PROVE  /\ \A i \in RowIds : i \in Nat /\ instant[i] \in Nat
         /\ cursor # NoCursor => cursor \in Cursors /\ cursor.id \in Nat /\ cursor.instant \in Nat
         /\ lasting \subseteq RowIds
  BY PaginationAssumption
     DEF PagesTypeOK, InstantsOK, Instants, Unwritten, Cursors, Present

\* In the walk's direction a row excludes being before itself, or before and after
\* another, and what the cursor has reached comes before what it has not.
LEMMA WalkOrder ==
  ASSUME PagesTypeOK, NEW i \in RowIds, NEW j \in RowIds
  PROVE  /\ ~Precedes(Direction, i, i)
         /\ ~(Precedes(Direction, i, j) /\ Precedes(Direction, j, i))
         /\ Reached(i) /\ ~Reached(j) => Precedes(Direction, i, j)
<1>1. /\ i \in Nat /\ j \in Nat /\ instant[i] \in Nat /\ instant[j] \in Nat
      /\ cursor # NoCursor => cursor.id \in Nat /\ cursor.instant \in Nat
  BY RowNumbers
<1>2. CASE Direction = "asc"
  BY <1>1, <1>2 DEF Precedes, Reached, Less
<1>3. CASE Direction # "asc"
  BY <1>1, <1>3 DEF Precedes, Reached, Less
<1> QED
  BY <1>2, <1>3

\* With a valid cursor ORDER BY is the walk's order, and the predicate takes what the
\* cursor has not reached.
LEMMA ListingIsWalked ==
  ASSUME PagesTypeOK, ValidCursor
  PROVE  /\ Direction = listing.direction
         /\ \A i, j : Before(i, j) <=> Precedes(Direction, i, j)
         /\ \A i \in RowIds : Beyond(i) <=> ~Reached(i)
<1>1. Direction = listing.direction
  BY DEF ValidCursor, Direction
<1>2. listing.direction \in {"asc", "desc"}
  BY DEF PagesTypeOK, Listings
<1> QED
  BY <1>1, <1>2 DEF Before, Precedes, Beyond, Reached

\* Instants between a whole millisecond and one that is rounded to it are rounded to it.
LEMMA IsoBetween ==
  ASSUME NEW a \in Nat, NEW b \in Nat, Iso(b) <= a, a <= b
  PROVE  Iso(a) = Iso(b) /\ Iso(b) \in Nat
<1> DEFINE k == PerMilli
           p == b \div k
           r == b % k
           d == a - k * p
<1>1. k \in Nat \ {0}
  BY PaginationAssumption
<1>2. Iso(b) = b - r
  BY DEF Iso
<1> HIDE DEF k
<1>3. p \in Nat /\ r \in 0..(k - 1) /\ b = k * p + r /\ k * p \in Nat
  BY <1>1
<1> HIDE DEF p, r
<1>4. d \in 0..(k - 1) /\ a = k * p + d /\ Iso(b) = k * p
  BY <1>1, <1>2, <1>3
<1> HIDE DEF d
<1>5. a % k = d
  <2> DEFINE m == a \div k
             e == a % k
  <2>1. m \in Nat /\ e \in 0..(k - 1) /\ a = k * m + e
    BY <1>1
  <2> HIDE DEF m, e
  <2>2. ~(m >= p + 1)
    <3> SUFFICES ASSUME m >= p + 1
                 PROVE  FALSE
      OBVIOUS
    <3>1. k * m >= k * (p + 1) /\ k * (p + 1) = k * p + k
      BY <1>1, <1>3, <2>1
    <3> QED
      BY <1>1, <1>3, <1>4, <2>1, <3>1
  <2>3. ~(p >= m + 1)
    <3> SUFFICES ASSUME p >= m + 1
                 PROVE  FALSE
      OBVIOUS
    <3>1. k * p >= k * (m + 1) /\ k * (m + 1) = k * m + k
      BY <1>1, <1>3, <2>1
    <3> QED
      BY <1>1, <1>3, <1>4, <2>1, <3>1
  <2>4. m = p
    BY <1>3, <2>1, <2>2, <2>3
  <2>5. e = d
    BY <1>3, <1>4, <2>1, <2>4
  <2> QED
    BY <2>5 DEF e
<1> QED
  BY <1>3, <1>4, <1>5 DEF Iso, k

\* A clear row is not between the last row of a page and the whole milliseconds of it.
LEMMA ClearIsApart ==
  ASSUME PagesTypeOK, BlurredNoted, NEW last \in Present, NEW i \in Present, Clear(i),
         Iso(instant[last]) <= instant[i], instant[i] <= instant[last]
  PROVE  instant[i] = instant[last] /\ Iso(instant[last]) = instant[last]
<1>1. instant[i] \in Nat /\ instant[last] \in Nat
  BY RowNumbers DEF Present
<1>2. Iso(instant[i]) = Iso(instant[last])
  BY <1>1, IsoBetween
<1>3. Iso(instant[i]) \notin blurred
  BY DEF Clear
<1>4. Iso(instant[last]) = instant[last] /\ Iso(instant[i]) = instant[i]
  BY <1>2, <1>3 DEF BlurredNoted
<1> QED
  BY <1>2, <1>4

\* A cursor made of a row has reached what does not follow that row, and only that.
LEMMA RoundedCursor ==
  ASSUME PagesTypeOK, BlurredNoted, NEW last \in Present, NEW i \in Present,
         NEW d \in {"asc", "desc"},
         NEW c, c = Iso(instant[last])
  PROVE  LET reached == IF d = "asc" THEN ~Less(c, last, instant[i], i)
                        ELSE ~Less(instant[i], i, c, last)
         IN  /\ (d = "desc" \/ Clear(i)) /\ ~Precedes(d, last, i) => reached
             /\ (d = "asc" \/ Clear(i)) /\ reached => ~Precedes(d, last, i)
<1>1. /\ i \in Nat /\ instant[i] \in Nat /\ last \in Nat /\ instant[last] \in Nat
  BY RowNumbers DEF Present
<1>2. c \in Nat /\ c <= instant[last]
  <2>1. instant[last] % PerMilli \in 0..instant[last]
    <3> DEFINE b == instant[last]
               k == PerMilli
    <3>1. k \in Nat \ {0} /\ b \in Nat
      BY <1>1, PaginationAssumption
    <3> HIDE DEF b, k
    <3>2. b % k \in 0..b
      BY <3>1
    <3> QED
      BY <3>2 DEF b, k
  <2> QED
    BY <1>1, <2>1 DEF Iso
<1>3. Clear(i) => \/ instant[i] < c \/ instant[i] > instant[last]
                  \/ instant[i] = instant[last] /\ c = instant[last]
  BY <1>1, <1>2, ClearIsApart
<1>4. CASE d = "asc"
  BY <1>1, <1>2, <1>3, <1>4 DEF Less, Precedes
<1>5. CASE d = "desc"
  BY <1>1, <1>2, <1>3, <1>5 DEF Less, Precedes
<1> QED
  BY <1>4, <1>5

\* What a page appends: the first rows of those not reached.
LEMMA PageStep ==
  ASSUME PagesInv, FetchPage
  PROVE  PagesInv'
<1> DEFINE page == Ordered(Rest)
           size == IF Len(page) > PageSize THEN PageSize ELSE Len(page)
           visible == SubSeq(page, 1, size)
           before == Len(given)
           last == visible[Len(visible)]
<1>1. PagesTypeOK /\ BlurredNoted /\ GivenInOrder /\ GivenReached /\ walk = "walking"
      /\ ValidCursor /\ PageSize \in Nat \ {0}
  BY PaginationAssumption DEF PagesInv, FetchPage
<1>2. /\ Direction = listing.direction
      /\ \A i, j : Before(i, j) <=> Precedes(Direction, i, j)
      /\ \A i \in RowIds : Beyond(i) <=> ~Reached(i)
  BY <1>1, ListingIsWalked
<1>3. Rest \in SUBSET RowIds
  BY DEF Rest, Present
<1>4. IsSorted(page, Rest) /\ Cardinality(Rest) \in Nat
  BY <1>1, <1>3, OrderedIsSorted, RankGrows DEF PagesTypeOK
<1>5. page \in Seq(RowIds) /\ Len(page) \in Nat /\ DOMAIN page = 1..Len(page)
  <2>1. page \in [1..Cardinality(Rest) -> RowIds]
    BY <1>3, <1>4 DEF IsSorted, Ordered
  <2> QED
    BY <1>4, <2>1
<1> HIDE DEF page
<1>6. /\ size \in Nat /\ size <= Len(page) /\ size <= PageSize
      /\ visible \in Seq(RowIds) /\ Len(visible) = size
      /\ \A n \in 1..size : visible[n] = page[n]
  <2>1. size \in Nat /\ size <= Len(page) /\ size <= PageSize
    BY <1>1, <1>5
  <2> HIDE DEF size
  <2>2. \A n \in 1..size : page[n] \in RowIds
    BY <1>5, <2>1
  <2> QED
    BY <1>5, <2>1, <2>2
<1>7. given' = given \o visible /\ UNCHANGED <<instant, listing, lasting, blurred>>
  BY DEF FetchPage, page
<1> HIDE DEF size, visible
<1>8. /\ given' \in Seq(RowIds) /\ before \in Nat /\ Len(given') = before + size
      /\ DOMAIN given' = 1..(before + size) /\ DOMAIN given = 1..before
      /\ \A n \in 1..before : given'[n] = given[n]
      /\ \A n \in 1..size : before + n \in DOMAIN given' /\ given'[before + n] = page[n]
      /\ \A n \in (before + 1)..(before + size) :
           n - before \in 1..size /\ given'[n] = page[n - before]
  <2>1. given \in Seq(RowIds) /\ visible \in Seq(RowIds) /\ size \in Nat /\ Len(visible) = size
    BY <1>1, <1>6 DEF PagesTypeOK
  <2>2. given' \in Seq(RowIds) /\ before \in Nat /\ Len(given') = before + size
    <3>1. given \o visible \in Seq(RowIds) /\ Len(given \o visible) = Len(given) + Len(visible)
      BY <2>1, ConcatProperties
    <3> QED
      BY <1>7, <2>1, <3>1
  <2>3. DOMAIN given' = 1..(before + size) /\ DOMAIN given = 1..before
    BY <2>1, <2>2
  <2>4. \A n \in 1..before : given'[n] = given[n]
    BY <1>7, <2>1
  <2>5. \A n \in (before + 1)..(before + size) :
          n - before \in 1..size /\ given'[n] = visible[n - before]
    BY <1>7, <2>1
  <2>6. \A n \in 1..size : before + n \in DOMAIN given' /\ given'[before + n] = visible[n]
    <3> SUFFICES ASSUME NEW n \in 1..size
                 PROVE  before + n \in DOMAIN given' /\ given'[before + n] = visible[n]
      OBVIOUS
    <3>1. before + n \in (before + 1)..(before + size) /\ (before + n) - before = n
      BY <2>1, <2>2
    <3> QED
      BY <2>3, <2>5, <3>1
  <2> QED
    BY <1>6, <2>2, <2>3, <2>4, <2>5, <2>6
<1>9. \A n \in 1..size : n \in DOMAIN page /\ page[n] \in Present /\ page[n] \in RowIds
                        /\ ~Reached(page[n])
  <2>1. \A n \in DOMAIN page : page[n] \in Present /\ page[n] \in RowIds /\ Beyond(page[n])
    BY <1>3, <1>4 DEF IsSorted, Rest
  <2> QED
    BY <1>2, <1>5, <1>6, <2>1
<1>10. \A m, n \in DOMAIN page : m < n => Precedes(Direction, page[m], page[n])
  BY <1>2, <1>4 DEF IsSorted
<1>11. ASSUME NEW m \in DOMAIN given', NEW n \in DOMAIN given', m < n,
              NotRepeated(given'[m]), NotRepeated(given'[n])
       PROVE  Precedes(Direction, given'[m], given'[n])
  <2>1. m \in Nat /\ n \in Nat /\ 1 <= m /\ n <= before + size
    BY <1>6, <1>8
  <2>2. CASE n <= before
    <3>1. m \in DOMAIN given /\ n \in DOMAIN given
      BY <1>8, <1>11, <2>1, <2>2
    <3> QED
      BY <1>1, <1>8, <1>11, <3>1 DEF GivenInOrder
  <2>3. CASE m <= before /\ ~(n <= before)
    <3>1. m \in DOMAIN given /\ given'[m] = given[m] /\ given[m] \in RowIds
      BY <1>1, <1>8, <2>1, <2>3 DEF PagesTypeOK
    <3>2. Reached(given'[m])
      BY <1>1, <1>11, <3>1 DEF GivenReached, Lists, NotRepeated
    <3>3. n - before \in 1..size /\ given'[n] = page[n - before]
      BY <1>6, <1>8, <2>1, <2>3
    <3>4. given'[n] \in RowIds /\ ~Reached(given'[n])
      BY <1>9, <3>3
    <3> QED
      BY <1>1, <3>1, <3>2, <3>4, WalkOrder
  <2>4. CASE ~(m <= before)
    <3>1. /\ m \in (before + 1)..(before + size) /\ n \in (before + 1)..(before + size)
          /\ m - before < n - before
      BY <1>6, <1>8, <1>11, <2>1, <2>4
    <3>2. /\ n - before \in 1..size /\ given'[n] = page[n - before]
          /\ m - before \in 1..size /\ given'[m] = page[m - before]
      BY <1>8, <3>1
    <3> QED
      BY <1>9, <1>10, <3>1, <3>2
  <2> QED
    BY <2>2, <2>3, <2>4
<1>12. ASSUME NEW i \in lasting
       PROVE  /\ i \in RowIds /\ i \in Present
              /\ NotMissed(i) /\ Reached(i) => Lists(given', i)
              /\ ~Reached(i) => \E k \in DOMAIN page : page[k] = i
              /\ \A k \in 1..size : page[k] = i => Lists(given', i)
              /\ NotRepeated(i) /\ Lists(given', i) =>
                   Reached(i) \/ \E k \in 1..size : page[k] = i
  <2>1. i \in RowIds /\ i \in Present
    BY <1>1 DEF PagesTypeOK, Present
  <2>2. /\ NotRepeated(i) /\ Lists(given, i) => Reached(i)
        /\ NotMissed(i) /\ Reached(i) => Lists(given, i)
    BY <1>1 DEF GivenReached
  <2>3. Lists(given, i) => Lists(given', i)
    BY <1>6, <1>8 DEF Lists
  <2>4. ~Reached(i) => i \in Rest
    BY <1>2, <2>1 DEF Rest
  <2>5. \A k \in 1..size : page[k] = i => Lists(given', i)
    BY <1>8 DEF Lists
  <2>6. ASSUME NotRepeated(i), Lists(given', i), ~Reached(i)
        PROVE  \E k \in 1..size : page[k] = i
    <3>1. PICK n \in DOMAIN given' : given'[n] = i
      BY <2>6 DEF Lists
    <3>2. n \notin DOMAIN given
      BY <1>8, <2>2, <2>6, <3>1 DEF Lists
    <3>3. n \in (before + 1)..(before + size)
      BY <1>6, <1>8, <3>2
    <3> QED
      BY <1>8, <3>1, <3>3
  <2> QED
    BY <1>4, <2>1, <2>2, <2>3, <2>4, <2>5, <2>6 DEF IsSorted
<1> HIDE DEF before
<1>13. CASE Len(page) > PageSize
  <2>1. size = PageSize /\ size \in 1..Len(page) /\ last = page[size]
    BY <1>1, <1>5, <1>6, <1>13 DEF size
  <2>2. last \in Present /\ last \in RowIds /\ instant[last] \in Nat /\ size \in DOMAIN page
    BY <1>1, <1>5, <1>9, <2>1, RowNumbers
  <2>3. cursor' = [of |-> listing, id |-> last, instant |-> Iso(instant[last])]
        /\ walk' = "walking"
    BY <1>1, <1>13 DEF FetchPage, page, visible, size
  <2> HIDE DEF last
  <2>4. Iso(instant[last]) \in Nat
    <3>1. Iso(instant[last]) <= instant[last]
      <4> DEFINE b == instant[last]
                 k == PerMilli
      <4>1. k \in Nat \ {0} /\ b \in Nat
        BY <2>2, PaginationAssumption
      <4> HIDE DEF b, k
      <4>2. b - (b % k) <= b
        BY <4>1
      <4> QED
        BY <4>2 DEF b, k, Iso
    <3> QED
      BY <2>2, <3>1, IsoBetween
  <2>5. cursor' \in Cursors /\ cursor' # NoCursor /\ cursor'.of = listing
        /\ cursor'.id = last /\ cursor'.instant = Iso(instant[last])
    <3>1. cursor' \in Cursors
      BY <1>1, <2>2, <2>3, <2>4 DEF Cursors, PagesTypeOK
    <3> QED
      BY <2>3, <3>1, CursorsDiffer
  <2>6. PagesTypeOK' /\ BlurredNoted'
    BY <1>1, <1>7, <1>8, <2>3, <2>5
       DEF PagesTypeOK, InstantsOK, Present, BlurredNoted, Iso
  <2>7. Direction' = Direction /\ Direction \in {"asc", "desc"}
    BY <1>1, <1>2, <2>5 DEF Direction, PagesTypeOK, Listings
  <2>8. /\ \A i, j : Precedes(Direction, i, j)' <=> Precedes(Direction, i, j)
        /\ \A i : NotRepeated(i)' <=> NotRepeated(i)
        /\ \A i : NotMissed(i)' <=> NotMissed(i)
    BY <1>7, <2>7 DEF Precedes, NotRepeated, NotMissed, Clear, Iso
  <2>9. ASSUME NEW i \in Present
        PROVE  /\ NotRepeated(i) /\ ~Precedes(Direction, last, i) => Reached(i)'
               /\ NotMissed(i) /\ Reached(i)' => ~Precedes(Direction, last, i)
    <3>1. Reached(i)' <=> IF Direction = "asc"
                            THEN ~Less(Iso(instant[last]), last, instant[i], i)
                            ELSE ~Less(instant[i], i, Iso(instant[last]), last)
      BY <1>7, <2>5, <2>7 DEF Reached
    <3> QED
      BY <1>1, <2>2, <2>7, <3>1, RoundedCursor DEF NotRepeated, NotMissed
  <2>10. GivenInOrder'
    BY <1>7, <1>11, <2>8 DEF GivenInOrder
  <2>11. ASSUME NEW i \in lasting, NotRepeated(i), Lists(given', i)
         PROVE  Reached(i)'
    <3>1. i \in RowIds /\ i \in Present
      BY <1>12
    <3>2. CASE Reached(i)
      <4>1. Precedes(Direction, i, last)
        BY <1>1, <1>9, <2>1, <2>2, <3>1, <3>2, WalkOrder
      <4> QED
        BY <1>1, <2>2, <2>9, <2>11, <3>1, <4>1, WalkOrder
    <3>3. CASE \E k \in 1..size : page[k] = i
      <4>1. PICK k \in 1..size : page[k] = i
        BY <3>3
      <4>2. k \in Nat /\ k <= size /\ k \in DOMAIN page /\ size \in Nat
        BY <1>6, <1>9
      <4>3. CASE k < size
        <5>1. Precedes(Direction, i, last)
          BY <1>10, <2>1, <2>2, <4>1, <4>2, <4>3
        <5> QED
          BY <1>1, <2>2, <2>9, <2>11, <3>1, <5>1, WalkOrder
      <4>4. CASE k = size
        BY <1>1, <2>1, <2>9, <2>11, <3>1, <4>1, <4>4, WalkOrder
      <4> QED
        BY <4>2, <4>3, <4>4
    <3> QED
      BY <1>12, <2>11, <3>2, <3>3
  <2>12. ASSUME NEW i \in lasting, NotMissed(i), Reached(i)'
         PROVE  Lists(given', i)
    <3>1. i \in RowIds /\ i \in Present
      BY <1>12
    <3>2. CASE Reached(i)
      BY <1>12, <2>12, <3>2
    <3>3. CASE ~Reached(i)
      <4>1. PICK k \in DOMAIN page : page[k] = i
        BY <1>12, <3>3
      <4>2. k \in Nat /\ 1 <= k /\ k <= Len(page)
        BY <1>5
      <4>3. CASE k <= size
        BY <1>6, <1>12, <4>1, <4>2, <4>3
      <4>4. CASE ~(k <= size)
        <5>1. Precedes(Direction, last, i)
          BY <1>6, <1>10, <2>1, <2>2, <4>1, <4>2, <4>4
        <5> QED
          BY <2>9, <2>12, <3>1, <5>1
      <4> QED
        BY <4>3, <4>4
    <3> QED
      BY <3>2, <3>3
  <2>13. GivenReached' /\ EndedComplete'
    BY <1>7, <2>3, <2>8, <2>11, <2>12 DEF GivenReached, EndedComplete
  <2> QED
    BY <2>6, <2>10, <2>13 DEF PagesInv
<1>14. CASE ~(Len(page) > PageSize)
  <2>1. walk' = "ended" /\ cursor' = cursor /\ size = Len(page)
    BY <1>14 DEF FetchPage, page, size
  <2>2. PagesTypeOK' /\ BlurredNoted'
    BY <1>1, <1>7, <1>8, <2>1 DEF PagesTypeOK, InstantsOK, Present, BlurredNoted, Iso
  <2>3. /\ \A i, j : Precedes(Direction, i, j)' <=> Precedes(Direction, i, j)
        /\ \A i : NotRepeated(i)' <=> NotRepeated(i)
        /\ \A i : NotMissed(i)' <=> NotMissed(i)
    BY <1>7, <2>1 DEF Precedes, Direction, NotRepeated, NotMissed, Clear, Iso
  <2>4. GivenInOrder'
    BY <1>7, <1>11, <2>3 DEF GivenInOrder
  <2>5. ValidCursor'
    BY <1>1, <1>7, <2>1 DEF ValidCursor
  <2>6. \A i \in lasting : NotMissed(i) => Lists(given', i)
    BY <1>5, <1>12, <2>1
  <2>7. GivenReached' /\ EndedComplete'
    BY <1>7, <2>1, <2>3, <2>5, <2>6 DEF GivenReached, EndedComplete
  <2> QED
    BY <2>2, <2>4, <2>7 DEF PagesInv
<1> QED
  BY <1>13, <1>14

\* Rows come and go, and the client changes its mind: no row that stays is touched.
LEMMA PagesStep ==
  ASSUME PagesInv, [PagesNext]_pageVars
  PROVE  PagesInv'
<1>1. ASSUME NEW i \in RowIds, RowAdded(i) \/ RowPurged(i)
      PROVE  PagesInv'
  <2>1. UNCHANGED <<listing, cursor, walk, given>> /\ walk = "walking"
    BY <1>1 DEF RowAdded, RowPurged
  <2>2. PagesTypeOK /\ BlurredNoted /\ GivenInOrder /\ GivenReached
    BY DEF PagesInv
  <2>3. /\ lasting' \subseteq lasting /\ lasting' \subseteq Present'
        /\ InstantsOK' /\ BlurredNoted' /\ blurred \subseteq blurred'
        /\ \A j \in lasting' : instant'[j] = instant[j]
    <3>1. CASE RowAdded(i)
      <4>1. PICK t \in Instants : /\ instant' = [instant EXCEPT ![i] = t]
                                 /\ blurred' = blurred \cup Finer({t})
        BY <3>1 DEF RowAdded
      <4>2. i \notin lasting /\ lasting' = lasting /\ lasting \subseteq Present
        BY <2>2, <3>1 DEF RowAdded, PagesTypeOK
      <4>3. InstantsOK' /\ \A j \in lasting' : instant'[j] = instant[j]
        BY <2>2, <4>1, <4>2 DEF PagesTypeOK, InstantsOK, Present
      <4>4. lasting' \subseteq Present'
        BY <2>2, <4>1, <4>2 DEF PagesTypeOK, InstantsOK, Present
      <4>5. ASSUME NEW j \in Present', Iso(instant'[j]) # instant'[j]
            PROVE  Iso(instant'[j]) \in blurred'
        <5>1. CASE j = i
          <6>1. instant'[j] = t
            BY <2>2, <4>1, <5>1 DEF PagesTypeOK, InstantsOK
          <6> QED
            BY <4>1, <4>5, <6>1 DEF Finer
        <5>2. CASE j # i
          <6>1. j \in Present /\ instant'[j] = instant[j]
            BY <2>2, <4>1, <5>2 DEF PagesTypeOK, InstantsOK, Present
          <6> QED
            BY <2>2, <4>1, <4>5, <6>1 DEF BlurredNoted
        <5> QED
          BY <5>1, <5>2
      <4> QED
        BY <4>1, <4>2, <4>3, <4>4, <4>5 DEF BlurredNoted, Iso
    <3>2. CASE RowPurged(i)
      BY <2>2, <3>2 DEF RowPurged, PagesTypeOK, InstantsOK, Present, BlurredNoted, Iso
    <3> QED
      BY <1>1, <3>1, <3>2
  <2>4. PagesTypeOK'
    BY <2>1, <2>2, <2>3 DEF PagesTypeOK
  <2>5. Direction' = Direction
    BY <2>1 DEF Direction
  <2>6. \A j, k \in lasting' : Precedes(Direction, j, k)' <=> Precedes(Direction, j, k)
    BY <2>3, <2>5 DEF Precedes
  <2>7. \A j \in lasting' : Reached(j)' <=> Reached(j)
    BY <2>1, <2>3, <2>5 DEF Reached
  <2>8. /\ \A j : NotRepeated(j)' => NotRepeated(j) /\ j \in lasting'
        /\ \A j : NotMissed(j)' => NotMissed(j) /\ j \in lasting'
    BY <2>3, <2>5 DEF NotRepeated, NotMissed, Clear, Iso
  <2>9. GivenInOrder'
    BY <2>1, <2>2, <2>3, <2>6, <2>8 DEF GivenInOrder
  <2>10. GivenReached' /\ EndedComplete'
    BY <2>1, <2>2, <2>3, <2>7, <2>8 DEF GivenReached, EndedComplete, Lists
  <2> QED
    BY <2>3, <2>4, <2>9, <2>10 DEF PagesInv
<1>2. CASE QueryChanged
  <2>1. UNCHANGED <<instant, cursor, walk, given, lasting, blurred>> /\ cursor # NoCursor
        /\ walk = "walking" /\ listing' \in Listings
    BY <1>2 DEF QueryChanged, Listings
  <2>2. Direction' = Direction
    BY <2>1 DEF Direction
  <2>3. PagesTypeOK'
    BY <2>1 DEF PagesInv, PagesTypeOK, InstantsOK, Present
  <2> QED
    BY <2>1, <2>2, <2>3
       DEF PagesInv, GivenInOrder, GivenReached, EndedComplete, Precedes, Reached,
           BlurredNoted, NotRepeated, NotMissed, Clear, Iso, Present
<1>3. CASE FetchPage
  BY <1>3, PageStep
<1>4. CASE CursorRefused
  BY <1>4
     DEF CursorRefused, PagesInv, PagesTypeOK, InstantsOK, Present, GivenInOrder,
         GivenReached, EndedComplete, Precedes, Reached, Direction, BlurredNoted,
         NotRepeated, NotMissed, Clear, Iso
<1>5. CASE UNCHANGED pageVars
  BY <1>5
     DEF pageVars, PagesInv, PagesTypeOK, InstantsOK, Present, GivenInOrder,
         GivenReached, EndedComplete, Precedes, Reached, Direction, ValidCursor,
         BlurredNoted, NotRepeated, NotMissed, Clear, Iso
<1> QED
  BY <1>1, <1>2, <1>3, <1>4, <1>5 DEF PagesNext

\* In a sequence that has the clear rows in the walk's order, one follows another
\* exactly if it comes later in that order.
LEMMA FollowsIsOrder ==
  ASSUME PagesTypeOK, NEW s \in Seq(RowIds),
         \A m, n \in DOMAIN s :
           m < n /\ NotRepeated(s[m]) /\ NotRepeated(s[n]) => Precedes(Direction, s[m], s[n]),
         NEW i \in lasting, NEW j \in lasting, NotRepeated(i), NotRepeated(j),
         Lists(s, i), Lists(s, j)
  PROVE  Follows(s, i, j) <=> Precedes(Direction, i, j)
<1>1. i \in RowIds /\ j \in RowIds
  BY RowNumbers
<1>2. Follows(s, i, j) => Precedes(Direction, i, j)
  BY DEF Follows
<1>3. ASSUME Precedes(Direction, i, j)
      PROVE  Follows(s, i, j)
  <2>1. PICK m \in DOMAIN s, n \in DOMAIN s : s[m] = i /\ s[n] = j
    BY DEF Lists
  <2>2. m \in Nat /\ n \in Nat
    OBVIOUS
  <2>3. m # n /\ ~(n < m)
    BY <1>1, <1>3, <2>1, WalkOrder
  <2> QED
    BY <2>1, <2>2, <2>3 DEF Follows
<1> QED
  BY <1>2, <1>3

\* The invariant says what the property does.
LEMMA WalkIsWhole ==
  ASSUME PagesInv
  PROVE  RowsOnceUnlessBlurred
<1>1. PagesTypeOK /\ GivenInOrder /\ EndedComplete /\ given \in Seq(RowIds)
      /\ lasting \subseteq RowIds
  BY RowNumbers DEF PagesInv, PagesTypeOK
<1>2. ASSUME NEW m \in 1..Len(given), NEW n \in 1..Len(given),
             given[m] = given[n], NotRepeated(given[m]), m # n
      PROVE  FALSE
  <2>1. m \in DOMAIN given /\ n \in DOMAIN given /\ m \in Nat /\ n \in Nat
    BY <1>1
  <2>2. Precedes(Direction, given[m], given[m])
    BY <1>1, <1>2, <2>1 DEF GivenInOrder
  <2> QED
    BY <1>1, <1>2, <2>1, <2>2, WalkOrder DEF NotRepeated
<1>3. ASSUME walk = "ended", NEW maxRows \in 1..Cardinality(RowIds),
             ~Exported(maxRows).truncated, NEW i \in lasting, NEW j \in lasting,
             Clear(i), Clear(j)
      PROVE  LET written == Exported(maxRows).rows
             IN  /\ Lists(written, i)
                 /\ Follows(written, i, j) <=> Follows(given, i, j)
  <2> DEFINE s == Ordered(Present)
  <2>1. Present \in SUBSET RowIds /\ i \in Present /\ j \in Present
    BY <1>1 DEF Present, PagesTypeOK
  <2>2. IsSorted(s, Present) /\ Cardinality(Present) \in Nat
    BY <1>1, <2>1, OrderedIsSorted, RankGrows DEF PagesTypeOK
  <2>3. s \in Seq(RowIds)
    <3>1. s \in [1..Cardinality(Present) -> RowIds]
      BY <2>1, <2>2 DEF IsSorted, Ordered
    <3> QED
      BY <2>2, <3>1
  <2> HIDE DEF s
  <2>4. Exported(maxRows).rows = s
    <3>1. ~(Len(s) > maxRows) /\ Exported(maxRows).rows = SubSeq(s, 1, Len(s))
      BY <1>3 DEF Exported, s
    <3> QED
      BY <2>3, <3>1
  <2>5. \A m, n \in DOMAIN s : m < n => Precedes(Direction, s[m], s[n])
    BY <1>1, <1>3, <2>2, ListingIsWalked DEF IsSorted, EndedComplete
  <2>6. Lists(s, i) /\ Lists(s, j)
    BY <2>1, <2>2 DEF IsSorted, Lists
  <2>7. NotRepeated(i) /\ NotRepeated(j) /\ NotMissed(i) /\ NotMissed(j)
    BY <1>3 DEF NotRepeated, NotMissed
  <2>8. Follows(s, i, j) <=> Precedes(Direction, i, j)
    BY <1>1, <2>3, <2>5, <2>6, <2>7, FollowsIsOrder
  <2>9. Lists(given, i) /\ Lists(given, j)
    BY <1>1, <1>3, <2>7 DEF EndedComplete
  <2>10. Follows(given, i, j) <=> Precedes(Direction, i, j)
    BY <1>1, <2>7, <2>9, FollowsIsOrder DEF GivenInOrder
  <2> QED
    BY <2>4, <2>6, <2>8, <2>10
<1> QED
  BY <1>1, <1>2, <1>3 DEF RowsOnceUnlessBlurred, EndedComplete

\* A walk through audit events, orders or issues of any number, with pages of any size
\* and instants of any precision, whatever comes and goes between two pages: descending,
\* no row that stays is given twice; ascending, none is missed; and where no instant of a
\* millisecond is finer than a Date each is given once, and an export has the same rows
\* in the same order. In the other milliseconds the listings skip a row (descending) or
\* repeat one (ascending): the run pages_precision shows it.
THEOREM WalksAreWhole == PagesSpec => []RowsOnceUnlessBlurred
<1>1. PagesInit => PagesInv
  <2> SUFFICES ASSUME PagesInit
               PROVE  PagesInv
    OBVIOUS
  <2>1. PagesTypeOK
    BY DEF PagesInit, PagesTypeOK, InstantsOK, Listings, Filters, Present
  <2>2. given = <<>> /\ DOMAIN given = {} /\ cursor = NoCursor /\ walk = "walking"
    BY DEF PagesInit
  <2>3. BlurredNoted
    BY DEF PagesInit, BlurredNoted, Finer
  <2> QED
    BY <2>1, <2>2, <2>3
       DEF PagesInv, GivenInOrder, GivenReached, EndedComplete, Reached, Lists
<1>2. PagesInv /\ [PagesNext]_pageVars => PagesInv'
  BY PagesStep
<1>3. PagesInv => RowsOnceUnlessBlurred
  BY WalkIsWhole
<1> QED
  BY <1>1, <1>2, <1>3, PTL DEF PagesSpec

-----------------------------------------------------------------------------
(* Sums: what SumFunction adds up, in whatever order.                      *)

\* A set of subsets of a finite set has a smallest member.
LEMMA SmallestSubset ==
  ASSUME NEW T, IsFiniteSet(T), NEW B, B \subseteq SUBSET T, B # {}
  PROVE  \E t \in B : \A u \in B : u \subseteq t => u = t
<1>1. IsWellFoundedOn(StrictSubsetOrdering(T), SUBSET T)
  BY FS_FiniteSubsetsOfFinite, FS_StrictSubsetOrderingWellFounded
<1>2. PICK t \in B : \A u \in B : ~ (<<u, t>> \in StrictSubsetOrdering(T))
  BY <1>1, WFMin
<1>3. ASSUME NEW u \in B, u \subseteq t, u # t PROVE FALSE
  BY <1>2, <1>3 DEF StrictSubsetOrdering
<1> QED  BY <1>3

\* The member SumFunction takes next.
Element(s) == CHOOSE x \in s : TRUE

\* h adds up f over every subset of T, as SumFunction does.
Adds(h, T, f) ==
  h = [s \in SUBSET T |-> IF s = {} THEN 0 ELSE f[Element(s)] + h[s \ {Element(s)}]]

\* A set that is not empty has its element.
LEMMA ElementIn == ASSUME NEW s, s # {} PROVE Element(s) \in s
BY DEF Element

\* There is one way to add up, also over a smaller set.
LEMMA AddsUnique ==
  ASSUME NEW T, IsFiniteSet(T), NEW U, U \subseteq T, NEW f, NEW g, NEW h, NEW k,
         \A x \in U : f[x] = g[x], Adds(h, T, f), Adds(k, U, g)
  PROVE  \A s \in SUBSET U : h[s] = k[s]
<1> DEFINE B == {s \in SUBSET U : h[s] # k[s]}
<1>1. SUFFICES ASSUME B # {} PROVE FALSE
  OBVIOUS
<1>2. B \subseteq SUBSET T
  OBVIOUS
<1>3. PICK t \in B : \A u \in B : u \subseteq t => u = t
  <2> HIDE DEF B
  <2> QED  BY <1>1, <1>2, SmallestSubset
<1>4. h[t] = (IF t = {} THEN 0 ELSE f[Element(t)] + h[t \ {Element(t)}])
  <2>1. t \in SUBSET T
    BY <1>2
  <2> QED  BY <2>1, Zenon DEF Adds
<1>5. k[t] = (IF t = {} THEN 0 ELSE g[Element(t)] + k[t \ {Element(t)}])
  <2>1. t \in SUBSET U
    OBVIOUS
  <2> QED  BY <2>1, Zenon DEF Adds
<1>6. CASE t = {}
  BY <1>4, <1>5, <1>6
<1>7. CASE t # {}
  <2>1. Element(t) \in t /\ Element(t) \in U
    BY <1>7, ElementIn
  <2>2. t \ {Element(t)} \in SUBSET U /\ t \ {Element(t)} # t
    BY <2>1
  <2>3. h[t \ {Element(t)}] = k[t \ {Element(t)}]
    BY <1>3, <2>1, <2>2
  <2> QED  BY <1>4, <1>5, <1>7, <2>1, <2>3
<1> QED  BY <1>6, <1>7

\* There is such a function for every finite set, by those for smaller ones.
LEMMA AddsExists ==
  ASSUME NEW T, IsFiniteSet(T), NEW f
  PROVE  \E h : Adds(h, T, f)
<1> DEFINE B == {s \in SUBSET T : ~ \E h : Adds(h, s, f)}
           H(s) == CHOOSE h : Adds(h, s, f)
<1>1. SUFFICES ASSUME B # {} PROVE FALSE
  OBVIOUS
<1>2. PICK t \in B : \A u \in B : u \subseteq t => u = t
  <2>1. B \subseteq SUBSET T
    OBVIOUS
  <2> HIDE DEF B
  <2> QED  BY <1>1, <2>1, SmallestSubset
<1>3. ASSUME NEW u \in SUBSET t, u # t PROVE Adds(H(u), u, f)
  <2>1. u \in SUBSET T /\ u \notin B
    BY <1>2, <1>3
  <2> QED  BY <2>1
<1> DEFINE k == [s \in SUBSET t |->
                  IF s = {} THEN 0 ELSE f[Element(s)] + H(s \ {Element(s)})[s \ {Element(s)}]]
<1>4. ASSUME NEW s \in SUBSET t, s # {}
      PROVE  k[s \ {Element(s)}] = H(s \ {Element(s)})[s \ {Element(s)}]
  <2> DEFINE r == s \ {Element(s)}
             q == r \ {Element(r)}
  <2>1. Element(s) \in s /\ r \in SUBSET t /\ r # t
    BY <1>4, ElementIn
  <2>2. Adds(H(r), r, f) /\ r \in SUBSET r
    BY <2>1, <1>3
  <2>3. H(r)[r] = IF r = {} THEN 0 ELSE f[Element(r)] + H(r)[q]
    <3> HIDE DEF H, r, q
    <3> QED  BY <2>2, Zenon DEF Adds, q
  <2>4. k[r] = IF r = {} THEN 0 ELSE f[Element(r)] + H(q)[q]
    <3> HIDE DEF H, r
    <3> QED  BY <2>1
  <2>5. ASSUME r # {} PROVE H(r)[q] = H(q)[q]
    <3>1. Element(r) \in r /\ q \in SUBSET t /\ q # t /\ q \subseteq r
      BY <2>1, <2>5, ElementIn
    <3>2. Adds(H(q), q, f)
      BY <3>1, <1>3
    <3>3. IsFiniteSet(r)
      BY <2>1, FS_Subset
    <3> HIDE DEF H, r, q
    <3> QED  BY <3>1, <3>2, <3>3, <2>2, AddsUnique
  <2> QED
    <3> HIDE DEF H, q, k
    <3> QED  BY <2>3, <2>4, <2>5
<1>5. Adds(k, t, f)
  <2> HIDE DEF H
  <2>1. \A s \in SUBSET t :
          (IF s = {} THEN 0 ELSE f[Element(s)] + H(s \ {Element(s)})[s \ {Element(s)}])
          = IF s = {} THEN 0 ELSE f[Element(s)] + k[s \ {Element(s)}]
    <3> HIDE DEF k
    <3> QED  BY <1>4
  <2> QED  BY <2>1, Zenon DEF Adds
<1> QED
  <2> HIDE DEF k
  <2> QED  BY <1>5

\* SumFunction adds up all of a function that way.
LEMMA SumAdds ==
  ASSUME NEW f, IsFiniteSet(DOMAIN f)
  PROVE  \E h : Adds(h, DOMAIN f, f) /\ SumFunction(f) = h[DOMAIN f]
<1> DEFINE h == CHOOSE h : Adds(h, DOMAIN f, f)
<1>1. Adds(h, DOMAIN f, f)
  BY AddsExists
<1>2. SumFunction(f) = h[DOMAIN f]
  BY Zenon DEF SumFunction, SumFunctionOnSet, FoldFunctionOnSet, MapThenFoldSet, Adds, Element
<1> QED  BY <1>1, <1>2

\* The sum of f over T.
Sum(f, T) == SumFunction([x \in T |-> f[x]])

\* Nothing adds up to nothing.
LEMMA SumOfNone == \A f : Sum(f, {}) = 0
<1>1. SUFFICES ASSUME NEW f PROVE Sum(f, {}) = 0
  OBVIOUS
<1> DEFINE g == [x \in {} |-> f[x]]
<1>2. DOMAIN g = {}
  OBVIOUS
<1>3. PICK h : Adds(h, {}, g) /\ SumFunction(g) = h[{}]
  BY <1>2, FS_EmptySet, SumAdds
<1>4. h[{}] = 0
  <2> HIDE DEF g
  <2>1. {} \in SUBSET {}
    OBVIOUS
  <2> QED  BY <1>3, <2>1, Zenon DEF Adds
<1> QED  BY <1>3, <1>4 DEF Sum

\* A sum is one term and the sum of the others.
LEMMA SumStep ==
  ASSUME NEW T, IsFiniteSet(T), T # {}, NEW f
  PROVE  Sum(f, T) = f[Element(T)] + Sum(f, T \ {Element(T)})
<1> DEFINE U == T \ {Element(T)}
           g == [x \in T |-> f[x]]
           e == [x \in U |-> f[x]]
<1>1. Element(T) \in T
  BY ElementIn
<1>2. IsFiniteSet(U) /\ DOMAIN g = T /\ DOMAIN e = U
  BY FS_RemoveElement
<1>3. PICK h : Adds(h, T, g) /\ SumFunction(g) = h[T]
  <2> HIDE DEF g
  <2> QED  BY <1>2, SumAdds
<1>4. PICK k : Adds(k, U, e) /\ SumFunction(e) = k[U]
  <2> HIDE DEF e, U
  <2> QED  BY <1>2, SumAdds
<1>5. h[T] = g[Element(T)] + h[U]
  <2>1. T \in SUBSET T
    OBVIOUS
  <2> HIDE DEF g
  <2>2. h[T] = IF T = {} THEN 0 ELSE g[Element(T)] + h[U]
    BY <1>3, <2>1, Zenon DEF Adds
  <2> QED  BY <2>2
<1>6. h[U] = k[U]
  <2>1. U \subseteq T /\ U \in SUBSET U /\ \A x \in U : g[x] = e[x]
    OBVIOUS
  <2> HIDE DEF g, e, U
  <2> QED  BY <2>1, <1>2, <1>3, <1>4, AddsUnique
<1>7. g[Element(T)] = f[Element(T)]
  BY <1>1
<1> QED  BY <1>3, <1>4, <1>5, <1>6, <1>7 DEF Sum

\* A sum of integers is an integer, and any of them can be taken out of it.
LEMMA SumTakeOut ==
  ASSUME NEW T, IsFiniteSet(T), NEW f, \A x \in T : f[x] \in Int
  PROVE  /\ Sum(f, T) \in Int
         /\ \A x \in T : Sum(f, T) = f[x] + Sum(f, T \ {x})
<1> DEFINE Good(s) == /\ Sum(f, s) \in Int
                      /\ \A x \in s : Sum(f, s) = f[x] + Sum(f, s \ {x})
           B == {s \in SUBSET T : ~ Good(s)}
<1>1. SUFFICES ASSUME B # {} PROVE FALSE
  OBVIOUS
<1>2. PICK t \in B : \A u \in B : u \subseteq t => u = t
  <2>1. B \subseteq SUBSET T
    OBVIOUS
  <2> HIDE DEF B
  <2> QED  BY <1>1, <2>1, SmallestSubset
<1>3. ASSUME NEW u \in SUBSET t, u # t PROVE Good(u)
  <2>1. u \in SUBSET T /\ u \notin B
    BY <1>2, <1>3
  <2> QED  BY <2>1
<1>4. t \in SUBSET T /\ ~ Good(t)
  BY <1>2
<1>5. t # {}
  BY <1>4, SumOfNone
<1> DEFINE c == Element(t)
<1>6. /\ c \in t /\ f[c] \in Int /\ IsFiniteSet(t)
      /\ Sum(f, t) = f[c] + Sum(f, t \ {c})
  BY <1>4, <1>5, FS_Subset, ElementIn, SumStep
<1>7. Good(t \ {c})
  BY <1>3, <1>6
<1>8. ASSUME NEW x \in t PROVE Sum(f, t) = f[x] + Sum(f, t \ {x})
  <2>1. CASE x = c
    BY <1>6, <2>1
  <2>2. CASE x # c
    <3>1. f[x] \in Int /\ Sum(f, t \ {c}) = f[x] + Sum(f, (t \ {c}) \ {x})
      BY <1>4, <1>7, <2>2
    <3>2. Good(t \ {x}) /\ c \in t \ {x}
      BY <1>3, <1>6, <2>2
    <3>3. Sum(f, t \ {x}) = f[c] + Sum(f, (t \ {x}) \ {c})
      BY <3>2
    <3>4. (t \ {x}) \ {c} = (t \ {c}) \ {x}
      OBVIOUS
    <3>5. Sum(f, (t \ {c}) \ {x}) \in Int
      <4>1. (t \ {c}) \ {x} \in SUBSET t /\ (t \ {c}) \ {x} # t
        BY <1>6
      <4> QED  BY <1>3, <4>1
    <3> DEFINE r == Sum(f, (t \ {c}) \ {x})
    <3>6. Sum(f, t) = f[c] + (f[x] + r)
      BY <1>6, <3>1
    <3>7. Sum(f, t \ {x}) = f[c] + r
      BY <3>3, <3>4
    <3>8. f[c] \in Int /\ f[x] \in Int /\ r \in Int
      BY <1>6, <3>1, <3>5
    <3> HIDE DEF c, r
    <3> QED  BY <3>6, <3>7, <3>8
  <2> QED  BY <2>1, <2>2
<1>9. Sum(f, t) \in Int
  <2>1. Sum(f, t \ {c}) \in Int
    BY <1>7
  <2> HIDE DEF c
  <2> QED  BY <1>6, <2>1
<1> QED  BY <1>4, <1>8, <1>9

\* Sums of the same numbers are the same.
LEMMA SumSame ==
  ASSUME NEW T, NEW f, NEW g, \A x \in T : f[x] = g[x]
  PROVE  Sum(f, T) = Sum(g, T)
<1>1. [x \in T |-> f[x]] = [x \in T |-> g[x]]
  OBVIOUS
<1> QED  BY <1>1, Zenon DEF Sum

\* A sum that exceeds another in one place exceeds it by as much.
LEMMA SumChange ==
  ASSUME NEW T, IsFiniteSet(T), NEW f, NEW g, NEW c \in T,
         \A x \in T : f[x] \in Int /\ g[x] \in Int,
         \A x \in T \ {c} : f[x] = g[x]
  PROVE  Sum(f, T) = Sum(g, T) + f[c] - g[c]
<1>1. Sum(f, T) = f[c] + Sum(f, T \ {c}) /\ Sum(g, T) = g[c] + Sum(g, T \ {c})
  BY SumTakeOut
<1>2. Sum(f, T \ {c}) = Sum(g, T \ {c})
  BY SumSame
<1>3. f[c] \in Int /\ g[c] \in Int /\ Sum(g, T \ {c}) \in Int
  BY FS_RemoveElement, SumTakeOut
<1> QED  BY <1>1, <1>2, <1>3

\* Zeros add up to nothing.
LEMMA SumOfZeros ==
  ASSUME NEW T, IsFiniteSet(T), NEW f, \A x \in T : f[x] = 0
  PROVE  Sum(f, T) = 0
<1> DEFINE B == {s \in SUBSET T : Sum(f, s) # 0}
<1>1. SUFFICES ASSUME B # {} PROVE FALSE
  OBVIOUS
<1>2. PICK t \in B : \A u \in B : u \subseteq t => u = t
  <2>1. B \subseteq SUBSET T
    OBVIOUS
  <2> HIDE DEF B
  <2> QED  BY <1>1, <2>1, SmallestSubset
<1>3. PICK x \in t : TRUE
  BY <1>2, SumOfNone
<1>4. t \in SUBSET T /\ IsFiniteSet(t) /\ f[x] = 0
  BY <1>2, <1>3, FS_Subset
<1>5. Sum(f, t) = f[x] + Sum(f, t \ {x})
  BY <1>4, SumTakeOut
<1>6. Sum(f, t \ {x}) = 0
  <2>1. t \ {x} \in SUBSET T /\ t \ {x} # t /\ t \ {x} \subseteq t
    BY <1>3, <1>4
  <2> QED  BY <1>2, <2>1
<1> QED  BY <1>2, <1>4, <1>5, <1>6

\* What the members of every group add up to adds up to the whole.
LEMMA SumByGroup ==
  ASSUME NEW T, IsFiniteSet(T), NEW f, \A x \in T : f[x] \in Int,
         NEW D, IsFiniteSet(D), NEW key \in [T -> D]
  PROVE  Sum([d \in D |-> Sum(f, {x \in T : key[x] = d})], D) = Sum(f, T)
<1> DEFINE Part(s) == [d \in D |-> Sum(f, {x \in s : key[x] = d})]
           B == {s \in SUBSET T : Sum(Part(s), D) # Sum(f, s)}
<1>1. SUFFICES ASSUME B # {} PROVE FALSE
  OBVIOUS
<1>2. PICK t \in B : \A u \in B : u \subseteq t => u = t
  <2>1. B \subseteq SUBSET T
    OBVIOUS
  <2> HIDE DEF B
  <2> QED  BY <1>1, <2>1, SmallestSubset
<1>3. t \in SUBSET T /\ IsFiniteSet(t) /\ Sum(Part(t), D) # Sum(f, t)
  BY <1>2, FS_Subset
<1>4. PICK x \in t : TRUE
  <2>1. ASSUME t = {} PROVE Sum(Part(t), D) = 0
    <3>1. \A d \in D : Part(t)[d] = 0
      <4>1. \A d \in D : {y \in t : key[y] = d} = {}
        BY <2>1
      <4> QED  BY <4>1, SumOfNone
    <3> HIDE DEF Part
    <3> QED  BY <3>1, SumOfZeros
  <2> QED  BY <1>3, <2>1, SumOfNone
<1> DEFINE u == t \ {x}
           c == key[x]
<1>5. Sum(Part(u), D) = Sum(f, u)
  <2>1. u \in SUBSET T /\ u # t /\ u \subseteq t
    BY <1>3, <1>4
  <2> QED  BY <1>2, <2>1
<1>6. Sum(f, t) = f[x] + Sum(f, u)
  BY <1>3, SumTakeOut
<1>7. ASSUME NEW s \in SUBSET t, NEW d \in D PROVE Part(s)[d] \in Int
  <2>1. {y \in s : key[y] = d} \in SUBSET T
    BY <1>3
  <2>2. IsFiniteSet({y \in s : key[y] = d})
    BY <2>1, FS_Subset
  <2> QED  BY <2>1, <2>2, SumTakeOut
<1>8. c \in D /\ f[x] \in Int /\ u \in SUBSET t /\ t \in SUBSET t
  BY <1>3, <1>4
<1>9. ASSUME NEW d \in D, d # c PROVE Part(t)[d] = Part(u)[d]
  <2>1. {y \in t : key[y] = d} = {y \in u : key[y] = d}
    BY <1>9
  <2> QED  BY <2>1
<1>10. Part(t)[c] = f[x] + Part(u)[c]
  <2> DEFINE mine == {y \in t : key[y] = c}
  <2>1. x \in mine /\ mine \in SUBSET T /\ mine \ {x} = {y \in u : key[y] = c}
    BY <1>3
  <2>2. IsFiniteSet(mine) /\ \A y \in mine : f[y] \in Int
    BY <2>1, FS_Subset
  <2>3. Sum(f, mine) = f[x] + Sum(f, mine \ {x})
    <3> HIDE DEF mine
    <3> QED  BY <2>1, <2>2, SumTakeOut
  <2> QED  BY <1>8, <2>1, <2>3
<1>11. Sum(Part(t), D) = Sum(Part(u), D) + Part(t)[c] - Part(u)[c]
  <2>1. \A d \in D : Part(t)[d] \in Int /\ Part(u)[d] \in Int
    BY <1>7, <1>8
  <2> HIDE DEF Part, c, u
  <2> QED  BY <1>8, <1>9, <2>1, SumChange
<1>12. Sum(Part(u), D) \in Int /\ Part(u)[c] \in Int
  <2>1. \A d \in D : Part(u)[d] \in Int
    BY <1>7, <1>8
  <2> HIDE DEF Part, c, u
  <2> QED  BY <1>8, <2>1, SumTakeOut
<1> QED
  <2> HIDE DEF Part, c, u
  <2> QED  BY <1>3, <1>5, <1>6, <1>8, <1>10, <1>11, <1>12

\* A set has as many members as the ones that are added for them.
LEMMA CountAsSum ==
  ASSUME NEW T, IsFiniteSet(T), NEW f, NEW S, S \subseteq T,
         \A x \in T : f[x] = IF x \in S THEN 1 ELSE 0
  PROVE  Sum(f, T) = Cardinality(S)
<1> DEFINE B == {s \in SUBSET T : Sum(f, s) # Cardinality(s \cap S)}
<1>1. SUFFICES ASSUME B # {} PROVE FALSE
  <2>1. T \cap S = S
    OBVIOUS
  <2> QED  BY <2>1
<1>2. PICK t \in B : \A u \in B : u \subseteq t => u = t
  <2>1. B \subseteq SUBSET T
    OBVIOUS
  <2> HIDE DEF B
  <2> QED  BY <1>1, <2>1, SmallestSubset
<1>3. t \in SUBSET T /\ IsFiniteSet(t) /\ Sum(f, t) # Cardinality(t \cap S)
  BY <1>2, FS_Subset
<1>4. PICK x \in t : TRUE
  <2>1. ASSUME t = {} PROVE Cardinality(t \cap S) = 0
    <3>1. t \cap S = {}
      BY <2>1
    <3> QED  BY <3>1, FS_EmptySet
  <2> QED  BY <1>3, <2>1, SumOfNone
<1> DEFINE u == t \ {x}
<1>5. Sum(f, u) = Cardinality(u \cap S)
  <2>1. u \in SUBSET T /\ u # t /\ u \subseteq t
    BY <1>3, <1>4
  <2> QED  BY <1>2, <2>1
<1>6. Sum(f, t) = f[x] + Sum(f, u)
  <2>1. \A y \in t : f[y] \in Int
    BY <1>3
  <2> QED  BY <1>3, <2>1, SumTakeOut
<1>7. Cardinality(t \cap S) \in Nat /\ Cardinality(u \cap S) = Cardinality(t \cap S) - f[x]
  <2>1. u \cap S = (t \cap S) \ {x} /\ (x \in t \cap S <=> x \in S) /\ f[x] \in {0, 1}
    BY <1>3
  <2>2. IsFiniteSet(t \cap S)
    BY <1>3, FS_Intersection
  <2>3. Cardinality(t \cap S) \in Nat
    BY <2>2, FS_CardinalityType
  <2>4. Cardinality((t \cap S) \ {x})
          = IF x \in t \cap S THEN Cardinality(t \cap S) - 1 ELSE Cardinality(t \cap S)
    BY <2>2, FS_RemoveElement
  <2>5. f[x] = IF x \in S THEN 1 ELSE 0
    BY <1>3
  <2>6. Cardinality(u \cap S) = IF x \in S THEN Cardinality(t \cap S) - 1 ELSE Cardinality(t \cap S)
    BY <2>1, <2>4
  <2> HIDE DEF u
  <2> QED  BY <2>3, <2>5, <2>6
<1>8. f[x] \in Int
  BY <1>3
<1> QED
  <2> HIDE DEF u
  <2> QED  BY <1>3, <1>5, <1>6, <1>7, <1>8

\* Terms in proportion add up in proportion.
LEMMA SumCompares ==
  ASSUME NEW T, IsFiniteSet(T), NEW f, NEW g, NEW m \in Int, NEW n \in Int,
         \A x \in T : f[x] \in Int /\ g[x] \in Int /\ m * f[x] <= n * g[x]
  PROVE  m * Sum(f, T) <= n * Sum(g, T)
<1> DEFINE B == {s \in SUBSET T : ~ (m * Sum(f, s) <= n * Sum(g, s))}
<1>1. SUFFICES ASSUME B # {} PROVE FALSE
  OBVIOUS
<1>2. PICK t \in B : \A u \in B : u \subseteq t => u = t
  <2>1. B \subseteq SUBSET T
    OBVIOUS
  <2> HIDE DEF B
  <2> QED  BY <1>1, <2>1, SmallestSubset
<1>3. t \in SUBSET T /\ IsFiniteSet(t) /\ ~ (m * Sum(f, t) <= n * Sum(g, t))
  BY <1>2, FS_Subset
<1>4. PICK x \in t : TRUE
  <2>1. ASSUME t = {} PROVE m * Sum(f, t) <= n * Sum(g, t)
    BY <2>1, SumOfNone
  <2> QED  BY <1>3, <2>1
<1> DEFINE u == t \ {x}
<1>5. m * Sum(f, u) <= n * Sum(g, u)
  <2>1. u \in SUBSET T /\ u # t /\ u \subseteq t
    BY <1>3, <1>4
  <2> QED  BY <1>2, <2>1
<1>6. Sum(f, t) = f[x] + Sum(f, u) /\ Sum(g, t) = g[x] + Sum(g, u)
  BY <1>3, SumTakeOut
<1>7. IsFiniteSet(u) /\ u \subseteq T
  BY <1>3, FS_RemoveElement
<1>8. Sum(f, u) \in Int /\ Sum(g, u) \in Int /\ f[x] \in Int /\ g[x] \in Int
  <2> HIDE DEF u
  <2> QED  BY <1>3, <1>7, SumTakeOut
<1>9. m * f[x] <= n * g[x]
  BY <1>3
<1>10. m * (f[x] + Sum(f, u)) <= n * (g[x] + Sum(g, u))
  <2> DEFINE a == Sum(f, u)
             b == Sum(g, u)
  <2>1. a \in Int /\ b \in Int /\ m * a <= n * b
    BY <1>5, <1>8
  <2>2. m * (f[x] + a) = m * f[x] + m * a /\ n * (g[x] + b) = n * g[x] + n * b
    <3> HIDE DEF a, b
    <3> QED  BY <1>8, <2>1
  <2>3. m * a \in Int /\ n * b \in Int /\ m * f[x] \in Int /\ n * g[x] \in Int
    <3> HIDE DEF a, b
    <3> QED  BY <1>8, <2>1
  <2>4. m * (f[x] + a) <= n * (g[x] + b)
    <3> DEFINE p == m * f[x]
               q == n * g[x]
               v == m * a
               w == n * b
    <3>1. p <= q /\ v <= w /\ m * (f[x] + a) = p + v /\ n * (g[x] + b) = q + w
      BY <1>9, <2>1, <2>2
    <3>2. p \in Int /\ q \in Int /\ v \in Int /\ w \in Int
      BY <2>3
    <3>3. p + v <= q + w
      <4> HIDE DEF p, q, v, w
      <4> QED  BY <3>1, <3>2
    <3> QED  BY <3>1, <3>3
  <2> QED  BY <2>4
<1> QED  BY <1>3, <1>6, <1>10

\* Members counted group by group are all counted.
LEMMA CountByGroup ==
  ASSUME NEW T, IsFiniteSet(T), NEW P, P \subseteq T,
         NEW D, IsFiniteSet(D), NEW key \in [T -> D]
  PROVE  SumFunction([d \in D |-> Cardinality({x \in T : key[x] = d} \cap P)]) = Cardinality(P)
<1> DEFINE f == [x \in T |-> IF x \in P THEN 1 ELSE 0]
           Group(d) == {x \in T : key[x] = d}
           s == [d \in D |-> Sum(f, Group(d))]
<1>1. \A x \in T : f[x] \in Int /\ f[x] = IF x \in P THEN 1 ELSE 0
  OBVIOUS
<1>2. Sum(f, T) = Cardinality(P)
  <2> HIDE DEF f
  <2> QED  BY <1>1, CountAsSum
<1>3. \A d \in D : Sum(f, Group(d)) = Cardinality(Group(d) \cap P)
  <2> TAKE d \in D
  <2>1. Group(d) \subseteq T /\ IsFiniteSet(Group(d)) /\ Group(d) \cap P \subseteq Group(d)
    BY FS_Subset
  <2>2. \A x \in Group(d) : f[x] = IF x \in Group(d) \cap P THEN 1 ELSE 0
    OBVIOUS
  <2> HIDE DEF f, Group
  <2> QED  BY <2>1, <2>2, CountAsSum
<1>4. Sum(s, D) = Sum(f, T)
  <2> HIDE DEF f
  <2> QED  BY <1>1, SumByGroup
<1>5. [d \in D |-> Cardinality(Group(d) \cap P)] = [d \in D |-> s[d]]
  <2> HIDE DEF f, Group
  <2> QED  BY <1>3
<1>6. SumFunction([d \in D |-> Cardinality(Group(d) \cap P)]) = Sum(s, D)
  <2> HIDE DEF f, Group, s
  <2> QED  BY <1>5, Zenon DEF Sum
<1> QED
  <2> HIDE DEF f, s
  <2> QED  BY <1>2, <1>4, <1>6

\* A finite set has a finite image, as large as itself if no two members share theirs.
LEMMA FiniteImage ==
  ASSUME NEW T, IsFiniteSet(T), NEW g, DOMAIN g = T
  PROVE  /\ IsFiniteSet({g[x] : x \in T})
         /\ Cardinality({g[x] : x \in T}) <= Cardinality(T)
         /\ (\A x, y \in T : g[x] = g[y] => x = y)
              => Cardinality({g[x] : x \in T}) = Cardinality(T)
<1> DEFINE D == {g[x] : x \in T}
           h == [x \in T |-> g[x]]
<1>1. h \in Surjection(T, D)
  BY DEF Surjection
<1>2. ASSUME \A x, y \in T : g[x] = g[y] => x = y
      PROVE  h \in Injection(T, D)
  BY <1>2 DEF Injection, IsInjective
<1> HIDE DEF h, D
<1>3. IsFiniteSet(D) /\ Cardinality(D) <= Cardinality(T)
      /\ (Cardinality(D) = Cardinality(T) <=> h \in Injection(T, D))
  BY <1>1, FS_Surjection
<1> QED  BY <1>2, <1>3 DEF D

\* A finite set of integers has a greatest member, and Max is it.
LEMMA MaxIsGreatest ==
  ASSUME NEW S, IsFiniteSet(S), S # {}, S \subseteq Int
  PROVE  Max(S) \in S /\ \A y \in S : Max(S) >= y
<1> DEFINE Top(s) == \E m \in s : \A y \in s : m >= y
           B == {s \in SUBSET S : s # {} /\ ~ Top(s)}
<1>1. SUFFICES ASSUME ~ Top(S) PROVE FALSE
  BY DEF Max
<1>2. PICK t \in B : \A u \in B : u \subseteq t => u = t
  <2>1. IsFiniteSet(S)
    OBVIOUS
  <2>2. B \subseteq SUBSET S
    OBVIOUS
  <2>3. B # {}
    BY <1>1
  <2> HIDE DEF B
  <2> QED  BY ONLY <2>1, <2>2, <2>3, SmallestSubset
<1>4. t \in SUBSET S /\ t # {} /\ ~ Top(t)
  BY <1>2
<1>5. PICK x \in t : TRUE
  BY <1>4
<1>6. x \in Int /\ \A y \in t : y \in Int
  BY <1>4
<1>7. CASE t \ {x} = {}
  <2>1. \A y \in t : x >= y
    BY <1>6, <1>7
  <2> QED  BY <1>4, <2>1
<1>8. CASE t \ {x} # {}
  <2> DEFINE u == t \ {x}
  <2>1. u \in SUBSET S /\ u # {} /\ u \subseteq t /\ u # t
    BY <1>4, <1>5, <1>8
  <2>2. Top(u)
    <3>1. u \notin B
      <4> HIDE DEF B, u
      <4> QED  BY <1>2, <2>1
    <3> HIDE DEF Top, u
    <3> QED  BY <2>1, <3>1
  <2>3. PICK m \in u : \A y \in u : m >= y
    BY <2>2
  <2>4. m \in Int /\ m \in t
    BY <1>6
  <2>5. CASE m >= x
    BY <1>4, <2>3, <2>4, <2>5
  <2>6. CASE x >= m
    <3>1. \A y \in t : x >= y
      BY <1>6, <2>3, <2>4, <2>6
    <3> QED  BY <1>4, <3>1
  <2> QED  BY <1>6, <2>4, <2>5, <2>6
<1> QED  BY <1>7, <1>8

-----------------------------------------------------------------------------
(* Sales: figures of a report that belong to each other.                   *)

\* Every order has a whole number of minor units as its total and its refunds.
WholeAmounts(taken) == \A o \in taken : o.total \in Int /\ o.refunded \in Int

\* What an order brings is a whole number and not negative.
LEMMA NetRevenueType ==
  ASSUME NEW taken, WholeAmounts(taken), NEW o \in taken
  PROVE  NetRevenue(o) \in Int /\ NetRevenue(o) >= 0
<1>1. o.total \in Int /\ o.refunded \in Int
  BY DEF WholeAmounts
<1> QED  BY <1>1 DEF NetRevenue

\* Revenue and count of a selection are sums over the orders it is taken from.
LEMMA RevenueIsSum ==
  ASSUME NEW taken, IsFiniteSet(taken), WholeAmounts(taken), NEW mine, mine \subseteq taken
  PROVE  Revenue(mine) = Sum([o \in taken |-> NetRevenue(o)], mine)
<1>1. [o \in mine |-> NetRevenue(o)] = [o \in mine |-> [p \in taken |-> NetRevenue(p)][o]]
  OBVIOUS
<1> QED  BY <1>1, Zenon DEF Revenue, Sum

Ones(taken) == [o \in taken |-> IF CommercialOrder(o) THEN 1 ELSE 0]

\* So is the number of orders that count.
LEMMA CountIsSum ==
  ASSUME NEW taken, IsFiniteSet(taken), NEW mine, mine \subseteq taken
  PROVE  Count(mine) = Sum(Ones(taken), mine)
<1> DEFINE sold == {o \in mine : CommercialOrder(o)}
<1>1. sold \subseteq mine /\ \A o \in mine : Ones(taken)[o] = IF o \in sold THEN 1 ELSE 0
  BY DEF Ones
<1>2. IsFiniteSet(mine)
  BY FS_Subset
<1> HIDE DEF sold
<1>3. Sum(Ones(taken), mine) = Cardinality(sold)
  BY <1>1, <1>2, CountAsSum
<1> QED  BY <1>3, Zenon DEF Count, sold

\* Groups of orders have between them the revenue and the number of all.
LEMMA GroupsAddUp ==
  ASSUME NEW taken, IsFiniteSet(taken), WholeAmounts(taken),
         NEW D, IsFiniteSet(D), NEW key \in [taken -> D]
  PROVE  /\ SumFunction([d \in D |-> Revenue({o \in taken : key[o] = d})]) = Revenue(taken)
         /\ SumFunction([d \in D |-> Count({o \in taken : key[o] = d})]) = Count(taken)
<1> DEFINE n == [o \in taken |-> NetRevenue(o)]
           Group(d) == {o \in taken : key[o] = d}
<1>1. \A o \in taken : n[o] \in Int /\ Ones(taken)[o] \in Int
  BY NetRevenueType DEF Ones
<1>2. Revenue(taken) = Sum(n, taken) /\ Count(taken) = Sum(Ones(taken), taken)
  BY RevenueIsSum, CountIsSum
<1>3. \A d \in D : Revenue(Group(d)) = Sum(n, Group(d)) /\ Count(Group(d)) = Sum(Ones(taken), Group(d))
  <2>1. \A d \in D : Group(d) \subseteq taken
    OBVIOUS
  <2> HIDE DEF n, Group
  <2> QED  BY <2>1, RevenueIsSum, CountIsSum DEF n
<1>4. Sum([d \in D |-> Sum(n, Group(d))], D) = Sum(n, taken)
      /\ Sum([d \in D |-> Sum(Ones(taken), Group(d))], D) = Sum(Ones(taken), taken)
  <2> HIDE DEF n
  <2> QED  BY <1>1, SumByGroup
<1>5. SumFunction([d \in D |-> Revenue(Group(d))]) = Sum([d \in D |-> Sum(n, Group(d))], D)
  <2> HIDE DEF n, Group
  <2>1. [d \in D |-> Revenue(Group(d))] = [e \in D |-> [d \in D |-> Sum(n, Group(d))][e]]
    BY <1>3
  <2> QED  BY <2>1, Zenon DEF Sum
<1>6. SumFunction([d \in D |-> Count(Group(d))]) = Sum([d \in D |-> Sum(Ones(taken), Group(d))], D)
  <2> HIDE DEF Group
  <2>1. [d \in D |-> Count(Group(d))] = [e \in D |-> [d \in D |-> Sum(Ones(taken), Group(d))][e]]
    BY <1>3
  <2> QED  BY <2>1, Zenon DEF Sum
<1> QED
  <2> HIDE DEF n
  <2> QED  BY <1>2, <1>4, <1>5, <1>6

\* The trend's buckets add up to the figures of the period.
LEMMA TrendAddsUp ==
  ASSUME NEW taken, IsFiniteSet(taken), WholeAmounts(taken), NEW q
  PROVE  /\ Total(Trend(taken, q), "revenue") = SalesMetrics(taken)["revenue"]
         /\ Total(Trend(taken, q), "count") = SalesMetrics(taken)["count"]
<1> DEFINE g == Granularity(q)
           key == [o \in taken |-> Bucket(g, o.day)]
           D == {Bucket(g, o.day) : o \in taken}
           t == Trend(taken, q)
<1>1. D = {key[o] : o \in taken} /\ key \in [taken -> D] /\ DOMAIN key = taken
  BY Zenon
<1>2. IsFiniteSet(D)
  <2> HIDE DEF key, D
  <2> QED  BY <1>1, FiniteImage
<1>3. \A b \in D : {o \in taken : Bucket(g, o.day) = b} = {o \in taken : key[o] = b}
  OBVIOUS
<1>4. t = [b \in D |-> SalesMetrics({o \in taken : key[o] = b})]
  <2>1. t = [b \in D |-> SalesMetrics({o \in taken : Bucket(g, o.day) = b})]
    BY Zenon DEF Trend
  <2> HIDE DEF key, D, g, t
  <2> QED  BY <1>3, <2>1
<1>5. DOMAIN t = D /\ \A b \in D : t[b]["revenue"] = Revenue({o \in taken : key[o] = b})
                                  /\ t[b]["count"] = Count({o \in taken : key[o] = b})
  <2> HIDE DEF key, D, t
  <2> QED  BY <1>4 DEF SalesMetrics
<1>6. Total(t, "revenue") = SumFunction([b \in D |-> Revenue({o \in taken : key[o] = b})])
      /\ Total(t, "count") = SumFunction([b \in D |-> Count({o \in taken : key[o] = b})])
  <2> HIDE DEF key, D, t
  <2>1. [b \in DOMAIN t |-> t[b]["revenue"]] = [b \in D |-> Revenue({o \in taken : key[o] = b})]
    BY <1>5
  <2>2. [b \in DOMAIN t |-> t[b]["count"]] = [b \in D |-> Count({o \in taken : key[o] = b})]
    BY <1>5
  <2> QED  BY <2>1, <2>2, Zenon DEF Total
<1>7. /\ SumFunction([b \in D |-> Revenue({o \in taken : key[o] = b})]) = Revenue(taken)
      /\ SumFunction([b \in D |-> Count({o \in taken : key[o] = b})]) = Count(taken)
  <2> HIDE DEF key, D
  <2> QED  BY <1>1, <1>2, GroupsAddUp
<1>8. SalesMetrics(taken)["revenue"] = Revenue(taken) /\ SalesMetrics(taken)["count"] = Count(taken)
  BY DEF SalesMetrics
<1> QED
  <2> HIDE DEF key, D
  <2> QED  BY <1>6, <1>7, <1>8

\* A share in basis points is rounded down.
LEMMA ShareBound ==
  ASSUME NEW a \in Int, NEW b \in Int, a >= 0, b > 0
  PROVE  (a * 10000) \div b \in Int /\ b * ((a * 10000) \div b) <= 10000 * a
OBVIOUS

\* A sum of numbers that are not negative is not negative.
LEMMA SumNotNegative ==
  ASSUME NEW T, IsFiniteSet(T), NEW f, \A x \in T : f[x] \in Int /\ f[x] >= 0
  PROVE  Sum(f, T) >= 0
<1> DEFINE z == [x \in T |-> 0]
<1>1. 1 * Sum(z, T) <= 1 * Sum(f, T)
  <2>1. \A x \in T : z[x] \in Int /\ f[x] \in Int /\ 1 * z[x] <= 1 * f[x]
    OBVIOUS
  <2> HIDE DEF z
  <2> QED  BY <2>1, SumCompares
<1>2. Sum(z, T) = 0
  <2>1. \A x \in T : z[x] = 0
    OBVIOUS
  <2> HIDE DEF z
  <2> QED  BY <2>1, SumOfZeros
<1>3. Sum(f, T) \in Int
  BY SumTakeOut
<1> QED  BY <1>1, <1>2, <1>3

\* Revenue is a whole number and not negative.
LEMMA RevenueType ==
  ASSUME NEW taken, IsFiniteSet(taken), WholeAmounts(taken)
  PROVE  Revenue(taken) \in Int /\ Revenue(taken) >= 0
<1> DEFINE n == [o \in taken |-> NetRevenue(o)]
<1>1. \A o \in taken : n[o] \in Int /\ n[o] >= 0
  BY NetRevenueType
<1>2. Revenue(taken) = Sum(n, taken)
  BY RevenueIsSum
<1> HIDE DEF n
<1> QED  BY <1>1, <1>2, SumTakeOut, SumNotNegative

\* Shares of a whole, rounded down, do not exceed it.
LEMMA SharesFit ==
  ASSUME NEW D, IsFiniteSet(D), NEW R \in Int, R > 0, NEW r, NEW s, Sum(r, D) = R,
         \A c \in D : r[c] \in Int /\ r[c] >= 0 /\ s[c] = (r[c] * 10000) \div R
  PROVE  Sum(s, D) <= 10000
<1>1. \A c \in D : s[c] \in Int /\ r[c] \in Int /\ R * s[c] <= 10000 * r[c]
  BY ShareBound
<1>2. \A c \in D : s[c] \in Int
  BY <1>1
<1>3. R * Sum(s, D) <= 10000 * Sum(r, D)
  BY <1>1, SumCompares
<1>4. Sum(s, D) \in Int
  BY <1>2, SumTakeOut
<1>5. ASSUME NEW a \in Int, R * a <= 10000 * R
      PROVE  a <= 10000
  <2>1. a > 10000 => R * a > R * 10000
    OBVIOUS
  <2> QED  BY <1>5, <2>1
<1> QED  BY <1>3, <1>4, <1>5

\* The channels add up to the figures of the period, and their shares to no more
\* than the whole.
LEMMA SegmentsAddUp ==
  ASSUME NEW taken, IsFiniteSet(taken), WholeAmounts(taken)
  PROVE  /\ Total(Segments(taken), "revenue") = SalesMetrics(taken)["revenue"]
         /\ Total(Segments(taken), "count") = SalesMetrics(taken)["count"]
         /\ Total(Segments(taken), "share") <= 10000
<1> DEFINE key == [o \in taken |-> o.channel]
           D == {o.channel : o \in taken}
           Group(c) == {o \in taken : key[o] = c}
           Part(c) == IF Revenue(taken) = 0 THEN 0
                      ELSE (Revenue(Group(c)) * 10000) \div Revenue(taken)
           t == Segments(taken)
<1>1. D = {key[o] : o \in taken} /\ key \in [taken -> D] /\ DOMAIN key = taken
  BY Zenon
<1>2. IsFiniteSet(D)
  <2> HIDE DEF key, D
  <2> QED  BY <1>1, FiniteImage
<1>3. \A c \in D : {o \in taken : o.channel = c} = Group(c)
  OBVIOUS
<1>4. /\ DOMAIN t = D
      /\ \A c \in D : /\ t[c]["revenue"] = Revenue(Group(c))
                      /\ t[c]["count"] = Count(Group(c))
                      /\ t[c]["share"] = Part(c)
  <2>1. t = [c \in D |-> Segment({o \in taken : o.channel = c}, taken)]
    BY Zenon DEF Segments
  <2>2. DOMAIN t = D /\ \A c \in D : t[c] = Segment(Group(c), taken)
    <3> HIDE DEF D, t, Group
    <3> QED  BY <1>3, <2>1
  <2>3. ASSUME NEW c
        PROVE  /\ Segment(Group(c), taken)["revenue"] = Revenue(Group(c))
               /\ Segment(Group(c), taken)["count"] = Count(Group(c))
               /\ Segment(Group(c), taken)["share"] = Part(c)
    <3> HIDE DEF Group
    <3> QED  BY DEF Segment
  <2> HIDE DEF D, t, Part, Group
  <2> QED  BY <2>2, <2>3
<1>5. Total(t, "revenue") = SumFunction([c \in D |-> Revenue(Group(c))])
      /\ Total(t, "count") = SumFunction([c \in D |-> Count(Group(c))])
      /\ Total(t, "share") = Sum([c \in D |-> Part(c)], D)
  <2> HIDE DEF D, t, Part, Group
  <2>1. [c \in DOMAIN t |-> t[c]["revenue"]] = [c \in D |-> Revenue(Group(c))]
    BY <1>4
  <2>2. [c \in DOMAIN t |-> t[c]["count"]] = [c \in D |-> Count(Group(c))]
    BY <1>4
  <2>3. [c \in DOMAIN t |-> t[c]["share"]] = [e \in D |-> [c \in D |-> Part(c)][e]]
    BY <1>4
  <2> QED  BY <2>1, <2>2, <2>3, Zenon DEF Total, Sum
<1>6. SumFunction([c \in D |-> Revenue(Group(c))]) = Revenue(taken)
      /\ SumFunction([c \in D |-> Count(Group(c))]) = Count(taken)
  <2> HIDE DEF key, D
  <2> QED  BY <1>1, <1>2, GroupsAddUp
<1>7. SalesMetrics(taken)["revenue"] = Revenue(taken) /\ SalesMetrics(taken)["count"] = Count(taken)
  BY DEF SalesMetrics
<1>8. Sum([c \in D |-> Part(c)], D) <= 10000
  <2> DEFINE s == [c \in D |-> Part(c)]
             r == [c \in D |-> Revenue(Group(c))]
  <2>1. CASE Revenue(taken) = 0
    <3>1. \A c \in D : s[c] = 0
      BY <2>1
    <3>2. Sum(s, D) = 0
      <4> HIDE DEF s, D
      <4> QED  BY <1>2, <3>1, SumOfZeros
    <3> QED  BY <3>2
  <2>2. CASE Revenue(taken) # 0
    <3>1. Revenue(taken) \in Int /\ Revenue(taken) > 0
      BY <2>2, RevenueType
    <3>2. ASSUME NEW c \in D
          PROVE  /\ r[c] \in Int /\ r[c] >= 0
                 /\ s[c] = (r[c] * 10000) \div Revenue(taken)
      <4>1. Group(c) \subseteq taken /\ IsFiniteSet(Group(c))
        BY FS_Subset
      <4>2. WholeAmounts(Group(c))
        BY <4>1 DEF WholeAmounts
      <4>3. Revenue(Group(c)) \in Int /\ Revenue(Group(c)) >= 0
        <5> HIDE DEF Group
        <5> QED  BY <4>1, <4>2, RevenueType
      <4>4. s[c] = (Revenue(Group(c)) * 10000) \div Revenue(taken) /\ r[c] = Revenue(Group(c))
        <5> HIDE DEF Group, D
        <5> QED  BY <2>2
      <4> HIDE DEF s, r, Group
      <4> QED  BY <4>3, <4>4
    <3>4. Sum(r, D) = Revenue(taken)
      <4>1. Sum(r, D) = SumFunction([c \in D |-> Revenue(Group(c))])
        <5>1. [c \in D |-> r[c]] = [c \in D |-> Revenue(Group(c))]
          BY Zenon
        <5> HIDE DEF r
        <5> QED  BY <5>1, Zenon DEF Sum
      <4> QED  BY <4>1, <1>6
    <3>5. \A c \in D : r[c] \in Int /\ r[c] >= 0 /\ s[c] = (r[c] * 10000) \div Revenue(taken)
      <4> HIDE DEF s, r, D
      <4> QED  BY <3>2
    <3>6. Sum(s, D) <= 10000
      <4> HIDE DEF s, r, D
      <4> QED  BY <1>2, <3>1, <3>4, <3>5, SharesFit
    <3> QED  BY <3>6
  <2> QED  BY <2>1, <2>2
<1> QED
  <2> HIDE DEF key, D, t, Part, Group
  <2> QED  BY <1>5, <1>6, <1>7, <1>8 DEF t

-----------------------------------------------------------------------------
(* The inductive invariant of the overview and of an opened order.         *)

\* Committed orders: finitely many, from the catalogue, one row for each.
OrdersOK(taken) ==
  /\ IsFiniteSet(taken) /\ taken \subseteq Catalogue
  /\ \A o, p \in taken : o.id = p.id => o = p

OverviewStages ==
  {"currency", "current", "previous", "trend", "channels", "products", "freshness", "answered"}
DetailStages == {"row", "items", "payment", "detailed"}

\* What a question that has been asked was answered from the one snapshot.
OverviewKept ==
  /\ DOMAIN report = {"at", "query", "snapshot", "current", "previous", "trend", "channels",
                      "products", "status", "kpis"}
  /\ OrdersOK(Seen.orders)
  /\ report.at \in OverviewStages \ {"currency", "current"} =>
       report.current = SalesMetrics(SelectedOrders)
  /\ report.at \in OverviewStages \ {"currency", "current", "previous"} =>
       report.previous = SalesMetrics(Filtered(Seen.orders, Previous(report.query)))
  /\ report.at \in {"channels", "products", "freshness", "answered"} =>
       report.trend = Trend(InCurrency(SelectedOrders), report.query)
  /\ report.at \in {"products", "freshness", "answered"} =>
       report.channels = Segments(InCurrency(SelectedOrders))
  /\ report.at = "answered" => report.status \in Freshness(Seen.orders, Seen.importing)

DetailKept ==
  /\ DOMAIN report = {"at", "id", "snapshot", "row", "items", "refunded"}
  /\ OrdersOK(Seen.orders)
  /\ report.at # "row" => report.row = {OrderRow(o) : o \in Found}
  /\ report.at \in {"payment", "detailed"} => report.items = {o.lines : o \in Found}
  /\ report.at = "detailed" => report.refunded = {o.refunded : o \in Found}

AnalyticsInv ==
  /\ OrdersOK(orders)
  /\ report.at \in {"idle", "refused"} \cup OverviewStages \cup DetailStages
  /\ report.at \in OverviewStages => OverviewKept
  /\ report.at \in DetailStages => DetailKept

\* Nothing is ordered and nothing is asked at first.
LEMMA AnalyticsInitially == AnalyticsInit => AnalyticsInv
<1> SUFFICES ASSUME AnalyticsInit PROVE AnalyticsInv
  OBVIOUS
<1>1. OrdersOK(orders)
  BY FS_EmptySet DEF AnalyticsInit, OrdersOK
<1> QED  BY <1>1 DEF AnalyticsInit, AnalyticsInv, NoReport, OverviewStages, DetailStages

\* Ingestion and retention keep one row for an order.
LEMMA OrdersStay ==
  ASSUME AnalyticsInv, OrdersChange
  PROVE  OrdersOK(orders')
<1>1. OrdersOK(orders)
  BY DEF AnalyticsInv
<1>2. ASSUME NEW o \in Catalogue \ orders,
             orders' = {x \in orders : x.id # o.id} \cup {o}
      PROVE  OrdersOK(orders')
  <2> DEFINE kept == {x \in orders : x.id # o.id}
  <2>1. kept \subseteq orders
    OBVIOUS
  <2>2. IsFiniteSet(kept)
    BY <1>1, <2>1, FS_Subset DEF OrdersOK
  <2>3. IsFiniteSet(kept \cup {o})
    <3> HIDE DEF kept
    <3> QED  BY <2>2, FS_AddElement
  <2> QED  BY <1>1, <1>2, <2>3 DEF OrdersOK
<1>3. ASSUME NEW o \in orders, orders' = orders \ {o}
      PROVE  OrdersOK(orders')
  BY <1>1, <1>3, FS_RemoveElement DEF OrdersOK
<1> QED  BY <1>2, <1>3 DEF OrdersChange

\* Whatever commits between two queries, the invariant is kept.
LEMMA AnalyticsStep ==
  ASSUME AnalyticsInv, [AnalyticsNext]_analyticsVars
  PROVE  AnalyticsInv'
<1> USE DEF OverviewStages, DetailStages
<1>1. CASE OrdersChange
  <2>1. OrdersOK(orders)' /\ report' = report
    BY <1>1, OrdersStay DEF OrdersChange
  <2> QED  BY <2>1 DEF AnalyticsInv, OverviewKept, DetailKept, Seen, SelectedOrders, InCurrency, Found
<1>2. CASE ImportsChange
  BY <1>2 DEF ImportsChange, AnalyticsInv, OverviewKept, DetailKept, Seen, SelectedOrders,
              InCurrency, Found
<1>3. ASSUME NEW q \in Questions, BeginOverview(q) PROVE AnalyticsInv'
  BY <1>3 DEF BeginOverview, AnalyticsInv, OverviewKept, Seen
<1>4. CASE ResolveCurrency
  <2>1. report.at = "currency" /\ OverviewKept /\ orders' = orders
    BY <1>4 DEF AnalyticsInv, ResolveCurrency
  <2>2. CASE report' = [at |-> "refused", query |-> report.query]
    BY <2>1, <2>2 DEF AnalyticsInv
  <2>3. ASSUME NEW c, report' = [report EXCEPT !.at = "current", !.query.currency = c]
        PROVE  AnalyticsInv'
    <3>1. /\ report'.at = "current" /\ DOMAIN report' = DOMAIN report
          /\ report'.snapshot = report.snapshot
      BY <2>1, <2>3 DEF OverviewKept
    <3> QED  BY <2>1, <3>1 DEF AnalyticsInv, OverviewKept, Seen
  <2> QED  BY <1>4, <2>2, <2>3 DEF ResolveCurrency
<1>5. CASE AskCurrent
  <2>1. OverviewKept
    BY <1>5 DEF AnalyticsInv, AskCurrent, Ask
  <2> QED  BY <1>5, <2>1 DEF AskCurrent, Ask, AnalyticsInv, OverviewKept, Seen, SelectedOrders
<1>6. CASE AskPrevious
  <2>1. OverviewKept
    BY <1>6 DEF AnalyticsInv, AskPrevious, Ask
  <2> QED  BY <1>6, <2>1 DEF AskPrevious, Ask, AnalyticsInv, OverviewKept, Seen, SelectedOrders
<1>7. CASE AskTrend
  <2>1. OverviewKept
    BY <1>7 DEF AnalyticsInv, AskTrend, Ask
  <2> QED  BY <1>7, <2>1 DEF AskTrend, Ask, AnalyticsInv, OverviewKept, Seen, SelectedOrders,
                             InCurrency
<1>8. CASE AskChannels
  <2>1. OverviewKept
    BY <1>8 DEF AnalyticsInv, AskChannels, Ask
  <2> QED  BY <1>8, <2>1 DEF AskChannels, Ask, AnalyticsInv, OverviewKept, Seen, SelectedOrders,
                             InCurrency
<1>9. CASE AskProducts
  <2>1. OverviewKept
    BY <1>9 DEF AnalyticsInv, AskProducts, Ask
  <2> QED  BY <1>9, <2>1 DEF AskProducts, Ask, AnalyticsInv, OverviewKept, Seen, SelectedOrders,
                             InCurrency
<1>10. CASE AskFreshness
  <2>1. OverviewKept
    BY <1>10 DEF AnalyticsInv, AskFreshness
  <2> QED  BY <1>10, <2>1 DEF AskFreshness, AnalyticsInv, OverviewKept, Seen,
                              SelectedOrders, InCurrency
<1>11. ASSUME NEW o \in Catalogue, OpenOrder(o.id) PROVE AnalyticsInv'
  BY <1>11 DEF OpenOrder, AnalyticsInv, DetailKept, Seen
<1>12. CASE AskOrder
  <2>1. DetailKept
    BY <1>12 DEF AnalyticsInv, AskOrder, Ask
  <2> QED  BY <1>12, <2>1 DEF AskOrder, Ask, AnalyticsInv, DetailKept, Seen, Found
<1>13. CASE AskItems
  <2>1. DetailKept
    BY <1>13 DEF AnalyticsInv, AskItems, Ask
  <2> QED  BY <1>13, <2>1 DEF AskItems, Ask, AnalyticsInv, DetailKept, Seen, Found
<1>14. CASE AskPayment
  <2>1. DetailKept
    BY <1>14 DEF AnalyticsInv, AskPayment, Ask
  <2> QED  BY <1>14, <2>1 DEF AskPayment, Ask, AnalyticsInv, DetailKept, Seen, Found
<1>15. CASE Answered
  BY <1>15 DEF Answered, AnalyticsInv, NoReport
<1>16. CASE UNCHANGED analyticsVars
  BY <1>16 DEF analyticsVars, AnalyticsInv, OverviewKept, DetailKept, Seen, SelectedOrders,
               InCurrency, Found
<1> QED  BY <1>1, <1>2, <1>3, <1>4, <1>5, <1>6, <1>7, <1>8, <1>9, <1>10, <1>11, <1>12, <1>13,
            <1>14, <1>15, <1>16 DEF AnalyticsNext

\* The figures the invariant tells of add up.
LEMMA AnalyticsInvAddsUp ==
  ASSUME AnalyticsInv
  PROVE  ReportAddsUp
<1>1. ASSUME report.at = "answered"
      PROVE  /\ report.query.currency # AnyCurrency =>
                  \A field \in {"revenue", "count"} :
                    /\ Total(report.trend, field) = report.current[field]
                    /\ Total(report.channels, field) = report.current[field]
             /\ Total(report.channels, "share") <= 10000
             /\ report.status = "empty" => report.current.count = 0 /\ report.previous.count = 0
  <2>1. OverviewKept
    BY <1>1 DEF AnalyticsInv, OverviewStages
  <2> DEFINE all == SelectedOrders
             taken == InCurrency(all)
  <2>2. all \subseteq Seen.orders /\ taken \subseteq all
    BY DEF SelectedOrders, Filtered, InCurrency
  <2>3. IsFiniteSet(taken) /\ WholeAmounts(taken)
    <3>1. taken \subseteq Seen.orders
      BY <2>2
    <3> HIDE DEF taken
    <3> QED  BY <2>1, <3>1, FS_Subset, AnalyticsAssumption DEF OverviewKept, OrdersOK, WholeAmounts
  <2>4. /\ report.current = SalesMetrics(all)
        /\ report.previous = SalesMetrics(Filtered(Seen.orders, Previous(report.query)))
        /\ report.trend = Trend(taken, report.query)
        /\ report.channels = Segments(taken)
        /\ report.status \in Freshness(Seen.orders, Seen.importing)
    BY <1>1, <2>1 DEF OverviewKept, OverviewStages
  <2>5. ASSUME report.query.currency # AnyCurrency PROVE taken = all
    BY <2>5 DEF InCurrency
  <2>6. ASSUME report.status = "empty"
        PROVE  report.current.count = 0 /\ report.previous.count = 0
    <3>1. Seen.orders = {}
      BY <2>4, <2>6 DEF Freshness
    <3>2. all = {} /\ Filtered(Seen.orders, Previous(report.query)) = {}
      BY <3>1 DEF SelectedOrders, Filtered
    <3>3. {o \in {} : CommercialOrder(o)} = {}
      OBVIOUS
    <3>4. SalesMetrics({}).count = 0
      BY <3>3, FS_EmptySet DEF SalesMetrics, Count
    <3> QED  BY <2>4, <3>2, <3>4
  <2>7. Total(report.channels, "share") <= 10000
    <3> HIDE DEF taken
    <3> QED  BY <2>3, <2>4, SegmentsAddUp
  <2>8. ASSUME report.query.currency # AnyCurrency, NEW field \in {"revenue", "count"}
        PROVE  /\ Total(report.trend, field) = report.current[field]
               /\ Total(report.channels, field) = report.current[field]
    <3> HIDE DEF taken, all
    <3>1. CASE field = "revenue"
      BY <2>3, <2>4, <2>5, <2>8, <3>1, TrendAddsUp, SegmentsAddUp
    <3>2. CASE field = "count"
      BY <2>3, <2>4, <2>5, <2>8, <3>2, TrendAddsUp, SegmentsAddUp
    <3> QED  BY <2>8, <3>1, <3>2
  <2> QED  BY <2>6, <2>7, <2>8
<1>2. ASSUME report.at = "detailed", report.row # {}
      PROVE  \E o \in Catalogue :
               /\ o.id = report.id /\ report.row = {OrderRow(o)}
               /\ report.items = {o.lines} /\ report.refunded = {o.refunded}
  <2>1. DetailKept
    BY <1>2 DEF AnalyticsInv, DetailStages
  <2>2. /\ report.row = {OrderRow(o) : o \in Found} /\ report.items = {o.lines : o \in Found}
        /\ report.refunded = {o.refunded : o \in Found}
    BY <1>2, <2>1 DEF DetailKept
  <2>3. PICK o \in Found : TRUE
    BY <1>2, <2>2
  <2>4. Found = {o} /\ o \in Catalogue /\ o.id = report.id
    BY <2>1, <2>3 DEF Found, DetailKept, OrdersOK
  <2> QED  BY <2>2, <2>4
<1> QED  BY <1>1, <1>2 DEF ReportAddsUp

\* The figures of every report belong to each other, whatever commits between its
\* queries.
THEOREM ReportsAddUp == AnalyticsSpec => []ReportAddsUp
<1>1. AnalyticsInit => AnalyticsInv
  BY AnalyticsInitially
<1>2. AnalyticsInv /\ [AnalyticsNext]_analyticsVars => AnalyticsInv'
  BY AnalyticsStep
<1>3. AnalyticsInv => ReportAddsUp
  BY AnalyticsInvAddsUp
<1> QED  BY <1>1, <1>2, <1>3, PTL DEF AnalyticsSpec

-----------------------------------------------------------------------------
(* The inductive invariant.                                                *)

\* An order has one row, stock is there once it was delivered.
FloorInv ==
  /\ minute \in Nat
  /\ IsFiniteSet(operationalOrders)
  /\ \A o \in operationalOrders :
       /\ o.location \in Locations \cup {Unassigned}
       /\ o.occurred \in Nat /\ o.shipped \in Nat \cup {NotShipped}
       /\ IsFiniteSet(o.returns) /\ \A r \in o.returns : r.requested \in Nat
  /\ \A o, p \in operationalOrders : o.id = p.id => o = p
  /\ stock \in [Locations -> Int] /\ stockSeen \in [Locations -> Nat \cup {Never}]
  /\ \A l \in Locations : stockSeen[l] = Never => stock[l] = NoStock

\* Nothing was delivered at first.
LEMMA FloorInitially == FloorInit => FloorInv
<1> SUFFICES ASSUME FloorInit PROVE FloorInv
  OBVIOUS
<1>1. IsFiniteSet(operationalOrders)
  BY FS_EmptySet DEF FloorInit
<1> QED  BY <1>1 DEF FloorInit, FloorInv, Never, NoStock

\* Orders keep one row and stock its instant, whatever is delivered.
LEMMA FloorStep ==
  ASSUME FloorInv, [FloorNext]_floorVars
  PROVE  FloorInv'
<1> USE DEF NotShipped, NoStock, Never
<1>1. CASE MinutePasses
  BY <1>1 DEF MinutePasses, FloorInv
<1>2. CASE IngestOrder
  <2>1. PICK o \in OrderSnapshots :
          operationalOrders' = {x \in operationalOrders : x.id # o.id}
            \cup {[o EXCEPT !.received = IF Shipped(o) THEN minute ELSE Never]}
    BY <1>2 DEF IngestOrder
  <2> DEFINE kept == {x \in operationalOrders : x.id # o.id}
             arrived == [o EXCEPT !.received = IF Shipped(o) THEN minute ELSE Never]
  <2>2. IsFiniteSet(kept)
    <3>1. kept \subseteq operationalOrders
      OBVIOUS
    <3> QED  BY <3>1, FS_Subset DEF FloorInv
  <2>3. IsFiniteSet(kept \cup {arrived})
    <3> HIDE DEF kept, arrived
    <3> QED  BY <2>2, FS_AddElement
  <2>4. /\ arrived.id = o.id /\ arrived.location = o.location
        /\ arrived.occurred = o.occurred /\ arrived.shipped = o.shipped
        /\ arrived.returns = o.returns
    BY FloorAssumption DEF OperationalOrder
  <2>5. /\ o.location \in Locations \cup {Unassigned}
        /\ o.occurred \in Nat /\ o.shipped \in Nat \cup {NotShipped}
        /\ IsFiniteSet(o.returns) /\ \A r \in o.returns : r.requested \in Nat
    BY FloorAssumption
  <2> HIDE DEF arrived
  <2>6. operationalOrders' = kept \cup {arrived}
    BY <2>1 DEF arrived
  <2>7. \A x \in operationalOrders' :
          /\ x.location \in Locations \cup {Unassigned}
          /\ x.occurred \in Nat /\ x.shipped \in Nat \cup {NotShipped}
          /\ IsFiniteSet(x.returns) /\ \A r \in x.returns : r.requested \in Nat
    BY <2>4, <2>5, <2>6 DEF FloorInv
  <2>8. \A x, y \in operationalOrders' : x.id = y.id => x = y
    BY <2>4, <2>6 DEF FloorInv
  <2> QED  BY <1>2, <2>3, <2>6, <2>7, <2>8 DEF IngestOrder, FloorInv
<1>3. ASSUME NEW l \in Locations, NEW n \in 0..MaxStock, IngestInventory(l, n)
      PROVE  FloorInv'
  <2>1. n \in Int /\ minute \in Nat
    BY FloorAssumption DEF FloorInv
  <2> QED  BY <1>3, <2>1 DEF IngestInventory, FloorInv
<1>4. ASSUME NEW p \in Policies, UpdateThresholds(p) PROVE FloorInv'
  BY <1>4 DEF UpdateThresholds, FloorInv
<1>5. ASSUME NEW f \in OverviewFilters, FindAlert(f) PROVE FloorInv'
  BY <1>5 DEF FindAlert, FloorInv
<1>6. CASE Acknowledge
  BY <1>6 DEF Acknowledge, FloorInv
<1>7. ASSUME NEW k \in DOMAIN acknowledged, ReopenAlert(k) PROVE FloorInv'
  BY <1>7 DEF ReopenAlert, FloorInv
<1>8. CASE UNCHANGED floorVars
  BY <1>8 DEF floorVars, FloorInv
<1> QED  BY <1>1, <1>2, <1>3, <1>4, <1>5, <1>6, <1>7, <1>8 DEF FloorNext

-----------------------------------------------------------------------------
(* Health.                                                                 *)

\* A source is missing only if it was never heard of.
LEMMA StatusIsMissing ==
  ASSUME NEW r
  PROVE  /\ SourceStatus(r) \in {"missing", "delayed", "current"}
         /\ SourceStatus(r) = "missing" <=> r = Never
BY DEF SourceStatus

\* The latest instant of a finite set of them is one of them, and Never only if all are.
LEMMA LatestOfInstants ==
  ASSUME NEW T, IsFiniteSet(T), NEW g, DOMAIN g = T, \A x \in T : g[x] \in Nat \cup {Never}
  PROVE  /\ Latest({g[x] : x \in T}) \in {g[x] : x \in T} \cup {Never}
         /\ \A y \in T : Latest({g[x] : x \in T}) >= g[y]
         /\ Latest({g[x] : x \in T}) \in Nat \cup {Never}
<1> DEFINE S == {g[x] : x \in T}
<1>1. IsFiniteSet(S)
  BY FiniteImage
<1>2. S \subseteq Nat \cup {Never}
  OBVIOUS
<1>3. \A x \in T : g[x] \in S
  OBVIOUS
<1> HIDE DEF S
<1>4. IsFiniteSet(S \cup {Never}) /\ S \cup {Never} # {} /\ S \cup {Never} \subseteq Int
  BY <1>1, <1>2, FS_AddElement DEF Never
<1>5. Max(S \cup {Never}) \in S \cup {Never}
      /\ \A y \in S \cup {Never} : Max(S \cup {Never}) >= y
  BY <1>4, MaxIsGreatest
<1>6. Latest(S) \in S \cup {Never} /\ \A x \in T : Latest(S) >= g[x]
  BY <1>3, <1>5 DEF Latest
<1> QED  BY <1>2, <1>6 DEF S

\* Inventory is as fresh as the freshest location.
LEMMA InventoryOfALocation ==
  ASSUME FloorInv
  PROVE  /\ SourceHealth.inventory \in {"missing", "delayed", "current"}
         /\ SourceHealth.inventory = "missing" =>
              \A l \in Locations : stockSeen[l] = Never
         /\ SourceHealth.inventory # "missing" \/ Locations # {} =>
              \E l \in Locations : SourceStatus(stockSeen[l]) = SourceHealth.inventory
<1> DEFINE last == Latest({stockSeen[l] : l \in Locations})
<1>1. /\ IsFiniteSet(Locations) /\ DOMAIN stockSeen = Locations
      /\ \A l \in Locations : stockSeen[l] \in Nat \cup {Never}
  BY FloorAssumption DEF FloorInv
<1>2. /\ last \in {stockSeen[l] : l \in Locations} \cup {Never}
      /\ \A l \in Locations : last >= stockSeen[l]
  BY <1>1, LatestOfInstants
<1>3. SourceHealth.inventory = SourceStatus(last)
  BY Zenon DEF SourceHealth
<1>4. ASSUME last = Never, NEW l \in Locations PROVE stockSeen[l] = Never
  <2>1. Never >= stockSeen[l] /\ stockSeen[l] \in Nat \cup {Never}
    BY <1>1, <1>2, <1>4
  <2> QED  BY <2>1 DEF Never
<1>5. ASSUME last # Never \/ Locations # {}
      PROVE  \E l \in Locations : stockSeen[l] = last
  <2>1. CASE last # Never
    BY <1>2, <2>1
  <2>2. CASE last = Never /\ Locations # {}
    BY <1>4, <2>2
  <2> QED  BY <1>5, <2>1, <2>2
<1> HIDE DEF last
<1> QED  BY <1>3, <1>4, <1>5, StatusIsMissing

\* Orders are missing only if there is none.
LEMMA OrdersMissing ==
  ASSUME FloorInv, SourceHealth.orders = "missing"
  PROVE  operationalOrders = {}
<1> DEFINE g == [o \in operationalOrders |-> SourceUpdated(o)]
           S == {SourceUpdated(o) : o \in operationalOrders}
<1>1. SourceHealth.orders = SourceStatus(Latest(S))
  BY Zenon DEF SourceHealth
<1>2. Latest(S) = Never
  <2> HIDE DEF S
  <2> QED  BY <1>1, StatusIsMissing
<1>3. S = {g[o] : o \in operationalOrders}
  BY Zenon
<1>4. ASSUME NEW o \in operationalOrders PROVE g[o] \in Nat
  <2> DEFINE changes == {o.occurred, o.shipped} \cup {r.requested : r \in o.returns}
             asked == [r \in o.returns |-> r.requested]
  <2>1. IsFiniteSet(changes) /\ changes \subseteq Int /\ o.occurred \in changes
        /\ o.occurred \in Nat
    <3>1. /\ o.occurred \in Nat /\ o.shipped \in Nat \cup {NotShipped}
          /\ IsFiniteSet(o.returns) /\ \A r \in o.returns : r.requested \in Nat
      BY DEF FloorInv
    <3>2. IsFiniteSet({asked[r] : r \in o.returns})
      <4>1. DOMAIN asked = o.returns
        OBVIOUS
      <4> HIDE DEF asked
      <4> QED  BY <3>1, <4>1, FiniteImage
    <3>3. IsFiniteSet(({asked[r] : r \in o.returns} \cup {o.occurred}) \cup {o.shipped})
      <4> HIDE DEF asked
      <4> QED  BY <3>2, FS_AddElement
    <3>4. ({asked[r] : r \in o.returns} \cup {o.occurred}) \cup {o.shipped} = changes
      OBVIOUS
    <3>5. changes \subseteq Int
      BY <3>1 DEF NotShipped
    <3> QED  BY <3>1, <3>3, <3>4, <3>5
  <2>2. Max(changes) \in changes /\ Max(changes) >= o.occurred
    <3> HIDE DEF changes
    <3> QED  BY <2>1, MaxIsGreatest
  <2>3. Max(changes) \in Nat
    <3> DEFINE latest == Max(changes)
    <3>1. latest \in Int
      <4> HIDE DEF changes
      <4> QED  BY <2>1, <2>2
    <3>2. latest >= o.occurred
      BY <2>2
    <3> HIDE DEF latest
    <3>3. latest \in Nat
      BY <2>1, <3>1, <3>2
    <3> QED  BY <3>3 DEF latest
  <2> QED  BY <2>3 DEF SourceUpdated
<1>5. ASSUME NEW o \in operationalOrders PROVE FALSE
  <2>1. Latest({g[x] : x \in operationalOrders}) >= g[o]
    <3>1. IsFiniteSet(operationalOrders) /\ DOMAIN g = operationalOrders
      BY DEF FloorInv
    <3>2. \A x \in operationalOrders : g[x] \in Nat \cup {Never}
      BY <1>4
    <3> HIDE DEF g
    <3> QED  BY <3>1, <3>2, LatestOfInstants
  <2>2. Never >= g[o]
    <3> HIDE DEF g, S
    <3> QED  BY <1>2, <1>3, <2>1
  <2>3. g[o] \in Nat
    BY <1>4
  <2> HIDE DEF g
  <2> QED  BY <2>2, <2>3 DEF Never
<1> QED  BY <1>5

\* Health tells what the sources are.
LEMMA HealthIsTold ==
  ASSUME FloorInv
  PROVE  HealthReconciles
<1> SUFFICES ASSUME NEW f \in OverviewFilters, f.location = AnyLocation
             PROVE  LET lines == Rows(f)
                    IN  /\ \A pending, failed \in BOOLEAN :
                             /\ Health(Statuses(SourceHealth), pending, failed) = "healthy" =>
                                  /\ ~pending /\ ~failed
                                  /\ \E l \in DOMAIN lines : lines[l].source = "current"
                             /\ Health(Statuses(SourceHealth), pending, failed) = "empty" =>
                                  \A l \in DOMAIN lines :
                                    lines[l].backlog = 0 /\ lines[l].lowStock = 0
                        /\ Locations # {} =>
                             \E l \in Locations : lines[l].source = SourceHealth.inventory
  BY Zenon DEF HealthReconciles
<1> DEFINE statuses == Statuses(SourceHealth)
<1>1. statuses = {SourceHealth.orders, SourceHealth.fulfilments, SourceHealth.inventory}
  BY DEF SourceHealth, Statuses
<1>2. ASSUME NEW l \in Locations
      PROVE  /\ l \in Dimensions(f)
             /\ LocationRow(f, l).source = SourceStatus(stockSeen[l])
  <2>1. l # Unassigned
    BY FloorAssumption
  <2> QED  BY <2>1 DEF Dimensions, StockScope, LocationRow
<1>3. ASSUME NEW pending \in BOOLEAN, NEW failed \in BOOLEAN,
             Health(statuses, pending, failed) = "healthy"
      PROVE  /\ ~pending /\ ~failed
             /\ \E l \in Dimensions(f) : LocationRow(f, l).source = "current"
  <2>1. ~pending /\ ~failed /\ SourceHealth.inventory \notin {"missing", "delayed"}
    <3> HIDE DEF statuses
    <3>1. /\ ~ Importing(pending, failed) /\ "missing" \notin statuses
          /\ "delayed" \notin statuses
      BY <1>3 DEF Health, statuses
    <3> QED  BY <1>1, <3>1 DEF Importing
  <2>2. SourceHealth.inventory = "current"
    BY <2>1, InventoryOfALocation
  <2>3. PICK l \in Locations : SourceStatus(stockSeen[l]) = "current"
    BY <2>2, InventoryOfALocation
  <2> QED  BY <1>2, <2>1, <2>3
<1>4. ASSUME NEW pending \in BOOLEAN, NEW failed \in BOOLEAN,
             Health(statuses, pending, failed) = "empty", NEW l \in Dimensions(f)
      PROVE  LocationRow(f, l).backlog = 0 /\ LocationRow(f, l).lowStock = 0
  <2>1. statuses = {"missing"}
    BY <1>4 DEF Health
  <2>2. SourceHealth.orders = "missing" /\ SourceHealth.inventory = "missing"
    <3> HIDE DEF statuses
    <3> QED  BY <1>1, <2>1
  <2>3. operationalOrders = {} /\ \A k \in Locations : stock[k] = NoStock
    BY <2>2, OrdersMissing, InventoryOfALocation DEF FloorInv
  <2>4. {o \in {x \in Scoped(f) : x.location = l} : InBacklog(o)} = {}
    BY <2>3 DEF Scoped
  <2>5. l \in Locations \/ l = Unassigned
    BY DEF Dimensions, StockScope
  <2>6. ~ (l # Unassigned /\ LowStock(l))
    BY <2>3, <2>5 DEF LowStock
  <2>7. LocationRow(f, l).backlog = 0
    BY <2>4, FS_EmptySet DEF LocationRow
  <2>8. LocationRow(f, l).lowStock = 0
    BY <2>6 DEF LocationRow
  <2> QED  BY <2>7, <2>8
<1>5. ASSUME Locations # {}
      PROVE  \E l \in Locations : LocationRow(f, l).source = SourceHealth.inventory
  BY <1>2, <1>5, InventoryOfALocation
<1>6. /\ DOMAIN Rows(f) = Dimensions(f)
      /\ \A l \in Dimensions(f) : Rows(f)[l] = LocationRow(f, l)
  BY DEF Rows
<1> HIDE DEF statuses
<1> QED  BY <1>2, <1>3, <1>4, <1>5, <1>6 DEF statuses

-----------------------------------------------------------------------------
(* Cards, rows and issues.                                                 *)

\* Every order in scope has a row of the location table.
LEMMA RowsCoverOrders ==
  ASSUME FloorInv, NEW f \in OverviewFilters
  PROVE  /\ IsFiniteSet(Scoped(f)) /\ IsFiniteSet(StockScope(f)) /\ IsFiniteSet(Dimensions(f))
         /\ [o \in Scoped(f) |-> o.location] \in [Scoped(f) -> Dimensions(f)]
         /\ \A o, p \in Scoped(f) : o.id = p.id => o = p
         /\ {l \in Dimensions(f) : l # Unassigned} = StockScope(f)
<1>1. /\ Scoped(f) \subseteq operationalOrders /\ StockScope(f) \subseteq Locations
      /\ Dimensions(f) \subseteq StockScope(f) \cup {Unassigned}
      /\ StockScope(f) \subseteq Dimensions(f)
  BY DEF Scoped, StockScope, Dimensions
<1>2. IsFiniteSet(Scoped(f)) /\ IsFiniteSet(StockScope(f))
  BY <1>1, FS_Subset, FloorAssumption DEF FloorInv
<1>3. IsFiniteSet(StockScope(f) \cup {Unassigned})
  BY <1>2, FS_AddElement
<1>4. IsFiniteSet(Dimensions(f))
  BY <1>1, <1>3, FS_Subset
<1>5. ASSUME NEW o \in Scoped(f) PROVE o.location \in Dimensions(f)
  <2>1. o.location \in Locations \cup {Unassigned} /\ f.location \in {AnyLocation, o.location}
    BY <1>1 DEF FloorInv, Scoped, Located
  <2>2. CASE o.location = Unassigned
    BY <2>2 DEF Dimensions
  <2>3. CASE o.location \in Locations
    BY <2>1, <2>3 DEF Dimensions, StockScope
  <2> QED  BY <2>1, <2>2, <2>3
<1>6. \A o, p \in Scoped(f) : o.id = p.id => o = p
  BY <1>1 DEF FloorInv
<1>7. {l \in Dimensions(f) : l # Unassigned} = StockScope(f)
  BY <1>1, FloorAssumption
<1> QED  BY <1>2, <1>4, <1>5, <1>6, <1>7

\* What the location rows count of the orders in scope is what is counted of all.
LEMMA RowsCount ==
  ASSUME FloorInv, NEW f \in OverviewFilters, NEW P, P \subseteq Scoped(f)
  PROVE  SumFunction([l \in Dimensions(f) |->
           Cardinality({o \in {x \in Scoped(f) : x.location = l} : o \in P})]) = Cardinality(P)
<1> DEFINE key == [o \in Scoped(f) |-> o.location]
<1>1. \A l : {o \in {x \in Scoped(f) : x.location = l} : o \in P}
             = {x \in Scoped(f) : key[x] = l} \cap P
  OBVIOUS
<1>2. SumFunction([l \in Dimensions(f) |-> Cardinality({x \in Scoped(f) : key[x] = l} \cap P)])
        = Cardinality(P)
  <2>1. /\ IsFiniteSet(Scoped(f)) /\ IsFiniteSet(Dimensions(f))
        /\ key \in [Scoped(f) -> Dimensions(f)]
    BY RowsCoverOrders
  <2> HIDE DEF key
  <2> QED  BY <2>1, CountByGroup
<1>3. [l \in Dimensions(f) |->
         Cardinality({o \in {x \in Scoped(f) : x.location = l} : o \in P})]
      = [l \in Dimensions(f) |-> Cardinality({x \in Scoped(f) : key[x] = l} \cap P)]
  <2> HIDE DEF key
  <2> QED  BY <1>1
<1> HIDE DEF key
<1> QED  BY <1>2, <1>3

\* The members of a finite set give as many issues as they are if their issues differ.
LEMMA IssuesCount ==
  ASSUME NEW T, IsFiniteSet(T), NEW issue, DOMAIN issue = T, NEW I,
         I = {issue[x] : x \in T}
  PROVE  /\ Cardinality(I) <= Cardinality(T)
         /\ (\A x, y \in T : issue[x] = issue[y] => x = y) => Cardinality(I) = Cardinality(T)
BY FiniteImage

\* The location rows add up to the cards.
LEMMA RowsReconcile ==
  ASSUME FloorInv, NEW f \in OverviewFilters
  PROVE  /\ SumFunction([l \in Dimensions(f) |-> LocationRow(f, l)["backlog"]])
              = Metrics(f).backlog
         /\ SumFunction([l \in Dimensions(f) |-> LocationRow(f, l)["late"]])
              = Cardinality({o \in Scoped(f) : Late(o)})
         /\ SumFunction([l \in Dimensions(f) |-> LocationRow(f, l)["lowStock"]])
              = Metrics(f).lowStock
<1> DEFINE D == Dimensions(f)
           waiting == {o \in Scoped(f) : InBacklog(o)}
           late == {o \in Scoped(f) : Late(o)}
           low == {l \in StockScope(f) : LowStock(l)}
           here(l) == {x \in Scoped(f) : x.location = l}
<1>1. ASSUME NEW l \in D
      PROVE  /\ LocationRow(f, l)["backlog"] = Cardinality({o \in here(l) : o \in waiting})
             /\ LocationRow(f, l)["late"] = Cardinality({o \in here(l) : o \in late})
             /\ LocationRow(f, l)["lowStock"] = IF l \in low THEN 1 ELSE 0
  <2>1. /\ {o \in here(l) : o \in waiting} = {o \in here(l) : InBacklog(o)}
        /\ {o \in here(l) : o \in late} = {o \in here(l) : Late(o)}
    OBVIOUS
  <2>2. l # Unassigned /\ LowStock(l) <=> l \in low
    BY RowsCoverOrders
  <2>3. /\ LocationRow(f, l)["backlog"] = Cardinality({o \in here(l) : InBacklog(o)})
        /\ LocationRow(f, l)["late"] = Cardinality({o \in here(l) : Late(o)})
        /\ LocationRow(f, l)["lowStock"] = IF l # Unassigned /\ LowStock(l) THEN 1 ELSE 0
    BY DEF LocationRow
  <2> HIDE DEF waiting, late, low, here
  <2> QED  BY <2>1, <2>2, <2>3 DEF here
<1>2. SumFunction([l \in D |-> Cardinality({o \in here(l) : o \in waiting})]) = Cardinality(waiting)
  <2>1. waiting \subseteq Scoped(f)
    OBVIOUS
  <2> HIDE DEF waiting
  <2> QED  BY <2>1, RowsCount
<1>3. SumFunction([l \in D |-> Cardinality({o \in here(l) : o \in late})]) = Cardinality(late)
  <2>1. late \subseteq Scoped(f)
    OBVIOUS
  <2> HIDE DEF late
  <2> QED  BY <2>1, RowsCount
<1>4. SumFunction([l \in D |-> IF l \in low THEN 1 ELSE 0]) = Cardinality(low)
  <2> DEFINE g == [l \in D |-> IF l \in low THEN 1 ELSE 0]
  <2>1. IsFiniteSet(D) /\ low \subseteq D
    BY RowsCoverOrders
  <2>2. \A l \in D : g[l] = IF l \in low THEN 1 ELSE 0
    OBVIOUS
  <2>3. Sum(g, D) = Cardinality(low)
    <3> HIDE DEF g, D, low
    <3> QED  BY <2>1, <2>2, CountAsSum
  <2>4. [l \in D |-> g[l]] = [l \in D |-> IF l \in low THEN 1 ELSE 0]
    <3> HIDE DEF D, low
    <3> QED  OBVIOUS
  <2> HIDE DEF g
  <2> QED  BY <2>3, <2>4 DEF Sum
<1>5. /\ [l \in D |-> LocationRow(f, l)["backlog"]]
           = [l \in D |-> Cardinality({o \in here(l) : o \in waiting})]
      /\ [l \in D |-> LocationRow(f, l)["late"]]
           = [l \in D |-> Cardinality({o \in here(l) : o \in late})]
      /\ [l \in D |-> LocationRow(f, l)["lowStock"]] = [l \in D |-> IF l \in low THEN 1 ELSE 0]
  <2> HIDE DEF D, waiting, late, low, here
  <2> QED  BY <1>1
<1>6. Metrics(f).backlog = Cardinality(waiting) /\ Metrics(f).lowStock = Cardinality(low)
  BY DEF Metrics
<1> QED
  <2> HIDE DEF waiting, late, low, here
  <2> QED  BY <1>2, <1>3, <1>4, <1>5, <1>6 DEF late

\* The issues are as many as the cards say.
LEMMA IssuesReconcile ==
  ASSUME FloorInv, NEW f \in OverviewFilters
  PROVE  /\ Cardinality({i \in Issues(f) : i.type = "low-stock"}) = Metrics(f).lowStock
         /\ Cardinality({i \in Issues(f) : i.type = "late-fulfilment"})
              = Cardinality({o \in Scoped(f) : Late(o)})
         /\ Cardinality({i \in Issues(f) : i.type = "backlog"}) <= Metrics(f).backlog
         /\ Metrics(f).cancelled
              = Share(Cardinality({i \in Issues(f) : i.type = "cancellation"}),
                      Cardinality(Scoped(f)))
<1> DEFINE aged == {o \in Scoped(f) : Aged(o, policy.warning)}
           waiting == {o \in Scoped(f) : InBacklog(o)}
           late == {o \in Scoped(f) : Late(o)}
           gone == {o \in Scoped(f) : o.status = "cancelled"}
           low == {l \in StockScope(f) : LowStock(l)}
           goneIssue == [o \in gone |-> Issue("cancellation", "warning", o.id)]
           lowIssue == [l \in low |->
             Issue("low-stock", IF OutOfStock(l) THEN "critical" ELSE "warning", l)]
           lateIssue == [o \in late |-> Issue("late-fulfilment", "warning", o.id)]
           agedIssue == [o \in aged |-> BacklogIssue(o)]
           returnIssues ==
             UNION {{Issue("return", "info", r.id) :
                       r \in {x \in o.returns : ~x.rejected /\ InDates(x.requested, f)}} :
                      o \in {x \in operationalOrders : Located(x, f)}}
<1>0. /\ Issues(f) = {agedIssue[o] : o \in aged} \cup {lateIssue[o] : o \in late}
                        \cup {lowIssue[l] : l \in low} \cup {goneIssue[o] : o \in gone}
                        \cup returnIssues
      /\ \A i \in returnIssues : i.type = "return"
      /\ \A o \in aged : agedIssue[o].type = "backlog"
      /\ \A o \in late : lateIssue[o].type = "late-fulfilment"
      /\ \A o \in gone : goneIssue[o].type = "cancellation"
      /\ \A l \in low : lowIssue[l].type = "low-stock"
  <2>1. \A i \in returnIssues : i.type = "return"
    BY DEF Issue
  <2>2. /\ {agedIssue[o] : o \in aged} = {BacklogIssue(o) : o \in aged}
        /\ {lateIssue[o] : o \in late} = {Issue("late-fulfilment", "warning", o.id) : o \in late}
        /\ {goneIssue[o] : o \in gone} = {Issue("cancellation", "warning", o.id) : o \in gone}
        /\ {lowIssue[l] : l \in low}
             = {Issue("low-stock", IF OutOfStock(l) THEN "critical" ELSE "warning", l) : l \in low}
    <3> HIDE DEF aged, late, gone, low
    <3> QED  OBVIOUS
  <2>3. Issues(f) = {agedIssue[o] : o \in aged} \cup {lateIssue[o] : o \in late}
                        \cup {lowIssue[l] : l \in low} \cup {goneIssue[o] : o \in gone}
                        \cup returnIssues
    <3> HIDE DEF agedIssue, lateIssue, lowIssue, goneIssue
    <3> QED  BY <2>2, Zenon DEF Issues
  <2>4. /\ \A o \in aged : agedIssue[o].type = "backlog"
        /\ \A o \in late : lateIssue[o].type = "late-fulfilment"
        /\ \A o \in gone : goneIssue[o].type = "cancellation"
        /\ \A l \in low : lowIssue[l].type = "low-stock"
    BY DEF Issue, BacklogIssue
  <2> QED  BY <2>1, <2>3, <2>4
<1>1. {i \in Issues(f) : i.type = "low-stock"} = {lowIssue[l] : l \in low}
  <2> HIDE DEF low, late, aged, gone, lowIssue, lateIssue, agedIssue, goneIssue, returnIssues
  <2> QED  BY <1>0
<1>2. {i \in Issues(f) : i.type = "late-fulfilment"} = {lateIssue[o] : o \in late}
  <2> HIDE DEF low, late, aged, gone, lowIssue, lateIssue, agedIssue, goneIssue, returnIssues
  <2> QED  BY <1>0
<1>3. /\ {i \in Issues(f) : i.type = "backlog"} = {agedIssue[o] : o \in aged}
      /\ {i \in Issues(f) : i.type = "cancellation"} = {goneIssue[o] : o \in gone}
  <2> HIDE DEF low, late, aged, gone, lowIssue, lateIssue, agedIssue, goneIssue, returnIssues
  <2> QED  BY <1>0
<1>4. IsFiniteSet(low) /\ IsFiniteSet(late) /\ IsFiniteSet(aged) /\ IsFiniteSet(waiting)
      /\ IsFiniteSet(gone)
  <2>1. low \subseteq StockScope(f) /\ late \subseteq Scoped(f) /\ aged \subseteq Scoped(f)
        /\ waiting \subseteq Scoped(f) /\ gone \subseteq Scoped(f)
    OBVIOUS
  <2> HIDE DEF low, late, aged, waiting, gone
  <2> QED  BY <2>1, RowsCoverOrders, FS_Subset
<1>5. \A l, k \in low : lowIssue[l] = lowIssue[k] => l = k
  BY DEF Issue
<1>6. /\ \A o, p \in late : lateIssue[o] = lateIssue[p] => o = p
      /\ \A o, p \in gone : goneIssue[o] = goneIssue[p] => o = p
  <2>1. /\ \A o, p \in late : lateIssue[o] = lateIssue[p] => o.id = p.id
        /\ \A o, p \in gone : goneIssue[o] = goneIssue[p] => o.id = p.id
    BY DEF Issue
  <2> QED  BY <2>1, RowsCoverOrders
<1>7. Cardinality(aged) <= Cardinality(waiting) /\ Cardinality(aged) \in Nat
      /\ Cardinality(waiting) \in Nat
  <2>1. aged \subseteq waiting
    BY DEF Aged
  <2> HIDE DEF aged, waiting
  <2> QED  BY <1>4, <2>1, FS_Subset, FS_CardinalityType
<1>8. /\ DOMAIN lowIssue = low /\ DOMAIN lateIssue = late /\ DOMAIN agedIssue = aged
      /\ DOMAIN goneIssue = gone
  OBVIOUS
<1>9. /\ Metrics(f).backlog = Cardinality(waiting) /\ Metrics(f).lowStock = Cardinality(low)
      /\ Metrics(f).cancelled = Share(Cardinality(gone), Cardinality(Scoped(f)))
  BY DEF Metrics
<1> HIDE DEF low, late, aged, waiting, gone, lowIssue, lateIssue, agedIssue, goneIssue
<1>10. Cardinality({lowIssue[l] : l \in low}) = Cardinality(low)
  BY <1>4, <1>5, <1>8, IssuesCount
<1>11. /\ Cardinality({lateIssue[o] : o \in late}) = Cardinality(late)
       /\ Cardinality({goneIssue[o] : o \in gone}) = Cardinality(gone)
  BY <1>4, <1>6, <1>8, IssuesCount
<1>12. Cardinality({agedIssue[o] : o \in aged}) <= Cardinality(waiting)
  <2>1. Cardinality({agedIssue[o] : o \in aged}) <= Cardinality(aged)
    BY <1>4, <1>8, IssuesCount
  <2>2. Cardinality({agedIssue[o] : o \in aged}) \in Nat
    BY <1>4, <1>8, FiniteImage, FS_CardinalityType
  <2> QED  BY <1>7, <2>1, <2>2
<1> QED  BY <1>1, <1>2, <1>3, <1>9, <1>10, <1>11, <1>12 DEF late

\* The three together.
LEMMA FloorInvReconciles ==
  ASSUME FloorInv
  PROVE  OverviewReconciles
<1>1. ASSUME NEW f \in OverviewFilters, NEW field
      PROVE  SumFunction([l \in DOMAIN Rows(f) |-> Rows(f)[l][field]])
               = SumFunction([l \in Dimensions(f) |-> LocationRow(f, l)[field]])
  BY DEF Rows
<1> QED  BY <1>1, HealthIsTold, RowsReconcile, IssuesReconcile DEF OverviewReconciles

\* Whatever is ingested and acknowledged, cards, location rows, issues and health tell
\* of the same orders and the same stock.
THEOREM OverviewsReconcile == FloorSpec => []OverviewReconciles
<1>1. FloorInit => FloorInv
  BY FloorInitially
<1>2. FloorInv /\ [FloorNext]_floorVars => FloorInv'
  BY FloorStep
<1>3. FloorInv => OverviewReconciles
  BY FloorInvReconciles
<1> QED  BY <1>1, <1>2, <1>3, PTL DEF FloorSpec
=============================================================================
