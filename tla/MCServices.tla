----------------------------- MODULE MCServices -----------------------------
(***************************************************************************)
(* The safety of the components that share nothing but the database's and  *)
(* Redis' promises, checked by one run: `part` says which of them moves,   *)
(* the others rest in an initial state, so that the states of the parts    *)
(* add up instead of multiplying.                                          *)
(***************************************************************************)
EXTENDS SalesExportQueue, Membership, Sessions, ResponseCache, RateLimit,
        KeysetPagination, Webhooks, OrderIngestion, Invitations, MigrationGate,
        WorkspacePages, OrderContract, SalesAnalytics, TLC

CONSTANT Founder      \* the first owner while the members rest

VARIABLE part

-----------------------------------------------------------------------------
(* What is delivered, and the orders that are reported on.                 *)

WebOrder  == Order("web", {}, {}, <<"tea", "mug">>, {})
ShopOrder == Order("shop", {"north"}, {"ada"}, <<"mug", "tea">>, {"north"})
LostOrder == Order("web", {}, {}, <<"tea">>, {"north"})
TwoLines  == Order("web", {}, {}, <<"tea", "tea">>, {})
TeaNorth  == Position("north", "tea")

GivenSnapshots == {WebOrder, ShopOrder, LostOrder, TwoLines, TeaNorth}
GivenImports   == {<<WebOrder, ShopOrder>>}

SampleOrders ==
  {SalesOrder(1, 1, "EUR", "placed", 3, 1, "web", "tea" :> 2),
   SalesOrder(1, 1, "EUR", "cancelled", 3, 0, "web", "tea" :> 2),
   SalesOrder(2, 2, "EUR", "placed", 2, 0, "shop", "tea" :> 1 @@ "mug" :> 1),
   SalesOrder(3, 1, "USD", "placed", 4, 0, "web", "mug" :> 3)}
SampleQuestions ==
  {Query(1, 3, AnyCurrency, AnyChannel), Query(1, 3, "EUR", AnyChannel),
   Query(2, 3, AnyCurrency, AnyChannel), Query(3, 4, AnyCurrency, "web")}

Exact(i) == i.total = i.quantity * i.price - i.discount + i.tax
Priced(id, product, sku) == LineItem(id, product, sku, 1, 2, 0, 0, 2)
Items ==
  {LineItem(1, "tea", "s1", q, p, d, t, x) :
     q \in {Blank, 1, 4}, p \in {Blank, 1, 3}, d \in {Blank, 0, 3}, t \in {0, 3}, x \in {1, 2, 3}}
GivenOrders ==
  {Columns("a", 2, 0, 0, 2), Columns("b", 2, 0, 0, 2),
   Columns("a", 2, 0, Blank, 2), Columns("a", 3, 0, 3, 6),
   Columns("a", 3, 3, 1, 1), Columns("a", 2, 3, 0, Blank)}
Payments ==
  {{}, {[captured |-> 2, refunded |-> Blank]}, {[captured |-> 1, refunded |-> 2]}}
O1 == Cell("o1", "bare")
OtherCells == {Cell("o1", "padded"), Cell("o2", "bare")}
FirstRows  == {FileRow(O1, c, "fine", p, i) : c \in GivenOrders, p \in Payments, i \in Items}
ExactRows  == {r \in FirstRows : r.payment = {} /\ r.item.quantity = 1 /\ Exact(r.item)}
SecondRows == {[r EXCEPT !.item.id = id, !.item.product = "mug", !.item.sku = "s2"] :
                 r \in ExactRows, id \in {1, 2}}
                \cup {[r EXCEPT !.order = cell] : r \in ExactRows, cell \in OtherCells}

\* Files whose rows and amounts are valid: products and skus in every combination.
Sold(cell, total, extra, item) == FileRow(cell, Columns("a", total, 0, 0, total), extra, {}, item)
Half(id, product, sku) == LineItem(id, product, sku, 1, 1, 0, 0, 1)
ValidFiles ==
  {<<Sold(O1, 2, extra, Priced(1, p, s)), Sold(cell, 2, "fine", Priced(1, q, t))>> :
     extra \in {"fine", "odd"}, cell \in OtherCells,
     p \in {"tea"}, q \in {"tea", "mug"}, s \in {"s1"}, t \in {"s1", "s2"}}
  \cup {<<Sold(O1, 2, "fine", Half(1, "tea", s)), Sold(O1, 2, "fine", Half(2, q, t))>> :
         q \in {"tea", "mug"}, s \in {"s1", "s2"}, t \in {"s1", "s2"}}
GivenTables == {NoProducts, "tea" :> "s1", "tea" :> "s2", "mug" :> "s1" @@ "tea" :> "s3"}

GivenInstants == {NoInstant, 0, 1, 2}
Shipments ==
  {Fulfilment(id, place, a, b) :
     id \in {1, 2}, place \in {{}, {"north"}}, a \in GivenInstants, b \in GivenInstants}
Returned ==
  {OrderReturn(id, x, a, b) : id \in {1, 2}, x \in {Blank, 1}, a \in 0..2, b \in GivenInstants}

GivenFiles ==
  {<<>>} \cup {<<r>> : r \in FirstRows} \cup (ExactRows \X SecondRows)
    \cup {<<r, r, r>> : r \in ExactRows} \cup ValidFiles
Body(place, fulfilments, returns) ==
  Candidate("o1", Columns("a", 2, 0, 0, 2), "fine", place, <<Priced(1, "tea", "s1")>>, {},
            fulfilments, returns)
GivenBodies ==
  {Body(place, <<e>>, <<>>) : place \in {{}, {"north"}, {"south"}}, e \in Shipments}
    \cup {Body({}, <<Fulfilment(1, {}, 0, 1)>>, <<e>>) : e \in Returned}
    \cup {Body({}, <<e, f>>, <<>>) :
            e, f \in {x \in Shipments : x.location = {} /\ x.first = 0}}
    \cup {Body({}, <<>>, <<e, f>>) : e, f \in {x \in Returned : x.amount = 1 /\ x.first = 0}}

-----------------------------------------------------------------------------
(* Their sum.                                                              *)

Parts ==
  {"exports", "members", "sessions", "cache", "rates", "pages", "webhooks",
   "ingestion", "guests", "overview", "contract", "workspace", "gate"}

Resting(p) == part # p

ServicesInit ==
  /\ part \in Parts
  /\ Init
  /\ MembershipInit /\ (Resting("members") => role[Founder] = "OWNER")
  /\ SessionsInit
  /\ CacheInit
  /\ RateLimitInit
  /\ PagesInit
  /\ Resting("pages") =>
       instant = [i \in RowIds |-> Unwritten] /\ listing.direction = "asc"
  /\ WebhooksInit /\ (Resting("webhooks") => endpoint.version = 0)
  /\ IngestionInit
  /\ InvitationsInit
  /\ MigrationsInit
  /\ ContractInit
  /\ WorkspaceInit /\ (Resting("workspace") => open = "sales")
  /\ AnalyticsInit

Only(p) ==
  /\ part = p
  /\ UNCHANGED part
  /\ p # "exports" => UNCHANGED vars
  /\ p # "members" => UNCHANGED membershipVars
  /\ p # "sessions" => UNCHANGED sessionVars
  /\ p # "cache" => UNCHANGED cacheVars
  /\ p # "rates" => UNCHANGED rateVars
  /\ p # "pages" => UNCHANGED pageVars
  /\ p # "webhooks" => UNCHANGED webhookVars
  /\ p # "ingestion" => UNCHANGED ingestionVars
  /\ p # "guests" => UNCHANGED invitationVars
  /\ p # "overview" => UNCHANGED analyticsVars
  /\ p # "contract" => UNCHANGED parse
  /\ p # "workspace" => UNCHANGED workspaceVars
  /\ p # "gate" => UNCHANGED gateVars

ServicesNext ==
  \/ Only("exports") /\ Next
  \/ Only("members") /\ MembershipNext
  \/ Only("sessions") /\ SessionsNext
  \/ Only("cache") /\ CacheNext
  \/ Only("rates") /\ RateLimitNext
  \/ Only("pages") /\ PagesNext
  \/ Only("webhooks") /\ WebhooksNext
  \/ Only("ingestion") /\ IngestionNext
  \/ Only("guests") /\ InvitationsNext
  \/ Only("overview") /\ AnalyticsNext
  \/ Only("contract") /\ ContractNext
  \/ Only("workspace") /\ WorkspaceNext
  \/ Only("gate") /\ MigrationsNext

ServicesSpec ==
  ServicesInit /\ [][ServicesNext]_<<part, vars, membershipVars, sessionVars, cacheVars,
    rateVars, pageVars, webhookVars, ingestionVars,
    invitationVars, analyticsVars, parse, workspaceVars, gateVars>>

\* What tells two states apart: of the parts that rest there is one state.
Moving ==
  CASE part = "exports" -> <<part, vars>>
    [] part = "members" -> <<part, membershipVars>>
    [] part = "sessions" -> <<part, sessionVars>>
    [] part = "cache" -> <<part, cacheVars>>
    [] part = "rates" -> <<part, rateVars>>
    [] part = "pages" -> <<part, pageVars>>
    [] part = "webhooks" -> <<part, webhookVars>>
    [] part = "ingestion" -> <<part, ingestionVars>>
    [] part = "guests" -> <<part, invitationVars>>
    [] part = "overview" -> <<part, analyticsVars>>
    [] part = "contract" -> <<part, parse>>
    [] part = "workspace" -> <<part, workspaceVars>>
    [] part = "gate" -> <<part, gateVars>>

\* Every set of interchangeable identities is one of these two.
Symmetry == Permutations(Keys) \cup Permutations(Workers)
=============================================================================
