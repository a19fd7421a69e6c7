------------------------------ MODULE Reports ------------------------------
(***************************************************************************)
(* Staff reports (apps/analytics, apps/dashboard): each is a sequence of   *)
(* queries, outside a transaction, over tables that other requests write.  *)
(* Reports only read, and their figures relate queries over one table, so  *)
(* a behaviour is about one report and one table.  The answer to an        *)
(* aggregate stands for the rows it aggregated, from which its counts and  *)
(* sums follow; a row is what the queries filter and group it by.          *)
(***************************************************************************)
EXTENDS Naturals, Sequences

CONSTANTS
    Record,      \* rows of the table
    Group,       \* the sources, channels or categories rows are grouped by
    MaxWrites    \* bound: writes to the table

ASSUME ReportsAssumption == MaxWrites \in Nat /\ Group # {}

VARIABLES
    about,       \* the report
    table,       \* the rows: [status, group, marks]
    writes,      \* writes so far
    answers,     \* the answers the report has, in the order of its queries
    crossed      \* (history) whether a write came between two of its queries

reportVars == <<about, table, writes, answers, crossed>>
-----------------------------------------------------------------------------
OpenOrders == {"pending", "confirmed", "processing", "shipped"}

StatusesOf == [
    orders        |-> OpenOrders \cup {"delivered", "delivery_failed", "returned", "cancelled",
                                       "refunded"},
    inquiries     |-> {"new", "contacted", "converted", "abandoned"},
    tickets       |-> {"open", "pending_customer", "resolved", "closed"},
    returns       |-> {"requested", "approved", "item_received", "rejected", "refunded", "replaced",
                       "closed"},
    products      |-> {"in_stock", "low_stock", "out_of_stock"},
    collections   |-> {"manual", "fresh", "halfAnHour", "older"},
    discounts     |-> {"upcoming", "running", "endsSoon", "ended"},
    notifications |-> {"pending", "sent", "delivered", "failed"}]

\* What else a row may be: "period" that it falls in the one asked for, "old"
\* that it is past the age an alert or a card watches.
MarksOf == [
    orders        |-> {"period", "cod", "coupon"},
    inquiries     |-> {"period", "old"},
    tickets       |-> {"period", "old"},
    returns       |-> {"period", "old"},
    products      |-> {"active", "discontinued", "replaced"},
    collections   |-> {},
    discounts     |-> {"active"},
    notifications |-> {"period"}]

Recorded == {r \in Record : table[r].status # "unused"}
Has(mark) == {r \in Recorded : mark \in table[r].marks}
Being(statuses) == {r \in Recorded : table[r].status \in statuses}
During == Has("period")

By(column, rows) == {[value |-> v, rows |-> {r \in rows : table[r][column] = v}] :
                        v \in {table[r][column] : r \in rows}}

\* _KEPT_ORDER_Q and _COMPLETED_ORDER_Q.
Kept == Recorded \ Being({"cancelled", "refunded"})
-----------------------------------------------------------------------------
\* The queries of each selector, in the order the code evaluates them.
SalesSummary == <<Kept \cap During, Being({"cancelled", "refunded"}) \cap During>>
OrdersByStatus == <<By("status", During)>>
OrdersBySource == <<By("group", During)>>
SalesTimeseries == <<Kept \cap During>>
ProductPerformance == <<Kept \cap During>>
CouponSavings == <<Kept \cap Has("coupon") \cap During>>

SalesDashboard ==
    <<Being({"delivered"}) \cap During>> \o SalesSummary \o OrdersByStatus \o OrdersBySource

\* The part of summary that reads orders.
OrdersSummary ==
    SalesSummary \o OrdersByStatus \o OrdersBySource \o ProductPerformance \o CouponSavings

CodDashboard == <<Has("cod"), Has("cod") \cap Being(OpenOrders),
                  Has("cod") \cap Being({"delivered"}), Has("cod") \cap Being({"delivery_failed"})>>

\* A bundle's sales, of orders that have lines of it (here: by group).
BundlesDashboard == <<By("group", Kept \cap During)>> \o SalesSummary

InquiriesSummary == <<During, By("group", During), By("status", During),
                      Being({"converted"}) \cap During>>

StockDashboard == <<By("status", Has("active")), Has("active"), Has("discontinued")>>

ProductsDashboard == <<Has("discontinued") \ Has("replaced"), Has("active"), Has("discontinued")>>

CatalogueSummary == <<Recorded>>

CollectionsDashboard == <<Recorded, Recorded \ Being({"manual"}), Being({"manual"})>>

\* Its list of what ends soon is fetched before promotions_summary counts.
PromotionsDashboard == <<Has("active") \cap Being({"endsSoon"}),
                         Has("active") \cap Being({"running", "endsSoon"})>>

ReturnsSummary == <<Being({"refunded"}) \cap During, During, Being({"refunded"}) \cap During>>

\* Rows with a resolved_at, which every terminal status sets, and stuck ones.
ReturnsDashboard ==
    <<During \cap Being({"rejected", "refunded", "replaced", "closed"}),
      Has("old") \cap Being({"requested", "approved", "item_received"})>> \o ReturnsSummary

SupportSummary == <<Being({"resolved", "closed"}) \cap During, Being({"open", "pending_customer"}),
                    By("status", During), By("group", During), During>>

SupportDashboard == <<Being({"open", "pending_customer"})>> \o SupportSummary
                    \o <<Being({"open", "pending_customer"}) \cap Has("old")>>

NotificationsSummary == <<During, Being({"failed"}) \cap During>>

\* The alerts over each table: a count, and what it counts fetched again when
\* it is not zero.
Alerts(t) ==
    CASE t = "orders" ->
            LET failed == Has("cod") \cap Being({"delivery_failed"}) IN
            <<failed, failed, Being({"pending"}), Being({"pending"})>>
      [] t = "products" -> <<Has("active") \cap Being({"out_of_stock"}),
                             Has("active") \cap Being({"low_stock"})>>
      [] t = "inquiries" -> <<Being({"new"}) \cap Has("old"), Being({"new"}) \cap Has("old")>>
      [] t = "collections" -> <<Being({"halfAnHour", "older"})>>

\* The table each report is about.
TableOf == [sales |-> "orders", salesReport |-> "orders", summary |-> "orders", cod |-> "orders",
            bundles |-> "orders", orderAlerts |-> "orders", inquiries |-> "inquiries",
            inquiryAlerts |-> "inquiries", stock |-> "products", products |-> "products",
            collections |-> "collections", promotions |-> "discounts", returns |-> "returns",
            support |-> "tickets", notifications |-> "notifications"]

\* What each report's queries answer over the table as it is now.
Queries ==
    CASE about = "sales"         -> SalesDashboard
      [] about = "salesReport"   -> SalesSummary \o SalesTimeseries
      [] about = "summary"       -> OrdersSummary
      [] about = "cod"           -> CodDashboard
      [] about = "bundles"       -> BundlesDashboard
      [] about = "orderAlerts"   -> Alerts("orders")
      [] about = "inquiries"     -> InquiriesSummary
      [] about = "inquiryAlerts" -> Alerts("inquiries")
      [] about = "stock"         -> StockDashboard \o Alerts("products")
      [] about = "products"      -> ProductsDashboard \o CatalogueSummary
      [] about = "collections"   -> CollectionsDashboard \o Alerts("collections")
      [] about = "promotions"    -> PromotionsDashboard
      [] about = "returns"       -> ReturnsDashboard
      [] about = "support"       -> SupportDashboard
      [] about = "notifications" -> NotificationsSummary
-----------------------------------------------------------------------------
NoRecord == [status |-> "unused", group |-> CHOOSE g \in Group : TRUE, marks |-> {}]

ReportsInit ==
    /\ table = [r \in Record |-> NoRecord]
    /\ about \in DOMAIN TableOf
    /\ writes = 0 /\ answers = <<>> /\ crossed = FALSE

Answered == Len(answers) = Len(Queries)

\* Another request inserts a row or changes one, or time passes; a row stays in
\* its group.
WriteRecord ==
    \E r \in Record, s \in StatusesOf[TableOf[about]], g \in Group,
       m \in SUBSET MarksOf[TableOf[about]] :
        /\ writes < MaxWrites
        /\ table[r].status # "unused" => table[r].group = g
        /\ table' = [table EXCEPT ![r] = [status |-> s, group |-> g, marks |-> m]]
        /\ writes' = writes + 1
        /\ crossed' = (crossed \/ (answers # <<>> /\ ~Answered))
        /\ UNCHANGED <<about, answers>>

\* The report runs its next query.
RunQuery ==
    /\ ~Answered
    /\ answers' = Append(answers, Queries[Len(answers) + 1])
    /\ UNCHANGED <<about, table, writes, crossed>>

\* The figures are returned; the next request asks for them again.
ReturnReport == Answered /\ answers' = <<>> /\ crossed' = FALSE /\ UNCHANGED <<about, table, writes>>

ReportsNext == WriteRecord \/ RunQuery \/ ReturnReport

ReportsSpec == ReportsInit /\ [][ReportsNext]_reportVars
-----------------------------------------------------------------------------
Rows(groups) == UNION {g.rows : g \in groups}
RowsOf(groups, values) == UNION {g.rows : g \in {h \in groups : h.value \in values}}

\* The types of the variables.
ReportsTypeOK ==
    /\ about \in DOMAIN TableOf
    /\ table \in [Record -> [status : StatusesOf[TableOf[about]] \cup {"unused"}, group : Group,
                             marks : SUBSET MarksOf[TableOf[about]]]]
    /\ writes \in 0 .. MaxWrites /\ crossed \in BOOLEAN
    /\ Len(answers) <= Len(Queries)

\* What the answers a of a report have in common.
Reconciled(a) ==
    CASE about = "sales" ->
            /\ Rows(a[4]) = Rows(a[5]) /\ Rows(a[4]) = a[2] \cup a[3] /\ a[2] \cap a[3] = {}
            /\ a[1] = RowsOf(a[4], {"delivered"}) /\ a[1] \subseteq a[2]
      [] about = "salesReport" -> a[1] = a[3] /\ a[1] \cap a[2] = {}
      [] about = "summary" -> /\ Rows(a[3]) = a[1] \cup a[2] /\ Rows(a[3]) = Rows(a[4])
                              /\ a[5] = a[1] /\ a[6] \subseteq a[1]
      [] about = "cod" -> /\ a[2] \cup a[3] \cup a[4] \subseteq a[1]
                          /\ a[2] \cap a[3] = {} /\ (a[2] \cup a[3]) \cap a[4] = {}
      [] about = "bundles" -> Rows(a[1]) = a[2] /\ a[2] \cap a[3] = {}
      [] about = "orderAlerts" -> a[1] = a[2] /\ a[3] = a[4] /\ a[1] \cap a[3] = {}
      [] about = "inquiries" -> /\ a[1] = Rows(a[2]) /\ a[1] = Rows(a[3])
                                /\ a[4] = RowsOf(a[3], {"converted"})
      [] about = "inquiryAlerts" -> a[1] = a[2]
      [] about = "stock" -> /\ Rows(a[1]) = a[2] /\ a[4] = RowsOf(a[1], {"out_of_stock"})
                            /\ a[5] = RowsOf(a[1], {"low_stock"})
      [] about = "products" -> a[1] \subseteq a[3] /\ a[2] \cup a[3] \subseteq a[4]
      [] about = "collections" -> a[1] = a[2] \cup a[3] /\ a[2] \cap a[3] = {} /\ a[4] \subseteq a[2]
      [] about = "promotions" -> a[1] \subseteq a[2]
      [] about = "returns" -> /\ a[3] = a[5] /\ a[3] \subseteq a[1] /\ a[1] \subseteq a[4]
                              /\ a[1] \cap a[2] = {}
      [] about = "support" -> /\ a[1] = a[3] /\ a[7] \subseteq a[1] /\ a[6] = Rows(a[4])
                              /\ Rows(a[4]) = Rows(a[5])
                              /\ a[2] = RowsOf(a[4], {"resolved", "closed"})
                              /\ a[6] \subseteq a[2] \cup a[3]
      [] about = "notifications" -> a[2] \subseteq a[1]

\* A report that no write crosses reconciles with itself: its totals are those
\* of its breakdowns and of the queries that take the same rows in other words,
\* and what it keeps apart does not overlap.  (A write between two queries
\* makes the figures of one report disagree.)
ReportsReconcile == Answered /\ ~crossed => Reconciled(answers)
=============================================================================
