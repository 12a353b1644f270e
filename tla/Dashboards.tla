----------------------------- MODULE Dashboards -----------------------------
(***************************************************************************)
(* The pages that sum up: the dashboards of the tenant, the manager and    *)
(* the owner, the owner's portfolio, the manager's properties and one      *)
(* property. A page asks for several lists at once and waits for all of    *)
(* them; the API answers each at a time of its own, while leases are       *)
(* signed, rents paid, requests moved and offers answered elsewhere (by    *)
(* another user or in another tab). What the page then says is computed    *)
(* from the lists it got.                                                  *)
(*                                                                         *)
(* One tab, one tenant, one manager, one owner who has every property. A   *)
(* lease stands for its unit and its one invoice, every rent is the same,  *)
(* a month has 30 days. Names, money, texts, the filter by text, partial   *)
(* payments and the tenant's notifications (module Inbox) are left out,    *)
(* and so is what a page shows while it loads.                             *)
(***************************************************************************)
EXTENDS Integers, FiniteSets, Sequences, FiniteSetsExt, SequencesExt

CONSTANTS Leases, Requests, Offers, Properties,
          Home,        \* Home[l]: the property the unit of l is in
          Building,    \* the property the page of one property is about
          Position,    \* Position[l]: where l is in the API's list of leases
          Ends, Due,   \* Ends[l], Due[l]: end_date and the invoice's due_date
          Priority,    \* Priority[r]
          Escalated,   \* the requests the seed escalates
          Mine,        \* the leases and requests of the tenant
          Seed,        \* the tables at the start
          Days,        \* the days the calendar may show
          ListLength,  \* how many rows a list of a dashboard has: 5
          LeaseLines,  \* and the manager's list of leases: 4
          RecentLines, \* and the tenant's list of requests: 3
          MaxChanges   \* bound: how often the tables change

VARIABLES
    db,       \* the tables, and the day it is
    changes,  \* how often they have changed; the time of updated_at
    page,     \* the page the tab shows
    load,     \* what its load still waits for, and has been given
    data,     \* the rows the page holds
    error,    \* the page shows an error
    form,     \* NewPropertyDialog
    create,   \* create[p]: the POST /properties in flight for p
    held      \* what was so at some time since the page was opened

vars == <<db, changes, page, load, data, error, form, create, held>>

-----------------------------------------------------------------------------
LeaseStatus == {"none", "draft", "pending_tenant", "active"}
PaymentStatus == {"none", "pending", "overdue", "paid"}
ACTIVE_STATUSES == {"submitted", "assigned", "in_progress"}
RequestStatus == ACTIVE_STATUSES \cup {"none", "completed", "closed", "cancelled"}
OfferStatus == {"none", "pending", "accepted", "declined", "withdrawn"}

PRIORITY_ORDER == [emergency |-> 0, high |-> 1, medium |-> 2, low |-> 3]

\* listed: the cards of a property; occupied: the units let; day: when it
\* was put on the screen.
Rows == [leases : [Leases -> LeaseStatus],
         payments : [Leases -> [status : PaymentStatus, on : Nat]],
         requests : [Requests -> [status : RequestStatus, updated : Int]],
         offers : [Offers -> OfferStatus],
         listed : [Properties -> Nat], occupied : SUBSET Leases, day : Nat]

Unpaid0 == [status |-> "none", on |-> 0]

NoRows == [leases |-> [l \in Leases |-> "none"], payments |-> [l \in Leases |-> Unpaid0],
           requests |-> [r \in Requests |-> [status |-> "none", updated |-> 0]],
           offers |-> [o \in Offers |-> "none"],
           listed |-> [p \in Properties |-> 0], occupied |-> {}, day |-> 0]

View == {"away", "tenant", "manager", "owner", "portfolio", "buildings", "building"}

\* The requests of a page's Promise.all. Left out: getProperty of "building".
Needs(view) ==
    CASE view = "away" -> {}
      [] view = "tenant" -> {"leases", "payments", "requests"}
      [] view \in {"manager", "owner"} ->
            {"properties", "leases", "payments", "requests", "offers"}
      [] view = "portfolio" -> {"properties", "leases"}
      [] view = "buildings" -> {"properties"}
      [] view = "building" -> {"units", "leases"}

\* Fault: the payments are caught as the offers are.
QuietPayments == {"offers", "payments"}

\* listOffers().catch(() => [])
Quiet == {"offers"}

-----------------------------------------------------------------------------
(* The figures of a page, from the rows it holds *)

Open(rows) == {r \in Requests : rows.requests[r].status \in ACTIVE_STATUSES}

Invoices(rows, statuses) == {l \in Leases : rows.payments[l].status \in statuses}

Active(rows) == {l \in Leases : rows.leases[l] = "active"}

UnitsOf(p) == {l \in Leases : Home[l] = p}

\* The units of all cards: a unit once for each card of its property.
Units(rows) == UNION {{l} \X (1 .. rows.listed[Home[l]]) : l \in Leases}

totalUnits(rows) == Cardinality(Units(rows))

occupied(rows) == Cardinality({unit \in Units(rows) : unit[1] \in rows.occupied})

\* Math.round
occupancyPct(rows) ==
    LET total == totalUnits(rows)
    IN  IF total > 0 THEN (200 * occupied(rows) + total) \div (2 * total) ELSE 0

occupancyByProperty(rows) ==
    [p \in {q \in Properties : rows.listed[q] > 0} |->
        [occupied |-> Cardinality(UnitsOf(p) \cap rows.occupied),
         vacant |-> Cardinality(UnitsOf(p)) - Cardinality(UnitsOf(p) \cap rows.occupied)]]

Month(day) == day \div 30
YearStart(day) == 360 * (day \div 360)

ytd(rows) == {l \in Invoices(rows, {"paid"}) : rows.payments[l].on >= YearStart(rows.day)}

revenueTrend(rows) ==
    [m \in (Month(rows.day) - 5) .. Month(rows.day) |->
        Cardinality({l \in Invoices(rows, {"paid"}) : Month(rows.payments[l].on) = m})]

paymentMix(rows) ==
    [s \in PaymentStatus \ {"none"} |-> Cardinality(Invoices(rows, {s}))]

maintenanceMix(rows) ==
    [s \in RequestStatus \ {"none", "cancelled"} |->
        Cardinality({r \in Requests : rows.requests[r].status = s})]

Slice(seq, n) == SubSeq(seq, 1, Min({n, Len(seq)}))

Before(k, l) == k[1] < l[1] \/ (k[1] = l[1] /\ k[2] < l[2])

\* Array.prototype.sort, by a first and a second number. It is stable: what
\* has the same two stays in the order of the list.
Sorted(rows, key) ==
    LET list == SetToSeq(rows)
        Place(i) == Cardinality({j \in DOMAIN list :
                        \/ Before(key[list[j]], key[list[i]])
                        \/ j <= i /\ ~Before(key[list[i]], key[list[j]])})
    IN  [n \in DOMAIN list |-> list[CHOOSE i \in DOMAIN list : Place(i) = n]]

\* By priority, then the latest first.
ByUrgency(open, requests) ==
    Sorted(open, [r \in open |->
        <<PRIORITY_ORDER[Priority[r]], 0 - requests[r].updated>>])

\* Fault: cut before it is sorted.
QueueOfFirst(rows) ==
    ByUrgency(Range(Slice(SetToSeq(Open(rows)), ListLength)), rows.requests)

\* The manager's maintenance queue.
queue(rows) == Slice(ByUrgency(Open(rows), rows.requests), ListLength)

\* Overdue first, then by due date.
ByDueDate(due, late) ==
    Sorted(due, [l \in due |-> <<IF l \in late THEN 0 ELSE 1, Due[l]>>])

paymentsQueue(rows) ==
    Slice(ByDueDate(Invoices(rows, {"pending", "overdue"}), Invoices(rows, {"overdue"})),
          ListLength)

DaysLeft(l, rows) == Ends[l] - rows.day

ByEnd(leases) == Sorted(leases, [l \in leases |-> <<Ends[l], 0>>])

Ending(rows, from, to) == ByEnd({l \in Active(rows) : DaysLeft(l, rows) \in from .. to})

expiringLeases(rows) == Slice(Ending(rows, 0, 90), ListLength)

\* From the day of the first lease: what has ended stays on the list.
expiringSoon(rows) == Slice(Ending(rows, 0 - rows.day, 60), LeaseLines)

\* The tenant's page. find(): the first in the order of the list.
FirstOf(leases) == {l \in leases : \A k \in leases : Position[l] <= Position[k]}

\* The active lease or, failing that, the first one, with its status.
lease(rows) ==
    LET listed == {l \in Leases : rows.leases[l] # "none"}
    IN  {<<l, rows.leases[l]>> :
            l \in FirstOf(IF Active(rows) # {} THEN Active(rows) ELSE listed)}

pendingLease(rows) == FirstOf({l \in Leases : rows.leases[l] = "pending_tenant"})

\* The latest first, whatever their status, which each line shows.
recentRequests(rows) ==
    LET made == {r \in Requests : rows.requests[r].status # "none"}
        latest == Slice(Sorted(made, [r \in made |-> <<0 - rows.requests[r].updated, 0>>]),
                        RecentLines)
    IN  [i \in DOMAIN latest |-> <<latest[i], rows.requests[latest[i]].status>>]

nextDue(rows) ==
    LET open == Invoices(rows, {"pending", "overdue"})
    IN  {l \in open : \A k \in open : Due[l] <= Due[k]}

\* A card of the portfolio: the next active lease to end, and the line on top.
nextEnd(p, rows) ==
    LET ahead == {l \in Active(rows) \cap UnitsOf(p) : DaysLeft(l, rows) >= 0}
    IN  {l \in ahead : \A k \in ahead : Ends[l] <= Ends[k]}

SaysNoActiveLease(p, rows) == nextEnd(p, rows) = {}

-----------------------------------------------------------------------------
(* What each page shows: its cards, its lists and the sentences that stand  *)
(* for an empty one. Left out: what is counted from today's date, and how   *)
(* many cards the manager's properties have.                                *)

TenantShows(rows) ==
    [lease |-> lease(rows), toSign |-> pendingLease(rows), due |-> nextDue(rows),
     open |-> Open(rows), recent |-> recentRequests(rows)]

ManagerShows(rows) ==
    [properties |-> occupancyByProperty(rows), occupancy |-> occupancyPct(rows),
     open |-> Open(rows), escalated |-> Open(rows) \cap Escalated,
     overdue |-> Invoices(rows, {"overdue"}),
     queue |-> queue(rows), payments |-> paymentsQueue(rows)]

OwnerShows(rows) ==
    [bars |-> occupancyByProperty(rows), occupancy |-> occupancyPct(rows),
     vacant |-> totalUnits(rows) - occupied(rows), mrr |-> Active(rows), ytd |-> ytd(rows),
     overdue |-> Invoices(rows, {"overdue"}),
     open |-> Open(rows), escalated |-> Open(rows) \cap Escalated,
     paymentMix |-> paymentMix(rows), maintenanceMix |-> maintenanceMix(rows)]

PortfolioShows(rows) ==
    [bars |-> occupancyByProperty(rows), occupancy |-> occupancyPct(rows),
     vacant |-> totalUnits(rows) - occupied(rows), mrr |-> Active(rows)]

BuildingsShow(rows) == [units |-> totalUnits(rows), occupied |-> occupied(rows)]

\* The status of every unit, and the lease in force on it.
BuildingShows(rows) ==
    [occupied |-> rows.occupied, vacant |-> UnitsOf(Building) \ rows.occupied,
     leases |-> Active(rows) \cap UnitsOf(Building)]

PageShows(view, rows) ==
    CASE view = "tenant" -> TenantShows(rows)
      [] view = "manager" -> ManagerShows(rows)
      [] view = "owner" -> OwnerShows(rows)
      [] view = "portfolio" -> PortfolioShows(rows)
      [] view = "buildings" -> BuildingsShow(rows)
      [] view = "building" -> BuildingShows(rows)

\* Offers are shown only while there is one that awaits an answer.
Statements(view, rows) ==
    LET shown == PageShows(view, rows)
    IN  IF view = "away" THEN {}
        ELSE {<<card, shown[card]>> : card \in DOMAIN shown}
                \cup {<<"offer", o>> : o \in {x \in Offers : rows.offers[x] = "pending"}}

-----------------------------------------------------------------------------
(* The API *)

\* The lists of the owner and the manager have every row.
Visible(view) == IF view = "tenant" THEN Mine ELSE Leases \cup Requests

List(part, view, tables, rows) ==
    CASE part = "leases" ->
            [rows EXCEPT !.leases = [l \in Leases |->
                IF l \in Visible(view) THEN tables.leases[l] ELSE "none"]]
      [] part = "payments" ->
            [rows EXCEPT !.payments = [l \in Leases |->
                IF l \in Visible(view) THEN tables.payments[l] ELSE Unpaid0]]
      [] part = "requests" ->
            [rows EXCEPT !.requests = [r \in Requests |->
                IF r \in Visible(view) THEN tables.requests[r] ELSE NoRows.requests[r]]]
      [] part = "offers" -> [rows EXCEPT !.offers = tables.offers]
      [] part = "properties" ->
            [rows EXCEPT !.listed = tables.listed, !.occupied = tables.occupied]
      [] part = "units" ->
            [rows EXCEPT !.occupied = tables.occupied \cap UnitsOf(Building)]

\* What a page would have shown had every list been read at once, now.
AtOnce(view, tables) ==
    LET Read(part, column) == IF part \in Needs(view)
                              THEN List(part, view, tables, NoRows)[column] ELSE NoRows[column]
    IN  [leases |-> Read("leases", "leases"), payments |-> Read("payments", "payments"),
         requests |-> Read("requests", "requests"), offers |-> Read("offers", "offers"),
         listed |-> Read("properties", "listed"),
         occupied |-> Read(IF view = "building" THEN "units" ELSE "properties", "occupied"),
         day |-> tables.day]

Remember == held' = held \cup Statements(page, AtOnce(page, db'))

\* A property that is not listed yet has no units, and nothing was paid on a
\* day to come.
ASSUME SeedAssumption ==
    /\ Seed \in Rows /\ Days \subseteq Nat /\ MaxChanges \in Nat
    /\ \A l \in Leases : /\ Home[l] \in Properties /\ Seed.listed[Home[l]] > 0
                         /\ Seed.payments[l].status = "paid" => Seed.payments[l].on <= Seed.day

\* The tables are finite, what is sorted by has a value, and lists have lines.
ASSUME ListsAssumption ==
    /\ IsFiniteSet(Leases) /\ IsFiniteSet(Requests)
    /\ Ends \in [Leases -> Int] /\ Due \in [Leases -> Int] /\ Position \in [Leases -> Int]
    /\ Priority \in [Requests -> DOMAIN PRIORITY_ORDER]
    /\ ListLength \in Nat \ {0} /\ LeaseLines \in Nat \ {0}
    /\ RecentLines \in Nat \ {0}

-----------------------------------------------------------------------------
NoLoad == [on |-> FALSE, needs |-> {}, rows |-> NoRows]

\* owners: the picker has some; loading: it waits for GET /users.
Form == [open : BOOLEAN, owners : BOOLEAN, loading : BOOLEAN, submitting : BOOLEAN]

Closed(owners) ==
    [open |-> FALSE, owners |-> owners, loading |-> FALSE, submitting |-> FALSE]

Init ==
    /\ db = Seed /\ changes = 0
    /\ page = "away" /\ load = NoLoad /\ data = NoRows /\ error = FALSE
    /\ form = Closed(FALSE) /\ create = [p \in Properties |-> "idle"]
    /\ held = {}

-----------------------------------------------------------------------------
(* The tab *)

OpenPage(view) ==
    /\ page = "away" /\ view # "away" /\ page' = view
    /\ load' = [NoLoad EXCEPT !.on = TRUE, !.needs = Needs(view)]
    /\ held' = Statements(view, AtOnce(view, db))
    /\ UNCHANGED <<db, changes, data, error, form, create>>

\* On the way to another page. What was in flight is forgotten (cancelled =
\* true); a POST may still be handled.
LeavePage ==
    /\ page # "away" /\ page' = "away"
    /\ load' = NoLoad /\ data' = NoRows /\ error' = FALSE /\ form' = Closed(FALSE)
    /\ create' = [p \in Properties |->
          IF create[p] \in {"sent", "gone"} THEN "gone" ELSE "idle"]
    /\ held' = {}
    /\ UNCHANGED <<db, changes>>

\* OwnerAddPropertyDialog's onCompleted: the portfolio is loaded again.
Reload ==
    /\ page = "portfolio" /\ db.listed # Seed.listed
    /\ load' = [NoLoad EXCEPT !.on = TRUE, !.needs = Needs(page)]
    /\ UNCHANGED <<db, changes, page, data, error, form, create, held>>

HandlePart(part) ==
    /\ load.on /\ part \in load.needs
    /\ load' = [load EXCEPT !.needs = @ \ {part}, !.rows = List(part, page, db, @)]
    /\ UNCHANGED <<db, changes, page, data, error, form, create, held>>

\* A call that fails is taken for an empty list.
FailQuietly(part) ==
    /\ load.on /\ part \in load.needs \cap Quiet
    /\ load' = [load EXCEPT !.needs = @ \ {part}]
    /\ UNCHANGED <<db, changes, page, data, error, form, create, held>>

GotLoad ==
    /\ load.on /\ load.needs = {}
    /\ load' = NoLoad
    /\ data' = [load.rows EXCEPT !.day = db.day] /\ error' = FALSE
    /\ UNCHANGED <<db, changes, page, form, create, held>>

\* Any other failure is the page's, whatever else was answered.
LoadFailed ==
    /\ load.on
    /\ load' = NoLoad /\ error' = TRUE
    /\ UNCHANGED <<db, changes, page, data, form, create, held>>

\* NewPropertyDialog, which may be opened while the page loads.
OpenForm ==
    /\ page = "buildings" /\ ~form.open
    /\ form' = [form EXCEPT !.open = TRUE, !.loading = TRUE]
    /\ UNCHANGED <<db, changes, page, load, data, error, create, held>>

\* Escape closes it while it is submitting, too.
CloseForm ==
    /\ form.open
    /\ form' = Closed(form.owners)
    /\ UNCHANGED <<db, changes, page, load, data, error, create, held>>

GotOwners(ok) ==
    /\ form.open /\ form.loading
    /\ form' = [form EXCEPT !.loading = FALSE, !.owners = @ \/ ok]
    /\ UNCHANGED <<db, changes, page, load, data, error, create, held>>

\* canSubmit: an owner has been picked.
SubmitProperty(p) ==
    /\ form.open /\ form.owners /\ ~form.loading /\ ~form.submitting
    /\ create[p] = "idle" /\ db.listed[p] = 0
    /\ create' = [create EXCEPT ![p] = "sent"]
    /\ form' = [form EXCEPT !.submitting = TRUE]
    /\ UNCHANGED <<db, changes, page, load, data, error, held>>

HandleCreate(p) ==
    /\ create[p] \in {"sent", "gone"} /\ db.listed[p] = 0
    /\ db' = [db EXCEPT !.listed[p] = 1]
    /\ create' = [create EXCEPT ![p] = IF @ = "sent" THEN "made" ELSE "idle"]
    /\ UNCHANGED <<changes, page, load, data, error, form>>
    /\ Remember

\* The card is added to what the page holds by now, and the dialog that is
\* open by now is closed, or takes the error.
GotCreated(p, ok) ==
    /\ create[p] \in {"sent", "made"} /\ (ok => create[p] = "made")
    /\ create' = [create EXCEPT ![p] = "idle"]
    /\ data' = IF ok THEN [data EXCEPT !.listed[p] = @ + 1] ELSE data
    /\ form' = IF ok THEN Closed(form.owners) ELSE [form EXCEPT !.submitting = FALSE]
    /\ UNCHANGED <<db, changes, page, load, error, held>>

-----------------------------------------------------------------------------
(* Elsewhere *)

Change(rows) ==
    /\ changes < MaxChanges /\ changes' = changes + 1
    /\ db' = rows
    /\ UNCHANGED <<page, load, data, error, form, create>>
    /\ Remember

ManagerSigns(l) ==
    /\ db.leases[l] = "draft"
    /\ Change([db EXCEPT !.leases[l] = "pending_tenant"])

TenantSigns(l) ==
    /\ db.leases[l] = "pending_tenant"
    /\ Change([db EXCEPT !.leases[l] = "active", !.occupied = @ \cup {l},
                         !.payments[l] = [status |-> "pending", on |-> 0]])

Pays(l) ==
    /\ db.payments[l].status \in {"pending", "overdue"}
    /\ Change([db EXCEPT !.payments[l] = [status |-> "paid", on |-> db.day]])

\* MAINT_TRANSITIONS; a request starts as submitted.
Onward == [none |-> {"submitted"}, submitted |-> {"assigned", "cancelled"},
           assigned |-> {"in_progress", "cancelled"},
           in_progress |-> {"completed", "cancelled"},
           completed |-> {"closed"}, closed |-> {}, cancelled |-> {}]

MovesRequest(r, status) ==
    /\ status \in Onward[db.requests[r].status]
    /\ Change([db EXCEPT !.requests[r] = [status |-> status, updated |-> changes + 1]])

AnswersOffer(o, status) ==
    /\ \/ db.offers[o] = "none" /\ status = "pending"
       \/ db.offers[o] = "pending" /\ status \in {"accepted", "declined", "withdrawn"}
    /\ Change([db EXCEPT !.offers[o] = status])

ListsProperty(p) ==
    /\ db.listed[p] = 0 /\ create[p] = "idle"
    /\ Change([db EXCEPT !.listed[p] = 1])

NightFalls(day) ==
    /\ day > db.day /\ \A d \in Days : d > db.day => day <= d
    /\ Change([db EXCEPT !.day = day])

Elsewhere ==
    \/ \E l \in Leases : ManagerSigns(l) \/ TenantSigns(l) \/ Pays(l)
    \/ \E r \in Requests, status \in RequestStatus : MovesRequest(r, status)
    \/ \E o \in Offers, status \in OfferStatus : AnswersOffer(o, status)
    \/ \E p \in Properties : ListsProperty(p)
    \/ \E day \in Days : NightFalls(day)

Parts == {"properties", "leases", "payments", "requests", "offers", "units"}

Next ==
    \/ \E view \in View : OpenPage(view)
    \/ LeavePage \/ Reload \/ GotLoad \/ LoadFailed \/ OpenForm \/ CloseForm
    \/ \E part \in Parts : HandlePart(part) \/ FailQuietly(part)
    \/ \E ok \in BOOLEAN : GotOwners(ok)
    \/ \E p \in Properties :
          \/ SubmitProperty(p) \/ HandleCreate(p)
          \/ \E ok \in BOOLEAN : GotCreated(p, ok)
    \/ Elsewhere

Spec == Init /\ [][Next]_vars

-----------------------------------------------------------------------------
TypeOK ==
    /\ db \in Rows /\ changes \in 0 .. MaxChanges
    /\ page \in View /\ data \in Rows /\ error \in BOOLEAN /\ form \in Form
    /\ load \in [on : BOOLEAN, needs : SUBSET Needs(page), rows : Rows]
    /\ create \in [Properties -> {"idle", "sent", "made", "gone"}]

(***************************************************************************)
(* Whatever a page that has loaded shows, each card by itself, was so at   *)
(* some time since it was opened, or the page shows that it could not load *)
(* (ManagerDashboard.jsx:63, OwnerDashboard.jsx:110, TenantDashboard.jsx:77):*)
(* no list that failed or was read halfway passes for an empty one. Not of *)
(* the offers, whose failure is meant to be silent, nor of the number of   *)
(* cards on the manager's properties, where one may be there twice, nor of *)
(* what ends or was paid when: the list is of one day, the count of another.*)
(***************************************************************************)
SaidWasSo ==
    page # "away" /\ ~load.on /\ ~error => Statements(page, data) \subseteq held

(***************************************************************************)
(* The figures of a page agree with each other, though each is computed    *)
(* from the lists by itself: what a list of limited length leaves out is   *)
(* never more urgent than what it shows, the parts of a chart add up to    *)
(* the cards above it, and the revenue of the year is in the trend.        *)
(***************************************************************************)
Elements(seq) == {seq[i] : i \in DOMAIN seq}

QueuesKeepTheUrgent(rows) ==
    LET q == queue(rows)  p == paymentsQueue(rows)
        late == Invoices(rows, {"overdue"})
    IN  /\ Len(q) = Min({ListLength, Cardinality(Open(rows))})
        /\ \A r \in Open(rows) \ Elements(q), i \in DOMAIN q :
              /\ PRIORITY_ORDER[Priority[q[i]]] <= PRIORITY_ORDER[Priority[r]]
              /\ Priority[q[i]] = Priority[r] =>
                    rows.requests[r].updated <= rows.requests[q[i]].updated
        /\ late \subseteq Elements(p) \/ Elements(p) \subseteq late
        /\ nextDue(rows) = {} <=> p = <<>>
        /\ \A list \in {expiringLeases(rows), expiringSoon(rows)} :
              \A k \in Elements(list), l \in Active(rows) \ Elements(list) :
                 DaysLeft(l, rows) >= 0 => Ends[k] <= Ends[l]

ChartsAddUp(rows) ==
    LET bars == occupancyByProperty(rows)
        trend == revenueTrend(rows)  mix == maintenanceMix(rows)  paid == paymentMix(rows)
        \* the bar of the month so many months ago, if that is in this year
        Bar(ago) == LET m == Month(rows.day) - ago
                    IN  IF m \div 12 = rows.day \div 360 THEN trend[m] ELSE 0
        inTrend == Bar(0) + Bar(1) + Bar(2) + Bar(3) + Bar(4) + Bar(5)
    IN  /\ \A p \in DOMAIN bars : bars[p].vacant >= 0
        /\ occupancyPct(rows) \in 0 .. 100
        /\ mix["submitted"] + mix["assigned"] + mix["in_progress"] = Cardinality(Open(rows))
        /\ paid["pending"] + paid["overdue"] + paid["paid"]
              = Cardinality(Invoices(rows, PaymentStatus \ {"none"}))
        /\ inTrend <= Cardinality(ytd(rows))
        /\ Month(rows.day) % 12 < 6 => inTrend = Cardinality(ytd(rows))

FiguresAgree ==
    page \in {"manager", "owner"} => QueuesKeepTheUrgent(data) /\ ChartsAddUp(data)

(***************************************************************************)
(* A card of the portfolio says "No active leases on this property." (pages/*)
(* owner/OwnerProperties.jsx:309) only when it counts none below.          *)
(***************************************************************************)
CardsAgree ==
    page = "portfolio" => \A p \in Properties : data.listed[p] > 0 =>
        (SaysNoActiveLease(p, data) <=> Active(data) \cap UnitsOf(p) = {})
=============================================================================
