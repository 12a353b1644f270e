------------------------------ MODULE Tenancy ------------------------------
(***************************************************************************)
(* From an invited tenant to a paid rent: the manager invites tenants,     *)
(* adds units, drafts leases and signs them; the tenant signs and pays the *)
(* first invoice. The API's handlers are those of frontend/src/mocks/      *)
(* handlers.js; the manager and every tenant have a browser of their own.  *)
(*                                                                         *)
(* One property and its one manager. Amounts, dates, terms, texts and what *)
(* the forms check before they send are left out; so are notifications     *)
(* (module Inbox). A lease's invoice is the one its signature generates;   *)
(* the leases and invoices of the seed, some of them overdue, are left     *)
(* out, and so are the dashboards, which only read.                        *)
(***************************************************************************)
EXTENDS Naturals, FiniteSets

CONSTANTS Manager, Tenants, \* the users
          Units,            \* unit_id values
          Vacant,           \* the seed's vacant units
          MaxLeases,        \* bound: leases there will ever be
          Calls,            \* fetch() calls that may be in flight together
          None

ASSUME UsersAssumption == Manager \notin Tenants /\ None \notin Tenants \cup {Manager}
ASSUME SeedAssumption == Vacant \subseteq Units /\ MaxLeases \in Nat

Users == Tenants \cup {Manager}

Leases == 1 .. MaxLeases  \* in the order of db.leases

VARIABLES
    leases,    \* db.leases
    units,     \* db.units
    payments,  \* payments[l]: the invoice of lease l in db.payments
    accounts,  \* the tenants that were invited
    page,      \* page[u]: the page u is on
    seen,      \* seen[u]: the rows that page holds
    dialog,    \* the manager's InviteTenantDialog, CreateLeaseDialog, NewUnitDialog
    pay,       \* pay[t]: PayRentDialog
    calls      \* the calls in flight

api == <<leases, units, payments, accounts>>
client == <<page, seen, dialog, pay>>
vars == <<api, client, calls>>

-----------------------------------------------------------------------------
LeaseStatus == {"none", "draft", "pending_tenant", "active"}

\* "pending" is any invoice that is to be paid.
PaymentStatus == {"none", "pending", "paid"}

UnitStatus == {"none", "vacant", "occupied"}

Signer == {"manager", "tenant"}

LeaseRow == [status : LeaseStatus, tenant : Tenants \cup {None},
             unit : Units \cup {None}, signed : SUBSET Signer]

PaymentRow == [status : PaymentStatus, receipt : BOOLEAN]

NoLease == [status |-> "none", tenant |-> None, unit |-> None, signed |-> {}]

\* What a page has loaded.
Rows == [leases : [Leases -> LeaseStatus], payments : [Leases -> PaymentStatus],
         units : [Units -> UnitStatus], tenants : SUBSET Tenants]

NoRows == [leases |-> [l \in Leases |-> "none"], payments |-> [l \in Leases |-> "none"],
           units |-> [u \in Units |-> "none"], tenants |-> {}]

Only(l, status) == [k \in Leases |-> IF k = l THEN status ELSE "none"]

View == {"away", "lease", "payments", "tenants", "property"}

\* Fault: an endpoint that does not exist.
NeedsRooms(view) ==
    CASE view = "lease" -> {"leases"}
      [] view = "payments" -> {"payments"}
      [] view = "tenants" -> {"leases", "tenants"}
      [] view = "property" -> {"rooms"}

\* The requests a page's load sends at once (Promise.all). Left out: the
\* leases ManagerPropertyDetail counts, the receipts TenantLease lists.
Needs(view) ==
    CASE view = "lease" -> {"leases"}
      [] view = "payments" -> {"payments"}
      [] view = "tenants" -> {"leases", "tenants"}
      [] view = "property" -> {"units"}

Views(u) == IF u = Manager THEN {"tenants", "property"} ELSE {"lease", "payments"}

Dialog == [is : {"closed", "invite", "draft", "unit"}, tenant : Tenants \cup {None},
           vacant : SUBSET Units, submitting : BOOLEAN]

Closed == [is |-> "closed", tenant |-> None, vacant |-> {}, submitting |-> FALSE]

Pay == [open : BOOLEAN, lease : Leases \cup {None}, submitting : BOOLEAN, success : BOOLEAN]

NoPay == [open |-> FALSE, lease |-> None, submitting |-> FALSE, success |-> FALSE]

\* "receipts" is TenantLease's second listPayments. chained: a "sign" that
\* CreateLeaseDialog sends after its "create". mounted: the page that sent
\* the call is still there. needs: the parts of a load not yet answered.
Kinds == {"idle", "load", "vacant", "invite", "unit", "create", "sign", "receipts", "pay"}

Call == [kind : Kinds, by : Users \cup {None}, lease : Leases \cup {None},
         tenant : Tenants \cup {None}, unit : Units \cup {None},
         chained : BOOLEAN, mounted : BOOLEAN,
         needs : SUBSET {"leases", "payments", "units", "tenants"},
         reply : {"awaited", "checked", "declined", "ok"}, rows : Rows]

Idle == [kind |-> "idle", by |-> None, lease |-> None, tenant |-> None, unit |-> None,
         chained |-> FALSE, mounted |-> FALSE,
         needs |-> {}, reply |-> "awaited", rows |-> NoRows]

Ask(kind, u) == [Idle EXCEPT !.kind = kind, !.by = u, !.mounted = TRUE]

Sends(c, call) == calls[c] = Idle /\ calls' = [calls EXCEPT ![c] = call]

Writes == {"invite", "unit", "create", "sign", "pay"}

-----------------------------------------------------------------------------
Init ==
    /\ leases = [l \in Leases |-> NoLease]
    /\ units = [u \in Units |-> IF u \in Vacant THEN "vacant" ELSE "none"]
    /\ payments = [l \in Leases |-> [status |-> "none", receipt |-> FALSE]]
    /\ accounts = {}
    /\ page = [u \in Users |-> "away"]
    /\ seen = [u \in Users |-> NoRows]
    /\ dialog = Closed /\ pay = [t \in Tenants |-> NoPay]
    /\ calls = [c \in Calls |-> Idle]

\* Leaving a page: its loads are forgotten, a write may still arrive, and a
\* draft goes on to its signature.
Abandon(u) ==
    [c \in Calls |->
        IF calls[c].by # u THEN calls[c]
        ELSE IF \/ calls[c].kind \in Writes /\ calls[c].reply \in {"awaited", "checked"}
                \/ calls[c].kind = "create"
        THEN [calls[c] EXCEPT !.mounted = FALSE] ELSE Idle]

\* The row of a tenant shows the newest lease, and links to no other.
Newest(rows, t) ==
    LET mine == {l \in Leases : rows.leases[l] # "none" /\ leases[l].tenant = t}
    IN  {l \in mine : \A k \in mine : k <= l}

Goes(u, view, call, c) ==
    /\ calls[c] = Idle
    /\ calls' = [Abandon(u) EXCEPT ![c] = [call EXCEPT !.needs = Needs(view)]]
    /\ page' = [page EXCEPT ![u] = view]
    /\ seen' = [seen EXCEPT ![u] = NoRows]
    /\ dialog' = IF u = Manager THEN Closed ELSE dialog
    /\ pay' = IF u = Manager THEN pay ELSE [pay EXCEPT ![u] = NoPay]
    /\ UNCHANGED api

OpenPage(u, view, c) ==
    view \in Views(u) \ {page[u]} /\ Goes(u, view, Ask("load", u), c)

\* "Review & sign" and "View" of a row: ManagerLeaseDetail.
OpenLease(t, c) ==
    /\ page[Manager] = "tenants" /\ dialog.is = "closed"
    /\ \E l \in Newest(seen[Manager], t) :
          Goes(Manager, "lease", [Ask("load", Manager) EXCEPT !.lease = l], c)

\* "Invite tenant", "Draft lease" (on the row of a tenant without a lease)
\* and "Add unit": each form starts over when it opens. Bound: no form for a
\* tenant or a unit more than there will ever be.
OpenDialog(is, t) ==
    /\ dialog.is = "closed"
    /\ \/ is = "invite" /\ page[Manager] = "tenants" /\ t = None /\ accounts # Tenants
       \/ /\ is = "draft" /\ page[Manager] = "tenants"
          /\ t \in seen[Manager].tenants /\ Newest(seen[Manager], t) = {}
       \/ /\ is = "unit" /\ page[Manager] = "property" /\ t = None
          /\ \E u \in Units : units[u] = "none"
    /\ dialog' = [Closed EXCEPT !.is = is, !.tenant = t]
    /\ UNCHANGED <<api, page, seen, pay, calls>>

\* Cancel, Escape or the overlay; the list of units is not waited for.
CloseDialog ==
    /\ dialog.is # "closed"
    /\ dialog' = Closed
    /\ calls' = [c \in Calls |-> IF calls[c].kind = "vacant" THEN Idle ELSE calls[c]]
    /\ UNCHANGED <<api, page, seen, pay>>

\* A property is picked: its units are fetched, once.
PickProperty(c) ==
    /\ dialog.is = "draft" /\ ~dialog.submitting /\ dialog.vacant = {}
    /\ \A d \in Calls : calls[d].kind # "vacant"
    /\ Sends(c, Ask("vacant", Manager))
    /\ UNCHANGED <<api, client>>

Submits(c, call) ==
    /\ ~dialog.submitting
    /\ Sends(c, call)
    /\ dialog' = [dialog EXCEPT !.submitting = TRUE]
    /\ UNCHANGED <<api, page, seen, pay>>

SubmitInvite(t, c) ==
    dialog.is = "invite" /\ Submits(c, [Ask("invite", Manager) EXCEPT !.tenant = t])

SubmitUnit(c) == dialog.is = "unit" /\ Submits(c, Ask("unit", Manager))

\* CreateLeaseDialog.handleSubmit
SubmitDraft(u, c) ==
    /\ dialog.is = "draft" /\ u \in dialog.vacant
    /\ Submits(c, [Ask("create", Manager) EXCEPT
                      !.tenant = dialog.tenant, !.unit = u])

\* The form is there until the answer is (and, for a tenant, the receipts).
Signing(u) ==
    \E c \in Calls : /\ calls[c].by = u /\ calls[c].mounted /\ ~calls[c].chained
                     /\ calls[c].kind \in {"sign", "receipts"}

\* handleSign of ManagerLeaseDetail and of TenantLease.
SubmitSignature(u, l, c) ==
    /\ page[u] = "lease" /\ ~Signing(u)
    /\ seen[u].leases[l] = IF u = Manager THEN "draft" ELSE "pending_tenant"
    /\ Sends(c, [Ask("sign", u) EXCEPT !.lease = l])
    /\ UNCHANGED <<api, client>>

\* TenantPayments.openPay; PayRentDialog forgets what it showed before.
OpenPay(t, l) ==
    /\ page[t] = "payments" /\ ~pay[t].open
    /\ seen[t].payments[l] = "pending"
    /\ pay' = [pay EXCEPT ![t] = [NoPay EXCEPT !.open = TRUE, !.lease = l]]
    /\ UNCHANGED <<api, page, seen, dialog, calls>>

ClosePay(t) ==
    /\ pay[t].open
    /\ pay' = [pay EXCEPT ![t] = NoPay]
    /\ UNCHANGED <<api, page, seen, dialog, calls>>

\* PayRentDialog.handleSubmit
SubmitPay(t, c) ==
    /\ pay[t].open /\ ~pay[t].submitting /\ ~pay[t].success
    /\ Sends(c, [Ask("pay", t) EXCEPT !.lease = pay[t].lease])
    /\ pay' = [pay EXCEPT ![t].submitting = TRUE]
    /\ UNCHANGED <<api, page, seen, dialog>>

-----------------------------------------------------------------------------
(* The API *)

Awaiting(c, kind) == calls[c].kind = kind /\ calls[c].reply = "awaited"

Reply(c, call) ==
    calls' = [calls EXCEPT ![c] = IF call.mounted \/ call.kind = "create" THEN call ELSE Idle]

Ok(c) == [calls[c] EXCEPT !.reply = "ok"]

\* A tenant is shown leases and invoices of their own, the manager all of them.
May(u, l) == u = Manager \/ leases[l].tenant = u

LeasesFor(c) ==
    [l \in Leases |-> IF May(calls[c].by, l) /\ calls[c].lease \in {None, l}
                      THEN leases[l].status ELSE "none"]

PaymentsFor(c) ==
    [l \in Leases |-> IF May(calls[c].by, l) THEN payments[l].status ELSE "none"]

\* One of a load's requests is handled; the manager's page takes an empty
\* list for invites it did not get.
HandlePart(c, part) ==
    LET call == [calls[c] EXCEPT !.needs = @ \ {part},
                    !.reply = IF calls[c].needs = {part} THEN "ok" ELSE @]
    IN  /\ Awaiting(c, "load") /\ part \in calls[c].needs
        /\ \/ part = "leases" /\ Reply(c, [call EXCEPT !.rows.leases = LeasesFor(c)])
           \/ part = "payments" /\ Reply(c, [call EXCEPT !.rows.payments = PaymentsFor(c)])
           \/ part = "units" /\ Reply(c, [call EXCEPT !.rows.units = units])
           \/ /\ part = "tenants"
              /\ \E ts \in {accounts, {}} : Reply(c, [call EXCEPT !.rows.tenants = ts])
        /\ UNCHANGED <<api, client>>

HandleUnits(c) ==
    /\ Awaiting(c, "vacant")
    /\ Reply(c, [Ok(c) EXCEPT !.rows.units = units])
    /\ UNCHANGED <<api, client>>

HandleReceipts(c) ==
    /\ Awaiting(c, "receipts")
    /\ Reply(c, Ok(c))
    /\ UNCHANGED <<api, client>>

HandleInvite(c) ==
    LET t == calls[c].tenant IN
    /\ Awaiting(c, "invite")
    /\ t \notin accounts
    /\ accounts' = accounts \cup {t}
    /\ Reply(c, [Ok(c) EXCEPT !.rows.tenants = {t}])
    /\ UNCHANGED <<leases, units, payments, client>>

HandleUnit(c, u) ==
    /\ Awaiting(c, "unit")
    /\ units[u] = "none"
    /\ units' = [units EXCEPT ![u] = "vacant"]
    /\ Reply(c, [Ok(c) EXCEPT !.rows.units[u] = "vacant"])
    /\ UNCHANGED <<leases, payments, accounts, client>>

\* Whether the unit is vacant, or on offer to another tenant, is not asked.
HandleCreate(c, l) ==
    /\ Awaiting(c, "create")
    /\ leases[l].status = "none" /\ \A k \in Leases : k < l => leases[k].status # "none"
    /\ leases' = [leases EXCEPT ![l] =
          [NoLease EXCEPT !.status = "draft", !.tenant = calls[c].tenant,
                          !.unit = calls[c].unit]]
    /\ Reply(c, [Ok(c) EXCEPT !.lease = l, !.rows.leases = Only(l, "draft")])
    /\ UNCHANGED <<units, payments, accounts, client>>

\* Fault: a lease can be signed again.
SignableAgain(l, status) == leases[l].status # "none"

\* What a signature is accepted for.
Signable(l, status) == leases[l].status = status

ManagerSigns(c) ==
    LET l == calls[c].lease IN
    /\ Awaiting(c, "sign") /\ calls[c].by = Manager /\ Signable(l, "draft")
    /\ leases' = [leases EXCEPT ![l].status = "pending_tenant",
                                ![l].signed = @ \cup {"manager"}]
    /\ Reply(c, [Ok(c) EXCEPT !.rows.leases = Only(l, "pending_tenant")])
    /\ UNCHANGED <<units, payments, accounts, client>>

\* The lease becomes active, its unit occupied, and the first invoice is due.
TenantSigns(c) ==
    LET l == calls[c].lease IN
    /\ Awaiting(c, "sign") /\ calls[c].by = leases[l].tenant /\ Signable(l, "pending_tenant")
    /\ leases' = [leases EXCEPT ![l].status = "active", ![l].signed = @ \cup {"tenant"}]
    /\ units' = [units EXCEPT ![leases[l].unit] = "occupied"]
    /\ payments' = [payments EXCEPT ![l] = [status |-> "pending", receipt |-> FALSE]]
    /\ Reply(c, [Ok(c) EXCEPT !.rows.leases = Only(l, "active")])
    /\ UNCHANGED <<accounts, client>>

\* The invoice is there, is the tenant's and is not settled; then the body is
\* awaited.
CheckPay(c) ==
    LET l == calls[c].lease IN
    /\ Awaiting(c, "pay")
    /\ payments[l].status \notin {"none", "paid"} /\ calls[c].by = leases[l].tenant
    /\ calls' = [calls EXCEPT ![c].reply = "checked"]
    /\ UNCHANGED <<api, client>>

\* Fault: a declined attempt starts the invoice over.
SettleAfresh(c, decline) ==
    LET l == calls[c].lease IN
    /\ calls[c].kind = "pay" /\ calls[c].reply = "checked"
    /\ payments' = [payments EXCEPT ![l] =
          [status |-> IF decline THEN "pending" ELSE "paid", receipt |-> ~decline]]
    /\ Reply(c, [calls[c] EXCEPT !.reply = IF decline THEN "declined" ELSE "ok"])
    /\ UNCHANGED <<leases, units, accounts, client>>

\* decline: the body's simulate_failure.
SettlePay(c, decline) ==
    LET l == calls[c].lease IN
    /\ calls[c].kind = "pay" /\ calls[c].reply = "checked"
    /\ IF decline
       THEN /\ payments' = [payments EXCEPT ![l].status = "pending"]
            /\ Reply(c, [calls[c] EXCEPT !.reply = "declined"])
       ELSE /\ payments' = [payments EXCEPT ![l] = [status |-> "paid", receipt |-> TRUE]]
            /\ Reply(c, [Ok(c) EXCEPT !.rows.payments = Only(l, "paid")])
    /\ UNCHANGED <<leases, units, accounts, client>>

\* A call nobody waits for any more does not get through.
Lose(c) ==
    /\ calls[c].kind # "idle" /\ ~calls[c].mounted
    /\ calls' = [calls EXCEPT ![c] = Idle]
    /\ UNCHANGED <<api, client>>

-----------------------------------------------------------------------------
(* A page gets an answer: ok, or an error, because the call was refused or  *)
(* the network failed before or after it was handled.                       *)

Answered(c, kinds, ok) ==
    /\ calls[c].kind \in kinds /\ (ok => calls[c].reply = "ok")
    /\ calls[c].mounted \/ (ok /\ calls[c].kind = "create")

Then(c, call) == calls' = [calls EXCEPT ![c] = call]

First(ls, statuses) ==
    LET in == {l \in Leases : ls[l] \in statuses}
    IN  {l \in in : \A k \in in : l <= k}

\* The one lease of TenantLease: the one to sign, or the active one, or the
\* oldest.
Lease(ls) ==
    LET pending == First(ls, {"pending_tenant"})
        active == First(ls, {"active"})
        chosen == IF pending # {} THEN pending
                  ELSE IF active # {} THEN active ELSE First(ls, LeaseStatus \ {"none"})
    IN  [l \in Leases |-> IF l \in chosen THEN ls[l] ELSE "none"]

GotLoad(c, ok) ==
    LET u == calls[c].by IN
    /\ Answered(c, {"load"}, ok)
    /\ seen' = IF ~ok THEN seen
               ELSE [seen EXCEPT ![u] =
                       IF u = Manager THEN calls[c].rows
                       ELSE [calls[c].rows EXCEPT !.leases = Lease(@)]]
    /\ Then(c, Idle)
    /\ UNCHANGED <<api, page, dialog, pay>>

\* vacantUnits
GotVacant(c, ok) ==
    /\ Answered(c, {"vacant"}, ok)
    /\ dialog' = IF ~ok THEN dialog
                 ELSE [dialog EXCEPT !.vacant =
                          {u \in Units : calls[c].rows.units[u] = "vacant"}]
    /\ Then(c, Idle)
    /\ UNCHANGED <<api, page, seen, pay>>

\* The dialog of that kind closes, or takes the error, whomever it is open
\* for by now.
DialogAfter(is, ok) ==
    IF dialog.is # is THEN dialog
    ELSE IF ok THEN Closed ELSE [dialog EXCEPT !.submitting = FALSE]

GotInvited(c, ok) ==
    /\ Answered(c, {"invite"}, ok)
    /\ seen' = IF ok THEN [seen EXCEPT ![Manager].tenants = @ \cup calls[c].rows.tenants]
               ELSE seen
    /\ dialog' = DialogAfter("invite", ok)
    /\ Then(c, Idle)
    /\ UNCHANGED <<api, page, pay>>

GotUnit(c, ok) ==
    /\ Answered(c, {"unit"}, ok)
    /\ seen' = IF ~ok THEN seen
               ELSE [seen EXCEPT ![Manager].units = [u \in Units |->
                        IF calls[c].rows.units[u] # "none" THEN calls[c].rows.units[u] ELSE @[u]]]
    /\ dialog' = DialogAfter("unit", ok)
    /\ Then(c, Idle)
    /\ UNCHANGED <<api, page, pay>>

\* A draft is over: onCreated, or an error the dialog shows if it is open.
Drafted(c, ok) ==
    /\ seen' = IF ok THEN [seen EXCEPT ![Manager].leases[calls[c].lease] =
                              calls[c].rows.leases[calls[c].lease]]
               ELSE seen
    /\ dialog' = DialogAfter("draft", ok)
    /\ Then(c, Idle)

\* sign: "counter-sign now" was ticked.
GotCreated(c, ok, sign) ==
    /\ Answered(c, {"create"}, ok)
    /\ IF ok /\ sign
       THEN /\ Then(c, [Ask("sign", Manager) EXCEPT !.lease = calls[c].lease,
                           !.chained = TRUE, !.mounted = calls[c].mounted])
            /\ UNCHANGED <<seen, dialog>>
       ELSE IF calls[c].mounted THEN Drafted(c, ok)
       ELSE Then(c, Idle) /\ UNCHANGED <<seen, dialog>>
    /\ UNCHANGED <<api, page, pay>>

GotSigned(c, ok) ==
    LET u == calls[c].by IN
    /\ Answered(c, {"sign"}, ok)
    /\ IF calls[c].chained THEN Drafted(c, ok)
       ELSE /\ seen' = IF ok THEN [seen EXCEPT ![u].leases = calls[c].rows.leases] ELSE seen
            /\ Then(c, IF ok /\ u # Manager THEN Ask("receipts", u) ELSE Idle)
            /\ UNCHANGED dialog
    /\ UNCHANGED <<api, page, pay>>

GotReceipts(c, ok) ==
    /\ Answered(c, {"receipts"}, ok)
    /\ Then(c, Idle)
    /\ UNCHANGED <<api, client>>

\* Fault: the row is shown as paid whatever the answer.
PaidAnyway(c, ok) ==
    LET t == calls[c].by  l == calls[c].lease IN
    /\ Answered(c, {"pay"}, ok)
    /\ seen' = IF seen[t].payments[l] # "none"
               THEN [seen EXCEPT ![t].payments[l] = "paid"] ELSE seen
    /\ pay' = [pay EXCEPT ![t].submitting = FALSE]
    /\ Then(c, Idle)
    /\ UNCHANGED <<api, page, dialog>>

\* A dialog open by now shows the answer, whichever invoice it is open for.
GotPaid(c, ok) ==
    LET t == calls[c].by  l == calls[c].lease IN
    /\ Answered(c, {"pay"}, ok)
    /\ seen' = IF ok /\ seen[t].payments[l] # "none"
               THEN [seen EXCEPT ![t].payments[l] = calls[c].rows.payments[l]] ELSE seen
    /\ pay' = IF pay[t].open
              THEN [pay EXCEPT ![t].submitting = FALSE, ![t].success = @ \/ ok] ELSE pay
    /\ Then(c, Idle)
    /\ UNCHANGED <<api, page, dialog>>

-----------------------------------------------------------------------------
ManagerStep(c) ==
    \/ PickProperty(c) \/ SubmitUnit(c)
    \/ \E t \in Tenants : OpenLease(t, c) \/ SubmitInvite(t, c)
    \/ \E u \in Units : SubmitDraft(u, c)

TenantStep(t) ==
    \/ \E l \in Leases : OpenPay(t, l)
    \/ ClosePay(t)
    \/ \E c \in Calls : SubmitPay(t, c)

Handle(c) ==
    \/ \E part \in {"leases", "payments", "units", "tenants"} : HandlePart(c, part)
    \/ HandleUnits(c) \/ HandleReceipts(c) \/ HandleInvite(c)
    \/ \E u \in Units : HandleUnit(c, u)
    \/ \E l \in Leases : HandleCreate(c, l)
    \/ ManagerSigns(c) \/ TenantSigns(c) \/ CheckPay(c) \/ Lose(c)
    \/ \E decline \in BOOLEAN : SettlePay(c, decline)

Get(c, ok) ==
    \/ GotLoad(c, ok) \/ GotVacant(c, ok) \/ GotInvited(c, ok) \/ GotUnit(c, ok)
    \/ \E sign \in BOOLEAN : GotCreated(c, ok, sign)
    \/ GotSigned(c, ok) \/ GotReceipts(c, ok) \/ GotPaid(c, ok)

Next ==
    \/ CloseDialog
    \/ \E is \in {"invite", "draft", "unit"}, t \in Tenants \cup {None} : OpenDialog(is, t)
    \/ \E t \in Tenants : TenantStep(t)
    \/ \E c \in Calls :
          \/ \E u \in Users, view \in View : OpenPage(u, view, c)
          \/ \E u \in Users, l \in Leases : SubmitSignature(u, l, c)
          \/ ManagerStep(c) \/ Handle(c)
          \/ \E ok \in BOOLEAN : Get(c, ok)

Spec == Init /\ [][Next]_vars

-----------------------------------------------------------------------------
TypeOK ==
    /\ leases \in [Leases -> LeaseRow]
    /\ units \in [Units -> UnitStatus]
    /\ payments \in [Leases -> PaymentRow]
    /\ accounts \subseteq Tenants
    /\ page \in [Users -> View]
    /\ seen \in [Users -> Rows]
    /\ dialog \in Dialog
    /\ pay \in [Tenants -> Pay]
    /\ calls \in [Calls -> Call]

(***************************************************************************)
(* A lease in force has everything that makes it one, whatever is sent     *)
(* twice, late or in vain: both signatures and an invoice; what the tenant *)
(* has not signed has no invoice, and a unit is occupied exactly when a    *)
(* lease in force says so (mocks/handlers.js:424 "draft -> manager signs   *)
(* -> pending_tenant -> tenant signs -> active").                          *)
(***************************************************************************)
LeasesAreComplete ==
    /\ \A l \in Leases :
          /\ leases[l].status = "active" <=> "tenant" \in leases[l].signed
          /\ leases[l].status \in {"pending_tenant", "active"} <=> "manager" \in leases[l].signed
          /\ leases[l].status = "active" <=> payments[l].status # "none"
    /\ \A u \in Units :
          units[u] = "occupied" <=>
             \E l \in Leases : leases[l].status = "active" /\ leases[l].unit = u

(***************************************************************************)
(* What was signed stays signed, for the same tenant and unit, and what    *)
(* was paid keeps its receipt: signatures and payments are sent from rows  *)
(* that may be old, and again after an answer that was lost.               *)
(***************************************************************************)
SignaturesStand ==
    [][\A l \in Leases :
          /\ leases[l].status # "none" =>
                /\ leases'[l].tenant = leases[l].tenant
                /\ leases'[l].unit = leases[l].unit
                /\ leases[l].signed \subseteq leases'[l].signed
                /\ leases[l].status = "active" => leases'[l].status = "active"
          /\ payments[l].receipt => payments'[l].receipt]_api

(***************************************************************************)
(* Pages lag behind the API and are never ahead of it: the status a page   *)
(* shows of a lease has been reached, an invoice it shows as paid has a    *)
(* receipt, a unit it shows as occupied is; and so has what is on its way  *)
(* to a page, in parts that were read at different times.                  *)
(***************************************************************************)
Rank == [none |-> 0, draft |-> 1, pending_tenant |-> 2, active |-> 3]

Reached(rows) ==
    /\ \A l \in Leases :
          /\ Rank[rows.leases[l]] <= Rank[leases[l].status]
          /\ rows.payments[l] # "none" => leases[l].status = "active"
          /\ rows.payments[l] = "paid" => payments[l].receipt
    /\ \A u \in Units : /\ rows.units[u] = "occupied" => units[u] = "occupied"
                        /\ rows.units[u] # "none" => units[u] # "none"
    /\ rows.tenants \subseteq accounts

PagesLag ==
    /\ \A u \in Users : Reached(seen[u])
    /\ \A c \in Calls : Reached(calls[c].rows)
    /\ \A t \in Tenants : seen[t].leases # NoRows.leases =>
          \A l \in Leases : seen[t].leases[l] # "none" => leases[l].tenant = t
=============================================================================
