------------------------------ MODULE Tickets ------------------------------
(***************************************************************************)
(* Maintenance requests: the API's handlers (frontend/src/mocks/           *)
(* handlers.js, which the pages are written against) and the pages of one  *)
(* tenant and one or more managers, each signed in in a browser of its     *)
(* own. Every page works on rows it fetched earlier; a call is sent,       *)
(* handled and answered in three steps, so calls of one or several pages   *)
(* overlap, and a call may fail before or after it was handled.            *)
(*                                                                         *)
(* Titles, descriptions, priorities, dates, toasts and the filters by text *)
(* and property are left out; `escalated` is read only by filters and      *)
(* no page writes it, so it is a constant of the seed. That a tenant must  *)
(* have an active lease is left open.                                      *)
(***************************************************************************)
EXTENDS Naturals, FiniteSets, Sequences

CONSTANTS Tenants, Managers,   \* the users at a browser, by role
          Technicians,         \* accounts with the role manager, all who may
                               \* hold a ticket (the dialog's assignees)
          Tickets,             \* request_id values
          Seed,                \* the rows of mocks/db.js, status "none": unused
          Escalated,           \* the tickets the seed escalates
          Calls,               \* fetch() calls that may be in flight together
          None

Users == Tenants \cup Managers

VARIABLES
    requests,  \* db.maintenance_requests
    told,      \* told[t]: maintenance_status_changed notifications for t
    page,      \* page[u]: the route u is on and what it shows
    rows,      \* rows[u][t]: the row of t in u's page, None when not there
    dialog,    \* dialog[u]: AssignMaintenanceDialog
    calls      \* the calls in flight

vars == <<requests, told, page, rows, dialog, calls>>

L == INSTANCE TicketLifecycle WITH
        phase <- [t \in Tickets |-> requests[t].status], told <- told

-----------------------------------------------------------------------------
(* The API *)

\* Fault: a status misspelt in the table.
MistypedTransitions ==
    [none |-> {}, submitted |-> {"assigned", "canceled"},
     assigned |-> {"in_progress"}, in_progress |-> {"completed"},
     completed |-> {"closed"}, closed |-> {}, cancelled |-> {}]

\* Fault: completed work may be taken up again.
ReopenTransitions ==
    [none |-> {}, submitted |-> {"assigned", "cancelled"},
     assigned |-> {"in_progress", "cancelled"},
     in_progress |-> {"completed", "cancelled"},
     completed |-> {"closed", "in_progress"}, closed |-> {}, cancelled |-> {}]

MAINT_TRANSITIONS ==
    [none |-> {}, submitted |-> {"assigned", "cancelled"},
     assigned |-> {"in_progress", "cancelled"},
     in_progress |-> {"completed", "cancelled"},
     completed |-> {"closed"}, closed |-> {}, cancelled |-> {}]

eventToStatus ==
    [assign |-> "assigned", start |-> "in_progress", complete |-> "completed",
     close |-> "closed", cancel |-> "cancelled"]

Event == DOMAIN eventToStatus

ASSUME NoneAssumption == None \notin Event

RequestRow == [status : L!Status \cup {"none"},
               assigned_to : Technicians \cup {None}, tenant : Tenants \cup {None}]

ASSUME SeedAssumption ==
    /\ Seed \in [Tickets -> RequestRow]
    /\ \A t \in Tickets :
          Seed[t].status \in {"assigned", "in_progress", "completed", "closed"}
              => Seed[t].assigned_to # None

\* Fault: every other status is offered.
OfferAll(r) ==
    [status |-> r.status, assigned_to |-> r.assigned_to,
     valid_transitions |-> L!Status \ {r.status}]

\* What the API returns for a row: also the statuses it may move to.
expandMaintenance(r) ==
    [status |-> r.status, assigned_to |-> r.assigned_to,
     valid_transitions |-> MAINT_TRANSITIONS[r.status]]

Row == [status : L!Status \cup {"none"}, assigned_to : Technicians \cup {None},
        valid_transitions : SUBSET L!Status]

NoRow == [status |-> "none", assigned_to |-> None, valid_transitions |-> {}]

NoRows == [t \in Tickets |-> NoRow]

\* What a call comes back with: rows, an error status, or no answer at all.
Reply == [is : {"awaited", "rows", "refused", "failed"}, rows : [Tickets -> Row]]

Awaited == [is |-> "awaited", rows |-> NoRows]
Refused == [is |-> "refused", rows |-> NoRows]
Failed == [is |-> "failed", rows |-> NoRows]
Rows(rs) == [is |-> "rows", rows |-> rs]

Only(t, row) == Rows([s \in Tickets |-> IF s = t THEN row ELSE NoRow])

GetList(u) ==
    Rows([t \in Tickets |->
             IF u \in Tenants => requests[t].tenant = u
             THEN expandMaintenance(requests[t]) ELSE NoRow])

GetOne(t) == IF requests[t].status = "none" THEN Refused
             ELSE Only(t, expandMaintenance(requests[t]))

\* PUT's body: an event (None: no change of status), an assignee (None: absent).
Target(body) == IF body.event = None THEN None ELSE eventToStatus[body.event]

\* Fault: the transition is not checked.
PutAny(t, body) == requests[t].status # "none"

PutAllowed(t, body) ==
    /\ requests[t].status # "none"
    /\ Target(body) # None =>
          Target(body) \in MAINT_TRANSITIONS[requests[t].status]

\* Fault: a body without an assignee clears it.
OverwriteRow(t, body) ==
    [requests[t] EXCEPT
        !.status = IF Target(body) = None THEN @ ELSE Target(body),
        !.assigned_to = body.assigned_to]

PutRow(t, body) ==
    [requests[t] EXCEPT
        !.status = IF Target(body) = None THEN @ ELSE Target(body),
        !.assigned_to = IF body.assigned_to = None THEN @ ELSE body.assigned_to]

-----------------------------------------------------------------------------
(* Calls. by: the user whose page sent it. mounted: that page is still     *)
(* there. held: so is the component that waits for the answer. seen: the   *)
(* status on the row that was acted on. reply: awaited until handled.      *)

Body == [event : Event \cup {None}, assigned_to : Technicians \cup {None}]

Call ==
    [kind : {"idle", "list", "get", "post", "put", "assign"},
     by : Users \cup {None}, ticket : Tickets \cup {None}, body : Body,
     seen : L!Status \cup {"none"}, mounted : BOOLEAN, held : BOOLEAN,
     reply : Reply]

NoBody == [event |-> None, assigned_to |-> None]

Idle == [kind |-> "idle", by |-> None, ticket |-> None, body |-> NoBody,
         seen |-> "none", mounted |-> FALSE, held |-> FALSE, reply |-> Awaited]

Ask(kind, u, t, body, seen) ==
    [kind |-> kind, by |-> u, ticket |-> t, body |-> body, seen |-> seen,
     mounted |-> TRUE, held |-> TRUE, reply |-> Awaited]

Pending(c, u) == calls[c].kind # "idle" /\ calls[c].by = u /\ calls[c].mounted

\* TransitionActions of row t, or the tenant's Cancel button, awaits an answer.
Acting(u, t) ==
    \E c \in Calls : Pending(c, u) /\ calls[c].kind = "put"
                        /\ calls[c].ticket = t /\ calls[c].held

Send(c, call) == calls[c] = Idle /\ calls' = [calls EXCEPT ![c] = call]

-----------------------------------------------------------------------------
(* Pages. TenantMaintenance and ManagerMaintenance are "list",             *)
(* TenantMaintenanceNew is "new", the two detail pages are "detail".       *)

TABS == {"open", "escalated", "unassigned", "closed", "all"}

Page == [view : {"away", "list", "new", "detail"}, of : Tickets \cup {None},
         load : {"loading", "ready", "error"}, tab : TABS]

Away == [view |-> "away", of |-> None, load |-> "ready", tab |-> "open"]

Dialog == [open : BOOLEAN, of : Tickets \cup {None}, row : Row,
           selected : Technicians \cup {None}, submitting : BOOLEAN]

Closed == [open |-> FALSE, of |-> None, row |-> NoRow, selected |-> None,
           submitting |-> FALSE]

\* The rows the list's tab lets through.
InTab(t, row, tab) ==
    CASE tab = "open" -> L!isOpen(row.status)
      [] tab = "closed" -> ~L!isOpen(row.status)
      [] tab = "escalated" -> t \in Escalated /\ ~L!isTerminal(row.status)
      [] tab = "unassigned" -> row.status = "submitted"
      [] tab = "all" -> TRUE

Filtered(rs, tab) == {t \in Tickets : rs[t].status # "none" /\ InTab(t, rs[t], tab)}

\* The rows of a page that are on screen.
OnScreen(p, rs) ==
    IF p.load # "ready" THEN {}
    ELSE IF p.view = "list" THEN Filtered(rs, p.tab)
    ELSE {t \in Tickets : rs[t].status # "none"}

Shown(u) == OnScreen(page[u], rows[u])

\* TransitionActions of a row that leaves the tab is unmounted with its state.
Unmount(cs, u, left) ==
    [c \in Calls |->
        IF cs[c].kind = "put" /\ cs[c].by = u /\ cs[c].ticket \in left
        THEN [cs[c] EXCEPT !.held = FALSE] ELSE cs[c]]

\* Leaving a page: nobody waits for its calls any more. A write that has not
\* been handled yet still will be; of the others nothing is left to see.
Abandon(cs, u) ==
    [c \in Calls |->
        IF cs[c].by # u THEN cs[c]
        ELSE IF cs[c].kind \in {"list", "get"} \/ cs[c].reply.is # "awaited" THEN Idle
        ELSE [cs[c] EXCEPT !.mounted = FALSE, !.held = FALSE]]

Go(u, view, t) ==
    /\ page' = [page EXCEPT ![u] =
          [view |-> view, of |-> t, tab |-> "open",
           load |-> IF view \in {"list", "detail"} THEN "loading" ELSE "ready"]]
    /\ rows' = [rows EXCEPT ![u] = NoRows]
    /\ dialog' = [dialog EXCEPT ![u] = Closed]

-----------------------------------------------------------------------------
Init ==
    /\ requests = Seed
    /\ told = [t \in Tickets |-> 0]
    /\ page = [u \in Users |-> Away]
    /\ rows = [u \in Users |-> NoRows]
    /\ dialog = [u \in Users |-> Closed]
    /\ calls = [c \in Calls |-> Idle]

\* The effect of a list or a detail page: mount, then fetch.
OpenPage(u, view, t, c) ==
    /\ view = "list" <=> t = None
    /\ Go(u, view, t)
    /\ calls[c] = Idle
    /\ calls' = [Abandon(calls, u) EXCEPT
          ![c] = Ask(IF view = "list" THEN "list" ELSE "get", u, t, NoBody, "none")]
    /\ UNCHANGED <<requests, told>>

\* TenantMaintenanceNew: the form.
OpenForm(u) ==
    /\ u \in Tenants /\ page[u].view # "new"
    /\ Go(u, "new", None)
    /\ calls' = Abandon(calls, u)
    /\ UNCHANGED <<requests, told>>

\* The tenant's list has tabs too, but no buttons they could hide.
SwitchTab(u, tab) ==
    /\ u \in Managers
    /\ page[u].view = "list" /\ ~dialog[u].open
    /\ page[u].tab # tab
    /\ page' = [page EXCEPT ![u].tab = tab]
    /\ calls' = Unmount(calls, u, Tickets \ Filtered(rows[u], tab))
    /\ UNCHANGED <<requests, told, rows, dialog>>

\* TenantMaintenanceNew.handleSubmit
SubmitRequest(u, c) ==
    /\ page[u].view = "new"
    /\ ~\E d \in Calls : Pending(d, u)
    /\ Send(c, Ask("post", u, None, NoBody, "none"))
    /\ UNCHANGED <<requests, told, page, rows, dialog>>

\* TransitionActions.handleClick: one button per valid transition of the row.
\* Queue rows hide Cancel; the tenant's page has Cancel only. The dialog is
\* modal: while it is open the buttons behind it cannot be pressed.
ClickTransition(u, t, event, c) ==
    /\ t \in Shown(u) /\ ~Acting(u, t) /\ ~dialog[u].open
    /\ eventToStatus[event] \in rows[u][t].valid_transitions
    /\ event # "assign"
    /\ u \in Managers => ~(page[u].view = "list" /\ event = "cancel")
    /\ u \in Tenants => page[u].view = "detail" /\ event = "cancel"
    /\ Send(c, Ask("put", u, t, [event |-> event, assigned_to |-> None],
                   rows[u][t].status))
    /\ UNCHANGED <<requests, told, page, rows, dialog>>

\* "Assign" of TransitionActions, or "Reassign" of ManagerMaintenanceDetail.
OpenAssign(u, t) ==
    /\ u \in Managers
    /\ t \in Shown(u)
    /\ ~dialog[u].open
    /\ \/ "assigned" \in rows[u][t].valid_transitions /\ ~Acting(u, t)
       \/ /\ page[u].view = "detail"
          /\ rows[u][t].assigned_to # None /\ rows[u][t].status # "closed"
    /\ dialog' = [dialog EXCEPT ![u] =
          [open |-> TRUE, of |-> t, row |-> rows[u][t],
           selected |-> rows[u][t].assigned_to, submitting |-> FALSE]]
    /\ UNCHANGED <<requests, told, page, rows, calls>>

PickAssignee(u, m) ==
    /\ dialog[u].open
    /\ dialog[u].selected # m
    /\ dialog' = [dialog EXCEPT ![u].selected = m]
    /\ UNCHANGED <<requests, told, page, rows, calls>>

\* The overlay and Escape close the dialog even while it is submitting.
CloseAssign(u) ==
    /\ dialog[u].open
    /\ dialog' = [dialog EXCEPT ![u] = Closed]
    /\ UNCHANGED <<requests, told, page, rows, calls>>

isReassigning(u) == dialog[u].row.status # "submitted"

\* AssignMaintenanceDialog.handleSubmit: reassigning sends no event.
SubmitAssign(u, c) ==
    /\ dialog[u].open /\ dialog[u].selected # None /\ ~dialog[u].submitting
    /\ Send(c, Ask("assign", u, dialog[u].of,
                   [event |-> IF isReassigning(u) THEN None ELSE "assign",
                    assigned_to |-> dialog[u].selected],
                   dialog[u].row.status))
    /\ dialog' = [dialog EXCEPT ![u].submitting = TRUE]
    /\ UNCHANGED <<requests, told, page, rows>>

-----------------------------------------------------------------------------
(* The API handles a call *)

Awaiting(c) == calls[c].kind # "idle" /\ calls[c].reply.is = "awaited"

\* An answer nobody waits for is dropped.
Answer(c, reply) ==
    calls' = [calls EXCEPT ![c] =
                IF @.mounted THEN [@ EXCEPT !.reply = reply] ELSE Idle]

HandleRead(c) ==
    /\ Awaiting(c)
    /\ \/ calls[c].kind = "list" /\ Answer(c, GetList(calls[c].by))
       \/ calls[c].kind = "get" /\ Answer(c, GetOne(calls[c].ticket))
    /\ UNCHANGED <<requests, told, page, rows, dialog>>

HandlePost(c, t) ==
    /\ Awaiting(c) /\ calls[c].kind = "post"
    /\ requests[t].status = "none"
    /\ requests' = [requests EXCEPT ![t] =
          [status |-> "submitted", assigned_to |-> None, tenant |-> calls[c].by]]
    /\ Answer(c, Only(t, expandMaintenance(requests'[t])))
    /\ UNCHANGED <<told, page, rows, dialog>>

HandlePut(c) ==
    LET t == calls[c].ticket  body == calls[c].body IN
    /\ Awaiting(c) /\ calls[c].kind \in {"put", "assign"}
    /\ PutAllowed(t, body)
    /\ requests' = [requests EXCEPT ![t] = PutRow(t, body)]
    /\ told' = IF Target(body) = None THEN told ELSE [told EXCEPT ![t] = @ + 1]
    /\ Answer(c, Only(t, expandMaintenance(requests'[t])))
    /\ UNCHANGED <<page, rows, dialog>>

\* 400 for a tenant without an active lease (leases are not in this module:
\* either may be the case), 404 or 409 for a request that cannot move.
Refuse(c) ==
    /\ Awaiting(c)
    /\ \/ calls[c].kind = "post"
       \/ /\ calls[c].kind \in {"put", "assign"}
          /\ ~PutAllowed(calls[c].ticket, calls[c].body)
    /\ Answer(c, Refused)
    /\ UNCHANGED <<requests, told, page, rows, dialog>>

\* The network fails, before or after the handler ran.
LoseCall(c) ==
    /\ calls[c].kind # "idle" /\ calls[c].reply.is # "failed"
    /\ Answer(c, Failed)
    /\ UNCHANGED <<requests, told, page, rows, dialog>>

-----------------------------------------------------------------------------
(* A page gets an answer *)

Answered(c) == calls[c].mounted /\ calls[c].reply.is # "awaited"

HasRows(c) == calls[c].reply.is = "rows"

\* setRequests / setRequest with one new row. The dialog of a detail page
\* shows the page's row, and starts over when its assignee changes.
ShowRow(u, t, row) ==
    /\ rows' = [rows EXCEPT ![u][t] = row]
    /\ dialog' = [dialog EXCEPT ![u] =
          IF ~@.open \/ page[u].view = "list" THEN @
          ELSE IF @.row.assigned_to = row.assigned_to THEN [@ EXCEPT !.row = row]
          ELSE [@ EXCEPT !.row = row, !.selected = row.assigned_to,
                         !.submitting = FALSE]]

Done(c) == [calls EXCEPT ![c] = Idle]

GetsPage(c) ==
    LET u == calls[c].by IN
    /\ Answered(c) /\ calls[c].kind \in {"list", "get"}
    /\ page' = [page EXCEPT ![u].load = IF HasRows(c) THEN "ready" ELSE "error"]
    /\ rows' = IF HasRows(c) THEN [rows EXCEPT ![u] = calls[c].reply.rows] ELSE rows
    /\ calls' = Done(c)
    /\ UNCHANGED <<requests, told, dialog>>

\* A new request is shown on its own page; a refused one leaves the form.
GetsSubmitted(c) ==
    /\ Answered(c) /\ calls[c].kind = "post"
    /\ \/ \E t \in Tickets :
             /\ HasRows(c) /\ calls[c].reply.rows[t].status # "none"
             /\ Go(calls[c].by, "detail", t)
             /\ calls' = [calls EXCEPT ![c] =
                            Ask("get", calls[c].by, t, NoBody, "none")]
       \/ /\ ~HasRows(c)
          /\ calls' = Done(c)
          /\ UNCHANGED <<page, rows, dialog>>
    /\ UNCHANGED <<requests, told>>

GetsMoved(c) ==
    LET u == calls[c].by  t == calls[c].ticket IN
    /\ Answered(c) /\ calls[c].kind = "put"
    /\ UNCHANGED <<requests, told, page>>
    /\ IF HasRows(c)
       THEN /\ ShowRow(u, t, calls[c].reply.rows[t])
            /\ calls' = Unmount(Done(c), u, {t} \ OnScreen(page[u], rows'[u]))
       ELSE calls' = Done(c) /\ UNCHANGED <<rows, dialog>>

\* The dialog closes, whichever ticket it is open for by now.
GetsAssigned(c) ==
    LET u == calls[c].by  t == calls[c].ticket IN
    /\ Answered(c) /\ calls[c].kind = "assign"
    /\ UNCHANGED <<requests, told, page>>
    /\ IF HasRows(c)
       THEN /\ rows' = [rows EXCEPT ![u][t] = calls[c].reply.rows[t]]
            /\ dialog' = [dialog EXCEPT ![u] = Closed]
            /\ calls' = Unmount(Done(c), u, {t} \ OnScreen(page[u], rows'[u]))
       ELSE /\ dialog' = [dialog EXCEPT ![u] =
                  IF @.open THEN [@ EXCEPT !.submitting = FALSE] ELSE @]
            /\ calls' = Done(c)
            /\ UNCHANGED rows

-----------------------------------------------------------------------------
PageStep(u) ==
    \/ \E c \in Calls :
          \/ OpenPage(u, "list", None, c)
          \/ SubmitRequest(u, c)
          \/ SubmitAssign(u, c)
          \/ \E t \in Tickets :
                \/ OpenPage(u, "detail", t, c)
                \/ \E event \in Event : ClickTransition(u, t, event, c)
    \/ OpenForm(u)
    \/ \E tab \in TABS : SwitchTab(u, tab)
    \/ \E t \in Tickets : OpenAssign(u, t)
    \/ \E m \in Technicians : PickAssignee(u, m)
    \/ CloseAssign(u)

CallStep(c) ==
    \/ HandleRead(c) \/ (\E t \in Tickets : HandlePost(c, t))
    \/ HandlePut(c) \/ Refuse(c) \/ LoseCall(c)
    \/ GetsPage(c) \/ GetsSubmitted(c) \/ GetsMoved(c) \/ GetsAssigned(c)

Next == (\E u \in Users : PageStep(u)) \/ (\E c \in Calls : CallStep(c))

Spec == Init /\ [][Next]_vars

-----------------------------------------------------------------------------
TypeOK ==
    /\ requests \in [Tickets -> RequestRow]
    /\ told \in [Tickets -> Nat]
    /\ page \in [Users -> Page]
    /\ rows \in [Users -> [Tickets -> Row]]
    /\ dialog \in [Users -> Dialog]
    /\ calls \in [Calls -> Call]

(***************************************************************************)
(* Work never starts on a request nobody holds: once it is assigned, in    *)
(* progress, completed or closed it has an assignee. The PUT handler does  *)
(* not ask for one (handlers.js:766); only the pages see to it, by sending *)
(* "assign" from the dialog alone and reassigning without an event.        *)
(***************************************************************************)
HasAssignee ==
    \A t \in Tickets :
        requests[t].status \notin {"none", "submitted", "cancelled"}
            => requests[t].assigned_to # None

\* The statuses a request with this status may still reach.
Reach(status) ==
    CASE status = "none" -> L!Status \cup {"none"}
      [] status = "submitted" -> L!Status
      [] status = "assigned" -> L!Status \ {"submitted"}
      [] status = "in_progress" -> {"in_progress", "completed", "closed", "cancelled"}
      [] status = "completed" -> {"completed", "closed"}
      [] OTHER -> {status}

(***************************************************************************)
(* A page may be behind the API but never ahead of it, whatever the order  *)
(* of the answers: from the status on a row, in an answer under way or in  *)
(* the dialog the request can have come to the one it has.                 *)
(***************************************************************************)
RowsLag ==
    /\ \A u \in Users, t \in Tickets : rows[u][t].status # "none" =>
          requests[t].status \in Reach(rows[u][t].status)
    /\ \A c \in Calls, t \in Tickets :
          calls[c].reply.rows[t].status # "none" =>
             requests[t].status \in Reach(calls[c].reply.rows[t].status)
    /\ \A u \in Users : dialog[u].open =>
          requests[dialog[u].of].status \in Reach(dialog[u].row.status)

(***************************************************************************)
(* A button that a page offers is refused (409) only when the request has  *)
(* moved since the page's row was read: never for a row that is current.   *)
(***************************************************************************)
RefusedMeansMoved ==
    \A c \in Calls :
        (/\ calls[c].kind \in {"put", "assign"} /\ calls[c].reply.is = "refused")
            => requests[calls[c].ticket].status # calls[c].seen

(***************************************************************************)
(* The API and the pages together implement the lifecycle of               *)
(* TicketLifecycle: no overlap of calls, stale page or lost answer skips   *)
(* or repeats a step, revives an ended request, or leaves its tenant       *)
(* untold.                                                                 *)
(***************************************************************************)
Lifecycle == L!Spec
=============================================================================
