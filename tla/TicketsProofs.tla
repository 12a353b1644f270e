---------------------------- MODULE TicketsProofs ----------------------------
(***************************************************************************)
(* Proofs about Tickets, for any sets of users, requests and calls and any *)
(* rows to start with: the types, that work never starts on a request      *)
(* nobody holds, that the API implements TicketLifecycle, that no page is  *)
(* ahead of the API, and that a refused button was old.                    *)
(***************************************************************************)
EXTENDS Tickets, TLAPS

-----------------------------------------------------------------------------
(* The tables of the API *)

LEMMA StatusIs ==
    L!Status = {"submitted", "assigned", "in_progress", "completed", "closed", "cancelled"}
<1> DEFINE Steps == <<"submitted", "assigned", "in_progress", "completed", "closed">>
<1>1. /\ Steps[1] = "submitted" /\ Steps[2] = "assigned" /\ Steps[3] = "in_progress"
      /\ Steps[4] = "completed" /\ Steps[5] = "closed"
  OBVIOUS
<1>2. L!LIFECYCLE_STEPS = Steps
  BY DEF L!LIFECYCLE_STEPS
<1> HIDE DEF Steps
<1>3. {Steps[i] : i \in 1 .. 5} = {Steps[1], Steps[2], Steps[3], Steps[4], Steps[5]}
  OBVIOUS
<1> QED
  BY <1>1, <1>2, <1>3 DEF L!Status

LEMMA TransitionsAre ==
    /\ MAINT_TRANSITIONS["none"] = {}
    /\ MAINT_TRANSITIONS["submitted"] = {"assigned", "cancelled"}
    /\ MAINT_TRANSITIONS["assigned"] = {"in_progress", "cancelled"}
    /\ MAINT_TRANSITIONS["in_progress"] = {"completed", "cancelled"}
    /\ MAINT_TRANSITIONS["completed"] = {"closed"}
    /\ MAINT_TRANSITIONS["closed"] = {} /\ MAINT_TRANSITIONS["cancelled"] = {}
BY DEF MAINT_TRANSITIONS

LEMMA EventsAre ==
    /\ Event = {"assign", "start", "complete", "close", "cancel"}
    /\ eventToStatus["assign"] = "assigned" /\ eventToStatus["start"] = "in_progress"
    /\ eventToStatus["complete"] = "completed" /\ eventToStatus["close"] = "closed"
    /\ eventToStatus["cancel"] = "cancelled"
BY DEF Event, eventToStatus

\* What the API returns for a row is one a page can hold.
LEMMA Expanded == \A r \in RequestRow : expandMaintenance(r) \in Row
<1> SUFFICES ASSUME NEW r \in RequestRow PROVE expandMaintenance(r) \in Row
  OBVIOUS
<1>1. r.status \in L!Status \cup {"none"} /\ r.assigned_to \in Technicians \cup {None}
  BY DEF RequestRow
<1>2. MAINT_TRANSITIONS[r.status] \subseteq L!Status
  BY <1>1, StatusIs, TransitionsAre
<1> QED
  BY <1>1, <1>2 DEF expandMaintenance, Row

-----------------------------------------------------------------------------
(* Types. A call that is on its way names what its handler reads, and one   *)
(* that assigns names somebody; a dialog that is open names its request;    *)
(* only tenants are on the form.                                            *)

SoundCall ==
    {r \in Call : /\ r.kind # "idle" => r.by \in Users
                  /\ r.kind = "post" => r.by \in Tenants
                  /\ r.kind \in {"get", "put", "assign"} => r.ticket \in Tickets
                  /\ r.body.event = "assign" => r.body.assigned_to # None}

SoundDialog == {d \in Dialog : d.open => d.of \in Tickets}

Shape ==
    /\ TypeOK
    /\ \A u \in Users : page[u].view = "new" => u \in Tenants
    /\ dialog \in [Users -> SoundDialog]
    /\ calls \in [Calls -> SoundCall]

LEMMA AwaitedReply ==
    /\ NoRow \in Row /\ NoRows \in [Tickets -> Row]
    /\ Awaited \in Reply /\ Refused \in Reply /\ Failed \in Reply
    /\ \A rs \in [Tickets -> Row] : Rows(rs) \in Reply
    /\ \A t \in Tickets, row \in Row : Only(t, row) \in Reply
BY StatusIs DEF NoRow, NoRows, Row, Awaited, Refused, Failed, Rows, Reply, Only

LEMMA IdleSound == Idle \in SoundCall
BY AwaitedReply, NoneAssumption, EventsAre DEF Idle, NoBody, Body, Call, SoundCall

\* What a page sends is sound.
LEMMA AskSound ==
    ASSUME NEW kind \in {"list", "get", "post", "put", "assign"}, NEW u \in Users,
           NEW t \in Tickets \cup {None}, NEW body \in Body, NEW seen \in L!Status \cup {"none"},
           kind = "post" => u \in Tenants,
           kind \in {"get", "put", "assign"} => t \in Tickets,
           body.event = "assign" => body.assigned_to # None
    PROVE  Ask(kind, u, t, body, seen) \in SoundCall
BY AwaitedReply DEF Ask, SoundCall, Call

LEMMA NoBodySound == NoBody \in Body /\ NoBody.event # "assign"
BY NoneAssumption, EventsAre DEF NoBody, Body

\* Sending, answering and dropping keep the calls sound.
LEMMA PlaceSound ==
    ASSUME calls \in [Calls -> SoundCall], NEW c \in Calls, NEW r \in SoundCall,
           Send(c, r) \/ calls' = [calls EXCEPT ![c] = r]
    PROVE  calls' \in [Calls -> SoundCall]
BY DEF Send

LEMMA AnswerSound ==
    ASSUME calls \in [Calls -> SoundCall], NEW c \in Calls, NEW reply \in Reply, Answer(c, reply)
    PROVE  calls' \in [Calls -> SoundCall]
<1>1. [calls[c] EXCEPT !.reply = reply] \in SoundCall
  BY DEF SoundCall, Call
<1> QED
  BY <1>1, IdleSound DEF Answer

LEMMA DoneSound ==
    ASSUME calls \in [Calls -> SoundCall], NEW c \in Calls
    PROVE  Done(c) \in [Calls -> SoundCall]
BY IdleSound DEF Done

LEMMA UnmountSound ==
    ASSUME NEW cs \in [Calls -> SoundCall], NEW u, NEW left
    PROVE  Unmount(cs, u, left) \in [Calls -> SoundCall]
<1>1. \A c \in Calls : [cs[c] EXCEPT !.held = FALSE] \in SoundCall
  BY DEF SoundCall, Call
<1> QED
  BY <1>1 DEF Unmount

LEMMA AbandonSound ==
    ASSUME NEW cs \in [Calls -> SoundCall], NEW u
    PROVE  Abandon(cs, u) \in [Calls -> SoundCall]
<1>1. \A c \in Calls : [cs[c] EXCEPT !.mounted = FALSE, !.held = FALSE] \in SoundCall
  BY DEF SoundCall, Call
<1> QED
  BY <1>1, IdleSound DEF Abandon

LEMMA SoundIsCall == SoundCall \subseteq Call /\ SoundDialog \subseteq Dialog
BY DEF SoundCall, SoundDialog

LEMMA ClosedSound == Closed \in SoundDialog
BY AwaitedReply DEF Closed, SoundDialog, Dialog

LEMMA RowTyped ==
    ASSUME NEW rs \in [Users -> [Tickets -> Row]], NEW u \in Users, NEW t \in Tickets, NEW row \in Row
    PROVE  [rs EXCEPT ![u][t] = row] \in [Users -> [Tickets -> Row]]
<1>1. [rs[u] EXCEPT ![t] = row] \in [Tickets -> Row]
  OBVIOUS
<1> QED
  BY <1>1

\* Going to another page.
LEMMA GoShape ==
    ASSUME Shape, NEW u \in Users, NEW view \in {"list", "new", "detail"},
           NEW t \in Tickets \cup {None}, Go(u, view, t), view = "new" => u \in Tenants
    PROVE  /\ page' \in [Users -> Page] /\ \A v \in Users : page'[v].view = "new" => v \in Tenants
           /\ rows' \in [Users -> [Tickets -> Row]]
           /\ dialog' \in [Users -> SoundDialog]
<1> DEFINE p == [view |-> view, of |-> t, tab |-> "open",
                 load |-> IF view \in {"list", "detail"} THEN "loading" ELSE "ready"]
<1>1. p \in Page /\ p.view = view
  BY DEF Page, TABS
<1>2. page' = [page EXCEPT ![u] = p]
  BY DEF Go
<1> HIDE DEF p
<1>3. rows' \in [Users -> [Tickets -> Row]] /\ dialog' \in [Users -> SoundDialog]
  BY AwaitedReply, ClosedSound DEF Go, Shape, TypeOK
<1> QED
  BY <1>1, <1>2, <1>3 DEF Shape, TypeOK

LEMMA ShapeInit == Init => Shape
<1> SUFFICES ASSUME Init PROVE Shape
  OBVIOUS
<1>1. Away \in Page /\ Away.view = "away"
  BY DEF Away, Page, TABS
<1>2. requests \in [Tickets -> RequestRow] /\ told \in [Tickets -> Nat]
  BY SeedAssumption DEF Init
<1> QED
  BY <1>1, <1>2, AwaitedReply, IdleSound, ClosedSound, SoundIsCall DEF Init, Shape, TypeOK

\* The pages.
LEMMA ShapePages == ASSUME Shape, NEW u \in Users, PageStep(u) PROVE Shape'
<1>0. /\ calls \in [Calls -> SoundCall] /\ requests \in [Tickets -> RequestRow]
      /\ rows \in [Users -> [Tickets -> Row]] /\ page \in [Users -> Page]
      /\ dialog \in [Users -> SoundDialog] /\ dialog[u] \in SoundDialog /\ dialog[u] \in Dialog
  BY SoundIsCall DEF Shape, TypeOK
<1>1. ASSUME calls' \in [Calls -> SoundCall], dialog' \in [Users -> SoundDialog],
             rows' \in [Users -> [Tickets -> Row]], page' \in [Users -> Page],
             \A v \in Users : page'[v].view = "new" => v \in Tenants,
             UNCHANGED <<requests, told>>
      PROVE  Shape'
  BY <1>1, SoundIsCall DEF Shape, TypeOK
<1>2. ASSUME NEW c \in Calls, NEW view \in {"list", "detail"}, NEW t \in Tickets \cup {None},
             view = "detail" => t \in Tickets, OpenPage(u, view, t, c)
      PROVE  Shape'
  <2>1. Ask(IF view = "list" THEN "list" ELSE "get", u, t, NoBody, "none") \in SoundCall
    BY <1>2, NoBodySound, AskSound
  <2>2. calls' \in [Calls -> SoundCall]
    BY <1>0, <1>2, <2>1, AbandonSound DEF OpenPage
  <2> QED
    BY <1>1, <1>2, <2>2, GoShape DEF OpenPage
<1>3. CASE OpenForm(u)
  BY <1>0, <1>1, <1>3, GoShape, AbandonSound DEF OpenForm
<1>4. ASSUME NEW tab \in TABS, SwitchTab(u, tab) PROVE Shape'
  <2>1. page' \in [Users -> Page] /\ \A v \in Users : page'[v].view = page[v].view
    BY <1>0, <1>4 DEF SwitchTab, Page
  <2> QED
    BY <1>0, <1>1, <1>4, <2>1, UnmountSound DEF SwitchTab, Shape
<1>5. ASSUME NEW c \in Calls, SubmitRequest(u, c) PROVE Shape'
  <2>1. Ask("post", u, None, NoBody, "none") \in SoundCall
    BY <1>5, NoBodySound, AskSound DEF SubmitRequest, Shape
  <2> QED
    BY <1>0, <1>1, <1>5, <2>1, PlaceSound DEF SubmitRequest, Shape
<1>6. ASSUME NEW c \in Calls, NEW t \in Tickets, NEW event \in Event, ClickTransition(u, t, event, c)
      PROVE  Shape'
  <2> DEFINE body == [event |-> event, assigned_to |-> None]
  <2>1. body \in Body /\ body.event # "assign"
    BY <1>6 DEF Body, ClickTransition
  <2>2. rows[u][t].status \in L!Status \cup {"none"}
    BY <1>0 DEF Row
  <2> HIDE DEF body
  <2>3. Ask("put", u, t, body, rows[u][t].status) \in SoundCall
    BY <2>1, <2>2, AskSound
  <2>4. calls' \in [Calls -> SoundCall]
    BY <1>0, <1>6, <2>3, PlaceSound DEF ClickTransition, body
  <2> QED
    BY <1>0, <1>1, <1>6, <2>4 DEF ClickTransition, Shape
<1>7. ASSUME NEW t \in Tickets, OpenAssign(u, t) PROVE Shape'
  <2>1. rows[u][t] \in Row /\ rows[u][t].assigned_to \in Technicians \cup {None}
    BY <1>0 DEF Row
  <2>2. [open |-> TRUE, of |-> t, row |-> rows[u][t], selected |-> rows[u][t].assigned_to,
         submitting |-> FALSE] \in SoundDialog
    BY <2>1 DEF SoundDialog, Dialog
  <2> QED
    BY <1>0, <1>1, <1>7, <2>2 DEF OpenAssign, Shape
<1>8. ASSUME NEW m \in Technicians, PickAssignee(u, m) PROVE Shape'
  <2>1. [dialog[u] EXCEPT !.selected = m] \in SoundDialog
    BY <1>0 DEF SoundDialog, Dialog
  <2> QED
    BY <1>0, <1>1, <1>8, <2>1 DEF PickAssignee, Shape
<1>9. CASE CloseAssign(u)
  BY <1>0, <1>1, <1>9, ClosedSound DEF CloseAssign, Shape
<1>10. ASSUME NEW c \in Calls, SubmitAssign(u, c) PROVE Shape'
  <2> DEFINE body == [event |-> IF isReassigning(u) THEN None ELSE "assign",
                      assigned_to |-> dialog[u].selected]
  <2>1. dialog[u].selected \in Technicians /\ dialog[u].of \in Tickets
    BY <1>0, <1>10 DEF SubmitAssign, SoundDialog, Dialog
  <2>2. body \in Body /\ body.assigned_to # None
    BY <1>10, <2>1, EventsAre DEF Body, SubmitAssign
  <2>3. dialog[u].row.status \in L!Status \cup {"none"}
    BY <1>0 DEF Dialog, Row
  <2> HIDE DEF body
  <2>4. Ask("assign", u, dialog[u].of, body, dialog[u].row.status) \in SoundCall
    BY <2>1, <2>2, <2>3, AskSound
  <2>5. calls' \in [Calls -> SoundCall]
    BY <1>0, <1>10, <2>4, PlaceSound DEF SubmitAssign, body
  <2>6. [dialog[u] EXCEPT !.submitting = TRUE] \in SoundDialog
    BY <1>0 DEF SoundDialog, Dialog
  <2> QED
    BY <1>0, <1>1, <1>10, <2>5, <2>6 DEF SubmitAssign, Shape
<1> QED
  BY <1>2, <1>3, <1>4, <1>5, <1>6, <1>7, <1>8, <1>9, <1>10 DEF PageStep

\* The API writes rows of their type.
LEMMA PutTyped ==
    ASSUME Shape, NEW c \in Calls, calls[c].kind \in {"put", "assign"}
    PROVE  /\ calls[c].ticket \in Tickets /\ calls[c].body \in Body
           /\ PutRow(calls[c].ticket, calls[c].body) \in RequestRow
<1>1. calls[c].ticket \in Tickets /\ calls[c].body \in Body /\ calls[c].body.event \in Event \cup {None}
  BY DEF Shape, SoundCall, Call, Body
<1>2. Target(calls[c].body) # None => Target(calls[c].body) \in L!Status
  BY <1>1, EventsAre, StatusIs DEF Target
<1>3. requests[calls[c].ticket] \in RequestRow /\ calls[c].body.assigned_to \in Technicians \cup {None}
  BY <1>1 DEF Shape, TypeOK, Body
<1> QED
  BY <1>1, <1>2, <1>3 DEF PutRow, RequestRow

LEMMA ShapeHandle ==
    ASSUME Shape, NEW c \in Calls,
           \/ HandleRead(c) \/ (\E t \in Tickets : HandlePost(c, t))
           \/ HandlePut(c) \/ Refuse(c) \/ LoseCall(c)
    PROVE  Shape'
<1>0. calls \in [Calls -> SoundCall] /\ requests \in [Tickets -> RequestRow] /\ calls[c] \in SoundCall
  BY DEF Shape, TypeOK
<1>1. ASSUME NEW reply \in Reply, Answer(c, reply), UNCHANGED <<page, rows, dialog>>,
             requests' \in [Tickets -> RequestRow], told' \in [Tickets -> Nat]
      PROVE  Shape'
  BY <1>0, <1>1, AnswerSound, SoundIsCall DEF Shape, TypeOK
<1>2. requests' = requests /\ told' = told =>
        requests' \in [Tickets -> RequestRow] /\ told' \in [Tickets -> Nat]
  BY DEF Shape, TypeOK
<1>3. CASE HandleRead(c)
  <2>1. \A u : GetList(u) \in Reply
    <3> SUFFICES ASSUME NEW u PROVE GetList(u) \in Reply
      OBVIOUS
    <3>1. \A t \in Tickets : expandMaintenance(requests[t]) \in Row
      BY <1>0, Expanded
    <3> QED
      BY <3>1, AwaitedReply DEF GetList
  <2>2. calls[c].kind = "get" => GetOne(calls[c].ticket) \in Reply
    BY <1>0, Expanded, AwaitedReply DEF GetOne, SoundCall
  <2> QED
    BY <1>1, <1>2, <1>3, <2>1, <2>2 DEF HandleRead
<1>4. ASSUME NEW t \in Tickets, HandlePost(c, t) PROVE Shape'
  <2>1. calls[c].by \in Tenants
    BY <1>0, <1>4 DEF HandlePost, SoundCall
  <2>2. [status |-> "submitted", assigned_to |-> None, tenant |-> calls[c].by] \in RequestRow
    BY <2>1, StatusIs DEF RequestRow
  <2>3. requests' \in [Tickets -> RequestRow]
    BY <1>0, <1>4, <2>2 DEF HandlePost
  <2>4. Only(t, expandMaintenance(requests'[t])) \in Reply
    BY <2>3, Expanded, AwaitedReply
  <2>5. /\ Answer(c, Only(t, expandMaintenance(requests'[t])))
        /\ told' = told /\ UNCHANGED <<page, rows, dialog>>
    BY <1>4 DEF HandlePost
  <2>6. told' \in [Tickets -> Nat]
    BY <2>5 DEF Shape, TypeOK
  <2> QED
    BY <1>1, <2>3, <2>4, <2>5, <2>6
<1>5. CASE HandlePut(c)
  <2> DEFINE t == calls[c].ticket
  <2>1. t \in Tickets /\ PutRow(t, calls[c].body) \in RequestRow
    BY <1>5, PutTyped DEF HandlePut
  <2>2. requests' \in [Tickets -> RequestRow]
    BY <1>0, <1>5, <2>1 DEF HandlePut
  <2>3. told' \in [Tickets -> Nat]
    <3>1. told \in [Tickets -> Nat]
      BY DEF Shape, TypeOK
    <3>2. told' = told \/ told' = [told EXCEPT ![t] = @ + 1]
      BY <1>5 DEF HandlePut
    <3> HIDE DEF t
    <3> QED
      BY <2>1, <3>1, <3>2
  <2>4. Only(t, expandMaintenance(requests'[t])) \in Reply
    BY <2>1, <2>2, Expanded, AwaitedReply
  <2>5. Answer(c, Only(t, expandMaintenance(requests'[t]))) /\ UNCHANGED <<page, rows, dialog>>
    BY <1>5 DEF HandlePut
  <2> QED
    BY <1>1, <2>2, <2>3, <2>4, <2>5
<1>6. CASE Refuse(c)
  BY <1>1, <1>2, <1>6, AwaitedReply DEF Refuse
<1>7. CASE LoseCall(c)
  BY <1>1, <1>2, <1>7, AwaitedReply DEF LoseCall
<1> QED
  BY <1>3, <1>4, <1>5, <1>6, <1>7

\* The answers.
LEMMA ShapeGets ==
    ASSUME Shape, NEW c \in Calls,
           GetsPage(c) \/ GetsSubmitted(c) \/ GetsMoved(c) \/ GetsAssigned(c)
    PROVE  Shape'
<1> DEFINE u == calls[c].by
<1>0. /\ calls \in [Calls -> SoundCall] /\ requests \in [Tickets -> RequestRow]
      /\ rows \in [Users -> [Tickets -> Row]] /\ page \in [Users -> Page]
      /\ dialog \in [Users -> SoundDialog]
      /\ calls[c].reply \in Reply /\ calls[c].reply.rows \in [Tickets -> Row]
      /\ calls[c].kind # "idle" => u \in Users
      /\ calls[c].kind \in {"put", "assign"} => calls[c].ticket \in Tickets
  BY SoundIsCall DEF Shape, TypeOK, SoundCall, Call, Reply
<1>1. ASSUME calls' \in [Calls -> SoundCall], dialog' \in [Users -> SoundDialog],
             rows' \in [Users -> [Tickets -> Row]], page' \in [Users -> Page],
             \A v \in Users : page'[v].view = "new" => v \in Tenants,
             UNCHANGED <<requests, told>>
      PROVE  Shape'
  BY <1>1, SoundIsCall DEF Shape, TypeOK
<1>2. CASE GetsPage(c)
  <2> DEFINE load == IF HasRows(c) THEN "ready" ELSE "error"
  <2>1. u \in Users /\ page' = [page EXCEPT ![u].load = load]
    BY <1>0, <1>2 DEF GetsPage
  <2>2. load \in {"ready", "error"}
    OBVIOUS
  <2>3. rows' = rows \/ rows' = [rows EXCEPT ![u] = calls[c].reply.rows]
    BY <1>2 DEF GetsPage
  <2>4. calls' \in [Calls -> SoundCall] /\ UNCHANGED <<requests, told, dialog>>
    BY <1>0, <1>2, DoneSound DEF GetsPage
  <2> HIDE DEF load, u
  <2>5. page' \in [Users -> Page] /\ \A v \in Users : page'[v].view = page[v].view
    BY <1>0, <2>1, <2>2 DEF Page
  <2>6. rows' \in [Users -> [Tickets -> Row]]
    BY <1>0, <2>1, <2>3
  <2> QED
    BY <1>0, <1>1, <2>4, <2>5, <2>6 DEF Shape
<1>3. CASE GetsSubmitted(c)
  <2>1. u \in Users
    BY <1>0, <1>3 DEF GetsSubmitted
  <2>2. ASSUME NEW t \in Tickets, Go(u, "detail", t),
               calls' = [calls EXCEPT ![c] = Ask("get", u, t, NoBody, "none")],
               UNCHANGED <<requests, told>>
        PROVE  Shape'
    <3>1. Ask("get", u, t, NoBody, "none") \in SoundCall
      BY <2>1, NoBodySound, AskSound
    <3>2. calls' \in [Calls -> SoundCall]
      BY <1>0, <2>2, <3>1, PlaceSound
    <3> HIDE DEF u
    <3> QED
      BY <1>1, <2>1, <2>2, <3>2, GoShape
  <2>3. CASE calls' = Done(c) /\ UNCHANGED <<page, rows, dialog>>
    BY <1>0, <1>1, <1>3, <2>3, DoneSound DEF GetsSubmitted, Shape
  <2> QED
    BY <1>3, <2>2, <2>3 DEF GetsSubmitted
<1>4. CASE GetsMoved(c)
  <2> DEFINE t == calls[c].ticket
  <2>1. u \in Users /\ t \in Tickets
    BY <1>0, <1>4 DEF GetsMoved
  <2>2. calls' \in [Calls -> SoundCall]
    BY <1>0, <1>4, DoneSound, UnmountSound DEF GetsMoved
  <2>3. rows' \in [Users -> [Tickets -> Row]]
    <3> DEFINE row == calls[c].reply.rows[t]
    <3>1. row \in Row
      BY <1>0, <2>1
    <3>2. rows' = rows \/ rows' = [rows EXCEPT ![u][t] = row]
      BY <1>4 DEF GetsMoved, ShowRow
    <3> HIDE DEF row, u, t
    <3>3. [rows EXCEPT ![u][t] = row] \in [Users -> [Tickets -> Row]]
      BY <1>0, <2>1, <3>1, RowTyped
    <3> QED
      BY <1>0, <3>2, <3>3
  <2>4. dialog' \in [Users -> SoundDialog]
    <3> DEFINE row == calls[c].reply.rows[t]
    <3>1. row \in Row /\ row.assigned_to \in Technicians \cup {None} /\ dialog[u] \in SoundDialog
      BY <1>0, <2>1 DEF Row
    <3> HIDE DEF row, u
    <3> DEFINE kept == [dialog[u] EXCEPT !.row = row]
               reset == [dialog[u] EXCEPT !.row = row, !.selected = row.assigned_to,
                                          !.submitting = FALSE]
    <3>2. kept \in SoundDialog /\ reset \in SoundDialog
      BY <3>1 DEF SoundDialog, Dialog
    <3>3. dialog' = dialog \/ ShowRow(u, t, row)
      BY <1>4 DEF GetsMoved, u, row
    <3>4. ShowRow(u, t, row) =>
            \E d \in {dialog[u], kept, reset} : dialog' = [dialog EXCEPT ![u] = d]
      BY DEF ShowRow
    <3> HIDE DEF kept, reset
    <3> QED
      BY <1>0, <3>1, <3>2, <3>3, <3>4
  <2> QED
    BY <1>0, <1>1, <1>4, <2>2, <2>3, <2>4 DEF GetsMoved, Shape
<1>5. CASE GetsAssigned(c)
  <2> DEFINE t == calls[c].ticket
  <2>1. u \in Users /\ t \in Tickets
    BY <1>0, <1>5 DEF GetsAssigned
  <2>2. calls' \in [Calls -> SoundCall]
    BY <1>0, <1>5, DoneSound, UnmountSound DEF GetsAssigned
  <2>3. rows' \in [Users -> [Tickets -> Row]]
    <3> DEFINE row == calls[c].reply.rows[t]
    <3>1. row \in Row
      BY <1>0, <2>1
    <3>2. rows' = rows \/ rows' = [rows EXCEPT ![u][t] = row]
      BY <1>5 DEF GetsAssigned
    <3> HIDE DEF row, u, t
    <3>3. [rows EXCEPT ![u][t] = row] \in [Users -> [Tickets -> Row]]
      BY <1>0, <2>1, <3>1, RowTyped
    <3> QED
      BY <1>0, <3>2, <3>3
  <2>5. dialog' \in [Users -> SoundDialog]
    <3> DEFINE again == [dialog[u] EXCEPT !.submitting = FALSE]
    <3>1. again \in SoundDialog
      BY <1>0, <2>1 DEF SoundDialog, Dialog
    <3>2. \E d \in {dialog[u], again, Closed} : dialog' = [dialog EXCEPT ![u] = d]
      BY <1>5 DEF GetsAssigned
    <3>3. dialog[u] \in SoundDialog
      BY <1>0, <2>1
    <3> HIDE DEF again, u
    <3> QED
      BY <1>0, <3>1, <3>2, <3>3, ClosedSound
  <2> QED
    BY <1>0, <1>1, <1>5, <2>2, <2>3, <2>5 DEF GetsAssigned, Shape
<1> QED
  BY <1>2, <1>3, <1>4, <1>5

LEMMA ShapeStep == Shape /\ [Next]_vars => Shape'
<1>1. Shape /\ Next => Shape'
  BY ShapePages, ShapeHandle, ShapeGets DEF Next, CallStep
<1>2. Shape /\ UNCHANGED vars => Shape'
  BY DEF Shape, TypeOK, vars
<1> QED
  BY <1>1, <1>2

\* Requests, pages, rows, dialogs and calls keep their types.
THEOREM ShapeCorrect == Spec => []TypeOK
<1>1. Spec => []Shape
  BY ShapeInit, ShapeStep, PTL DEF Spec
<1>2. Shape => TypeOK
  BY DEF Shape
<1> QED
  BY <1>1, <1>2, PTL
-----------------------------------------------------------------------------
(* What moves a request *)

\* Nothing but the POST and the PUT handler touches requests or notifications.
LEMMA RequestsMove ==
    [Next]_vars => \/ UNCHANGED <<requests, told>>
                   \/ \E c \in Calls, t \in Tickets : HandlePost(c, t)
                   \/ \E c \in Calls : HandlePut(c)
<1>1. ASSUME NEW u \in Users, PageStep(u) PROVE UNCHANGED <<requests, told>>
  BY <1>1 DEF PageStep, OpenPage, SubmitRequest, SubmitAssign, ClickTransition, OpenForm,
              SwitchTab, OpenAssign, PickAssignee, CloseAssign
<1>2. ASSUME NEW c \in Calls, CallStep(c)
      PROVE  \/ UNCHANGED <<requests, told>>
             \/ \E t \in Tickets : HandlePost(c, t)
             \/ HandlePut(c)
  BY <1>2 DEF CallStep, HandleRead, Refuse, LoseCall, GetsPage, GetsSubmitted, GetsMoved, GetsAssigned
<1> QED
  BY <1>1, <1>2 DEF Next, vars

\* What the PUT handler makes of a row: the same status, or one the table of
\* transitions allows; somebody who is named, or whoever was there.
LEMMA PutMoves ==
    ASSUME Shape, NEW c \in Calls, HandlePut(c)
    PROVE  LET t == calls[c].ticket  body == calls[c].body  old == requests[t] IN
           /\ t \in Tickets /\ body.event \in Event \cup {None}
           /\ body.event = "assign" => body.assigned_to # None
           /\ old.status \in L!Status
           /\ requests' = [requests EXCEPT ![t] = PutRow(t, body)]
           /\ PutRow(t, body).assigned_to =
                 IF body.assigned_to = None THEN old.assigned_to ELSE body.assigned_to
           /\ \/ /\ PutRow(t, body).status = old.status /\ told' = told
              \/ /\ body.event \in Event
                 /\ PutRow(t, body).status = eventToStatus[body.event]
                 /\ eventToStatus[body.event] \in MAINT_TRANSITIONS[old.status]
                 /\ told' = [told EXCEPT ![t] = @ + 1]
<1> DEFINE t == calls[c].ticket  body == calls[c].body  old == requests[t]
<1>1. t \in Tickets /\ body \in Body /\ (body.event = "assign" => body.assigned_to # None)
  BY PutTyped DEF HandlePut, Shape, SoundCall
<1>2. old \in RequestRow /\ body.event \in Event \cup {None}
  BY <1>1 DEF Shape, TypeOK, Body
<1>3. /\ PutAllowed(t, body) /\ requests' = [requests EXCEPT ![t] = PutRow(t, body)]
      /\ told' = IF Target(body) = None THEN told ELSE [told EXCEPT ![t] = @ + 1]
  BY DEF HandlePut
<1>4. old.status \in L!Status
  BY <1>2, <1>3 DEF PutAllowed, RequestRow
<1>5. /\ PutRow(t, body).status = IF Target(body) = None THEN old.status ELSE Target(body)
      /\ PutRow(t, body).assigned_to =
            IF body.assigned_to = None THEN old.assigned_to ELSE body.assigned_to
  BY <1>2 DEF PutRow, RequestRow
<1>6. CASE Target(body) = None
  BY <1>1, <1>2, <1>3, <1>4, <1>5, <1>6
<1>7. CASE Target(body) # None
  <2>1. body.event \in Event /\ Target(body) = eventToStatus[body.event]
    BY <1>2, <1>7 DEF Target
  <2>2. Target(body) \in MAINT_TRANSITIONS[old.status]
    BY <1>3, <1>7 DEF PutAllowed
  <2> QED
    BY <1>1, <1>2, <1>3, <1>4, <1>5, <1>7, <2>1, <2>2
<1> QED
  BY <1>6, <1>7

-----------------------------------------------------------------------------
(* Holders. The handler checks the transition and not the holder. The only  *)
(* way out of "submitted" that is not the end is the event "assign", and    *)
(* the dialog that sends it names somebody (SoundCall); no handler takes a  *)
(* holder away.                                                             *)

LEMMA HolderStep == Shape /\ HasAssignee /\ [Next]_vars => HasAssignee'
<1> SUFFICES ASSUME Shape, HasAssignee, [Next]_vars PROVE HasAssignee'
  OBVIOUS
<1>0. requests \in [Tickets -> RequestRow]
  BY DEF Shape, TypeOK
<1>1. CASE UNCHANGED <<requests, told>>
  BY <1>1 DEF HasAssignee
<1>2. ASSUME NEW c \in Calls, NEW t \in Tickets, HandlePost(c, t) PROVE HasAssignee'
  <2>1. requests' = [requests EXCEPT ![t] =
             [status |-> "submitted", assigned_to |-> None, tenant |-> calls[c].by]]
    BY <1>2 DEF HandlePost
  <2> QED
    BY <1>0, <2>1 DEF HasAssignee
<1>3. ASSUME NEW c \in Calls, HandlePut(c) PROVE HasAssignee'
  <2> DEFINE t == calls[c].ticket  body == calls[c].body  old == requests[t]
             new == PutRow(t, body)
  <2>1. /\ t \in Tickets /\ old.status \in L!Status
        /\ body.event = "assign" => body.assigned_to # None
        /\ requests' = [requests EXCEPT ![t] = new]
        /\ new.assigned_to = IF body.assigned_to = None THEN old.assigned_to ELSE body.assigned_to
        /\ \/ new.status = old.status
           \/ /\ body.event \in Event /\ new.status = eventToStatus[body.event]
              /\ eventToStatus[body.event] \in MAINT_TRANSITIONS[old.status]
    BY <1>3, PutMoves
  <2>2. old.status \notin {"submitted", "cancelled"} => old.assigned_to # None
    BY <2>1, StatusIs DEF HasAssignee
  <2> HIDE DEF t, body, old, new
  <2>3. new.status \notin {"none", "submitted", "cancelled"} => new.assigned_to # None
    <3>1. CASE new.status = old.status
      BY <2>1, <2>2, <3>1, StatusIs
    <3>2. CASE /\ body.event \in Event /\ new.status = eventToStatus[body.event]
               /\ eventToStatus[body.event] \in MAINT_TRANSITIONS[old.status]
      <4>1. CASE old.status = "submitted"
        BY <2>1, <3>2, <4>1, EventsAre, TransitionsAre
      <4>2. CASE old.status = "cancelled"
        BY <3>2, <4>2, TransitionsAre
      <4> QED
        BY <2>1, <2>2, <4>1, <4>2
    <3> QED
      BY <2>1, <3>1, <3>2
  <2> QED
    BY <1>0, <2>1, <2>3 DEF HasAssignee
<1> QED
  BY <1>1, <1>2, <1>3, RequestsMove

\* Whatever the pages send and in whatever order it is handled, a request that
\* is assigned, in progress, completed or closed has an assignee.
THEOREM HolderCorrect == Spec => []HasAssignee
<1>1. Init => HasAssignee
  BY SeedAssumption, StatusIs DEF Init, HasAssignee, RequestRow
<1> QED
  BY <1>1, ShapeInit, ShapeStep, HolderStep, PTL DEF Spec

-----------------------------------------------------------------------------
(* The refinement *)

LEMMA StepsAre ==
    /\ L!LIFECYCLE_STEPS[1] = "submitted" /\ L!LIFECYCLE_STEPS[2] = "assigned"
    /\ L!LIFECYCLE_STEPS[3] = "in_progress" /\ L!LIFECYCLE_STEPS[4] = "completed"
    /\ L!LIFECYCLE_STEPS[5] = "closed"
BY DEF L!LIFECYCLE_STEPS

\* A transition of the table is the next step of the lifecycle, or its end.
LEMMA TableFollowsSteps ==
    ASSUME NEW from \in L!Status, NEW to \in MAINT_TRANSITIONS[from]
    PROVE  \/ \E i \in 1 .. 4 : from = L!LIFECYCLE_STEPS[i] /\ to = L!LIFECYCLE_STEPS[i + 1]
           \/ from \in L!ACTIVE_STATUSES /\ to = "cancelled"
<1>1. CASE to = "cancelled"
  BY <1>1, StatusIs, TransitionsAre DEF L!ACTIVE_STATUSES
<1>2. CASE to # "cancelled"
  <2>1. \/ from = "submitted" /\ to = "assigned"
        \/ from = "assigned" /\ to = "in_progress"
        \/ from = "in_progress" /\ to = "completed"
        \/ from = "completed" /\ to = "closed"
    BY <1>2, StatusIs, TransitionsAre
  <2>2. 1 + 1 = 2 /\ 2 + 1 = 3 /\ 3 + 1 = 4 /\ 4 + 1 = 5
    OBVIOUS
  <2> QED
    BY <2>1, <2>2, StepsAre
<1> QED
  BY <1>1, <1>2

LEMMA LifecycleInit == Init => L!Init
BY SeedAssumption DEF Init, L!Init, RequestRow

LEMMA LifecycleStep == Shape /\ [Next]_vars => [L!Next]_(L!vars)
<1> SUFFICES ASSUME Shape, [Next]_vars PROVE [L!Next]_(L!vars)
  OBVIOUS
<1> DEFINE phase == [t \in Tickets |-> requests[t].status]
<1>0. requests \in [Tickets -> RequestRow]
  BY DEF Shape, TypeOK
<1>1. CASE UNCHANGED <<requests, told>>
  BY <1>1 DEF L!vars
<1>2. ASSUME NEW c \in Calls, NEW t \in Tickets, HandlePost(c, t) PROVE L!Next
  <2>1. /\ requests[t].status = "none" /\ told' = told
        /\ requests' = [requests EXCEPT ![t] =
             [status |-> "submitted", assigned_to |-> None, tenant |-> calls[c].by]]
    BY <1>2 DEF HandlePost
  <2>2. phase' = [phase EXCEPT ![t] = "submitted"]
    BY <1>0, <2>1
  <2>3. L!Submit(t)
    BY <2>1, <2>2 DEF L!Submit
  <2> QED
    BY <2>3 DEF L!Next
<1>3. ASSUME NEW c \in Calls, HandlePut(c) PROVE [L!Next]_(L!vars)
  <2> DEFINE t == calls[c].ticket  body == calls[c].body  old == requests[t]
             new == PutRow(t, body)
  <2>1. /\ t \in Tickets /\ old.status \in L!Status
        /\ requests' = [requests EXCEPT ![t] = new]
        /\ \/ new.status = old.status /\ told' = told
           \/ /\ body.event \in Event /\ new.status = eventToStatus[body.event]
              /\ eventToStatus[body.event] \in MAINT_TRANSITIONS[old.status]
              /\ told' = [told EXCEPT ![t] = @ + 1]
    BY <1>3, PutMoves
  <2>2. phase' = [phase EXCEPT ![t] = new.status] /\ phase[t] = old.status
    <3> HIDE DEF t, new
    <3> QED
      BY <1>0, <2>1 DEF old
  <2>3. CASE new.status = old.status /\ told' = told
    <3>1. phase' = phase
      BY <2>2, <2>3
    <3> QED
      BY <2>3, <3>1 DEF L!vars
  <2>4. CASE new.status \in MAINT_TRANSITIONS[old.status] /\ told' = [told EXCEPT ![t] = @ + 1]
    <3>1. CASE \E i \in 1 .. 4 : old.status = L!LIFECYCLE_STEPS[i]
                                    /\ new.status = L!LIFECYCLE_STEPS[i + 1]
      <4>1. PICK i \in 1 .. 4 : old.status = L!LIFECYCLE_STEPS[i]
                                /\ new.status = L!LIFECYCLE_STEPS[i + 1]
        BY <3>1
      <4>2. L!Move(t, L!LIFECYCLE_STEPS[i + 1])
        BY <2>2, <2>4, <4>1 DEF L!Move
      <4>3. L!Advance(t)
        BY <2>2, <4>1, <4>2, Zenon DEF L!Advance
      <4> QED
        BY <2>1, <4>3 DEF L!Next
    <3>2. CASE old.status \in L!ACTIVE_STATUSES /\ new.status = "cancelled"
      <4>1. /\ phase' = [phase EXCEPT ![t] = "cancelled"]
            /\ told' = [told EXCEPT ![t] = @ + 1]
        BY <2>2, <2>4, <3>2
      <4>2. phase[t] \in L!ACTIVE_STATUSES
        BY <2>2, <3>2
      <4>3. L!Cancel(t)
        BY <4>1, <4>2 DEF L!Cancel, L!Move
      <4>4. t \in Tickets
        BY <2>1
      <4> HIDE DEF t
      <4>5. L!Next
        BY <4>3, <4>4 DEF L!Next, L!Cancel
      <4> QED
        BY <4>5
    <3> QED
      BY <2>1, <2>4, <3>1, <3>2, TableFollowsSteps
  <2> QED
    BY <2>1, <2>3, <2>4
<1> QED
  BY <1>1, <1>2, <1>3, RequestsMove

\* The API and the pages, for any number of users, calls and requests,
\* implement the lifecycle.
THEOREM LifecycleCorrect == Spec => Lifecycle
<1>1. Spec => L!Init /\ [][L!Next]_(L!vars)
  BY LifecycleInit, ShapeInit, ShapeStep, LifecycleStep, PTL DEF Spec
<1> QED
  BY <1>1 DEF Lifecycle, L!Spec

-----------------------------------------------------------------------------
(* Rows. A row that a page, a dialog or an answer holds is one the API has *)
(* returned, and its request has only moved on since. This is inductive    *)
(* together with where the rows are: on a detail page everything is about  *)
(* the page's own request, so that an answer put into its dialog is about  *)
(* the dialog's request.                                                   *)

\* row was true at some time of a request that now has status now.
Behind(row, now) ==
    /\ row.valid_transitions = MAINT_TRANSITIONS[row.status]
    /\ now \in Reach(row.status)

\* Page p may show request t.
Shows(p, t) == p.view = "list" \/ (p.view = "detail" /\ p.of = t)

RowsFit(p, rs, reqs) ==
    \A t \in Tickets : /\ Behind(rs[t], reqs[t].status)
                       /\ rs[t].status # "none" => Shows(p, t)

DialogFits(p, d, reqs) ==
    d.open => /\ Shows(p, d.of) /\ d.row.status # "none"
              /\ Behind(d.row, reqs[d.of].status)

\* The page that waits for call r.
WaitsOn(p, r) ==
    /\ r.kind = "list" => p.view = "list"
    /\ r.kind = "post" => p.view = "new"
    /\ r.kind \in {"get", "put", "assign"} => Shows(p, r.ticket)

ReplyFits(r, reqs) ==
    /\ \A t \in Tickets : Behind(r.reply.rows[t], reqs[t].status)
    /\ r.kind \in {"get", "put", "assign"} =>
          \A t \in Tickets : r.reply.rows[t].status # "none" => t = r.ticket

\* What a button sends was possible for the row it stood on. now: the
\* status of the call's request.
WriteFits(r, now) ==
    r.kind \in {"put", "assign"} =>
        /\ r.seen # "none" /\ now \in Reach(r.seen)
        /\ r.body.event # None => eventToStatus[r.body.event] \in MAINT_TRANSITIONS[r.seen]
        /\ r.reply.is = "rows" => r.reply.rows[r.ticket].status # "none"
        /\ r.reply.is = "refused" => now # r.seen

CallFits(pg, r, reqs) ==
    /\ ReplyFits(r, reqs) /\ WriteFits(r, reqs[r.ticket].status)
    /\ r.mounted => WaitsOn(pg[r.by], r)

\* The form awaits one answer at most.
FormAlone ==
    \A u \in Users, c, d \in Calls :
        page[u].view = "new" /\ Pending(c, u) /\ Pending(d, u) => c = d

Abreast ==
    /\ Shape /\ FormAlone
    /\ \A u \in Users : /\ RowsFit(page[u], rows[u], requests)
                        /\ DialogFits(page[u], dialog[u], requests)
    /\ \A c \in Calls : CallFits(page, calls[c], requests)

\* Statuses are ordered: a request moves on and does not come back.
LEMMA ReachIs ==
    /\ Reach("none") = L!Status \cup {"none"} /\ Reach("submitted") = L!Status
    /\ Reach("assigned") = L!Status \ {"submitted"}
    /\ Reach("in_progress") = {"in_progress", "completed", "closed", "cancelled"}
    /\ Reach("completed") = {"completed", "closed"}
    /\ Reach("closed") = {"closed"} /\ Reach("cancelled") = {"cancelled"}
BY DEF Reach

LEMMA ReachItself == \A p \in L!Status \cup {"none"} : p \in Reach(p)
BY StatusIs, ReachIs

LEMMA ReachOrders ==
    ASSUME NEW p \in L!Status \cup {"none"}, NEW q \in Reach(p)
    PROVE  /\ q \in L!Status \cup {"none"}
           /\ p # "none" => q # "none"
           /\ \A r \in Reach(q) : r \in Reach(p) /\ (q # p => r # p)
BY StatusIs, ReachIs

LEMMA MovesReach ==
    ASSUME NEW p \in L!Status, NEW q \in MAINT_TRANSITIONS[p]
    PROVE  q \in Reach(p)
BY StatusIs, TransitionsAre DEF Reach

\* later: the requests some steps after reqs.
Forward(reqs, later) == \A t \in Tickets : later[t].status \in Reach(reqs[t].status)

LEMMA RequestsForward ==
    ASSUME Shape, [Next]_vars PROVE Forward(requests, requests')
<1>0. requests \in [Tickets -> RequestRow]
      /\ \A t \in Tickets : requests[t].status \in L!Status \cup {"none"}
  BY DEF Shape, TypeOK, RequestRow
<1>1. \A t \in Tickets : requests[t].status \in Reach(requests[t].status)
  BY <1>0, ReachItself
<1>2. CASE UNCHANGED <<requests, told>>
  BY <1>1, <1>2 DEF Forward
<1>3. ASSUME NEW c \in Calls, NEW t \in Tickets, HandlePost(c, t)
      PROVE  Forward(requests, requests')
  <2>1. /\ requests[t].status = "none"
        /\ requests' = [requests EXCEPT ![t] =
             [status |-> "submitted", assigned_to |-> None, tenant |-> calls[c].by]]
    BY <1>3 DEF HandlePost
  <2>2. "submitted" \in Reach("none")
    BY StatusIs DEF Reach
  <2> QED
    BY <1>0, <1>1, <2>1, <2>2 DEF Forward
<1>4. ASSUME NEW c \in Calls, HandlePut(c) PROVE Forward(requests, requests')
  <2> DEFINE t == calls[c].ticket  body == calls[c].body  new == PutRow(t, body)
  <2>1. /\ t \in Tickets /\ requests[t].status \in L!Status
        /\ requests' = [requests EXCEPT ![t] = new]
        /\ \/ new.status = requests[t].status
           \/ new.status \in MAINT_TRANSITIONS[requests[t].status]
    BY <1>4, PutMoves
  <2> HIDE DEF t, new
  <2>2. new.status \in Reach(requests[t].status)
    BY <1>1, <2>1, MovesReach
  <2> QED
    BY <1>0, <1>1, <2>1, <2>2 DEF Forward
<1> QED
  BY <1>2, <1>3, <1>4, RequestsMove

LEMMA BehindLater ==
    ASSUME NEW row \in Row, NEW now \in L!Status \cup {"none"}, NEW later \in Reach(now),
           Behind(row, now)
    PROVE  Behind(row, later)
<1>1. row.status \in L!Status \cup {"none"}
  BY DEF Row
<1> QED
  BY <1>1, ReachOrders DEF Behind

LEMMA NothingBehind ==
    /\ NoRow.status = "none" /\ \A now \in L!Status \cup {"none"} : Behind(NoRow, now)
    /\ \A t \in Tickets : NoRows[t] = NoRow
BY TransitionsAre DEF NoRow, NoRows, Behind, Reach

\* What the API returns is current.
LEMMA ExpandedBehind ==
    ASSUME NEW r \in RequestRow
    PROVE  /\ Behind(expandMaintenance(r), r.status)
           /\ expandMaintenance(r).status = r.status
<1>1. r.status \in L!Status \cup {"none"}
  BY DEF RequestRow
<1>2. r.status = expandMaintenance(r).status /\ r.status \in Reach(r.status)
  BY <1>1, ReachItself DEF expandMaintenance
<1> QED
  BY <1>2 DEF Behind, expandMaintenance

\* What fitted still fits when requests have moved on.
LEMMA RowsFitLater ==
    ASSUME NEW p, NEW rs \in [Tickets -> Row], NEW reqs \in [Tickets -> RequestRow],
           NEW later, Forward(reqs, later), RowsFit(p, rs, reqs)
    PROVE  RowsFit(p, rs, later)
<1>1. \A t \in Tickets : rs[t] \in Row /\ reqs[t].status \in L!Status \cup {"none"}
  BY DEF RequestRow
<1> QED
  BY <1>1, BehindLater DEF RowsFit, Forward

LEMMA DialogFitsLater ==
    ASSUME NEW p, NEW d \in SoundDialog, NEW reqs \in [Tickets -> RequestRow],
           NEW later, Forward(reqs, later), DialogFits(p, d, reqs)
    PROVE  DialogFits(p, d, later)
<1>1. \A t \in Tickets : reqs[t].status \in L!Status \cup {"none"}
  BY DEF RequestRow
<1>2. d.row \in Row /\ (d.open => d.of \in Tickets)
  BY DEF SoundDialog, Dialog
<1> QED
  BY <1>1, <1>2, BehindLater DEF DialogFits, Forward

LEMMA CallFitsLater ==
    ASSUME NEW pg, NEW r \in SoundCall, NEW reqs \in [Tickets -> RequestRow],
           NEW later, Forward(reqs, later), CallFits(pg, r, reqs)
    PROVE  CallFits(pg, r, later)
<1>1. \A t \in Tickets : reqs[t].status \in L!Status \cup {"none"}
  BY DEF RequestRow
<1>2. /\ \A t \in Tickets : r.reply.rows[t] \in Row
      /\ r.kind \in {"put", "assign"} => r.ticket \in Tickets
      /\ r.seen \in L!Status \cup {"none"}
  BY DEF SoundCall, Call, Reply
<1>3. ReplyFits(r, later)
  BY <1>1, <1>2, BehindLater DEF CallFits, ReplyFits, Forward
<1>4. WriteFits(r, later[r.ticket].status)
  <2> SUFFICES ASSUME r.kind \in {"put", "assign"} PROVE WriteFits(r, later[r.ticket].status)
    BY DEF WriteFits
  <2>1. /\ reqs[r.ticket].status \in Reach(r.seen)
        /\ later[r.ticket].status \in Reach(reqs[r.ticket].status)
        /\ r.reply.is = "refused" => reqs[r.ticket].status # r.seen
    BY <1>2 DEF CallFits, WriteFits, Forward
  <2>2. /\ later[r.ticket].status \in Reach(r.seen)
        /\ r.reply.is = "refused" => later[r.ticket].status # r.seen
    BY <1>2, <2>1, ReachOrders
  <2> QED
    BY <2>2 DEF CallFits, WriteFits
<1> QED
  BY <1>3, <1>4 DEF CallFits

\* A call that is dropped, or that a page or a component stops waiting for.
Less(q, r) ==
    \/ r = Idle
    \/ /\ r.kind = q.kind /\ r.by = q.by /\ r.ticket = q.ticket /\ r.body = q.body
       /\ r.seen = q.seen /\ r.reply = q.reply
       /\ r.mounted => q.mounted

LEMMA UnmountLess ==
    ASSUME NEW cs \in [Calls -> SoundCall], NEW u, NEW left, NEW d \in Calls
    PROVE  Less(cs[d], Unmount(cs, u, left)[d])
<1>1. \/ Unmount(cs, u, left)[d] = cs[d]
      \/ Unmount(cs, u, left)[d] = [cs[d] EXCEPT !.held = FALSE]
  BY DEF Unmount
<1>2. cs[d] \in Call
  BY DEF SoundCall
<1> QED
  BY <1>1, <1>2 DEF Less, Call

LEMMA AbandonLess ==
    ASSUME NEW cs \in [Calls -> SoundCall], NEW u, NEW d \in Calls
    PROVE  /\ Less(cs[d], Abandon(cs, u)[d])
           /\ Abandon(cs, u)[d].by # u \/ ~Abandon(cs, u)[d].mounted
<1>1. \/ Abandon(cs, u)[d] = cs[d] /\ cs[d].by # u
      \/ Abandon(cs, u)[d] = Idle
      \/ Abandon(cs, u)[d] = [cs[d] EXCEPT !.mounted = FALSE, !.held = FALSE]
  BY DEF Abandon
<1>2. cs[d] \in Call /\ ~Idle.mounted
  BY DEF SoundCall, Idle
<1> QED
  BY <1>1, <1>2 DEF Less, Call

LEMMA DoneLess ==
    ASSUME calls \in [Calls -> SoundCall], NEW c \in Calls, NEW d \in Calls
    PROVE  Less(calls[d], Done(c)[d]) /\ (d = c => Done(c)[d] = Idle)
BY DEF Done, Less

\* The answered call is done, and what the answer hides is unmounted.
LEMMA DoneUnmountLess ==
    ASSUME calls \in [Calls -> SoundCall], NEW c \in Calls, NEW u, NEW left, NEW d \in Calls
    PROVE  Less(calls[d], Unmount(Done(c), u, left)[d])
<1>1. CASE d = c
  <2>1. Done(c)[d] = Idle /\ Idle.kind = "idle"
    BY <1>1, DoneLess DEF Idle
  <2>2. Unmount(Done(c), u, left)[d] = Idle
    BY <2>1 DEF Unmount
  <2> QED
    BY <2>2 DEF Less
<1>2. CASE d # c
  <2>1. Done(c)[d] = calls[d]
    BY <1>2 DEF Done
  <2> QED
    BY <2>1, DoneSound, UnmountLess
<1> QED
  BY <1>1, <1>2

\* Calls that fit.
LEMMA NoRowsFit ==
    ASSUME NEW reqs \in [Tickets -> RequestRow], NEW t \in Tickets
    PROVE  Behind(NoRows[t], reqs[t].status) /\ NoRows[t].status = "none"
<1>1. reqs[t].status \in L!Status \cup {"none"}
  BY DEF RequestRow
<1> QED
  BY <1>1, NothingBehind

LEMMA IdleFits ==
    ASSUME NEW pg, NEW reqs \in [Tickets -> RequestRow]
    PROVE  CallFits(pg, Idle, reqs)
BY NoRowsFit DEF CallFits, ReplyFits, WriteFits, Idle, Awaited

LEMMA AskFits ==
    ASSUME NEW pg, NEW reqs \in [Tickets -> RequestRow],
           NEW kind, NEW u, NEW t, NEW body, NEW seen,
           WaitsOn(pg[u], Ask(kind, u, t, body, seen)),
           kind \in {"put", "assign"} =>
              /\ seen # "none" /\ reqs[t].status \in Reach(seen)
              /\ body.event # None => eventToStatus[body.event] \in MAINT_TRANSITIONS[seen]
    PROVE  CallFits(pg, Ask(kind, u, t, body, seen), reqs)
<1> DEFINE r == Ask(kind, u, t, body, seen)
<1>1. /\ r.kind = kind /\ r.by = u /\ r.ticket = t /\ r.body = body /\ r.seen = seen
      /\ r.reply.is = "awaited" /\ r.reply.rows = NoRows
  BY DEF Ask, Awaited
<1> HIDE DEF r
<1>2. ReplyFits(r, reqs)
  BY <1>1, NoRowsFit DEF ReplyFits
<1>3. WriteFits(r, reqs[r.ticket].status)
  BY <1>1 DEF WriteFits
<1>4. WaitsOn(pg[r.by], r)
  BY <1>1 DEF r
<1> QED
  BY <1>2, <1>3, <1>4 DEF CallFits, r

\* The same page, loaded or with another tab.
SamePage(p, q) == p.view = q.view /\ p.of = q.of

LEMMA LessFits ==
    ASSUME NEW pg, NEW later, NEW reqs \in [Tickets -> RequestRow], NEW q, NEW r, Less(q, r),
           CallFits(pg, q, reqs),
           r.mounted /\ r.kind # "idle" => SamePage(pg[r.by], later[r.by])
    PROVE  CallFits(later, r, reqs)
<1>1. CASE r = Idle
  BY <1>1, IdleFits
<1>2. CASE r # Idle
  <2>1. ReplyFits(r, reqs) /\ WriteFits(r, reqs[r.ticket].status)
    BY <1>2 DEF Less, CallFits, ReplyFits, WriteFits
  <2>2. r.mounted => WaitsOn(later[r.by], r)
    BY <1>2 DEF Less, CallFits, WaitsOn, SamePage, Shows
  <2> QED
    BY <2>1, <2>2 DEF CallFits
<1> QED
  BY <1>1, <1>2

LEMMA LessPending ==
    ASSUME NEW c \in Calls, NEW u, Less(calls[c], calls'[c]), Pending(c, u)'
    PROVE  Pending(c, u)
<1>1. calls'[c] # Idle
  BY DEF Pending, Idle
<1> QED
  BY <1>1 DEF Less, Pending

\* Pages and dialogs that fit.
LEMMA RowsFitSame ==
    ASSUME NEW p, NEW q, NEW rs, NEW reqs, RowsFit(p, rs, reqs), SamePage(p, q)
    PROVE  RowsFit(q, rs, reqs)
BY DEF RowsFit, SamePage, Shows

LEMMA DialogFitsSame ==
    ASSUME NEW p, NEW q, NEW d, NEW reqs, DialogFits(p, d, reqs), SamePage(p, q)
    PROVE  DialogFits(q, d, reqs)
BY DEF DialogFits, SamePage, Shows

LEMMA EmptyFits ==
    ASSUME NEW p, NEW reqs \in [Tickets -> RequestRow]
    PROVE  RowsFit(p, NoRows, reqs) /\ DialogFits(p, Closed, reqs)
BY NoRowsFit DEF RowsFit, DialogFits, Closed

LEMMA GoFits ==
    ASSUME Shape, NEW u \in Users, NEW view, NEW t, Go(u, view, t)
    PROVE  /\ page'[u].view = view /\ page'[u].of = t
           /\ rows'[u] = NoRows /\ dialog'[u] = Closed
           /\ \A v \in Users \ {u} : page'[v] = page[v] /\ rows'[v] = rows[v] /\ dialog'[v] = dialog[v]
BY DEF Shape, TypeOK, Go

\* A row on screen is a row of the page.
LEMMA ShownAreRows ==
    ASSUME NEW u, NEW t \in Shown(u)
    PROVE  t \in Tickets /\ rows[u][t].status # "none"
BY DEF Shown, OnScreen, Filtered

\* A step of the page of u that keeps everybody else's page.
LEMMA OnePageFits ==
    ASSUME Abreast, NEW u \in Users, UNCHANGED requests,
           \A v \in Users \ {u} : page'[v] = page[v] /\ rows'[v] = rows[v] /\ dialog'[v] = dialog[v],
           RowsFit(page'[u], rows'[u], requests), DialogFits(page'[u], dialog'[u], requests)
    PROVE  \A v \in Users : /\ RowsFit(page'[v], rows'[v], requests')
                            /\ DialogFits(page'[v], dialog'[v], requests')
BY DEF Abreast

\* Calls that are only dropped leave the form alone.
LEMMA FormKept ==
    ASSUME Abreast, NEW x,
           \A d \in Calls : d # x => Less(calls[d], calls'[d]),
           \A v \in Users : page'[v].view = "new" =>
              \/ page[v].view = "new" /\ (x \in Calls => ~Pending(x, v)')
              \/ \A d \in Calls : d # x => ~Pending(d, v)'
    PROVE  FormAlone'
<1> SUFFICES ASSUME NEW v \in Users, NEW c \in Calls, NEW d \in Calls,
                    page'[v].view = "new", Pending(c, v)', Pending(d, v)'
             PROVE  c = d
  BY DEF FormAlone
<1>1. CASE page[v].view = "new" /\ (x \in Calls => ~Pending(x, v)')
  BY <1>1, LessPending DEF Abreast, FormAlone
<1>2. CASE \A e \in Calls : e # x => ~Pending(e, v)'
  BY <1>2
<1> QED
  BY <1>1, <1>2

\* The steps of a page.
LEMMA FitPages == ASSUME Abreast, NEW u \in Users, PageStep(u) PROVE Abreast'
<1>0. /\ Shape /\ Shape' /\ UNCHANGED requests
      /\ calls \in [Calls -> SoundCall] /\ requests \in [Tickets -> RequestRow]
      /\ page \in [Users -> Page] /\ rows \in [Users -> [Tickets -> Row]]
      /\ dialog \in [Users -> SoundDialog]
      /\ RowsFit(page[u], rows[u], requests) /\ DialogFits(page[u], dialog[u], requests)
      /\ \A c \in Calls : CallFits(page, calls[c], requests)
  <2>1. Shape /\ Shape'
    BY ShapePages DEF Abreast
  <2>2. UNCHANGED requests
    BY DEF PageStep, OpenPage, SubmitRequest, SubmitAssign, ClickTransition, OpenForm,
           SwitchTab, OpenAssign, PickAssignee, CloseAssign
  <2> QED
    BY <2>1, <2>2 DEF Abreast, Shape, TypeOK
<1>1. ASSUME FormAlone', \A c \in Calls : CallFits(page', calls'[c], requests),
             RowsFit(page'[u], rows'[u], requests), DialogFits(page'[u], dialog'[u], requests),
             \A v \in Users \ {u} :
                page'[v] = page[v] /\ rows'[v] = rows[v] /\ dialog'[v] = dialog[v]
      PROVE  Abreast'
  BY <1>0, <1>1, OnePageFits DEF Abreast
<1>2. ASSUME NEW c \in Calls, NEW r, Send(c, r), page' = page, r.by = u,
             page[u].view = "new" => \A d \in Calls : ~Pending(d, u),
             CallFits(page, r, requests)
      PROVE  FormAlone' /\ \A d \in Calls : CallFits(page', calls'[d], requests)
  <2>1. calls'[c] = r /\ \A d \in Calls : d # c => calls'[d] = calls[d]
    BY <1>0, <1>2 DEF Send
  <2>2. \A d \in Calls : d # c => Less(calls[d], calls'[d])
    BY <2>1 DEF Less
  <2>3. \A v \in Users : v # u => ~Pending(c, v)'
    BY <1>2, <2>1 DEF Pending
  <2>4. page[u].view = "new" => \A d \in Calls : d # c => ~Pending(d, u)'
    BY <1>2, <2>2, LessPending
  <2>5. FormAlone'
    BY <1>2, <2>2, <2>3, <2>4, FormKept
  <2> QED
    BY <1>0, <1>2, <2>1, <2>5
<1>3. ASSUME UNCHANGED <<page, calls>>
      PROVE  FormAlone' /\ \A d \in Calls : CallFits(page', calls'[d], requests)
  BY <1>0, <1>3 DEF Abreast, FormAlone, Pending
<1>4. ASSUME NEW view \in {"list", "new", "detail"}, NEW t \in Tickets \cup {None}, NEW x,
             Go(u, view, t),
             \A d \in Calls : d # x => calls'[d] = Abandon(calls, u)[d],
             x \in Calls => /\ CallFits(page', calls'[x], requests)
                            /\ \A v \in Users : page'[v].view = "new" => ~Pending(x, v)'
      PROVE  Abreast'
  <2>1. /\ \A v \in Users \ {u} :
              page'[v] = page[v] /\ rows'[v] = rows[v] /\ dialog'[v] = dialog[v]
        /\ RowsFit(page'[u], rows'[u], requests) /\ DialogFits(page'[u], dialog'[u], requests)
    BY <1>0, <1>4, GoFits, EmptyFits
  <2>2. ASSUME NEW d \in Calls, d # x
        PROVE  /\ Less(calls[d], calls'[d])
               /\ calls'[d].by = u => ~calls'[d].mounted
    BY <1>0, <1>4, <2>2, AbandonLess
  <2>3. ASSUME NEW d \in Calls, d # x PROVE CallFits(page', calls'[d], requests)
    <3>1. calls'[d] \in SoundCall
      BY <1>0 DEF Shape
    <3>2. calls'[d].kind # "idle" => calls'[d].by \in Users
      BY <3>1 DEF SoundCall
    <3>3. ASSUME calls'[d].mounted, calls'[d].kind # "idle"
          PROVE  SamePage(page[calls'[d].by], page'[calls'[d].by])
      BY <2>1, <2>2, <2>3, <3>2, <3>3 DEF SamePage
    <3> QED
      BY <1>0, <2>2, <2>3, <3>3, LessFits
  <2>4. \A v \in Users : page'[v].view = "new" =>
              \/ page[v].view = "new" /\ (x \in Calls => ~Pending(x, v)')
              \/ \A d \in Calls : d # x => ~Pending(d, v)'
    BY <1>4, <2>1, <2>2 DEF Pending
  <2>5. FormAlone'
    BY <2>2, <2>4, FormKept
  <2> QED
    BY <1>1, <1>4, <2>1, <2>3, <2>5
<1>5. ASSUME NEW c \in Calls, NEW view \in {"list", "detail"}, NEW t \in Tickets \cup {None},
             OpenPage(u, view, t, c)
      PROVE  Abreast'
  <2> DEFINE kind == IF view = "list" THEN "list" ELSE "get"
             r == Ask(kind, u, t, NoBody, "none")
  <2>1. /\ Go(u, view, t) /\ calls' = [Abandon(calls, u) EXCEPT ![c] = r]
        /\ page'[u].view = view /\ page'[u].of = t
    BY <1>0, <1>5, GoFits DEF OpenPage
  <2>2. r.kind = kind /\ r.by = u /\ r.ticket = t
    BY DEF Ask
  <2>3. WaitsOn(page'[u], r)
    BY <2>1, <2>2 DEF WaitsOn, Shows
  <2>4. Abandon(calls, u) \in [Calls -> SoundCall]
    BY <1>0, AbandonSound
  <2> HIDE DEF kind
  <2>5. CallFits(page', r, requests)
    <3>1. kind \notin {"put", "assign"}
      BY DEF kind
    <3> QED
      BY <1>0, <2>3, <3>1, AskFits
  <2> HIDE DEF r
  <2>6. calls'[c] = r /\ \A d \in Calls : d # c => calls'[d] = Abandon(calls, u)[d]
    BY <2>1, <2>4
  <2>7. \A v \in Users : page'[v].view = "new" => ~Pending(c, v)'
    BY <2>1, <2>2, <2>6 DEF Pending
  <2> QED
    BY <1>4, <2>1, <2>5, <2>6, <2>7
<1>6. CASE OpenForm(u)
  <2>1. \E x : x \notin Calls
    BY NoSetContainsEverything
  <2> QED
    BY <1>4, <1>6, <2>1 DEF OpenForm
<1>7. ASSUME NEW tab \in TABS, SwitchTab(u, tab) PROVE Abreast'
  <2>1. /\ \A v \in Users : page'[v] = page[v] \/ v = u
        /\ \A v \in Users : SamePage(page[v], page'[v])
    BY <1>0, <1>7 DEF SwitchTab, SamePage, Page
  <2>2. \A d \in Calls : Less(calls[d], calls'[d])
    BY <1>0, <1>7, UnmountLess DEF SwitchTab
  <2>3. ASSUME NEW d \in Calls PROVE CallFits(page', calls'[d], requests)
    <3>1. calls'[d] \in SoundCall
      BY <1>0 DEF Shape
    <3>2. calls'[d].kind # "idle" => calls'[d].by \in Users
      BY <3>1 DEF SoundCall
    <3> QED
      BY <1>0, <2>1, <2>2, <3>2, LessFits
  <2>4. PICK x : x \notin Calls
    BY NoSetContainsEverything
  <2>5. FormAlone'
    BY <2>1, <2>2, <2>4, FormKept DEF SamePage
  <2>6. UNCHANGED <<rows, dialog>>
    BY <1>7 DEF SwitchTab
  <2> QED
    BY <1>0, <1>1, <2>1, <2>3, <2>5, <2>6, RowsFitSame, DialogFitsSame
<1>8. ASSUME NEW c \in Calls, SubmitRequest(u, c) PROVE Abreast'
  <2> DEFINE r == Ask("post", u, None, NoBody, "none")
  <2>1. r.kind = "post" /\ r.by = u
    BY DEF Ask
  <2>2. /\ Send(c, r) /\ page[u].view = "new" /\ \A d \in Calls : ~Pending(d, u)
        /\ UNCHANGED <<page, rows, dialog>>
    BY <1>8 DEF SubmitRequest
  <2>3. WaitsOn(page[u], r)
    BY <2>1, <2>2 DEF WaitsOn
  <2>4. CallFits(page, r, requests)
    BY <1>0, <2>3, AskFits
  <2> HIDE DEF r
  <2> QED
    BY <1>0, <1>1, <1>2, <2>1, <2>2, <2>4
<1>9. ASSUME NEW c \in Calls, NEW t \in Tickets, NEW event \in Event, ClickTransition(u, t, event, c)
      PROVE  Abreast'
  <2> DEFINE body == [event |-> event, assigned_to |-> None]
             row == rows[u][t]
             r == Ask("put", u, t, body, row.status)
  <2>1. /\ t \in Shown(u) /\ eventToStatus[event] \in row.valid_transitions
        /\ Send(c, r) /\ UNCHANGED <<page, rows, dialog>>
    BY <1>9 DEF ClickTransition
  <2>2. /\ row.status # "none" /\ Shows(page[u], t)
        /\ Behind(row, requests[t].status)
    BY <1>0, <2>1, ShownAreRows DEF RowsFit
  <2>3. r.kind = "put" /\ r.by = u /\ r.ticket = t /\ body.event = event
    BY DEF Ask
  <2>4. WaitsOn(page[u], r) /\ page[u].view # "new"
    BY <2>2, <2>3 DEF WaitsOn, Shows
  <2>5. eventToStatus[event] \in MAINT_TRANSITIONS[row.status] /\ requests[t].status \in Reach(row.status)
    BY <2>1, <2>2 DEF Behind
  <2> HIDE DEF body, row
  <2>6. CallFits(page, r, requests)
    BY <1>0, <2>2, <2>3, <2>4, <2>5, AskFits
  <2> HIDE DEF r
  <2> QED
    BY <1>0, <1>1, <1>2, <2>1, <2>3, <2>4, <2>6
<1>10. ASSUME NEW d \in SoundDialog, dialog' = [dialog EXCEPT ![u] = d],
              DialogFits(page[u], d, requests), UNCHANGED <<page, rows, calls>>
       PROVE  Abreast'
  BY <1>0, <1>1, <1>3, <1>10
<1>11. ASSUME NEW t \in Tickets, OpenAssign(u, t) PROVE Abreast'
  <2> DEFINE row == rows[u][t]
             d == [open |-> TRUE, of |-> t, row |-> row, selected |-> row.assigned_to,
                   submitting |-> FALSE]
  <2>1. row.status # "none" /\ Shows(page[u], t) /\ Behind(row, requests[t].status)
    BY <1>0, <1>11, ShownAreRows DEF RowsFit, OpenAssign
  <2>2. row \in Row /\ row.assigned_to \in Technicians \cup {None}
    BY <1>0 DEF Row
  <2>3. d \in SoundDialog /\ d.of = t /\ d.row = row
    BY <2>2 DEF SoundDialog, Dialog
  <2>4. dialog' = [dialog EXCEPT ![u] = d] /\ UNCHANGED <<page, rows, calls>>
    BY <1>11 DEF OpenAssign
  <2> HIDE DEF row, d
  <2>5. DialogFits(page[u], d, requests)
    BY <2>1, <2>3 DEF DialogFits
  <2> QED
    BY <1>10, <2>3, <2>4, <2>5
<1>12. ASSUME NEW m \in Technicians, PickAssignee(u, m) PROVE Abreast'
  <2> DEFINE d == [dialog[u] EXCEPT !.selected = m]
  <2>1. d \in SoundDialog /\ d.of = dialog[u].of /\ d.row = dialog[u].row /\ d.open = dialog[u].open
    BY <1>0 DEF SoundDialog, Dialog
  <2>2. dialog' = [dialog EXCEPT ![u] = d] /\ UNCHANGED <<page, rows, calls>>
    BY <1>12 DEF PickAssignee
  <2> HIDE DEF d
  <2>3. DialogFits(page[u], d, requests)
    BY <1>0, <2>1 DEF DialogFits
  <2> QED
    BY <1>10, <2>1, <2>2, <2>3
<1>13. CASE CloseAssign(u)
  BY <1>0, <1>10, <1>13, ClosedSound, EmptyFits DEF CloseAssign
<1>14. ASSUME NEW c \in Calls, SubmitAssign(u, c) PROVE Abreast'
  <2> DEFINE d == [dialog[u] EXCEPT !.submitting = TRUE]
             row == dialog[u].row
             t == dialog[u].of
             body == [event |-> IF isReassigning(u) THEN None ELSE "assign",
                      assigned_to |-> dialog[u].selected]
             r == Ask("assign", u, t, body, row.status)
  <2>1. /\ dialog[u].open /\ Send(c, r) /\ UNCHANGED <<page, rows>>
        /\ dialog' = [dialog EXCEPT ![u].submitting = TRUE]
    BY <1>14 DEF SubmitAssign
  <2>2. /\ row.status # "none" /\ Shows(page[u], t)
        /\ Behind(row, requests[t].status)
    BY <1>0, <2>1 DEF DialogFits
  <2>3. r.kind = "assign" /\ r.by = u /\ r.ticket = t
    BY DEF Ask
  <2>4. WaitsOn(page[u], r) /\ page[u].view # "new"
    BY <2>2, <2>3 DEF WaitsOn, Shows
  <2>5. /\ body.event # None => eventToStatus[body.event] \in MAINT_TRANSITIONS[row.status]
        /\ requests[t].status \in Reach(row.status)
    BY <2>2, EventsAre, TransitionsAre DEF Behind, isReassigning
  <2>6. d.of = t /\ d.row = row /\ d.open = dialog[u].open /\ dialog'[u] = d
        /\ \A v \in Users \ {u} : dialog'[v] = dialog[v]
    BY <1>0, <2>1 DEF SoundDialog, Dialog
  <2>7. DialogFits(page[u], d, requests)
    BY <1>0, <2>6 DEF DialogFits
  <2> HIDE DEF body, row, d, t
  <2>8. CallFits(page, r, requests)
    BY <1>0, <2>2, <2>4, <2>5, AskFits
  <2> HIDE DEF r
  <2> QED
    BY <1>0, <1>1, <1>2, <2>1, <2>3, <2>4, <2>6, <2>7, <2>8
<1>15. ASSUME NEW c \in Calls, OpenPage(u, "list", None, c) PROVE Abreast'
  BY <1>5, <1>15
<1>16. ASSUME NEW c \in Calls, NEW t \in Tickets, OpenPage(u, "detail", t, c) PROVE Abreast'
  BY <1>5, <1>16
<1> QED
  BY <1>6, <1>7, <1>8, <1>9, <1>11, <1>12, <1>13, <1>14, <1>15, <1>16 DEF PageStep

\* The API answers. Whatever it writes, rows that were read before stay
\* behind it.
LEMMA FitHandle ==
    ASSUME Abreast, NEW c \in Calls,
           \/ HandleRead(c) \/ (\E t \in Tickets : HandlePost(c, t))
           \/ HandlePut(c) \/ Refuse(c) \/ LoseCall(c)
    PROVE  Abreast'
<1> DEFINE q == calls[c]
<1>0. /\ Shape /\ Shape' /\ [Next]_vars
      /\ calls \in [Calls -> SoundCall] /\ q \in SoundCall /\ q \in Call
      /\ requests \in [Tickets -> RequestRow] /\ requests' \in [Tickets -> RequestRow]
      /\ \A u \in Users : dialog[u] \in SoundDialog /\ rows[u] \in [Tickets -> Row]
  <2>1. Shape /\ Shape'
    BY ShapeHandle DEF Abreast
  <2>2. [Next]_vars
    BY DEF Next, CallStep
  <2> QED
    BY <2>1, <2>2, SoundIsCall DEF Shape, TypeOK
<1>1. Forward(requests, requests')
  BY <1>0, RequestsForward
<1>2. ASSUME NEW reply \in Reply, Answer(c, reply), UNCHANGED <<page, rows, dialog>>,
             \A t \in Tickets : Behind(reply.rows[t], requests'[t].status),
             q.kind \in {"get", "put", "assign"} =>
                \A t \in Tickets : reply.rows[t].status # "none" => t = q.ticket,
             q.kind \in {"put", "assign"} /\ reply.is = "rows" =>
                reply.rows[q.ticket].status # "none",
             q.kind \in {"put", "assign"} /\ reply.is = "refused" =>
                requests'[q.ticket].status # q.seen
      PROVE  Abreast'
  <2> DEFINE r == [q EXCEPT !.reply = reply]
  <2>1. /\ r.kind = q.kind /\ r.by = q.by /\ r.ticket = q.ticket /\ r.body = q.body
        /\ r.seen = q.seen /\ r.mounted = q.mounted /\ r.reply = reply
    BY <1>0 DEF Call
  <2>2. CallFits(page, q, requests')
    BY <1>0, <1>1, CallFitsLater DEF Abreast
  <2>3. calls'[c] \in {r, Idle} /\ \A d \in Calls : d # c => calls'[d] = calls[d]
    BY <1>0, <1>2 DEF Answer
  <2> HIDE DEF r
  <2>4. CallFits(page, r, requests')
    <3>1. ReplyFits(r, requests')
      BY <1>2, <2>1 DEF ReplyFits
    <3>2. WriteFits(r, requests'[r.ticket].status)
      BY <1>2, <2>1, <2>2 DEF CallFits, WriteFits
    <3>3. r.mounted => WaitsOn(page[r.by], r)
      BY <2>1, <2>2 DEF CallFits, WaitsOn
    <3> QED
      BY <3>1, <3>2, <3>3 DEF CallFits
  <2>5. \A d \in Calls : CallFits(page', calls'[d], requests')
    <3>1. \A d \in Calls : CallFits(page, calls[d], requests')
      BY <1>0, <1>1, CallFitsLater DEF Abreast
    <3> QED
      BY <1>0, <1>2, <2>3, <2>4, <3>1, IdleFits
  <2>6. \A d \in Calls : \A u : Pending(d, u)' => Pending(d, u)
    <3>1. Idle.kind = "idle"
      BY DEF Idle
    <3> QED
      BY <2>1, <2>3, <3>1 DEF Pending
  <2>7. FormAlone'
    BY <1>2, <2>6 DEF Abreast, FormAlone
  <2>8. \A u \in Users : /\ RowsFit(page[u], rows[u], requests')
                         /\ DialogFits(page[u], dialog[u], requests')
    BY <1>0, <1>1, RowsFitLater, DialogFitsLater DEF Abreast
  <2> QED
    BY <1>0, <1>2, <2>5, <2>7, <2>8 DEF Abreast
<1>3. ASSUME NEW reply \in {Refused, Failed}, Answer(c, reply), UNCHANGED <<page, rows, dialog>>,
             q.kind \in {"put", "assign"} /\ reply = Refused => requests'[q.ticket].status # q.seen
      PROVE  Abreast'
  <2>1. /\ reply \in Reply /\ reply.rows = NoRows /\ reply.is # "rows"
        /\ reply.is = "refused" => reply = Refused
    BY <1>3, AwaitedReply DEF Refused, Failed
  <2>2. \A t \in Tickets : Behind(reply.rows[t], requests'[t].status) /\ reply.rows[t].status = "none"
    BY <1>0, <2>1, NoRowsFit
  <2> QED
    BY <1>2, <1>3, <2>1, <2>2
<1>4. ASSUME NEW t \in Tickets, NEW row \in Row, Behind(row, requests'[t].status),
             Answer(c, Only(t, row)), UNCHANGED <<page, rows, dialog>>,
             q.kind \in {"get", "put", "assign"} => t = q.ticket,
             q.kind \in {"put", "assign"} => row.status # "none"
      PROVE  Abreast'
  <2> DEFINE reply == Only(t, row)
  <2>1. /\ reply \in Reply /\ reply.is = "rows" /\ reply.rows[t] = row
        /\ \A s \in Tickets : s # t => reply.rows[s] = NoRow
    BY AwaitedReply DEF Only, Rows
  <2>2. \A s \in Tickets : s # t => Behind(NoRow, requests'[s].status) /\ NoRow.status = "none"
    BY <1>0, NothingBehind DEF RequestRow
  <2> HIDE DEF reply
  <2>3. \A s \in Tickets : Behind(reply.rows[s], requests'[s].status)
    BY <1>4, <2>1, <2>2
  <2>4. Answer(c, reply)
    BY <1>4 DEF reply
  <2> QED
    BY <1>2, <1>4, <2>1, <2>2, <2>3, <2>4
<1>5. CASE HandleRead(c)
  <2>1. requests' = requests /\ UNCHANGED <<page, rows, dialog>>
    BY <1>5 DEF HandleRead
  <2>2. \A t \in Tickets : /\ expandMaintenance(requests[t]) \in Row
                           /\ Behind(expandMaintenance(requests[t]), requests[t].status)
                           /\ NoRow \in Row /\ Behind(NoRow, requests[t].status)
    BY <1>0, Expanded, ExpandedBehind, AwaitedReply, NothingBehind DEF RequestRow
  <2>3. CASE q.kind = "list" /\ Answer(c, GetList(q.by))
    <3>1. /\ GetList(q.by).rows \in [Tickets -> Row] /\ GetList(q.by) = Rows(GetList(q.by).rows)
          /\ \A t \in Tickets : GetList(q.by).rows[t] \in {expandMaintenance(requests[t]), NoRow}
      BY <2>2 DEF GetList, Rows
    <3>2. GetList(q.by) \in Reply
      BY <3>1, AwaitedReply
    <3> QED
      BY <1>2, <2>1, <2>2, <2>3, <3>1, <3>2
  <2>4. CASE q.kind = "get" /\ Answer(c, GetOne(q.ticket))
    <3>1. q.ticket \in Tickets
      BY <1>0, <2>4 DEF SoundCall
    <3>2. \/ GetOne(q.ticket) = Refused
          \/ GetOne(q.ticket) = Only(q.ticket, expandMaintenance(requests[q.ticket]))
      BY DEF GetOne
    <3> QED
      BY <1>3, <1>4, <2>1, <2>2, <2>4, <3>1, <3>2
  <2> QED
    BY <1>5, <2>3, <2>4 DEF HandleRead
<1>6. ASSUME NEW t \in Tickets, HandlePost(c, t) PROVE Abreast'
  <2>1. /\ q.kind = "post" /\ UNCHANGED <<page, rows, dialog>>
        /\ Answer(c, Only(t, expandMaintenance(requests'[t])))
    BY <1>6 DEF HandlePost
  <2>2. /\ expandMaintenance(requests'[t]) \in Row
        /\ Behind(expandMaintenance(requests'[t]), requests'[t].status)
    BY <1>0, Expanded, ExpandedBehind
  <2> QED
    BY <1>4, <2>1, <2>2
<1>7. CASE HandlePut(c)
  <2> DEFINE t == q.ticket
  <2>1. /\ t \in Tickets /\ UNCHANGED <<page, rows, dialog>>
        /\ Answer(c, Only(t, expandMaintenance(requests'[t])))
    BY <1>0, <1>7, PutMoves DEF HandlePut
  <2>2. /\ expandMaintenance(requests'[t]) \in Row
        /\ Behind(expandMaintenance(requests'[t]), requests'[t].status)
        /\ expandMaintenance(requests'[t]).status = requests'[t].status
    BY <1>0, <2>1, Expanded, ExpandedBehind
  <2>3. requests'[t].status # "none"
    <3>1. requests[t].status \in L!Status /\ requests'[t].status \in Reach(requests[t].status)
      BY <1>0, <1>1, <1>7, <2>1, PutMoves DEF Forward
    <3>2. requests[t].status # "none"
      BY <3>1, StatusIs
    <3> QED
      BY <3>1, <3>2, ReachOrders
  <2> QED
    BY <1>4, <2>1, <2>2, <2>3
<1>8. CASE Refuse(c)
  <2>1. /\ Answer(c, Refused) /\ UNCHANGED <<requests, page, rows, dialog>>
        /\ q.kind \in {"put", "assign"} => ~PutAllowed(q.ticket, q.body)
    BY <1>8 DEF Refuse
  <2>2. ASSUME q.kind \in {"put", "assign"}, requests[q.ticket].status = q.seen PROVE FALSE
    <3>1. /\ q.seen # "none"
          /\ q.body.event # None => eventToStatus[q.body.event] \in MAINT_TRANSITIONS[q.seen]
      BY <2>2 DEF Abreast, CallFits, WriteFits
    <3> QED
      BY <2>1, <2>2, <3>1 DEF PutAllowed, Target
  <2> QED
    BY <1>3, <2>1, <2>2
<1>9. CASE LoseCall(c)
  <2>1. Failed # Refused
    BY DEF Failed, Refused
  <2> QED
    BY <1>3, <1>9, <2>1 DEF LoseCall
<1> QED
  BY <1>5, <1>6, <1>7, <1>8, <1>9

\* A page gets an answer. It waited for it, so the answer is about a request
\* the page may show, and the dialog of a detail page is about the same one.
LEMMA FitGets ==
    ASSUME Abreast, NEW c \in Calls,
           GetsPage(c) \/ GetsSubmitted(c) \/ GetsMoved(c) \/ GetsAssigned(c)
    PROVE  Abreast'
<1> DEFINE q == calls[c]  u == q.by
<1>0. /\ Shape' /\ UNCHANGED requests
      /\ calls \in [Calls -> SoundCall] /\ q \in SoundCall
      /\ requests \in [Tickets -> RequestRow]
      /\ page \in [Users -> Page] /\ rows \in [Users -> [Tickets -> Row]]
      /\ dialog \in [Users -> SoundDialog]
      /\ u \in Users /\ q.mounted /\ q.kind # "idle"
      /\ q.kind \in {"put", "assign"} => q.ticket \in Tickets
      /\ q.reply.rows \in [Tickets -> Row]
      /\ RowsFit(page[u], rows[u], requests) /\ DialogFits(page[u], dialog[u], requests)
      /\ ReplyFits(q, requests) /\ WriteFits(q, requests[q.ticket].status)
      /\ WaitsOn(page[u], q)
      /\ \A d \in Calls : CallFits(page, calls[d], requests)
  <2>1. Shape /\ Shape'
    BY ShapeGets DEF Abreast
  <2>2. UNCHANGED requests /\ q.mounted /\ q.kind # "idle"
    BY DEF GetsPage, GetsSubmitted, GetsMoved, GetsAssigned, Answered
  <2>3. q \in SoundCall /\ calls \in [Calls -> SoundCall]
    BY <2>1 DEF Shape
  <2>4. u \in Users /\ q.reply.rows \in [Tickets -> Row]
        /\ (q.kind \in {"put", "assign"} => q.ticket \in Tickets)
    BY <2>2, <2>3 DEF SoundCall, Call, Reply
  <2>5. CallFits(page, q, requests)
    BY DEF Abreast
  <2> QED
    BY <2>1, <2>2, <2>3, <2>4, <2>5 DEF Abreast, CallFits, Shape, TypeOK
\* The page stays, its rows, its dialog and calls may change.
<1>1. ASSUME \A v \in Users : SamePage(page[v], page'[v]),
             \A d \in Calls : Less(calls[d], calls'[d]),
             RowsFit(page[u], rows'[u], requests), DialogFits(page[u], dialog'[u], requests),
             \A v \in Users \ {u} : rows'[v] = rows[v] /\ dialog'[v] = dialog[v]
      PROVE  Abreast'
  <2>1. ASSUME NEW d \in Calls PROVE CallFits(page', calls'[d], requests)
    <3>1. calls'[d] \in SoundCall
      BY <1>0 DEF Shape
    <3>2. calls'[d].kind # "idle" => calls'[d].by \in Users
      BY <3>1 DEF SoundCall
    <3> QED
      BY <1>0, <1>1, <3>2, LessFits
  <2>2. FormAlone'
    <3>1. PICK x : x \notin Calls
      BY NoSetContainsEverything
    <3> QED
      BY <1>1, <3>1, FormKept DEF SamePage
  <2>3. \A v \in Users : RowsFit(page[v], rows'[v], requests) /\ DialogFits(page[v], dialog'[v], requests)
    <3>1. \A v \in Users : RowsFit(page[v], rows[v], requests) /\ DialogFits(page[v], dialog[v], requests)
      BY DEF Abreast
    <3> HIDE DEF u
    <3> QED
      BY <1>1, <3>1
  <2>4. \A v \in Users : RowsFit(page'[v], rows'[v], requests) /\ DialogFits(page'[v], dialog'[v], requests)
    BY <1>1, <2>3, RowsFitSame, DialogFitsSame
  <2> QED
    BY <1>0, <2>1, <2>2, <2>4 DEF Abreast
<1>2. \A v \in Users : SamePage(page[v], page[v])
  BY DEF SamePage
<1>3. CASE GetsPage(c)
  <2>1. /\ q.kind \in {"list", "get"} /\ calls' = Done(c) /\ UNCHANGED dialog
        /\ page' = [page EXCEPT ![u].load = IF HasRows(c) THEN "ready" ELSE "error"]
        /\ rows' = rows \/ rows' = [rows EXCEPT ![u] = q.reply.rows]
    BY <1>3 DEF GetsPage
  <2>2. \A v \in Users : SamePage(page[v], page'[v])
    BY <1>0, <2>1 DEF SamePage, Page
  <2>3. RowsFit(page[u], q.reply.rows, requests)
    BY <1>0, <2>1 DEF RowsFit, ReplyFits, WaitsOn, Shows
  <2>4. RowsFit(page[u], rows'[u], requests) /\ \A v \in Users \ {u} : rows'[v] = rows[v]
    BY <1>0, <2>1, <2>3
  <2> QED
    BY <1>0, <1>1, <2>1, <2>2, <2>4, DoneLess
<1>4. CASE GetsSubmitted(c)
  <2>1. q.kind = "post" /\ page[u].view = "new"
    BY <1>0, <1>4 DEF GetsSubmitted, WaitsOn
  <2>2. \A d \in Calls : d # c => ~Pending(d, u)
    BY <1>0, <2>1 DEF Abreast, FormAlone, Pending
  <2>3. CASE calls' = Done(c) /\ UNCHANGED <<page, rows, dialog>>
    BY <1>0, <1>1, <1>2, <2>3, DoneLess
  <2>4. ASSUME NEW t \in Tickets, Go(u, "detail", t),
               calls' = [calls EXCEPT ![c] = Ask("get", u, t, NoBody, "none")]
        PROVE  Abreast'
    <3> DEFINE r == Ask("get", u, t, NoBody, "none")
    <3>1. /\ page'[u].view = "detail" /\ page'[u].of = t
          /\ rows'[u] = NoRows /\ dialog'[u] = Closed
          /\ \A v \in Users \ {u} : page'[v] = page[v] /\ rows'[v] = rows[v] /\ dialog'[v] = dialog[v]
      <4>1. Shape
        BY DEF Abreast
      <4> QED
        BY <1>0, <2>4, <4>1, GoFits
    <3>2. r.kind = "get" /\ r.by = u /\ r.ticket = t
      BY DEF Ask
    <3>3. CallFits(page', r, requests)
      <4>1. WaitsOn(page'[u], r)
        BY <3>1, <3>2 DEF WaitsOn, Shows
      <4> QED
        BY <1>0, <4>1, AskFits
    <3> HIDE DEF r
    <3>4. calls'[c] = r /\ \A d \in Calls : d # c => calls'[d] = calls[d]
      BY <1>0, <2>4 DEF r
    <3>5. \A d \in Calls : Less(calls[d], calls[d])
      BY DEF Less
    <3>6. ASSUME NEW d \in Calls, d # c PROVE CallFits(page', calls[d], requests)
      <4>1. calls[d].mounted /\ calls[d].kind # "idle" => calls[d].by \in Users \ {u}
        BY <1>0, <2>2, <3>6 DEF SoundCall, Pending
      <4>2. calls[d].mounted /\ calls[d].kind # "idle"
               => SamePage(page[calls[d].by], page'[calls[d].by])
        BY <3>1, <4>1 DEF SamePage
      <4> QED
        BY <1>0, <3>5, <4>2, LessFits
    <3>7. FormAlone'
      <4>1. \A v \in Users : page'[v].view = "new" => page[v].view = "new" /\ ~Pending(c, v)'
        BY <3>1, <3>2, <3>4 DEF Pending
      <4> QED
        BY <3>4, <3>5, <4>1, FormKept
    <3>8. RowsFit(page'[u], rows'[u], requests) /\ DialogFits(page'[u], dialog'[u], requests)
      BY <1>0, <3>1, EmptyFits
    <3>9. \A v \in Users : /\ RowsFit(page'[v], rows'[v], requests')
                           /\ DialogFits(page'[v], dialog'[v], requests')
      BY <1>0, <3>1, <3>8, OnePageFits
    <3> QED
      BY <1>0, <3>3, <3>4, <3>6, <3>7, <3>9 DEF Abreast
  <2> QED
    BY <1>4, <2>3, <2>4 DEF GetsSubmitted
\* One row of the page replaced by the answer's.
<1>5. ASSUME q.kind \in {"put", "assign"},
             rows' = [rows EXCEPT ![u][q.ticket] = q.reply.rows[q.ticket]]
      PROVE  /\ RowsFit(page[u], rows'[u], requests)
             /\ \A v \in Users \ {u} : rows'[v] = rows[v]
  <2> DEFINE t == q.ticket  row == q.reply.rows[t]
  <2>1. t \in Tickets /\ Behind(row, requests[t].status) /\ Shows(page[u], t)
    BY <1>0, <1>5 DEF ReplyFits, WaitsOn
  <2>2. rows' = [rows EXCEPT ![u][t] = row]
    BY <1>5
  <2> HIDE DEF u, t, row
  <2>3. /\ rows'[u][t] = row /\ \A s \in Tickets : s # t => rows'[u][s] = rows[u][s]
        /\ \A v \in Users \ {u} : rows'[v] = rows[v]
    BY <1>0, <2>1, <2>2
  <2> QED
    BY <1>0, <2>1, <2>3 DEF RowsFit
<1>6. CASE GetsMoved(c)
  <2> DEFINE t == q.ticket  row == q.reply.rows[t]  d == dialog[u]
             kept == [d EXCEPT !.row = row]
             reset == [d EXCEPT !.row = row, !.selected = row.assigned_to, !.submitting = FALSE]
  <2>1. q.kind = "put" /\ UNCHANGED page
    BY <1>6 DEF GetsMoved
  <2>2. CASE calls' = Done(c) /\ UNCHANGED <<rows, dialog>>
    BY <1>0, <1>1, <1>2, <2>1, <2>2, DoneLess
  <2>3. CASE /\ HasRows(c) /\ ShowRow(u, t, row)
             /\ calls' = Unmount(Done(c), u, {t} \ OnScreen(page[u], rows'[u]))
    <3>1. RowsFit(page[u], rows'[u], requests) /\ \A v \in Users \ {u} : rows'[v] = rows[v]
      BY <1>5, <2>1, <2>3 DEF ShowRow
    <3>2. \A e \in Calls : Less(calls[e], calls'[e])
      BY <1>0, <2>3, DoneUnmountLess
    <3>3. /\ row.status # "none" /\ Shows(page[u], t) /\ Behind(row, requests[t].status)
          /\ row \in Row
      BY <1>0, <2>1, <2>3 DEF WriteFits, HasRows, ReplyFits, WaitsOn
    <3>4. d \in SoundDialog /\ d \in Dialog
      BY <1>0, SoundIsCall
    <3>5. dialog' = [dialog EXCEPT ![u] =
             IF ~d.open \/ page[u].view = "list" THEN d
             ELSE IF d.row.assigned_to = row.assigned_to THEN kept ELSE reset]
      BY <2>3 DEF ShowRow
    <3>6. /\ kept.open = d.open /\ kept.of = d.of /\ kept.row = row
          /\ reset.open = d.open /\ reset.of = d.of /\ reset.row = row
      BY <3>4 DEF Dialog
    <3> HIDE DEF kept, reset, row, t
    <3>7. /\ \A v \in Users \ {u} : dialog'[v] = dialog[v]
          /\ \/ dialog'[u] = d
             \/ d.open /\ page[u].view # "list" /\ dialog'[u] \in {kept, reset}
      BY <1>0, <3>5
    <3>8. DialogFits(page[u], dialog'[u], requests)
      <4>1. CASE dialog'[u] = d
        BY <1>0, <4>1
      <4>2. CASE d.open /\ page[u].view # "list" /\ dialog'[u] \in {kept, reset}
        <5>1. d.of = page[u].of /\ t = page[u].of
          BY <1>0, <3>3, <4>2 DEF DialogFits, Shows
        <5> HIDE DEF d
        <5> QED
          BY <3>3, <3>6, <4>2, <5>1 DEF DialogFits
      <4> QED
        BY <3>7, <4>1, <4>2
    <3> QED
      BY <1>1, <1>2, <2>1, <3>1, <3>2, <3>7, <3>8
  <2> QED
    BY <1>6, <2>2, <2>3 DEF GetsMoved
<1>7. CASE GetsAssigned(c)
  <2> DEFINE t == q.ticket  d == dialog[u]
             again == [d EXCEPT !.submitting = FALSE]
  <2>1. q.kind = "assign" /\ UNCHANGED page
    BY <1>7 DEF GetsAssigned
  <2>2. d \in SoundDialog /\ d \in Dialog
    BY <1>0, SoundIsCall
  <2>3. CASE /\ rows' = [rows EXCEPT ![u][t] = q.reply.rows[t]]
             /\ dialog' = [dialog EXCEPT ![u] = Closed]
             /\ calls' = Unmount(Done(c), u, {t} \ OnScreen(page[u], rows'[u]))
    <3>1. RowsFit(page[u], rows'[u], requests) /\ \A v \in Users \ {u} : rows'[v] = rows[v]
      BY <1>5, <2>1, <2>3
    <3>2. \A e \in Calls : Less(calls[e], calls'[e])
      BY <1>0, <2>3, DoneUnmountLess
    <3>3. /\ \A v \in Users \ {u} : dialog'[v] = dialog[v]
          /\ DialogFits(page[u], dialog'[u], requests)
      BY <1>0, <2>3, EmptyFits
    <3> QED
      BY <1>1, <1>2, <2>1, <3>1, <3>2, <3>3
  <2>4. CASE /\ dialog' = [dialog EXCEPT ![u] = IF d.open THEN again ELSE d]
             /\ calls' = Done(c) /\ UNCHANGED rows
    <3>1. again.open = d.open /\ again.of = d.of /\ again.row = d.row
      BY <2>2 DEF Dialog
    <3> HIDE DEF again
    <3>2. /\ \A v \in Users \ {u} : dialog'[v] = dialog[v]
          /\ dialog'[u] \in {again, d}
      BY <1>0, <2>4
    <3>3. DialogFits(page[u], dialog'[u], requests)
      BY <1>0, <3>1, <3>2 DEF DialogFits
    <3> QED
      BY <1>0, <1>1, <1>2, <2>1, <2>4, <3>2, <3>3, DoneLess
  <2> QED
    BY <1>7, <2>3, <2>4 DEF GetsAssigned
<1> QED
  BY <1>3, <1>4, <1>6, <1>7

LEMMA AbreastInit == Init => Abreast
<1> SUFFICES ASSUME Init PROVE Abreast
  OBVIOUS
<1>1. Shape /\ requests \in [Tickets -> RequestRow]
  BY ShapeInit DEF Shape, TypeOK
<1>2. /\ \A u \in Users : rows[u] = NoRows /\ dialog[u] = Closed
      /\ \A c \in Calls : calls[c] = Idle
  BY DEF Init
<1>3. FormAlone
  BY <1>2 DEF FormAlone, Pending, Idle
<1> QED
  BY <1>1, <1>2, <1>3, EmptyFits, IdleFits DEF Abreast

LEMMA AbreastStep == Abreast /\ [Next]_vars => Abreast'
<1>1. Abreast /\ Next => Abreast'
  BY FitPages, FitHandle, FitGets DEF Next, CallStep
<1>2. Abreast /\ UNCHANGED vars => Abreast'
  <2> SUFFICES ASSUME Abreast, UNCHANGED vars PROVE Abreast'
    OBVIOUS
  <2>1. /\ requests' = requests /\ page' = page /\ rows' = rows /\ dialog' = dialog
        /\ calls' = calls /\ told' = told
    BY DEF vars
  <2>2. Shape'
    BY ShapeStep DEF Abreast
  <2>3. FormAlone'
    BY <2>1 DEF Abreast, FormAlone, Pending
  <2> QED
    BY <2>1, <2>2, <2>3 DEF Abreast
<1> QED
  BY <1>1, <1>2

\* No page is ever ahead of the API, for any number of pages, requests and
\* calls answered in any order.
THEOREM LagCorrect == Spec => []RowsLag
<1>1. Abreast => RowsLag
  BY DEF Abreast, RowsFit, DialogFits, CallFits, ReplyFits, Behind, RowsLag
<1> QED
  BY <1>1, AbreastInit, AbreastStep, PTL DEF Spec

\* A button that was offered is refused only when its request moved meanwhile.
THEOREM RefusedCorrect == Spec => []RefusedMeansMoved
<1>1. Abreast => RefusedMeansMoved
  BY DEF Abreast, CallFits, WriteFits, RefusedMeansMoved
<1> QED
  BY <1>1, AbreastInit, AbreastStep, PTL DEF Spec
=============================================================================
