------------------------------ MODULE Services ------------------------------
(***************************************************************************)
(* Payments, maintenance requests and notifications of the backend. A call *)
(* to one of the two services reads a row, tests it, writes it, publishes  *)
(* an event and waits for the event's handlers before get_db commits; the  *)
(* handlers (services/notification_service) write a notification in a      *)
(* session of their own, which takes a second connection from the pool,    *)
(* and commit it first. Sessions interleave at every await.                *)
(*                                                                         *)
(* The columns no guard reads are left out, and so are the calls that only *)
(* read. The leasing calls, which publish in the same way, are in module   *)
(* LeasingTx, without their events.                                        *)
(***************************************************************************)
EXTENDS Naturals, FiniteSets

CONSTANTS Sessions, Bills, Tickets, Users,
          Staff,      \* the users who are no tenants
          TenantOf,   \* TenantOf[k]: the tenant a bill or a ticket is about
          Fees,       \* the late fees
          Null,
          Tables,     \* the tables the server may start with
          Pool,       \* pool_size + max_overflow: 30
          MaxCalls,   \* bound: how many calls arrive
          MaxFaults   \* bound: how often the database or the process fails

VARIABLES
    rows,       \* the committed rows of payments and maintenance_requests
    notes,      \* notes[k]: how many notifications of each event are about k
    pc, call,   \* the statement a session is about to run, and for what call
    copy,       \* the row it read
    wr,         \* the row it wrote and has not committed
    calls, faults,
    overtaken,  \* overtaken[s]: its row changed after it read it
    doubted,    \* rows a call was overtaken on, or undone after its event
    lost        \* rows a handler failed for

vars == <<rows, notes, pc, call, copy, wr, calls, faults, overtaken, doubted, lost>>

-----------------------------------------------------------------------------
Keys == Bills \cup Tickets

PaymentStatus == {"PENDING", "PAID", "PARTIAL", "OVERDUE"}
MaintenanceStatus ==
    {"SUBMITTED", "ASSIGNED", "IN_PROGRESS", "COMPLETED", "CLOSED", "CANCELLED"}

Terminal == {"COMPLETED", "CLOSED", "CANCELLED"}

Bill == [status : PaymentStatus, dated : BOOLEAN, fee : Fees]
Ticket == [status : MaintenanceStatus, assignee : Users \cup {Null}, escalated : BOOLEAN]

BillOps == {"bill", "process", "mark_paid", "mark_partial", "mark_overdue"}
TicketOps == {"request", "assign", "start", "complete", "close", "cancel", "escalate"}

Call ==
    [op : BillOps \ {"mark_overdue"}, key : Bills, arg : {Null}]
        \cup [op : {"mark_overdue"}, key : Bills, arg : Fees]
        \cup [op : TicketOps \ {"assign"}, key : Tickets, arg : {Null}]
        \cup [op : {"assign"}, key : Tickets, arg : Users]

ASSUME BoundsAssumption ==
    /\ Pool \in Nat /\ MaxCalls \in Nat /\ MaxFaults \in Nat
    /\ IsFiniteSet(Sessions) /\ 0 \in Fees

ASSUME KeysAssumption ==
    /\ Bills \cap Tickets = {}
    /\ Null \notin Keys \cup Users \cup Bill \cup Ticket

\* The row of a key.
RowOf(k) == (IF k \in Bills THEN Bill ELSE Ticket) \cup {Null}

ASSUME TablesAssumption ==
    \A table \in Tables :
        table \in [Keys -> Bill \cup Ticket \cup {Null}] /\ \A k \in Keys : table[k] \in RowOf(k)

\* Fault: the test looks at the wrong status.
NotOverdue(bill) == bill.status # "OVERDUE"

Unpaid(bill) == bill.status # "PAID"

\* The tests of a call that does not insert, on the row it read.
Allowed(c, user, row) ==
    /\ row # Null
    /\ \/ c.op = "process" /\ user \in Staff \cup {TenantOf[c.key]} /\ Unpaid(row)
       \/ /\ c.op \in {"mark_paid", "mark_partial", "mark_overdue"}
          /\ user \in Staff /\ Unpaid(row)
       \/ c.op \in {"assign", "escalate"} /\ user \in Staff /\ row.status \notin Terminal
       \/ /\ \/ c.op = "start" /\ row.status = "ASSIGNED"
             \/ c.op = "complete" /\ row.status = "IN_PROGRESS"
          /\ user \in Staff \cup {row.assignee}
       \/ c.op = "close" /\ user \in Staff /\ row.status = "COMPLETED"
       \/ /\ c.op = "cancel" /\ row.status \notin Terminal
          /\ user \in Staff \/ (user = TenantOf[c.key] /\ row.status = "SUBMITTED")

\* A staff member bills, a tenant asks for a repair.
Inserts(c, user) ==
    \/ c.op = "bill" /\ user \in Staff
    \/ c.op = "request" /\ user = TenantOf[c.key]

\* Fault: a request starts open.
NewOpen(c) == IF c.op = "bill" THEN [status |-> "PENDING", dated |-> FALSE, fee |-> 0]
              ELSE [status |-> "OPEN", assignee |-> Null, escalated |-> FALSE]

New(c) == IF c.op = "bill" THEN [status |-> "PENDING", dated |-> FALSE, fee |-> 0]
          ELSE [status |-> "SUBMITTED", assignee |-> Null, escalated |-> FALSE]

\* What the service assigns to the row it read.
Assigned(c, row) ==
    CASE c.op \in {"process", "mark_paid"} -> [row EXCEPT !.status = "PAID", !.dated = TRUE]
      [] c.op = "mark_partial" -> [row EXCEPT !.status = "PARTIAL", !.dated = TRUE]
      [] c.op = "mark_overdue" -> [row EXCEPT !.status = "OVERDUE", !.fee = c.arg]
      [] c.op = "assign" -> [row EXCEPT !.status = "ASSIGNED", !.assignee = c.arg]
      [] c.op = "start" -> [row EXCEPT !.status = "IN_PROGRESS"]
      [] c.op = "complete" -> [row EXCEPT !.status = "COMPLETED"]
      [] c.op = "close" -> [row EXCEPT !.status = "CLOSED"]
      [] c.op = "cancel" -> [row EXCEPT !.status = "CANCELLED"]
      [] c.op = "escalate" -> [row EXCEPT !.escalated = TRUE]

\* Fault: every column is written, those that were not assigned too.
WholeRow(new, old, current) == new

\* The ORM writes the columns whose value is not the one it read, over the
\* row as it is by then.
Changed(new, old, current) ==
    [column \in DOMAIN current |->
        IF new[column] # old[column] THEN new[column] ELSE current[column]]

\* payment_date and updated_at are always new; mark_overdue sets neither.
Writes(c, old) == c.op # "mark_overdue" \/ Assigned(c, old) # old

\* The events that have a handler besides log_event.
Event == [bill |-> "created", request |-> "created", process |-> "paid",
          mark_paid |-> "paid", mark_partial |-> "partial", mark_overdue |-> "overdue",
          assign |-> "assigned", complete |-> "completed"]

Events == {Event[op] : op \in DOMAIN Event}

-----------------------------------------------------------------------------
Connected == {"read", "flush", "publish", "await", "save", "commit"}

\* A handler that saves has a connection beside the publisher's.
InUse == Cardinality({s \in Sessions : pc[s] \in Connected})
            + Cardinality({s \in Sessions : pc[s] = "save"})

NoCall == [op |-> "none", key |-> Null, arg |-> Null]

\* The sessions that have read the row of s and not ended.
OnRow(s) == {o \in Sessions \ {s} : call[o].key = call[s].key /\ copy[o] # Null}

\* s has rolled back or committed: its connection is back in the pool.
Ends(s) ==
    /\ pc' = [pc EXCEPT ![s] = "idle"] /\ call' = [call EXCEPT ![s] = NoCall]
    /\ copy' = [copy EXCEPT ![s] = Null] /\ wr' = [wr EXCEPT ![s] = Null]

Goes(s, statement) ==
    /\ pc' = [pc EXCEPT ![s] = statement]
    /\ UNCHANGED <<call, copy, wr>>

Fails == faults < MaxFaults /\ faults' = faults + 1

Init ==
    /\ rows \in Tables
    /\ notes = [k \in Keys |-> [e \in Events |-> 0]]
    /\ pc = [s \in Sessions |-> "idle"] /\ call = [s \in Sessions |-> NoCall]
    /\ copy = [s \in Sessions |-> Null] /\ wr = [s \in Sessions |-> Null]
    /\ calls = 0 /\ faults = 0
    /\ overtaken = [s \in Sessions |-> FALSE] /\ doubted = {} /\ lost = {}

-----------------------------------------------------------------------------
Arrive(s) ==
    /\ pc[s] = "idle" /\ calls < MaxCalls
    /\ calls' = calls + 1 /\ Goes(s, "connect")
    /\ UNCHANGED <<rows, notes, faults, overtaken, doubted, lost>>

\* The first statement, the SELECT of the current user, takes a connection.
Connect(s) ==
    /\ pc[s] = "connect" /\ InUse < Pool
    /\ Goes(s, "read")
    /\ UNCHANGED <<rows, notes, calls, faults, overtaken, doubted, lost>>

\* The pool's timeout of 30 seconds.
ConnectTimeout(s) ==
    /\ pc[s] = "connect" /\ InUse = Pool
    /\ Ends(s)
    /\ UNCHANGED <<rows, notes, calls, faults, overtaken, doubted, lost>>

\* What the call is matters from here on.
Read(s, c, user) ==
    /\ pc[s] = "read" /\ Allowed(c, user, rows[c.key])
    /\ pc' = [pc EXCEPT ![s] = "flush"] /\ call' = [call EXCEPT ![s] = c]
    /\ copy' = [copy EXCEPT ![s] = rows[c.key]]
    /\ UNCHANGED <<rows, notes, wr, calls, faults, overtaken, doubted, lost>>

\* 403, 404, 409; 402 when a payment simulates a failure.
Refuse(s, c, user) ==
    /\ pc[s] = "read"
    /\ \/ ~Allowed(c, user, rows[c.key]) /\ ~Inserts(c, user)
       \/ c.op = "process"
    /\ Ends(s)
    /\ UNCHANGED <<rows, notes, calls, faults, overtaken, doubted, lost>>

\* The key is a new uuid.
Insert(s, c, user) ==
    /\ pc[s] = "read" /\ Inserts(c, user)
    /\ rows[c.key] = Null /\ \A o \in Sessions : call[o].key # c.key
    /\ pc' = [pc EXCEPT ![s] = "publish"] /\ call' = [call EXCEPT ![s] = c]
    /\ copy' = [copy EXCEPT ![s] = New(c)] /\ wr' = [wr EXCEPT ![s] = New(c)]
    /\ UNCHANGED <<rows, notes, calls, faults, overtaken, doubted, lost>>

\* UPDATE and the refresh after it; the row lock is held until the end.
Flush(s) ==
    LET c == call[s]
        new == Assigned(c, copy[s])
    IN  /\ pc[s] = "flush" /\ pc' = [pc EXCEPT ![s] = "publish"]
        /\ \/ /\ Writes(c, copy[s])
              /\ \A o \in OnRow(s) : wr[o] = Null
              /\ wr' = [wr EXCEPT ![s] = Changed(new, copy[s], rows[c.key])]
           \/ ~Writes(c, copy[s]) /\ UNCHANGED wr
        /\ UNCHANGED <<rows, notes, call, copy, calls, faults, overtaken, doubted, lost>>

Publish(s) ==
    /\ pc[s] = "publish"
    /\ Goes(s, IF call[s].op \in DOMAIN Event THEN "await" ELSE "commit")
    /\ UNCHANGED <<rows, notes, calls, faults, overtaken, doubted, lost>>

HandlerConnect(s) ==
    /\ pc[s] = "await" /\ InUse < Pool
    /\ Goes(s, "save")
    /\ UNCHANGED <<rows, notes, calls, faults, overtaken, doubted, lost>>

\* Fault: the timeout waits for one connection more than there are.
HandlerWaits(s) ==
    /\ pc[s] = "await" /\ InUse > Pool
    /\ Goes(s, "commit") /\ lost' = lost \cup {call[s].key}
    /\ UNCHANGED <<rows, notes, calls, faults, overtaken, doubted>>

\* A handler that raises is logged; the publisher goes on.
HandlerTimeout(s) ==
    /\ pc[s] = "await" /\ InUse = Pool
    /\ Goes(s, "commit") /\ lost' = lost \cup {call[s].key}
    /\ UNCHANGED <<rows, notes, calls, faults, overtaken, doubted>>

HandlerSave(s) ==
    /\ pc[s] = "save" /\ Goes(s, "commit")
    /\ notes' = [notes EXCEPT ![call[s].key][Event[call[s].op]] = @ + 1]
    /\ UNCHANGED <<rows, calls, faults, overtaken, doubted, lost>>

HandlerFails(s) ==
    /\ pc[s] = "save" /\ Fails
    /\ Goes(s, "commit") /\ lost' = lost \cup {call[s].key}
    /\ UNCHANGED <<rows, notes, calls, overtaken, doubted>>

Commit(s) ==
    LET k == call[s].key
    IN  /\ pc[s] = "commit" /\ Ends(s)
        /\ rows' = [rows EXCEPT ![k] = IF wr[s] = Null THEN @ ELSE wr[s]]
        /\ overtaken' = [o \in Sessions |->
              IF o = s THEN FALSE ELSE overtaken[o] \/ (o \in OnRow(s) /\ wr[s] # Null)]
        /\ doubted' = IF overtaken[s] THEN doubted \cup {k} ELSE doubted
        /\ UNCHANGED <<notes, calls, faults, lost>>

\* A statement or the COMMIT fails; the notification, if any, stays.
Rollback(s) ==
    /\ pc[s] \in {"read", "flush", "commit"} /\ Fails
    /\ Ends(s) /\ overtaken' = [overtaken EXCEPT ![s] = FALSE]
    /\ doubted' = IF pc[s] = "commit" THEN doubted \cup {call[s].key} ELSE doubted
    /\ UNCHANGED <<rows, notes, calls, lost>>

\* The process dies and is started again.
Crash ==
    /\ Fails
    /\ pc' = [s \in Sessions |-> "idle"] /\ call' = [s \in Sessions |-> NoCall]
    /\ copy' = [s \in Sessions |-> Null] /\ wr' = [s \in Sessions |-> Null]
    /\ overtaken' = [s \in Sessions |-> FALSE]
    /\ doubted' = doubted \cup {call[s].key : s \in {o \in Sessions : pc[o] = "commit"}}
    /\ UNCHANGED <<rows, notes, calls, lost>>

Step(s) ==
    \/ Connect(s) \/ ConnectTimeout(s)
    \/ \E c \in Call, user \in Users : Read(s, c, user) \/ Refuse(s, c, user) \/ Insert(s, c, user)
    \/ Publish(s) \/ HandlerConnect(s) \/ HandlerTimeout(s) \/ HandlerSave(s) \/ Commit(s)

Next ==
    \/ \E s \in Sessions : Arrive(s) \/ Step(s) \/ Flush(s) \/ HandlerFails(s) \/ Rollback(s)
    \/ Crash

(***************************************************************************)
(* A task that can go on does (asyncio's loop; the pool's timer fires when *)
(* no connection comes back), and PostgreSQL grants a row lock to those    *)
(* that wait in turn.                                                      *)
(***************************************************************************)
Spec == Init /\ [][Next]_vars
FairSpec == Spec /\ \A s \in Sessions : WF_vars(Step(s)) /\ SF_vars(Flush(s))

-----------------------------------------------------------------------------
TypeOK ==
    /\ rows \in [Keys -> Bill \cup Ticket \cup {Null}]
    /\ \A k \in Keys : rows[k] \in RowOf(k)
    /\ notes \in [Keys -> [Events -> 0 .. MaxCalls]]
    /\ pc \in [Sessions -> Connected \cup {"idle", "connect"}]
    /\ call \in [Sessions -> Call \cup {NoCall}]
    /\ copy \in [Sessions -> Bill \cup Ticket \cup {Null}]
    /\ wr \in [Sessions -> Bill \cup Ticket \cup {Null}]
    /\ calls \in 0 .. MaxCalls /\ faults \in 0 .. MaxFaults
    /\ overtaken \in [Sessions -> BOOLEAN] /\ doubted \subseteq Keys /\ lost \subseteq Keys
    /\ InUse <= Pool

(***************************************************************************)
(* What a commit does to a row. A date of payment, an assignee and an      *)
(* escalation are never lost, even to a call that read the row before they *)
(* were there. A status moves only as the tests of the services admit      *)
(* (payment_service.py:99, maintenance_service.py:100-221), except by a    *)
(* call that was overtaken: between its test and its UPDATE another call   *)
(* committed the same row. The tests admit more than the class draws:      *)
(* `assign` asks only that the request is not terminal, so it also takes a *)
(* request in progress back to ASSIGNED (LifecycleAsDrawn, below).         *)
(***************************************************************************)
Moves ==
    {<<old, new>> : old \in PaymentStatus \ {"PAID"}, new \in PaymentStatus \ {"PENDING"}}
        \cup {<<old, "ASSIGNED">> : old \in MaintenanceStatus \ Terminal}
        \cup {<<"ASSIGNED", "IN_PROGRESS">>, <<"IN_PROGRESS", "COMPLETED">>,
              <<"COMPLETED", "CLOSED">>}
        \cup {<<old, "CANCELLED">> : old \in MaintenanceStatus \ Terminal}

MarksStay(k) ==
    IF k \in Bills THEN rows[k].dated => rows'[k].dated
    ELSE /\ rows[k].assignee # Null => rows'[k].assignee # Null
         /\ rows[k].escalated => rows'[k].escalated

CommitsKeep ==
    [][\A k \in Keys : rows[k] # Null /\ rows'[k] # rows[k] =>
          /\ MarksStay(k)
          /\ \/ rows'[k].status = rows[k].status
             \/ <<rows[k].status, rows'[k].status>> \in Moves
             \/ \E s \in Sessions : overtaken[s] /\ call[s].key = k /\ pc'[s] = "idle"]_vars

(***************************************************************************)
(* The status machine that MaintenanceService draws (maintenance_service.py*)
(* :31, "SUBMITTED -> ASSIGNED -> IN_PROGRESS -> COMPLETED -> CLOSED") and *)
(* the user guide's table ("| Assign | Submitted | Assigned |", my-docs/   *)
(* docs/USER_GUIDE.md:200): no call that was not overtaken moves a request *)
(* otherwise. `assign` does (:105): MCServices_drawn.cfg refutes it.       *)
(***************************************************************************)
Drawn ==
    {<<"SUBMITTED", "ASSIGNED">>, <<"ASSIGNED", "IN_PROGRESS">>,
     <<"IN_PROGRESS", "COMPLETED">>, <<"COMPLETED", "CLOSED">>}
        \cup {<<old, "CANCELLED">> : old \in MaintenanceStatus \ Terminal}

LifecycleAsDrawn ==
    [][\A k \in Tickets : rows[k] # Null =>
          \/ rows'[k].status = rows[k].status
          \/ <<rows[k].status, rows'[k].status>> \in Drawn
          \/ \E s \in Sessions : overtaken[s] /\ call[s].key = k /\ pc'[s] = "idle"]_vars

(***************************************************************************)
(* Notifications and rows agree (handlers.py:27) as long as no call on the *)
(* row was overtaken or undone after its handlers had committed: nobody is *)
(* thanked for a bill that is not paid or told of a repair that is not     *)
(* done, nor twice; and unless a handler failed everyone is told.          *)
(***************************************************************************)
Final == [paid |-> {"PAID"}, completed |-> {"COMPLETED", "CLOSED"}]

\* No bill that is paid and no repair that is done is in the tables to start
\* with, so that nobody is owed a notification from before.
ASSUME StartAssumption ==
    \A table \in Tables, k \in Keys, e \in DOMAIN Final :
        table[k] # Null => table[k].status \notin Final[e]

\* A call that is about to commit the row, its handlers done.
Committing(k, statuses) ==
    \E s \in Sessions : pc[s] = "commit" /\ call[s].key = k /\ wr[s] # Null /\ wr[s].status \in statuses

Doubtful(k) == k \in doubted \/ \E s \in Sessions : overtaken[s] /\ call[s].key = k

NoticesAreTrue ==
    \A k \in Keys, e \in DOMAIN Final :
        LET is == rows[k] # Null /\ rows[k].status \in Final[e]
        IN  ~Doubtful(k) =>
              /\ notes[k][e] <= 1
              /\ notes[k][e] = 1 => is \/ Committing(k, Final[e])
              /\ is /\ k \notin lost => notes[k][e] = 1

(***************************************************************************)
(* Every call ends, even when publishers hold every connection while their *)
(* handlers ask for another (database.py:16, handlers.py:22).              *)
(***************************************************************************)
CallsEnd == \A s \in Sessions : pc[s] # "idle" ~> pc[s] = "idle"

(***************************************************************************)
(* A bill that is paid stays so ("Payment is already marked paid",         *)
(* payment_service.py:110).                                                *)
(***************************************************************************)
PaidStays ==
    [][\A k \in Bills : rows[k] # Null /\ rows[k].status = "PAID" => rows'[k].status = "PAID"]_vars
=============================================================================
