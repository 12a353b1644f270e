----------------------------- MODULE LeasingTx -----------------------------
(***************************************************************************)
(* The leasing handlers as they run: each HTTP call has a session of its   *)
(* own (shared/db/database.get_db), every await between two statements     *)
(* lets other calls run, and PostgreSQL runs the transactions at READ      *)
(* COMMITTED. A SELECT sees the committed rows and the session's own       *)
(* writes; an UPDATE takes the row's lock until the transaction ends and   *)
(* changes only the columns the handler assigned, whatever the handler had *)
(* read before. Nothing is re-read or re-checked at commit: the models     *)
(* have no version column and no query locks what it reads.                *)
(*                                                                         *)
(* The tables of Leasing are the committed rows. A refused call ends its   *)
(* session; where nothing was read that matters, the refusal is the guard. *)
(***************************************************************************)
EXTENDS Leasing

CONSTANT Sessions    \* calls in flight: connections of the pool in use

VARIABLES call,      \* the call a session serves, or Null
          pc,        \* the statement it is about to run
          todo,      \* requests its flush has still to update
          wr         \* rows it wrote and has not committed; Null: none

txVars == <<call, pc, todo, wr>>
allVars == <<vars, txVars>>

LeaseOps == {"activate", "terminate"}
RequestOps == {"approve", "reject"}
Ops == LeaseOps \cup RequestOps \cup {"submit", "create"}

Call == [op: Ops, by: Users, unit: Units, tenant: Users,
         request: Requests \cup {Null}, lease: Leases \cup {Null}]

ASSUME CallAssumption == Null \notin Call

PC == {"idle", "scope", "check", "unit", "insert", "occupy", "queue",
       "decide", "lease", "commit"}

Writes == [units: [Units -> UnitRow \cup {Null}],
           leases: [Leases -> LeaseRow \cup {Null}],
           requests: [Requests -> RequestRow \cup {Null}]]

NoWrites == [units |-> [u \in Units |-> Null],
             leases |-> [l \in Leases |-> Null],
             requests |-> [r \in Requests |-> Null]]

TxTypeOK ==
    /\ TypeOK
    /\ call \in [Sessions -> Call \cup {Null}]
    /\ pc \in [Sessions -> PC]
    /\ todo \in [Sessions -> SUBSET Requests]
    /\ wr \in [Sessions -> Writes]
    /\ \A s \in Sessions : call[s] = Null <=> pc[s] = "idle"

TxInit ==
    /\ Init
    /\ call = [s \in Sessions |-> Null]
    /\ pc = [s \in Sessions |-> "idle"]
    /\ todo = [s \in Sessions |-> {}]
    /\ wr = [s \in Sessions |-> NoWrites]

----------------------------------------------------------------------------
(* Row locks, fresh keys, and the ways a session moves on *)

\* Fault: an UPDATE of a unit does not wait for the row's lock.
UnitUnguarded(s, u) == TRUE

UnitFree(s, u) == \A o \in Sessions \ {s} : wr[o].units[u] = Null
LeaseFree(s, l) == \A o \in Sessions \ {s} : wr[o].leases[l] = Null
RequestFree(s, r) == \A o \in Sessions \ {s} : wr[o].requests[r] = Null

FreshLease(l) == leases[l] = Null /\ \A o \in Sessions : wr[o].leases[l] = Null
FreshRequest(r) ==
    requests[r] = Null /\ \A o \in Sessions : wr[o].requests[r] = Null

Goto(s, label) == pc' = [pc EXCEPT ![s] = label]

Begin(s, c, label) ==
    /\ call[s] = Null
    /\ call' = [call EXCEPT ![s] = c]
    /\ Goto(s, label)
    /\ UNCHANGED <<vars, todo, wr>>

\* Fault: a session is given up without ending its transaction.
CloseOpenTransaction(s) ==
    /\ call' = [call EXCEPT ![s] = Null]
    /\ Goto(s, "idle")
    /\ todo' = [todo EXCEPT ![s] = {}]
    /\ UNCHANGED wr

\* The session is closed and what it had not committed is gone.
Close(s) ==
    /\ call' = [call EXCEPT ![s] = Null]
    /\ Goto(s, "idle")
    /\ todo' = [todo EXCEPT ![s] = {}]
    /\ wr' = [wr EXCEPT ![s] = NoWrites]

Refuse(s) == Close(s) /\ UNCHANGED vars

\* A SELECT whose result lets the handler go on to label, or ends the call.
Test(s, cond, label) ==
    IF cond THEN Goto(s, label) /\ UNCHANGED <<vars, call, todo, wr>>
            ELSE Refuse(s)

----------------------------------------------------------------------------
(* The first statement of each handler *)

\* POST /lease-requests: the unit is read and tested; has_pending comes next.
SubmitBegin(s, t, u) ==
    /\ Lettable(u)
    /\ Begin(s, [op |-> "submit", by |-> t, unit |-> u, tenant |-> t,
                 request |-> Null, lease |-> Null], "check")

\* POST /lease-requests/{id}/approve and /reject: the request is read and
\* kept; the PENDING test looks at this copy, never at the row again.
ReviewBegin(s, op, by, r) ==
    /\ requests[r] # Null
    /\ requests[r].status = "PENDING"
    /\ Begin(s, [op |-> op, by |-> by, unit |-> requests[r].unit,
                 tenant |-> requests[r].tenant, request |-> r,
                 lease |-> Null], "scope")

\* POST /leases
CreateBegin(s, by, u, t) ==
    /\ units[u] # Null
    /\ Begin(s, [op |-> "create", by |-> by, unit |-> u, tenant |-> t,
                 request |-> Null, lease |-> Null], "scope")

\* Fault: any lease can be activated or terminated.
LeaseBeginAny(s, op, by, l) ==
    /\ leases[l] # Null
    /\ Begin(s, [op |-> op, by |-> by, unit |-> leases[l].unit,
                 tenant |-> leases[l].tenant, request |-> Null,
                 lease |-> l], "scope")

\* POST /leases/{id}/activate and /terminate: the status test looks at the
\* copy read here.
LeaseBegin(s, op, by, l) ==
    /\ leases[l] # Null
    /\ leases[l].status = IF op = "activate" THEN "DRAFT" ELSE "ACTIVE"
    /\ Begin(s, [op |-> op, by |-> by, unit |-> leases[l].unit,
                 tenant |-> leases[l].tenant, request |-> Null,
                 lease |-> l], "scope")

----------------------------------------------------------------------------
(* The statements that follow *)

AfterScope == [approve |-> "unit", reject |-> "decide", create |-> "check",
               activate |-> "lease", terminate |-> "lease"]

\* _assert_manager_scope reads the unit and its property. A unit deleted
\* since then is no property's, and only POST /leases can meet that.
Scope(s) ==
    /\ pc[s] = "scope"
    /\ LET c == call[s]
           ok == c.by \in Managers => units[c.unit] # Null /\ InScope(c.by, c.unit)
       IN IF ok THEN /\ Goto(s, AfterScope[c.op])
                     /\ todo' = [todo EXCEPT ![s] =
                           IF c.op = "reject" THEN {c.request} ELSE {}]
                     /\ UNCHANGED <<vars, call, wr>>
                ELSE Refuse(s)

\* has_pending for a new request, get_active_lease for a new lease.
Check(s) ==
    /\ pc[s] = "check"
    /\ LET c == call[s] IN
       Test(s, IF c.op = "submit" THEN ~HasPending(c.tenant, c.unit)
                                  ELSE ActiveLeases(c.unit) = {}, "insert")

\* approve reads the unit and tests that it can still be let.
ReadUnit(s) ==
    /\ pc[s] = "unit"
    /\ call[s].op = "approve"
    /\ Test(s, Lettable(call[s].unit), "insert")

InsertRequest(s, r) ==
    /\ pc[s] = "insert"
    /\ call[s].op = "submit"
    /\ FreshRequest(r)
    /\ units[call[s].unit] # Null
    /\ wr' = [wr EXCEPT ![s].requests[r] =
                 NewRequest(call[s].tenant, call[s].unit)]
    /\ Goto(s, "commit")
    /\ UNCHANGED <<vars, call, todo>>

InsertLease(s, l) ==
    /\ pc[s] = "insert"
    /\ call[s].op \in {"create", "approve"}
    /\ FreshLease(l)
    /\ units[call[s].unit] # Null
    /\ LET c == call[s]
           granted == c.op = "approve"
       IN /\ wr' = [wr EXCEPT ![s].leases[l] =
                       [unit |-> c.unit, tenant |-> c.tenant,
                        status |-> IF granted THEN "ACTIVE" ELSE "DRAFT",
                        request |-> c.request]]
          /\ Goto(s, IF granted THEN "occupy" ELSE "commit")
    /\ UNCHANGED <<vars, call, todo>>

\* The foreign key refuses the row if the unit has been deleted. The bound
\* on keys is met here too: a call that finds none left fails as well.
InsertFails(s) ==
    /\ pc[s] = "insert"
    /\ \/ units[call[s].unit] = Null
       \/ call[s].op = "submit" /\ \A r \in Requests : ~FreshRequest(r)
       \/ call[s].op # "submit" /\ \A l \in Leases : ~FreshLease(l)
    /\ Refuse(s)

\* activate and terminate write the status over whatever the row holds now.
WriteLease(s) ==
    /\ pc[s] = "lease"
    /\ LET c == call[s] IN
       /\ LeaseFree(s, c.lease)
       /\ wr' = [wr EXCEPT ![s].leases[c.lease] =
                   [leases[c.lease] EXCEPT !.status =
                      IF c.op = "activate" THEN "ACTIVE" ELSE "TERMINATED"]]
       /\ Goto(s, "unit")
       /\ UNCHANGED <<vars, call, todo>>

\* Fault: terminate assigns the value that activate does.
AlwaysOccupied(op) == TRUE

\* The value that a handler assigns to the unit's is_occupied.
Assigned(op) == op # "terminate"

\* activate and terminate then read the unit. The flush writes nothing if
\* is_occupied, as read, has the value assigned to it already.
ReadOccupied(s) ==
    /\ pc[s] = "unit"
    /\ call[s].op \in LeaseOps
    /\ Goto(s, IF units[call[s].unit].occupied = Assigned(call[s].op)
               THEN "commit" ELSE "occupy")
    /\ UNCHANGED <<vars, call, todo, wr>>

Occupy(s) ==
    /\ pc[s] = "occupy"
    /\ LET c == call[s] IN
       /\ UnitFree(s, c.unit)
       /\ wr' = [wr EXCEPT ![s].units[c.unit] =
                   [units[c.unit] EXCEPT !.occupied = Assigned(c.op)]]
       /\ Goto(s, IF c.op = "approve" THEN "queue" ELSE "commit")
       /\ UNCHANGED <<vars, call, todo>>

\* Fault: only the request in hand is answered.
ReadOwn(s) ==
    /\ pc[s] = "queue"
    /\ todo' = [todo EXCEPT ![s] = {call[s].request}]
    /\ Goto(s, "decide")
    /\ UNCHANGED <<vars, call, wr>>

\* get_pending_for_unit: the requests that one flush rejects, with the
\* request in hand, which that flush approves.
ReadQueue(s) ==
    /\ pc[s] = "queue"
    /\ todo' = [todo EXCEPT ![s] =
                  PendingRequests(call[s].unit) \cup {call[s].request}]
    /\ Goto(s, "decide")
    /\ UNCHANGED <<vars, call, wr>>

\* One UPDATE of the flush; it overwrites an answer committed meanwhile.
Decide(s, r) ==
    /\ pc[s] = "decide"
    /\ r \in todo[s]
    /\ RequestFree(s, r)
    /\ LET c == call[s]
           granted == c.op = "approve" /\ r = c.request
       IN wr' = [wr EXCEPT ![s].requests[r] =
                   Decided(requests[r],
                           IF granted THEN "APPROVED" ELSE "REJECTED", c.by)]
    /\ todo' = [todo EXCEPT ![s] = @ \ {r}]
    /\ Goto(s, IF todo'[s] = {} THEN "commit" ELSE "decide")
    /\ UNCHANGED <<vars, call>>

Overlay(written, table) ==
    [k \in DOMAIN table |-> IF written[k] # Null THEN written[k] ELSE table[k]]

\* get_db commits once the handler has returned.
Commit(s) ==
    /\ pc[s] = "commit"
    /\ units' = Overlay(wr[s].units, units)
    /\ leases' = Overlay(wr[s].leases, leases)
    /\ requests' = Overlay(wr[s].requests, requests)
    /\ UNCHANGED properties
    /\ Close(s)

\* A crash, a lost connection or an error in the handler: get_db rolls back.
Rollback(s) == call[s] # Null /\ Refuse(s)

----------------------------------------------------------------------------
(* Property and unit maintenance: one write each, whose reads only decide  *)
(* who may act. It waits for the locks of the open transactions: the row's *)
(* own, and for a DELETE those of uncommitted rows that refer to the unit. *)
(* The key of a new unit is one that no session has ever seen.             *)
UnitLocked(u) == \E s \in Sessions : wr[s].units[u] # Null

\* Fault: uncommitted requests do not hold their unit.
UnitInLease(u) ==
    \E s \in Sessions, l \in Leases :
       wr[s].leases[l] # Null /\ wr[s].leases[l].unit = u

UnitInUse(u) ==
    \E s \in Sessions :
       \/ \E l \in Leases : wr[s].leases[l] # Null /\ wr[s].leases[l].unit = u
       \/ \E r \in Requests : wr[s].requests[r] # Null /\ wr[s].requests[r].unit = u

UnitKnown(u) == \E s \in Sessions : call[s] # Null /\ call[s].unit = u

PortfolioTx ==
    /\ Portfolio
    /\ \A u \in Units :
          CASE units'[u] = units[u] -> TRUE
            [] units[u] = Null /\ units'[u] # Null -> ~UnitKnown(u)
            [] units[u] # Null /\ units'[u] = Null -> ~UnitLocked(u) /\ ~UnitInUse(u)
            [] OTHER -> ~UnitLocked(u)
    /\ UNCHANGED txVars

Start(s) ==
    \/ \E t \in Tenants, u \in Units : SubmitBegin(s, t, u)
    \/ \E by \in Staff :
          \/ \E op \in RequestOps, r \in Requests : ReviewBegin(s, op, by, r)
          \/ \E op \in LeaseOps, l \in Leases : LeaseBegin(s, op, by, l)
          \/ \E u \in Units, t \in Users : CreateBegin(s, by, u, t)

\* Steps that wait for nothing but their turn on the event loop.
Run(s) ==
    \/ Scope(s) \/ Check(s) \/ ReadUnit(s) \/ ReadOccupied(s) \/ ReadQueue(s)
    \/ \E r \in Requests : InsertRequest(s, r)
    \/ \E l \in Leases : InsertLease(s, l)
    \/ InsertFails(s)
    \/ Commit(s)

\* Steps that may have to wait for another session's row lock.
Locking(s) ==
    \/ WriteLease(s) \/ Occupy(s)
    \/ \E r \in Requests : Decide(s, r)

TxNext ==
    \/ PortfolioTx
    \/ \E s \in Sessions : Start(s) \/ Run(s) \/ Locking(s) \/ Rollback(s)

TxSpec == TxInit /\ [][TxNext]_allVars

\* Calls that never overlap: a call starts when the last one has ended.
Alone(s) == \A o \in Sessions \ {s} : call[o] = Null

OneAtATimeNext ==
    \/ (\A s \in Sessions : call[s] = Null) /\ PortfolioTx
    \/ \E s \in Sessions :
          Alone(s) /\ (Start(s) \/ Run(s) \/ Locking(s) \/ Rollback(s))

OneAtATimeSpec == TxInit /\ [][OneAtATimeNext]_allVars

\* A session takes its steps whenever it can run; a row lock goes to those
\* who wait for it in turn (PostgreSQL queues them), so a step that can
\* again and again take its lock gets it.
TxFairSpec ==
    /\ TxSpec
    /\ \A s \in Sessions : WF_allVars(Run(s)) /\ SF_allVars(Locking(s))

----------------------------------------------------------------------------
(* Properties *)

\* o holds a row that s has still to update in the flush it is in.
WaitsFor(s, o) ==
    /\ s # o
    /\ \/ pc[s] = "lease" /\ wr[o].leases[call[s].lease] # Null
       \/ pc[s] = "occupy" /\ wr[o].units[call[s].unit] # Null
       \/ pc[s] = "decide" /\ \E r \in todo[s] : wr[o].requests[r] # Null

\* No group of sessions waits only for each other: the handlers lock leases
\* before units and units before requests, and two approvals for one unit
\* meet at the unit before they reach its requests.
NoLockCycle ==
    \A group \in (SUBSET Sessions) \ {{}} :
       \E s \in group : \A o \in group : ~WaitsFor(s, o)

\* Calls that do not overlap do, statement by statement and with a rollback
\* possible at any of them, exactly what Leasing says in one step: the commit
\* of each call is that call's step, everything before it is invisible.
ImplementsLeasing == Spec

\* What is left of HistoryIsKept when calls overlap: a late write may put one
\* answer in the place of the other, and a lease back into force that was
\* terminated meanwhile; but no request awaits an answer again, no lease is a
\* draft again or ends without having been in force, and what an approval
\* granted is final: once terminated, such a lease stays so.
NoReopening ==
    /\ \A r \in Requests : requests[r] # Null =>
          \/ requests'[r] = requests[r]
          \/ \E status \in {"APPROVED", "REJECTED"}, by \in Staff :
                requests'[r] = Decided(requests[r], status, by)
    /\ \A l \in Leases : leases[l] # Null =>
          \/ leases'[l] = leases[l]
          \/ /\ leases[l].status # "DRAFT"
             /\ leases'[l] = [leases[l] EXCEPT !.status = "TERMINATED"]
          \/ /\ leases[l].request = Null
             /\ leases'[l] = [leases[l] EXCEPT !.status = "ACTIVE"]

\* No step reopens anything (the tests of a copy read earlier,
\* lease_service.py:106 and 146, lease_request_service.py:115 and 179).
NothingReopens == [][NoReopening]_vars

\* Every call is answered: it commits, is refused or is rolled back.
CallsEnd == \A s \in Sessions : call[s] # Null ~> call[s] = Null

----------------------------------------------------------------------------
(* What the documentation says and concurrent calls break *)

\* LeaseService: "DRAFT --activate()--> ACTIVE --terminate()--> TERMINATED".
LeaseLifecycle ==
    [][\A l \in Leases : leases[l] # Null =>
         \/ leases'[l].status = leases[l].status
         \/ leases[l].status = "DRAFT" /\ leases'[l].status = "ACTIVE"
         \/ leases[l].status = "ACTIVE" /\ leases'[l].status = "TERMINATED"]_leases

\* my-docs/docs/USER_GUIDE.md on approval: "All other pending requests for
\* the same unit are auto-rejected"; so when a request becomes APPROVED no
\* other request for its unit is left PENDING.
ApprovalClearsQueue ==
    [][\A r \in Requests :
         /\ requests[r] # Null /\ requests[r].status # "APPROVED"
         /\ requests'[r].status = "APPROVED"
         => \A q \in Requests \ {r} : requests'[q] # Null
               /\ requests'[q].unit = requests[r].unit
               => requests'[q].status # "PENDING"]_requests

\* The same sentence for the requests that were pending when an approval
\* began: two of them are never both granted, so no two ACTIVE leases on a
\* unit were made from requests.
NoDoubleGrant ==
    \A u \in Units : \A l1, l2 \in ActiveLeases(u) :
       leases[l1].request # Null /\ leases[l2].request # Null => l1 = l2

=============================================================================
