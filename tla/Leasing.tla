------------------------------ MODULE Leasing ------------------------------
(***************************************************************************)
(* Properties, units, leases and lease requests as the property service    *)
(* keeps them (services/property_service), one whole request handler per   *)
(* step: what the API promises when calls are served one after another.    *)
(* A step is a call that is accepted; a call the handler refuses (403, 404 *)
(* or 409) or the database refuses (a foreign key) is rolled back and      *)
(* changes nothing, so its conditions are the guards.                      *)
(*                                                                         *)
(* Rents, dates, addresses, messages and unit numbers are left out: no     *)
(* guard reads them. The finite sets Leases, Requests, Units and           *)
(* Properties stand for the uuid4 primary keys and bound how many rows a   *)
(* behaviour creates.                                                      *)
(***************************************************************************)
EXTENDS Naturals, FiniteSets

CONSTANTS Tenants, Managers, Owners, Admins,  \* users, by UserRole
          Properties, Units, Leases, Requests, \* primary keys
          Null                                 \* no row, or a NULL column

Users == Tenants \cup Managers \cup Owners \cup Admins
Staff == Managers \cup Owners \cup Admins

PropertyRow == [owner: Owners \cup Admins, manager: Managers \cup {Null}]

UnitRow == [property: Properties, occupied: BOOLEAN, available: BOOLEAN]

\* The enum's other members (EXPIRING_SOON, EXPIRED, RENEWED) are never assigned.
LeaseStatus == {"DRAFT", "ACTIVE", "TERMINATED"}

\* request is auxiliary: the request whose approval inserted the lease, as
\* the lease_request.approved event pairs them; Null for POST /leases.
LeaseRow == [unit: Units, tenant: Users, status: LeaseStatus,
             request: Requests \cup {Null}]

RequestStatus == {"PENDING", "APPROVED", "REJECTED"}

RequestRow == [unit: Units, tenant: Tenants, status: RequestStatus,
               reviewer: Staff \cup {Null}]

ASSUME NullAssumption ==
    /\ Null \notin PropertyRow \cup UnitRow \cup LeaseRow \cup RequestRow
    /\ Null \notin Requests

VARIABLES properties, units, leases, requests  \* the four tables

vars == <<properties, units, leases, requests>>

TypeOK ==
    /\ properties \in [Properties -> PropertyRow \cup {Null}]
    /\ units \in [Units -> UnitRow \cup {Null}]
    /\ leases \in [Leases -> LeaseRow \cup {Null}]
    /\ requests \in [Requests -> RequestRow \cup {Null}]

Init ==
    /\ properties = [p \in Properties |-> Null]
    /\ units = [u \in Units |-> Null]
    /\ leases = [l \in Leases |-> Null]
    /\ requests = [r \in Requests |-> Null]

----------------------------------------------------------------------------
(* Queries over the tables *)

LeasesOf(u) == {l \in Leases : leases[l] # Null /\ leases[l].unit = u}

ActiveLeases(u) == {l \in LeasesOf(u) : leases[l].status = "ACTIVE"}

RequestsFor(u) == {r \in Requests : requests[r] # Null /\ requests[r].unit = u}

\* Fault: the bulk rejection forgets the status filter.
AllRequestsFor(u) == RequestsFor(u)

PendingRequests(u) == {r \in RequestsFor(u) : requests[r].status = "PENDING"}

UnitsOf(p) == {u \in Units : units[u] # Null /\ units[u].property = p}

\* Fault: the duplicate test looks for a request that was approved.
HasApproved(t, u) ==
    \E r \in RequestsFor(u) :
       requests[r].tenant = t /\ requests[r].status = "APPROVED"

HasPending(t, u) == \E r \in PendingRequests(u) : requests[r].tenant = t

\* Fault: the unit's occupation is not looked at.
LettableIfShown(u) == units[u] # Null /\ units[u].available

Lettable(u) == units[u] # Null /\ ~units[u].occupied /\ units[u].available

\* Fault: requests do not keep a unit from being deleted.
Unleased(u) == LeasesOf(u) = {}

\* ondelete RESTRICT, and the ORM nulling a NOT NULL unit_id, refuse to
\* delete a unit that any lease or request row still refers to.
Unreferenced(u) == LeasesOf(u) = {} /\ RequestsFor(u) = {}

----------------------------------------------------------------------------
(* Who may act *)

OwnerOrAdmin(s, p) == s \in Admins \/ properties[p].owner = s

CanManage(s, p) ==
    \/ OwnerOrAdmin(s, p)
    \/ s \in Managers /\ properties[p].manager = s

\* Owners and admins pass whatever the property; only managers are scoped.
InScope(s, u) ==
    s \in Managers => properties[units[u].property].manager = s

----------------------------------------------------------------------------
(* Properties and units *)

NewUnit(p) == [property |-> p, occupied |-> FALSE, available |-> TRUE]

CreateProperty(s, p, us) ==
    /\ s \in Owners \cup Admins
    /\ properties[p] = Null
    /\ \A u \in us : units[u] = Null
    /\ properties' = [properties EXCEPT ![p] = [owner |-> s, manager |-> Null]]
    /\ units' = [u \in Units |-> IF u \in us THEN NewUnit(p) ELSE units[u]]
    /\ UNCHANGED <<leases, requests>>

AssignManager(s, p, m) ==
    /\ s \in Admins
    /\ properties[p] # Null
    /\ properties' = [properties EXCEPT ![p].manager = m]
    /\ UNCHANGED <<units, leases, requests>>

DeleteProperty(s, p) ==
    /\ properties[p] # Null
    /\ OwnerOrAdmin(s, p)
    /\ \A u \in UnitsOf(p) : Unreferenced(u)
    /\ properties' = [properties EXCEPT ![p] = Null]
    /\ units' = [u \in Units |-> IF u \in UnitsOf(p) THEN Null ELSE units[u]]
    /\ UNCHANGED <<leases, requests>>

CreateUnit(s, p, u) ==
    /\ properties[p] # Null
    /\ CanManage(s, p)
    /\ units[u] = Null
    /\ units' = [units EXCEPT ![u] = NewUnit(p)]
    /\ UNCHANGED <<properties, leases, requests>>

UpdateUnit(s, u, available) ==
    /\ units[u] # Null
    /\ CanManage(s, units[u].property)
    /\ units' = [units EXCEPT ![u].available = available]
    /\ UNCHANGED <<properties, leases, requests>>

DeleteUnit(s, u) ==
    /\ units[u] # Null
    /\ CanManage(s, units[u].property)
    /\ Unreferenced(u)
    /\ units' = [units EXCEPT ![u] = Null]
    /\ UNCHANGED <<properties, leases, requests>>

----------------------------------------------------------------------------
(* Lease requests *)

\* Fault: the tenant is stored as the reviewer of the new request.
NewReviewed(t, u) ==
    [unit |-> u, tenant |-> t, status |-> "PENDING", reviewer |-> t]

NewRequest(t, u) ==
    [unit |-> u, tenant |-> t, status |-> "PENDING", reviewer |-> Null]

SubmitRequest(t, u, r) ==
    /\ requests[r] = Null
    /\ Lettable(u)
    /\ ~HasPending(t, u)
    /\ requests' = [requests EXCEPT ![r] = NewRequest(t, u)]
    /\ UNCHANGED <<properties, units, leases>>

\* Fault: every answer is stored as an approval.
DecidedApproved(row, status, s) ==
    [row EXCEPT !.status = "APPROVED", !.reviewer = s]

Decided(row, status, s) ==
    [row EXCEPT !.status = status, !.reviewer = s]

\* The lease is inserted ACTIVE, the unit becomes occupied, and every other
\* pending request for the unit is rejected in the name of the approver.
ApproveRequest(s, r, l) ==
    LET u == requests[r].unit IN
    /\ requests[r] # Null
    /\ InScope(s, u)
    /\ requests[r].status = "PENDING"
    /\ Lettable(u)
    /\ leases[l] = Null
    /\ leases' = [leases EXCEPT ![l] =
          [unit |-> u, tenant |-> requests[r].tenant,
           status |-> "ACTIVE", request |-> r]]
    /\ units' = [units EXCEPT ![u].occupied = TRUE]
    /\ requests' = [q \in Requests |->
          CASE q = r -> Decided(requests[q], "APPROVED", s)
            [] q # r /\ q \in PendingRequests(u)
                     -> Decided(requests[q], "REJECTED", s)
            [] OTHER -> requests[q]]
    /\ UNCHANGED properties

\* Fault: a request can be rejected whatever its status.
RejectAny(s, r) ==
    /\ requests[r] # Null
    /\ InScope(s, requests[r].unit)
    /\ requests' = [requests EXCEPT ![r] = Decided(@, "REJECTED", s)]
    /\ UNCHANGED <<properties, units, leases>>

RejectRequest(s, r) ==
    /\ requests[r] # Null
    /\ InScope(s, requests[r].unit)
    /\ requests[r].status = "PENDING"
    /\ requests' = [requests EXCEPT ![r] = Decided(@, "REJECTED", s)]
    /\ UNCHANGED <<properties, units, leases>>

----------------------------------------------------------------------------
(* Leases *)

\* The tenant of a lease made by hand is any existing user id.
CreateLease(s, u, t, l) ==
    /\ units[u] # Null
    /\ InScope(s, u)
    /\ ActiveLeases(u) = {}
    /\ leases[l] = Null
    /\ leases' = [leases EXCEPT ![l] =
          [unit |-> u, tenant |-> t, status |-> "DRAFT", request |-> Null]]
    /\ UNCHANGED <<properties, units, requests>>

\* Only the lease's own status is looked at, not the unit's other leases.
ActivateLease(s, l) ==
    LET u == leases[l].unit IN
    /\ leases[l] # Null
    /\ InScope(s, u)
    /\ leases[l].status = "DRAFT"
    /\ leases' = [leases EXCEPT ![l].status = "ACTIVE"]
    /\ units' = [units EXCEPT ![u].occupied = TRUE]
    /\ UNCHANGED <<properties, requests>>

\* Fault: terminating a lease does not free its unit.
TerminateOnly(s, l) ==
    /\ leases[l] # Null
    /\ InScope(s, leases[l].unit)
    /\ leases[l].status = "ACTIVE"
    /\ leases' = [leases EXCEPT ![l].status = "TERMINATED"]
    /\ UNCHANGED <<properties, units, requests>>

TerminateLease(s, l) ==
    LET u == leases[l].unit IN
    /\ leases[l] # Null
    /\ InScope(s, u)
    /\ leases[l].status = "ACTIVE"
    /\ leases' = [leases EXCEPT ![l].status = "TERMINATED"]
    /\ units' = [units EXCEPT ![u].occupied = FALSE]
    /\ UNCHANGED <<properties, requests>>

----------------------------------------------------------------------------
Portfolio ==
    \/ \E s \in Staff, p \in Properties :
          \/ \E us \in SUBSET Units : CreateProperty(s, p, us)
          \/ DeleteProperty(s, p)
          \/ \E u \in Units : CreateUnit(s, p, u)
    \/ \E s \in Staff, p \in Properties, m \in Managers \cup {Null} :
          AssignManager(s, p, m)
    \/ \E s \in Staff, u \in Units :
          \/ \E available \in BOOLEAN : UpdateUnit(s, u, available)
          \/ DeleteUnit(s, u)

Workflow ==
    \/ \E t \in Tenants, u \in Units, r \in Requests : SubmitRequest(t, u, r)
    \/ \E s \in Staff, r \in Requests :
          \/ RejectRequest(s, r)
          \/ \E l \in Leases : ApproveRequest(s, r, l)

Lifecycle ==
    \E s \in Staff, l \in Leases :
       \/ \E u \in Units, t \in Users : CreateLease(s, u, t, l)
       \/ ActivateLease(s, l)
       \/ TerminateLease(s, l)

Next == Portfolio \/ Workflow \/ Lifecycle

Spec == Init /\ [][Next]_vars

----------------------------------------------------------------------------
(* Properties *)

\* Every row that refers to a unit or a property refers to one that exists:
\* deleting a unit or a property never leaves a lease, a request or a unit
\* behind (property_service.delete and the RESTRICT and CASCADE keys).
NoDanglingRows ==
    /\ \A l \in Leases : leases[l] # Null => units[leases[l].unit] # Null
    /\ \A r \in Requests : requests[r] # Null => units[requests[r].unit] # Null
    /\ \A u \in Units : units[u] # Null => properties[units[u].property] # Null

\* A tenant never has two pending requests for the same unit, whatever was
\* decided, terminated or hidden in between (LeaseRequestService.create).
OnePendingPerTenant ==
    \A u \in Units : \A r1, r2 \in PendingRequests(u) :
       requests[r1].tenant = requests[r2].tenant => r1 = r2

\* A unit shown as occupied has an ACTIVE lease: no order of approvals,
\* activations and terminations blocks a unit that nobody leases.
OccupiedUnitsAreLeased ==
    \A u \in Units :
       units[u] # Null /\ units[u].occupied => ActiveLeases(u) # {}

\* No lease made by hand on u has left DRAFT.
LetByRequestsOnly(u) ==
    \A l \in LeasesOf(u) :
       leases[l].request = Null => leases[l].status = "DRAFT"

\* While no hand-made lease on a unit has been activated, the unit has at
\* most one ACTIVE lease, it is then occupied, and no request for an occupied
\* unit is still waiting for an answer.
RequestsLetExclusively ==
    \A u \in Units : units[u] # Null /\ LetByRequestsOnly(u) =>
       /\ \A l1, l2 \in ActiveLeases(u) : l1 = l2
       /\ ActiveLeases(u) # {} => units[u].occupied
       /\ units[u].occupied => PendingRequests(u) = {}

\* An APPROVED request has led to a lease: the answer and the lease are
\* written together or not at all (LeaseRequestService.approve).
ApprovedRequestsHaveLeases ==
    \A r \in Requests : requests[r] # Null /\ requests[r].status = "APPROVED"
       => \E l \in Leases : leases[l] # Null /\ leases[l].request = r

\* A lease made from a request was never a draft, is the only one made from
\* it, is for the tenant and the unit that the request names, and the request
\* stays APPROVED: no request is granted twice, or granted and turned down.
LeasesMatchApprovals ==
    \A l \in Leases : leases[l] # Null /\ leases[l].request # Null =>
       LET r == leases[l].request IN
       /\ leases[l].status # "DRAFT"
       /\ requests[r] # Null
       /\ requests[r].status = "APPROVED"
       /\ requests[r].unit = leases[l].unit
       /\ requests[r].tenant = leases[l].tenant
       /\ \A k \in Leases : leases[k] # Null /\ leases[k].request = r => k = l

\* A request that was answered keeps its answer and its reviewer, and a
\* lease only moves from DRAFT to ACTIVE to TERMINATED.
NoWayBack ==
    /\ \A r \in Requests : requests[r] # Null /\ requests[r].status # "PENDING"
          => requests'[r] = requests[r]
    /\ \A l \in Leases : leases[l] # Null =>
          \/ leases'[l] = leases[l]
          \/ leases[l].status = "DRAFT"
             /\ leases'[l] = [leases[l] EXCEPT !.status = "ACTIVE"]
          \/ leases[l].status = "ACTIVE"
             /\ leases'[l] = [leases[l] EXCEPT !.status = "TERMINATED"]

HistoryIsKept == [][NoWayBack]_vars

----------------------------------------------------------------------------
(* What the documentation says and the handlers do not ensure *)

\* my-docs/docs/USER_GUIDE.md: is_occupied means "A tenant is actively
\* leasing this unit"; so a unit with an ACTIVE lease is occupied.
LeasedUnitsAreOccupied ==
    \A u \in Units :
       units[u] # Null /\ ActiveLeases(u) # {} => units[u].occupied

\* LeaseRepository.get_active_lease: "Return the currently active lease" of
\* a unit, and LeaseService.create refuses a second one: there is only one.
OneActiveLeasePerUnit ==
    \A u \in Units : \A l1, l2 \in ActiveLeases(u) : l1 = l2

\* LeaseService: "Creating a lease marks the unit occupied."
CreatingALeaseOccupies ==
    [][\A l \in Leases : leases[l] = Null /\ leases'[l] # Null
          => units'[leases'[l].unit].occupied]_vars
=============================================================================
