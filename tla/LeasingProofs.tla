--------------------------- MODULE LeasingProofs ---------------------------
(***************************************************************************)
(* Proofs, for any sets of users, properties, units, leases and requests,  *)
(* about Leasing (part one) and about LeasingTx with any number of         *)
(* sessions (part two): what the handlers keep when calls are served one   *)
(* after another; what of it stays true when calls overlap at any          *)
(* statement; that nothing is reopened even then; that no sessions wait    *)
(* for each other in a circle; and that calls which do not overlap         *)
(* implement Leasing.                                                      *)
(***************************************************************************)
EXTENDS LeasingTx, TLAPS

-----------------------------------------------------------------------------
(* Part one: Leasing *)

(***************************************************************************)
(* The tables keep their types.                                            *)
(***************************************************************************)
\* The empty tables are well typed.
LEMMA TypeInit == Init => TypeOK
BY DEF Init, TypeOK

\* Creating, changing and deleting properties and units (PropertyService and
\* UnitService) leaves every table well typed.
LEMMA TypePortfolio == TypeOK /\ Portfolio => TypeOK'
<1> SUFFICES ASSUME TypeOK, Portfolio PROVE TypeOK'
  OBVIOUS
<1> USE DEF TypeOK
<1>1. ASSUME NEW s \in Staff, NEW p \in Properties, NEW us \in SUBSET Units,
             CreateProperty(s, p, us)
      PROVE TypeOK'
  BY <1>1 DEF CreateProperty, NewUnit, PropertyRow, UnitRow
<1>2. ASSUME NEW s \in Staff, NEW p \in Properties, DeleteProperty(s, p)
      PROVE TypeOK'
  BY <1>2 DEF DeleteProperty
<1>3. ASSUME NEW s \in Staff, NEW p \in Properties, NEW u \in Units,
             CreateUnit(s, p, u)
      PROVE TypeOK'
  BY <1>3 DEF CreateUnit, NewUnit, UnitRow
<1>4. ASSUME NEW s \in Staff, NEW p \in Properties,
             NEW m \in Managers \cup {Null}, AssignManager(s, p, m)
      PROVE TypeOK'
  BY <1>4 DEF AssignManager, PropertyRow
<1>5. ASSUME NEW s \in Staff, NEW u \in Units, NEW a \in BOOLEAN,
             UpdateUnit(s, u, a)
      PROVE TypeOK'
  BY <1>5 DEF UpdateUnit, UnitRow
<1>6. ASSUME NEW s \in Staff, NEW u \in Units, DeleteUnit(s, u)
      PROVE TypeOK'
  BY <1>6 DEF DeleteUnit
<1> QED
  BY <1>1, <1>2, <1>3, <1>4, <1>5, <1>6 DEF Portfolio

\* Submitting and answering requests (LeaseRequestService) leaves every table
\* well typed.
LEMMA TypeWorkflow == TypeOK /\ Workflow => TypeOK'
<1> SUFFICES ASSUME TypeOK, Workflow PROVE TypeOK'
  OBVIOUS
<1> USE DEF TypeOK
<1>1. ASSUME NEW t \in Tenants, NEW u \in Units, NEW r \in Requests,
             SubmitRequest(t, u, r)
      PROVE TypeOK'
  BY <1>1 DEF SubmitRequest, NewRequest, RequestRow, RequestStatus
<1>2. ASSUME NEW s \in Staff, NEW r \in Requests, RejectRequest(s, r)
      PROVE TypeOK'
  BY <1>2 DEF RejectRequest, Decided, RequestRow, RequestStatus
<1>3. ASSUME NEW s \in Staff, NEW r \in Requests, NEW l \in Leases,
             ApproveRequest(s, r, l)
      PROVE TypeOK'
  <2> DEFINE u == requests[r].unit
  <2>1. requests[r] \in RequestRow /\ u \in Units
    BY <1>3 DEF ApproveRequest, RequestRow
  <2>2. units[u] \in UnitRow
    BY <1>3, <2>1 DEF ApproveRequest, Lettable
  <2>3. units' \in [Units -> UnitRow \cup {Null}]
    BY <1>3, <2>1, <2>2 DEF ApproveRequest, UnitRow
  <2>4. leases' \in [Leases -> LeaseRow \cup {Null}]
    BY <1>3, <2>1
    DEF ApproveRequest, RequestRow, LeaseRow, LeaseStatus, Users
  <2>5. ASSUME NEW q \in Requests PROVE requests'[q] \in RequestRow \cup {Null}
    BY <1>3, <2>1, <2>5
    DEF ApproveRequest, PendingRequests, RequestsFor, Decided, RequestRow,
        RequestStatus
  <2>6. requests' \in [Requests -> RequestRow \cup {Null}]
    BY <1>3, <2>5 DEF ApproveRequest
  <2> QED
    BY <1>3, <2>3, <2>4, <2>6 DEF ApproveRequest
<1> QED
  BY <1>1, <1>2, <1>3 DEF Workflow

\* Activation and termination write the row of the lease's unit: that the
\* row is there is NoDanglingRows, which is why the two are proved together.
LEMMA TypeLifecycle == TypeOK /\ NoDanglingRows /\ Lifecycle => TypeOK'
<1> SUFFICES ASSUME TypeOK, NoDanglingRows, Lifecycle PROVE TypeOK'
  OBVIOUS
<1> USE DEF TypeOK
<1>1. ASSUME NEW s \in Staff, NEW l \in Leases, NEW u \in Units, NEW t \in Users,
             CreateLease(s, u, t, l)
      PROVE TypeOK'
  BY <1>1 DEF CreateLease, LeaseRow, LeaseStatus
<1>2. ASSUME NEW l \in Leases, leases[l] # Null
      PROVE /\ leases[l] \in LeaseRow
            /\ leases[l].unit \in Units
            /\ units[leases[l].unit] \in UnitRow
  BY <1>2 DEF NoDanglingRows, LeaseRow
<1>3. ASSUME NEW l \in Leases, leases[l] # Null,
             NEW status \in LeaseStatus, NEW b \in BOOLEAN,
             leases' = [leases EXCEPT ![l].status = status],
             units' = [units EXCEPT ![leases[l].unit].occupied = b],
             UNCHANGED <<properties, requests>>
      PROVE TypeOK'
  <2>1. [leases[l] EXCEPT !.status = status] \in LeaseRow
    BY <1>2, <1>3 DEF LeaseRow
  <2>2. [units[leases[l].unit] EXCEPT !.occupied = b] \in UnitRow
    BY <1>2, <1>3 DEF UnitRow
  <2>3. leases' \in [Leases -> LeaseRow \cup {Null}]
    BY <1>3, <2>1
  <2>4. units' \in [Units -> UnitRow \cup {Null}]
    BY <1>2, <1>3, <2>2
  <2> QED
    BY <1>3, <2>3, <2>4
<1>4. ASSUME NEW s \in Staff, NEW l \in Leases,
             ActivateLease(s, l) \/ TerminateLease(s, l)
      PROVE TypeOK'
  BY <1>3, <1>4 DEF ActivateLease, TerminateLease, LeaseStatus
<1> QED
  BY <1>1, <1>4 DEF Lifecycle

\* Any accepted call, or none, keeps the types.
LEMMA TypeStep == TypeOK /\ NoDanglingRows /\ [Next]_vars => TypeOK'
<1>1. TypeOK /\ UNCHANGED vars => TypeOK'
  BY DEF TypeOK, vars
<1> QED
  BY <1>1, TypePortfolio, TypeWorkflow, TypeLifecycle DEF Next

(***************************************************************************)
(* No row refers to a unit or a property that is gone.                     *)
(***************************************************************************)
\* What UnitFactory makes for a property is a vacant unit of that property.
LEMMA NewUnitShape ==
  ASSUME NEW p \in Properties
  PROVE  /\ NewUnit(p) \in UnitRow
         /\ NewUnit(p) # Null
         /\ NewUnit(p).property = p
         /\ ~NewUnit(p).occupied
<1>1. NewUnit(p) \in UnitRow
  BY DEF NewUnit, UnitRow
<1>2. NewUnit(p).property = p /\ ~NewUnit(p).occupied
  BY DEF NewUnit
<1> QED
  BY <1>1, <1>2, NullAssumption

\* Deleting a unit or a property (the RESTRICT and CASCADE keys of models.py)
\* never leaves a row that refers to it.
LEMMA DanglingPortfolio ==
  TypeOK /\ NoDanglingRows /\ Portfolio => NoDanglingRows'
<1> SUFFICES ASSUME TypeOK, NoDanglingRows, Portfolio PROVE NoDanglingRows'
  OBVIOUS
<1> USE DEF NoDanglingRows
<1>0. /\ \A l \in Leases : leases[l] # Null => leases[l].unit \in Units
      /\ \A r \in Requests : requests[r] # Null => requests[r].unit \in Units
      /\ \A u \in Units : units[u] # Null => units[u].property \in Properties
  BY DEF TypeOK, LeaseRow, RequestRow, UnitRow
<1>1. ASSUME NEW s \in Staff, NEW p \in Properties, NEW us \in SUBSET Units,
             CreateProperty(s, p, us)
      PROVE NoDanglingRows'
  <2>1. properties'[p] # Null /\ \A q \in Properties \ {p} :
          properties'[q] = properties[q]
    BY <1>1, NullAssumption DEF CreateProperty, TypeOK, PropertyRow
  <2>2. \A u \in Units : /\ u \in us => units'[u] = NewUnit(p)
                        /\ u \notin us => units'[u] = units[u]
    BY <1>1 DEF CreateProperty, TypeOK
  <2>3. NewUnit(p) # Null /\ NewUnit(p).property = p
    BY NewUnitShape
  <2> QED
    BY <1>0, <1>1, <2>1, <2>2, <2>3 DEF CreateProperty
<1>2. ASSUME NEW s \in Staff, NEW p \in Properties, DeleteProperty(s, p)
      PROVE NoDanglingRows'
  BY <1>0, <1>2
  DEF DeleteProperty, UnitsOf, Unreferenced, LeasesOf, RequestsFor, TypeOK
<1>3. ASSUME NEW s \in Staff, NEW p \in Properties, NEW u \in Units,
             CreateUnit(s, p, u)
      PROVE NoDanglingRows'
  <2>1. NewUnit(p) # Null /\ NewUnit(p).property = p
    BY NewUnitShape
  <2> QED
    BY <1>0, <1>3, <2>1 DEF CreateUnit, TypeOK
<1>4. ASSUME NEW s \in Staff, NEW p \in Properties,
             NEW m \in Managers \cup {Null}, AssignManager(s, p, m)
      PROVE NoDanglingRows'
  <2>1. \A q \in Properties : properties[q] # Null => properties'[q] # Null
    BY <1>4, NullAssumption DEF AssignManager, TypeOK, PropertyRow
  <2> QED
    BY <1>0, <1>4, <2>1 DEF AssignManager
<1>5. ASSUME NEW s \in Staff, NEW u \in Units, NEW a \in BOOLEAN,
             UpdateUnit(s, u, a)
      PROVE NoDanglingRows'
  <2>1. units'[u] # Null /\ units'[u].property = units[u].property
    BY <1>5, NullAssumption DEF UpdateUnit, TypeOK, UnitRow
  <2> QED
    BY <1>0, <1>5, <2>1 DEF UpdateUnit, TypeOK
<1>6. ASSUME NEW s \in Staff, NEW u \in Units, DeleteUnit(s, u)
      PROVE NoDanglingRows'
  BY <1>0, <1>6
  DEF DeleteUnit, Unreferenced, LeasesOf, RequestsFor, TypeOK
<1> QED
  BY <1>1, <1>2, <1>3, <1>4, <1>5, <1>6 DEF Portfolio

\* Outside Portfolio no row disappears, no row changes the unit or property
\* it refers to, and a new row refers to a unit that is there.
LEMMA DanglingOthers ==
  TypeOK /\ NoDanglingRows /\ (Workflow \/ Lifecycle) => NoDanglingRows'
<1> SUFFICES ASSUME TypeOK, NoDanglingRows, Workflow \/ Lifecycle
             PROVE NoDanglingRows'
  OBVIOUS
<1>0. /\ \A l \in Leases : leases[l] # Null => leases[l] \in LeaseRow
      /\ \A r \in Requests : requests[r] # Null => requests[r] \in RequestRow
      /\ \A u \in Units : units[u] # Null => units[u] \in UnitRow
  BY DEF TypeOK
<1> DEFINE Kept ==
      /\ \A u \in Units : units[u] # Null =>
            units'[u] # Null /\ units'[u].property = units[u].property
      /\ \A u \in Units : units[u] = Null => units'[u] = Null
      /\ properties' = properties
<1>1. ASSUME Kept,
             \A l \in Leases : leases'[l] # Null =>
                leases'[l].unit \in Units /\ units[leases'[l].unit] # Null,
             \A r \in Requests : requests'[r] # Null =>
                requests'[r].unit \in Units /\ units[requests'[r].unit] # Null
      PROVE NoDanglingRows'
  BY <1>1 DEF NoDanglingRows
<1>2. ASSUME NEW u \in Units, NEW b \in BOOLEAN, units[u] # Null,
             units' = [units EXCEPT ![u].occupied = b], properties' = properties
      PROVE Kept
  BY <1>0, <1>2, NullAssumption DEF TypeOK, UnitRow
<1>3. ASSUME NEW t \in Tenants, NEW u \in Units, NEW r \in Requests,
             SubmitRequest(t, u, r)
      PROVE NoDanglingRows'
  BY <1>0, <1>1, <1>3
  DEF SubmitRequest, NewRequest, Lettable, NoDanglingRows, TypeOK, RequestRow, LeaseRow
<1>4. ASSUME NEW s \in Staff, NEW r \in Requests, RejectRequest(s, r)
      PROVE NoDanglingRows'
  BY <1>0, <1>1, <1>4
  DEF RejectRequest, Decided, NoDanglingRows, TypeOK, RequestRow, LeaseRow
<1>5. ASSUME NEW s \in Staff, NEW r \in Requests, NEW l \in Leases,
             ApproveRequest(s, r, l)
      PROVE NoDanglingRows'
  <2>1. requests[r].unit \in Units /\ units[requests[r].unit] # Null
    BY <1>0, <1>5 DEF ApproveRequest, RequestRow, NoDanglingRows
  <2>2. Kept
    BY <1>2, <1>5, <2>1 DEF ApproveRequest
  <2>3. \A q \in Requests : requests'[q] # Null =>
           requests[q] # Null /\ requests'[q].unit = requests[q].unit
    BY <1>0, <1>5
    DEF ApproveRequest, Decided, RequestRow, PendingRequests, RequestsFor
  <2>4. \A k \in Leases : leases'[k] # Null =>
           leases'[k].unit \in Units /\ units[leases'[k].unit] # Null
    BY <1>0, <1>5, <2>1 DEF ApproveRequest, TypeOK, NoDanglingRows, LeaseRow
  <2> QED
    BY <1>0, <1>1, <2>2, <2>3, <2>4 DEF NoDanglingRows, RequestRow
<1>6. ASSUME NEW s \in Staff, NEW l \in Leases, NEW u \in Units, NEW t \in Users,
             CreateLease(s, u, t, l)
      PROVE NoDanglingRows'
  BY <1>0, <1>1, <1>6
  DEF CreateLease, NoDanglingRows, TypeOK, RequestRow, LeaseRow
<1>7. ASSUME NEW l \in Leases, NEW status, NEW b \in BOOLEAN,
             leases[l] # Null,
             leases' = [leases EXCEPT ![l].status = status],
             units' = [units EXCEPT ![leases[l].unit].occupied = b],
             UNCHANGED <<properties, requests>>
      PROVE NoDanglingRows'
  <2>1. leases[l].unit \in Units /\ units[leases[l].unit] # Null
    BY <1>0, <1>7 DEF NoDanglingRows, LeaseRow
  <2>2. Kept
    BY <1>2, <1>7, <2>1
  <2>3. \A k \in Leases : leases'[k] # Null =>
           leases[k] # Null /\ leases'[k].unit = leases[k].unit
    BY <1>0, <1>7 DEF TypeOK, LeaseRow
  <2>4. \A k \in Leases : leases[k] # Null => leases[k].unit \in Units
    BY <1>0 DEF TypeOK, LeaseRow
  <2>5. \A q \in Requests : requests[q] # Null => requests[q].unit \in Units
    BY <1>0 DEF TypeOK, RequestRow
  <2> QED
    BY <1>1, <1>7, <2>2, <2>3, <2>4, <2>5 DEF NoDanglingRows
<1>8. ASSUME NEW s \in Staff, NEW l \in Leases,
             ActivateLease(s, l) \/ TerminateLease(s, l)
      PROVE NoDanglingRows'
  BY <1>7, <1>8 DEF ActivateLease, TerminateLease
<1> QED
  BY <1>3, <1>4, <1>5, <1>6, <1>8 DEF Workflow, Lifecycle

Shape == TypeOK /\ NoDanglingRows

\* Shape holds of the empty tables.
LEMMA ShapeInit == Init => Shape
BY TypeInit DEF Init, Shape, NoDanglingRows

\* Shape is inductive: any accepted call, or none, keeps it.
LEMMA ShapeStep == Shape /\ [Next]_vars => Shape'
<1>1. Shape /\ UNCHANGED vars => Shape'
  BY DEF Shape, TypeOK, NoDanglingRows, vars
<1> QED
  BY <1>1, TypeStep, DanglingPortfolio, DanglingOthers DEF Shape, Next

\* The tables keep the columns their model classes declare, and no order of
\* creations and deletions leaves a lease, a request or a unit whose unit or
\* property is gone (PropertyService, UnitService and the keys of models.py).
THEOREM ShapeCorrect == Spec => []TypeOK /\ []NoDanglingRows
<1>1. Shape => TypeOK /\ NoDanglingRows
  BY DEF Shape
<1> QED
  BY <1>1, ShapeInit, ShapeStep, PTL DEF Spec

(***************************************************************************)
(* Facts about the rows an action leaves behind, from the types.           *)
(***************************************************************************)
\* Every row that is there has the columns of its model class.
LEMMA RowTypes ==
  ASSUME TypeOK
  PROVE  /\ \A l \in Leases : leases[l] # Null => leases[l] \in LeaseRow
         /\ \A r \in Requests : requests[r] # Null => requests[r] \in RequestRow
         /\ \A u \in Units : units[u] # Null => units[u] \in UnitRow
BY DEF TypeOK

\* Portfolio touches neither leases nor requests, and a unit is occupied
\* after it only if it was before.
LEMMA PortfolioEffect ==
  ASSUME TypeOK, Portfolio
  PROVE  /\ UNCHANGED <<leases, requests>>
         /\ \A u \in Units : units'[u] # Null =>
               \/ units[u] = Null /\ ~units'[u].occupied
               \/ units[u] # Null /\ units'[u].occupied = units[u].occupied
<1> DEFINE Effect ==
      /\ UNCHANGED <<leases, requests>>
      /\ \A u \in Units : units'[u] # Null =>
            \/ units[u] = Null /\ ~units'[u].occupied
            \/ units[u] # Null /\ units'[u].occupied = units[u].occupied
<1>1. ASSUME NEW s \in Staff, NEW p \in Properties, NEW us \in SUBSET Units,
             CreateProperty(s, p, us)
      PROVE Effect
  BY <1>1, NewUnitShape DEF CreateProperty, TypeOK
<1>2. ASSUME NEW s \in Staff, NEW p \in Properties, DeleteProperty(s, p)
      PROVE Effect
  BY <1>2 DEF DeleteProperty, TypeOK
<1>3. ASSUME NEW s \in Staff, NEW p \in Properties, NEW u \in Units,
             CreateUnit(s, p, u)
      PROVE Effect
  BY <1>3, NewUnitShape DEF CreateUnit, TypeOK
<1>4. ASSUME NEW s \in Staff, NEW p \in Properties,
             NEW m \in Managers \cup {Null}, AssignManager(s, p, m)
      PROVE Effect
  BY <1>4 DEF AssignManager
<1>5. ASSUME NEW s \in Staff, NEW u \in Units, NEW a \in BOOLEAN,
             UpdateUnit(s, u, a)
      PROVE Effect
  BY <1>5, RowTypes DEF UpdateUnit, TypeOK, UnitRow
<1>6. ASSUME NEW s \in Staff, NEW u \in Units, DeleteUnit(s, u)
      PROVE Effect
  BY <1>6 DEF DeleteUnit, TypeOK
<1> QED
  BY <1>1, <1>2, <1>3, <1>4, <1>5, <1>6 DEF Portfolio

\* The three actions that write a lease's status and its unit's occupancy
\* together, seen from the rows they leave behind.
LeaseMoves(l, row) ==
    /\ units[row.unit] # Null
    /\ leases' = [leases EXCEPT ![l] = row]
    /\ \/ /\ row.status = "ACTIVE"
          /\ units' = [units EXCEPT ![row.unit].occupied = TRUE]
       \/ /\ row.status = "TERMINATED"
          /\ units' = [units EXCEPT ![row.unit].occupied = FALSE]

\* A lease that is written together with its unit, as approve, activate and
\* terminate do, changes that lease and that unit and no other.
LEMMA LeaseMoveEffect ==
  ASSUME TypeOK, NEW l \in Leases, NEW row \in LeaseRow,
         LeaseMoves(l, row)
  PROVE  /\ \A k \in Leases : leases'[k] = IF k = l THEN row ELSE leases[k]
         /\ \A u \in Units : units'[u] # Null <=> units[u] # Null
         /\ units'[row.unit].occupied <=> row.status = "ACTIVE"
         /\ \A u \in Units : u # row.unit => units'[u] = units[u]
         /\ row # Null
<1>1. row.unit \in Units /\ units[row.unit] \in UnitRow
  BY DEF LeaseMoves, TypeOK, LeaseRow
<1>2. \A k \in Leases : leases'[k] = IF k = l THEN row ELSE leases[k]
  BY DEF LeaseMoves, TypeOK
<1>3. \A u \in Units : u # row.unit => units'[u] = units[u]
  BY <1>1 DEF LeaseMoves, TypeOK
<1>4. units'[row.unit] \in UnitRow
  <2>1. \A x \in UnitRow : /\ [x EXCEPT !.occupied = TRUE] \in UnitRow
                           /\ [x EXCEPT !.occupied = FALSE] \in UnitRow
    BY DEF UnitRow
  <2>2. \/ units'[row.unit] = [units[row.unit] EXCEPT !.occupied = TRUE]
        \/ units'[row.unit] = [units[row.unit] EXCEPT !.occupied = FALSE]
    BY <1>1 DEF LeaseMoves, TypeOK
  <2> QED
    BY <1>1, <2>1, <2>2
<1>5. units'[row.unit].occupied <=> row.status = "ACTIVE"
  <2>1. CASE row.status = "ACTIVE"
    BY <1>1, <2>1 DEF LeaseMoves, TypeOK, UnitRow
  <2>2. CASE row.status = "TERMINATED"
    BY <1>1, <2>2 DEF LeaseMoves, TypeOK, UnitRow
  <2> QED
    BY <2>1, <2>2 DEF LeaseMoves
<1> QED
  BY <1>1, <1>2, <1>3, <1>4, <1>5, NullAssumption DEF LeaseMoves

\* activate and terminate of LeaseService are such moves.
LEMMA LeaseMoveCases ==
  ASSUME Shape, NEW s \in Staff, NEW l \in Leases
  PROVE  /\ ActivateLease(s, l) =>
              /\ leases[l] \in LeaseRow /\ leases[l].status = "DRAFT"
              /\ [leases[l] EXCEPT !.status = "ACTIVE"] \in LeaseRow
              /\ LeaseMoves(l, [leases[l] EXCEPT !.status = "ACTIVE"])
         /\ TerminateLease(s, l) =>
              /\ leases[l] \in LeaseRow /\ leases[l].status = "ACTIVE"
              /\ [leases[l] EXCEPT !.status = "TERMINATED"] \in LeaseRow
              /\ LeaseMoves(l, [leases[l] EXCEPT !.status = "TERMINATED"])
<1>1. ASSUME leases[l] # Null
      PROVE /\ leases[l] \in LeaseRow
            /\ leases[l].unit \in Units
            /\ units[leases[l].unit] # Null
            /\ [leases[l] EXCEPT !.status = "ACTIVE"] \in LeaseRow
            /\ [leases[l] EXCEPT !.status = "TERMINATED"] \in LeaseRow
            /\ [leases[l] EXCEPT !.status = "ACTIVE"].unit = leases[l].unit
            /\ [leases[l] EXCEPT !.status = "TERMINATED"].unit = leases[l].unit
  BY <1>1 DEF Shape, TypeOK, NoDanglingRows, LeaseRow, LeaseStatus
<1>2. CASE ActivateLease(s, l)
  BY <1>1, <1>2 DEF ActivateLease, TerminateLease, LeaseMoves
<1>3. CASE TerminateLease(s, l)
  BY <1>1, <1>3 DEF ActivateLease, TerminateLease, LeaseMoves
<1> QED
  BY <1>2, <1>3

\* approve of LeaseRequestService is such a move.
LEMMA ApproveMoves ==
  ASSUME Shape, NEW s \in Staff, NEW r \in Requests, NEW l \in Leases,
         ApproveRequest(s, r, l)
  PROVE  LET row == [unit |-> requests[r].unit, tenant |-> requests[r].tenant,
                     status |-> "ACTIVE", request |-> r]
         IN /\ requests[r] \in RequestRow
            /\ row \in LeaseRow
            /\ LeaseMoves(l, row)
<1>1. requests[r] \in RequestRow
  BY RowTypes DEF Shape, ApproveRequest
<1> QED
  BY <1>1
  DEF ApproveRequest, LeaseMoves, Lettable, RequestRow, LeaseRow, LeaseStatus,
      Users

(***************************************************************************)
(* A unit shown as occupied is leased.                                     *)
(***************************************************************************)
\* Any accepted call, or none, keeps occupied units leased.
LEMMA OccupiedStep ==
  Shape /\ OccupiedUnitsAreLeased /\ [Next]_vars => OccupiedUnitsAreLeased'
<1> SUFFICES ASSUME Shape, OccupiedUnitsAreLeased, [Next]_vars
             PROVE OccupiedUnitsAreLeased'
  OBVIOUS
<1> USE DEF OccupiedUnitsAreLeased, ActiveLeases, LeasesOf
<1>0. TypeOK
  BY DEF Shape
\* A lease made ACTIVE occupies its own unit; the others keep their leases.
<1>1. ASSUME NEW l \in Leases, NEW row \in LeaseRow, row.status = "ACTIVE",
             leases[l] # Null => leases[l].status # "ACTIVE",
             LeaseMoves(l, row)
      PROVE OccupiedUnitsAreLeased'
  <2> SUFFICES ASSUME NEW u \in Units, units'[u] # Null, units'[u].occupied
               PROVE \E k \in Leases : /\ leases'[k] # Null
                                       /\ leases'[k].unit = u
                                       /\ leases'[k].status = "ACTIVE"
    OBVIOUS
  <2>1. \A k \in Leases : leases'[k] = IF k = l THEN row ELSE leases[k]
    BY <1>0, <1>1, LeaseMoveEffect
  <2>2. units[u] # Null /\ row # Null
    BY <1>0, <1>1, LeaseMoveEffect
  <2>3. CASE u = row.unit
    BY <1>1, <2>1, <2>2, <2>3
  <2>4. CASE u # row.unit
    <3>1. units'[u] = units[u]
      BY <1>0, <1>1, <2>4, LeaseMoveEffect
    <3>2. PICK k \in Leases : /\ leases[k] # Null /\ leases[k].unit = u
                              /\ leases[k].status = "ACTIVE"
      BY <2>2, <3>1
    <3> QED
      BY <1>1, <2>1, <3>2
  <2> QED
    BY <2>3, <2>4
<1>2. CASE Portfolio
  BY <1>0, <1>2, PortfolioEffect
<1>3. CASE Workflow
  <2>1. ASSUME NEW s \in Staff, NEW r \in Requests, NEW l \in Leases,
               ApproveRequest(s, r, l)
        PROVE OccupiedUnitsAreLeased'
    <3> DEFINE row == [unit |-> requests[r].unit, tenant |-> requests[r].tenant,
                       status |-> "ACTIVE", request |-> r]
    <3>1. row \in LeaseRow /\ row.status = "ACTIVE" /\ LeaseMoves(l, row)
      BY <2>1, ApproveMoves
    <3>2. leases[l] = Null
      BY <2>1 DEF ApproveRequest
    <3> QED
      BY <1>1, <3>1, <3>2
  <2> QED
    BY <1>3, <2>1 DEF Workflow, SubmitRequest, NewRequest, RejectRequest
<1>4. CASE Lifecycle
  <2>1. ASSUME NEW s \in Staff, NEW l \in Leases, NEW u \in Units,
               NEW t \in Users, CreateLease(s, u, t, l)
        PROVE OccupiedUnitsAreLeased'
    BY <1>0, <2>1 DEF CreateLease, TypeOK
  <2>2. ASSUME NEW s \in Staff, NEW l \in Leases, ActivateLease(s, l)
        PROVE OccupiedUnitsAreLeased'
    <3> DEFINE row == [leases[l] EXCEPT !.status = "ACTIVE"]
    <3>1. row \in LeaseRow /\ row.status = "ACTIVE" /\ LeaseMoves(l, row)
      BY <2>2, LeaseMoveCases DEF LeaseRow
    <3>2. leases[l].status # "ACTIVE"
      BY <2>2 DEF ActivateLease
    <3> QED
      BY <1>1, <3>1, <3>2
  <2>3. ASSUME NEW s \in Staff, NEW l \in Leases, TerminateLease(s, l)
        PROVE OccupiedUnitsAreLeased'
    <3>1. PICK row \in LeaseRow : /\ row.status = "TERMINATED"
                                  /\ row.unit = leases[l].unit
                                  /\ LeaseMoves(l, row)
      <4> DEFINE ended == [leases[l] EXCEPT !.status = "TERMINATED"]
      <4>1. leases[l] \in LeaseRow /\ ended \in LeaseRow /\ LeaseMoves(l, ended)
        BY <2>3, LeaseMoveCases
      <4>2. ended.status = "TERMINATED" /\ ended.unit = leases[l].unit
        BY <4>1 DEF LeaseRow
      <4> QED
        BY <4>1, <4>2
    <3> SUFFICES ASSUME NEW u \in Units, units'[u] # Null, units'[u].occupied
                 PROVE \E k \in Leases : /\ leases'[k] # Null
                                         /\ leases'[k].unit = u
                                         /\ leases'[k].status = "ACTIVE"
      OBVIOUS
    <3>2. /\ \A k \in Leases : leases'[k] = IF k = l THEN row ELSE leases[k]
          /\ units'[row.unit].occupied <=> row.status = "ACTIVE"
          /\ \A v \in Units : v # row.unit => units'[v] = units[v]
          /\ row # Null
      BY <1>0, <3>1, LeaseMoveEffect
    <3>3. u # row.unit
      BY <3>1, <3>2
    <3>4. units[u] # Null /\ units[u].occupied
      BY <3>2, <3>3
    <3>5. PICK k \in Leases : /\ leases[k] # Null /\ leases[k].unit = u
                              /\ leases[k].status = "ACTIVE"
      BY <3>4
    \* The lease of another unit is not l.
    <3>6. k # l
      BY <3>1, <3>3, <3>5
    <3> QED
      BY <3>2, <3>5, <3>6
  <2> QED
    BY <1>4, <2>1, <2>2, <2>3 DEF Lifecycle
<1> QED
  BY <1>2, <1>3, <1>4 DEF Next, vars

\* No order of approvals, activations and terminations leaves a unit marked
\* occupied that nobody leases (LeaseService, LeaseRequestService.approve).
THEOREM OccupiedCorrect == Spec => []OccupiedUnitsAreLeased
<1>1. Init => OccupiedUnitsAreLeased
  BY DEF Init, OccupiedUnitsAreLeased
<1> QED
  BY <1>1, ShapeInit, ShapeStep, OccupiedStep, PTL DEF Spec

(***************************************************************************)
(* Requests are answered once and leases only move forward.                *)
(***************************************************************************)
\* approve grants the request in hand, turns down the other pending ones for
\* its unit and leaves every other request alone.
LEMMA ApproveAnswers ==
  ASSUME Shape, NEW s \in Staff, NEW r \in Requests, NEW l \in Leases,
         ApproveRequest(s, r, l)
  PROVE  /\ requests'[r] = Decided(requests[r], "APPROVED", s)
         /\ \A q \in PendingRequests(requests[r].unit) \ {r} :
               requests'[q] = Decided(requests[q], "REJECTED", s)
         /\ \A q \in Requests :
               q # r /\ q \notin PendingRequests(requests[r].unit)
               => requests'[q] = requests[q]
BY DEF ApproveRequest, PendingRequests, RequestsFor

\* An answered request keeps its unit and its tenant.
LEMMA DecidedShape ==
  ASSUME NEW row \in RequestRow, NEW status \in RequestStatus, NEW s \in Staff
  PROVE  /\ Decided(row, status, s) \in RequestRow
         /\ Decided(row, status, s) # Null
         /\ Decided(row, status, s).unit = row.unit
         /\ Decided(row, status, s).tenant = row.tenant
         /\ Decided(row, status, s).status = status
<1>1. Decided(row, status, s) \in RequestRow
  BY DEF Decided, RequestRow
<1> QED
  BY <1>1, NullAssumption DEF Decided, RequestRow

\* What a step may do to one request.
RequestMoves(q) ==
    \/ requests'[q] = requests[q]
    \/ requests[q] = Null /\ requests'[q] # Null /\ requests'[q].status = "PENDING"
    \/ /\ requests[q] # Null /\ requests[q].status = "PENDING"
       /\ requests'[q] # Null /\ requests'[q].status # "PENDING"
       /\ requests'[q].unit = requests[q].unit
       /\ requests'[q].tenant = requests[q].tenant

\* In one step a request row is untouched, new and PENDING, or answered.
LEMMA RequestEffect ==
  ASSUME Shape, [Next]_vars, NEW q \in Requests
  PROVE  RequestMoves(q)
<1>0. TypeOK
  BY DEF Shape
<1>1. CASE Portfolio
  BY <1>0, <1>1, PortfolioEffect DEF RequestMoves
<1>2. CASE Lifecycle
  BY <1>2 DEF Lifecycle, CreateLease, ActivateLease, TerminateLease, RequestMoves
<1>3. ASSUME NEW t \in Tenants, NEW u \in Units, NEW r \in Requests,
             SubmitRequest(t, u, r)
      PROVE RequestMoves(q)
  <2> DEFINE row == [unit |-> u, tenant |-> t, status |-> "PENDING",
                     reviewer |-> Null]
  <2>1. row \in RequestRow /\ row.status = "PENDING"
    BY DEF RequestRow, RequestStatus
  <2>2. requests[r] = Null /\ requests' = [requests EXCEPT ![r] = row]
    BY <1>3 DEF SubmitRequest, NewRequest
  <2>3. row # Null
    BY <2>1, NullAssumption
  <2> HIDE DEF row
  <2> QED
    BY <1>0, <2>1, <2>2, <2>3 DEF TypeOK, RequestMoves
<1>4. ASSUME NEW s \in Staff, NEW r \in Requests, RejectRequest(s, r)
      PROVE RequestMoves(q)
  <2>1. requests[r] \in RequestRow /\ requests[r].status = "PENDING"
    BY <1>0, <1>4, RowTypes DEF RejectRequest
  <2>2. requests' = [requests EXCEPT ![r] = Decided(requests[r], "REJECTED", s)]
    BY <1>4 DEF RejectRequest
  <2>3. "REJECTED" \in RequestStatus
    BY DEF RequestStatus
  <2> QED
    BY <1>0, <2>1, <2>2, <2>3, DecidedShape, NullAssumption
    DEF TypeOK, RequestMoves
<1>5. ASSUME NEW s \in Staff, NEW r \in Requests, NEW l \in Leases,
             ApproveRequest(s, r, l)
      PROVE RequestMoves(q)
  <2>1. /\ requests[r] \in RequestRow /\ requests[r].status = "PENDING"
        /\ "APPROVED" \in RequestStatus /\ "REJECTED" \in RequestStatus
    BY <1>0, <1>5, RowTypes DEF ApproveRequest, RequestStatus
  <2>2. CASE q = r
    BY <1>5, <2>1, <2>2, ApproveAnswers, DecidedShape, NullAssumption
    DEF RequestMoves
  <2>3. CASE q # r /\ q \in PendingRequests(requests[r].unit)
    <3>1. requests[q] \in RequestRow /\ requests[q].status = "PENDING"
      BY <1>0, <2>3, RowTypes DEF PendingRequests, RequestsFor
    <3> QED
      BY <1>5, <2>1, <2>3, <3>1, ApproveAnswers, DecidedShape, NullAssumption
      DEF RequestMoves
  <2>4. CASE q # r /\ q \notin PendingRequests(requests[r].unit)
    BY <1>5, <2>4, ApproveAnswers DEF RequestMoves
  <2> QED
    BY <2>2, <2>3, <2>4
<1> QED
  BY <1>1, <1>2, <1>3, <1>4, <1>5 DEF Next, Workflow, vars, RequestMoves

\* What a step may do to one lease.
LeaseStep(k) ==
    \/ leases'[k] = leases[k]
    \/ leases[k] = Null /\ leases'[k] # Null
    \/ /\ leases[k] # Null /\ leases[k].status = "DRAFT"
       /\ leases'[k] = [leases[k] EXCEPT !.status = "ACTIVE"]
    \/ /\ leases[k] # Null /\ leases[k].status = "ACTIVE"
       /\ leases'[k] = [leases[k] EXCEPT !.status = "TERMINATED"]

\* In one step a lease row is untouched, new, activated or terminated.
LEMMA LeaseEffect ==
  ASSUME Shape, [Next]_vars, NEW k \in Leases
  PROVE  LeaseStep(k)
<1>0. TypeOK
  BY DEF Shape
<1>1. CASE Portfolio
  BY <1>0, <1>1, PortfolioEffect DEF LeaseStep
<1>2. ASSUME NEW s \in Staff, NEW r \in Requests, NEW l \in Leases,
             ApproveRequest(s, r, l)
      PROVE LeaseStep(k)
  <2> DEFINE row == [unit |-> requests[r].unit, tenant |-> requests[r].tenant,
                     status |-> "ACTIVE", request |-> r]
  <2>1. row \in LeaseRow /\ LeaseMoves(l, row) /\ leases[l] = Null
    BY <1>2, ApproveMoves DEF ApproveRequest
  <2> HIDE DEF row
  <2> QED
    BY <1>0, <2>1, LeaseMoveEffect DEF LeaseStep
<1>3. ASSUME NEW s \in Staff, NEW l \in Leases, NEW u \in Units,
             NEW t \in Users, CreateLease(s, u, t, l)
      PROVE LeaseStep(k)
  <2> DEFINE row == [unit |-> u, tenant |-> t, status |-> "DRAFT",
                     request |-> Null]
  <2>1. row \in LeaseRow
    BY DEF LeaseRow, LeaseStatus
  <2>2. leases[l] = Null /\ leases' = [leases EXCEPT ![l] = row]
    BY <1>3 DEF CreateLease
  <2>3. row # Null
    BY <2>1, NullAssumption
  <2> HIDE DEF row
  <2> QED
    BY <1>0, <2>2, <2>3 DEF TypeOK, LeaseStep
<1>4. ASSUME NEW s \in Staff, NEW l \in Leases,
             ActivateLease(s, l) \/ TerminateLease(s, l)
      PROVE LeaseStep(k)
  BY <1>0, <1>4 DEF ActivateLease, TerminateLease, LeaseStep, TypeOK
<1> QED
  BY <1>1, <1>2, <1>3, <1>4
  DEF Next, Workflow, SubmitRequest, NewRequest, RejectRequest, Lifecycle, vars, LeaseStep

\* A lease row stays, for the same unit, tenant and request, and is a draft
\* only if it was one.
LEMMA LeaseKeeps ==
  ASSUME Shape, [Next]_vars, NEW k \in Leases, leases[k] # Null
  PROVE  /\ leases'[k] # Null
         /\ leases'[k].unit = leases[k].unit
         /\ leases'[k].tenant = leases[k].tenant
         /\ leases'[k].request = leases[k].request
         /\ leases'[k].status = "DRAFT" => leases[k].status = "DRAFT"
<1>1. leases[k] \in LeaseRow
  BY RowTypes DEF Shape
<1>2. ASSUME NEW status \in LeaseStatus
      PROVE LET row == [leases[k] EXCEPT !.status = status]
            IN /\ row \in LeaseRow
               /\ row # Null
               /\ row.unit = leases[k].unit
               /\ row.tenant = leases[k].tenant
               /\ row.request = leases[k].request
               /\ row.status = status
  <2>1. [leases[k] EXCEPT !.status = status] \in LeaseRow
    BY <1>1 DEF LeaseRow
  <2> QED
    BY <1>1, <2>1, NullAssumption DEF LeaseRow
<1>3. "ACTIVE" \in LeaseStatus /\ "TERMINATED" \in LeaseStatus
  BY DEF LeaseStatus
<1>4. CASE leases'[k] = [leases[k] EXCEPT !.status = "ACTIVE"]
  BY <1>2, <1>3, <1>4
<1>5. CASE leases'[k] = [leases[k] EXCEPT !.status = "TERMINATED"]
  BY <1>2, <1>3, <1>5
<1>6. CASE leases'[k] = leases[k]
  BY <1>6
<1> QED
  BY <1>4, <1>5, <1>6, LeaseEffect DEF LeaseStep

\* Every step is one that NoWayBack allows.
LEMMA HistoryStep == Shape /\ [Next]_vars => NoWayBack
<1> SUFFICES ASSUME Shape, [Next]_vars PROVE NoWayBack
  OBVIOUS
<1>1. ASSUME NEW q \in Requests, requests[q] # Null,
             requests[q].status # "PENDING"
      PROVE requests'[q] = requests[q]
  BY <1>1, RequestEffect DEF RequestMoves
<1>2. ASSUME NEW k \in Leases, leases[k] # Null
      PROVE \/ leases'[k] = leases[k]
            \/ leases[k].status = "DRAFT"
               /\ leases'[k] = [leases[k] EXCEPT !.status = "ACTIVE"]
            \/ leases[k].status = "ACTIVE"
               /\ leases'[k] = [leases[k] EXCEPT !.status = "TERMINATED"]
  BY <1>2, LeaseEffect DEF LeaseStep
<1> QED
  BY <1>1, <1>2 DEF NoWayBack

\* One call at a time, an answered request keeps its answer and its reviewer
\* and no lease goes back or skips a status (the status tests of approve,
\* reject, activate and terminate).
THEOREM HistoryCorrect == Spec => HistoryIsKept
<1>1. Shape /\ [Next]_vars => [NoWayBack]_vars
  BY HistoryStep
<1> QED
  BY <1>1, ShapeInit, ShapeStep, PTL DEF Spec, HistoryIsKept

(***************************************************************************)
(* A tenant has one pending request for a unit at most.                    *)
(***************************************************************************)
\* Any accepted call, or none, keeps one pending request per tenant and unit.
LEMMA OnePendingStep ==
  Shape /\ OnePendingPerTenant /\ [Next]_vars => OnePendingPerTenant'
<1> SUFFICES ASSUME Shape, OnePendingPerTenant, [Next]_vars,
                    NEW u \in Units, NEW r1 \in PendingRequests(u)',
                    NEW r2 \in PendingRequests(u)',
                    requests'[r1].tenant = requests'[r2].tenant
             PROVE r1 = r2
  BY DEF OnePendingPerTenant
<1> USE DEF PendingRequests, RequestsFor
<1>1. ASSUME NEW q \in PendingRequests(u)'
      PROVE \/ q \in PendingRequests(u) /\ requests'[q] = requests[q]
            \/ requests[q] = Null
  BY <1>1, RequestEffect DEF RequestMoves
\* A request that a step adds passed the has_pending test.
<1>2. ASSUME NEW q \in PendingRequests(u)', requests[q] = Null
      PROVE /\ \A p \in PendingRequests(u) :
                  requests[p].tenant # requests'[q].tenant
            /\ \A p \in Requests \ {q} : requests'[p] = requests[p]
  <2>0. TypeOK /\ requests'[q] # Null /\ requests'[q].unit = u
    BY <1>2 DEF Shape
  <2>1. ~Portfolio
    BY <1>2, <2>0, PortfolioEffect
  <2>2. ~Lifecycle
    BY <1>2, <2>0 DEF Lifecycle, CreateLease, ActivateLease, TerminateLease
  <2>3. ASSUME NEW s \in Staff, NEW r \in Requests, RejectRequest(s, r)
        PROVE FALSE
    BY <1>2, <2>0, <2>3 DEF RejectRequest, TypeOK
  <2>4. ASSUME NEW s \in Staff, NEW r \in Requests, NEW l \in Leases,
               ApproveRequest(s, r, l)
        PROVE FALSE
    BY <1>2, <2>0, <2>4 DEF ApproveRequest, TypeOK
  <2>5. PICK t \in Tenants, v \in Units, r \in Requests : SubmitRequest(t, v, r)
    BY <1>2, <2>0, <2>1, <2>2, <2>3, <2>4 DEF Next, Workflow, vars
  <2>6. /\ r = q /\ v = u /\ requests'[q].tenant = t
        /\ \A p \in Requests \ {q} : requests'[p] = requests[p]
    BY <1>2, <2>0, <2>5 DEF SubmitRequest, NewRequest, TypeOK
  <2> QED
    BY <2>5, <2>6 DEF SubmitRequest, NewRequest, HasPending
<1>3. CASE requests[r1] = Null
  BY <1>1, <1>2, <1>3
<1>4. CASE requests[r2] = Null
  BY <1>1, <1>2, <1>4
<1>5. CASE requests[r1] # Null /\ requests[r2] # Null
  BY <1>1, <1>5 DEF OnePendingPerTenant
<1> QED
  BY <1>3, <1>4, <1>5

\* Whatever is answered, terminated or hidden in between, a tenant never has
\* two pending requests for one unit as long as calls do not overlap
\* (has_pending in LeaseRequestService.create).
THEOREM OnePendingCorrect == Spec => []OnePendingPerTenant
<1>1. Init => OnePendingPerTenant
  BY DEF Init, OnePendingPerTenant, PendingRequests, RequestsFor
<1> QED
  BY <1>1, ShapeInit, ShapeStep, OnePendingStep, PTL DEF Spec

(***************************************************************************)
(* Approvals and the leases made from them.                                *)
(***************************************************************************)
\* Any accepted call, or none, keeps a lease behind every approved request.
LEMMA ApprovedStep ==
  Shape /\ ApprovedRequestsHaveLeases /\ [Next]_vars
    => ApprovedRequestsHaveLeases'
<1> SUFFICES ASSUME Shape, ApprovedRequestsHaveLeases, [Next]_vars,
                    NEW q \in Requests, requests'[q] # Null,
                    requests'[q].status = "APPROVED"
             PROVE \E k \in Leases : leases'[k] # Null /\ leases'[k].request = q
  BY DEF ApprovedRequestsHaveLeases
<1>0. TypeOK
  BY DEF Shape
<1>1. ASSUME NEW k \in Leases, leases[k] # Null
      PROVE leases'[k] # Null /\ leases'[k].request = leases[k].request
  BY <1>1, LeaseKeeps
<1>2. CASE requests[q] # Null /\ requests[q].status = "APPROVED"
  BY <1>1, <1>2 DEF ApprovedRequestsHaveLeases
<1>3. CASE ~(requests[q] # Null /\ requests[q].status = "APPROVED")
  <2>1. requests'[q] # requests[q]
    BY <1>3
  <2>2. ~Portfolio
    BY <1>0, <2>1, PortfolioEffect
  <2>3. ~Lifecycle
    BY <2>1 DEF Lifecycle, CreateLease, ActivateLease, TerminateLease
  <2>4. ASSUME NEW t \in Tenants, NEW u \in Units, NEW r \in Requests,
               SubmitRequest(t, u, r)
        PROVE FALSE
    BY <1>0, <2>1, <2>4 DEF SubmitRequest, NewRequest, TypeOK
  <2>5. ASSUME NEW s \in Staff, NEW r \in Requests, RejectRequest(s, r)
        PROVE FALSE
    <3>1. requests[r] \in RequestRow /\ "REJECTED" \in RequestStatus
      BY <1>0, <2>5, RowTypes DEF RejectRequest, RequestStatus
    <3>2. requests' = [requests EXCEPT ![r] = Decided(requests[r], "REJECTED", s)]
      BY <2>5 DEF RejectRequest
    <3> QED
      BY <1>0, <2>1, <3>1, <3>2, DecidedShape DEF TypeOK
  <2>6. PICK s \in Staff, r \in Requests, l \in Leases : ApproveRequest(s, r, l)
    BY <2>1, <2>2, <2>3, <2>4, <2>5 DEF Next, Workflow, vars
  <2>7. q = r
    <3>1. ASSUME q # r PROVE FALSE
      <4>1. q \in PendingRequests(requests[r].unit)
        BY <2>1, <2>6, <3>1, ApproveAnswers
      <4>2. requests[q] \in RequestRow /\ "REJECTED" \in RequestStatus
        BY <1>0, <4>1, RowTypes DEF PendingRequests, RequestsFor, RequestStatus
      <4> QED
        BY <2>6, <3>1, <4>1, <4>2, ApproveAnswers, DecidedShape
    <3> QED
      BY <3>1
  <2> DEFINE row == [unit |-> requests[r].unit, tenant |-> requests[r].tenant,
                     status |-> "ACTIVE", request |-> r]
  <2>8. row \in LeaseRow /\ row.request = r /\ LeaseMoves(l, row)
    BY <2>6, ApproveMoves
  <2> HIDE DEF row
  <2>9. leases'[l] = row /\ row # Null
    BY <1>0, <2>8, LeaseMoveEffect
  <2> QED
    BY <2>7, <2>8, <2>9
<1> QED
  BY <1>2, <1>3

\* An approval never stands without the lease it promised
\* (LeaseRequestService.approve).
THEOREM ApprovedCorrect == Spec => []ApprovedRequestsHaveLeases
<1>1. Init => ApprovedRequestsHaveLeases
  BY DEF Init, ApprovedRequestsHaveLeases
<1> QED
  BY <1>1, ShapeInit, ShapeStep, ApprovedStep, PTL DEF Spec

\* A lease that appears with a request was inserted by that request's approval.
LEMMA GrantedByApproval ==
  ASSUME Shape, [Next]_vars, NEW l \in Leases, leases[l] = Null,
         leases'[l] # Null, leases'[l].request # Null
  PROVE  \E s \in Staff, r \in Requests :
            ApproveRequest(s, r, l) /\ leases'[l].request = r
<1>0. TypeOK
  BY DEF Shape
<1>1. ~Portfolio
  BY <1>0, PortfolioEffect
<1>2. ASSUME NEW s \in Staff, NEW k \in Leases, NEW u \in Units,
             NEW t \in Users, CreateLease(s, u, t, k)
      PROVE FALSE
  BY <1>0, <1>2 DEF CreateLease, TypeOK
<1>3. ASSUME NEW s \in Staff, NEW k \in Leases,
             ActivateLease(s, k) \/ TerminateLease(s, k)
      PROVE FALSE
  BY <1>0, <1>3 DEF ActivateLease, TerminateLease, TypeOK
<1>4. PICK s \in Staff, r \in Requests, k \in Leases : ApproveRequest(s, r, k)
  BY <1>1, <1>2, <1>3
  DEF Next, Workflow, SubmitRequest, NewRequest, RejectRequest, Lifecycle, vars
<1>5. k = l
  BY <1>0, <1>4 DEF ApproveRequest, TypeOK
<1>6. leases'[l].request = r
  BY <1>0, <1>4, <1>5 DEF ApproveRequest, TypeOK
<1> QED
  BY <1>4, <1>5, <1>6

\* Any accepted call, or none, keeps leases and approvals matched.
LEMMA MatchStep ==
  Shape /\ LeasesMatchApprovals /\ [Next]_vars => LeasesMatchApprovals'
<1> SUFFICES ASSUME Shape, LeasesMatchApprovals, [Next]_vars, NEW l \in Leases,
                    leases'[l] # Null, leases'[l].request # Null,
                    NEW r, r = leases'[l].request
             PROVE /\ leases'[l].status # "DRAFT"
                   /\ requests'[r] # Null
                   /\ requests'[r].status = "APPROVED"
                   /\ requests'[r].unit = leases'[l].unit
                   /\ requests'[r].tenant = leases'[l].tenant
                   /\ \A k \in Leases : leases'[k] # Null /\ leases'[k].request = r
                         => k = l
  BY DEF LeasesMatchApprovals
<1>0. TypeOK
  BY DEF Shape
<1>1. CASE leases[l] # Null
  <2>1. /\ leases[l].request = r /\ r \in Requests
        /\ leases[l].unit = leases'[l].unit
        /\ leases[l].tenant = leases'[l].tenant
        /\ leases'[l].status = "DRAFT" => leases[l].status = "DRAFT"
    BY <1>0, <1>1, LeaseKeeps, RowTypes DEF LeaseRow
  <2>2. /\ leases[l].status # "DRAFT"
        /\ requests[r] # Null /\ requests[r].status = "APPROVED"
        /\ requests[r].unit = leases[l].unit
        /\ requests[r].tenant = leases[l].tenant
        /\ \A k \in Leases : leases[k] # Null /\ leases[k].request = r => k = l
    BY <1>1, <2>1 DEF LeasesMatchApprovals
  <2>3. requests'[r] = requests[r]
    BY <2>1, <2>2, RequestEffect DEF RequestMoves
  <2>4. ASSUME NEW k \in Leases, leases'[k] # Null, leases'[k].request = r
        PROVE k = l
    <3>1. CASE leases[k] # Null
      BY <2>2, <2>4, <3>1, LeaseKeeps
    \* The request was answered before, so no approval makes a lease from it.
    <3>2. CASE leases[k] = Null
      BY <2>2, <2>4, <3>2, GrantedByApproval DEF ApproveRequest
    <3> QED
      BY <3>1, <3>2
  <2> QED
    BY <2>1, <2>2, <2>3, <2>4
<1>2. CASE leases[l] = Null
  <2>1. PICK s \in Staff : ApproveRequest(s, r, l) /\ r \in Requests
    BY <1>2, GrantedByApproval
  <2>2. /\ requests[r] \in RequestRow /\ "APPROVED" \in RequestStatus
        /\ requests[r].status = "PENDING"
    BY <1>0, <2>1, RowTypes DEF ApproveRequest, RequestStatus
  <2>3. /\ requests'[r] # Null /\ requests'[r].status = "APPROVED"
        /\ requests'[r].unit = requests[r].unit
        /\ requests'[r].tenant = requests[r].tenant
    BY <2>1, <2>2, ApproveAnswers, DecidedShape
  <2>4. /\ leases'[l].status = "ACTIVE"
        /\ leases'[l].unit = requests[r].unit
        /\ leases'[l].tenant = requests[r].tenant
        /\ \A k \in Leases \ {l} : leases'[k] = leases[k]
    <3>1. leases' = [leases EXCEPT ![l] = [unit |-> requests[r].unit,
                                           tenant |-> requests[r].tenant,
                                           status |-> "ACTIVE",
                                           request |-> r]]
      BY <2>1 DEF ApproveRequest
    <3>2. leases \in [Leases -> LeaseRow \cup {Null}]
      BY <1>0 DEF TypeOK
    <3> QED
      BY <3>1, <3>2
  <2>5. \A k \in Leases : ~(leases[k] # Null /\ leases[k].request = r)
    BY <2>1, <2>2, NullAssumption DEF LeasesMatchApprovals
  <2>6. ASSUME NEW k \in Leases, leases'[k] # Null, leases'[k].request = r
        PROVE k = l
    BY <2>4, <2>5, <2>6
  <2> QED
    BY <2>3, <2>4, <2>6
<1> QED
  BY <1>1, <1>2

\* No request is granted twice, or granted and turned down, and the lease is
\* for the tenant and the unit that the request names
\* (LeaseRequestService.approve and reject).
THEOREM MatchCorrect == Spec => []LeasesMatchApprovals
<1>1. Init => LeasesMatchApprovals
  BY DEF Init, LeasesMatchApprovals
<1> QED
  BY <1>1, ShapeInit, ShapeStep, MatchStep, PTL DEF Spec

(***************************************************************************)
(* A unit that is let through requests only has one tenant at a time.      *)
(***************************************************************************)
Exclusive(u) ==
    /\ \A l1, l2 \in ActiveLeases(u) : l1 = l2
    /\ ActiveLeases(u) # {} => units[u].occupied
    /\ units[u].occupied => PendingRequests(u) = {}

\* A step that leaves u's row and ACTIVE leases as they are, and adds no
\* pending request for it, leaves it exclusive.
LEMMA ExclusiveKept ==
  ASSUME NEW u, Exclusive(u), units'[u].occupied = units[u].occupied,
         ActiveLeases(u)' \subseteq ActiveLeases(u),
         PendingRequests(u)' \subseteq PendingRequests(u)
  PROVE  Exclusive(u)'
BY DEF Exclusive

\* A step that inserts no request adds none to the pending ones of a unit.
LEMMA PendingShrinks ==
  ASSUME Shape, [Next]_vars, NEW u,
         \A q \in Requests : requests[q] = Null => requests'[q] = Null
  PROVE  PendingRequests(u)' \subseteq PendingRequests(u)
BY RequestEffect DEF RequestMoves, PendingRequests, RequestsFor

\* Any accepted call, or none, keeps units let through requests exclusive.
\* LeasesMatchApprovals is needed where a request is approved: it says that no
\* lease had come from that request before.
LEMMA ExclusiveStep ==
  Shape /\ LeasesMatchApprovals /\ RequestsLetExclusively /\ [Next]_vars
    => RequestsLetExclusively'
<1> SUFFICES ASSUME Shape, LeasesMatchApprovals, RequestsLetExclusively,
                    [Next]_vars, NEW u \in Units, units'[u] # Null,
                    LetByRequestsOnly(u)'
             PROVE Exclusive(u)'
  BY DEF RequestsLetExclusively, Exclusive
<1>0. TypeOK
  BY DEF Shape
<1>1. LetByRequestsOnly(u)
  BY LeaseKeeps, LeaseEffect
  DEF LetByRequestsOnly, LeasesOf, LeaseStep
<1>2. units[u] # Null => Exclusive(u)
  BY <1>1 DEF RequestsLetExclusively, Exclusive
<1>3. CASE Portfolio
  <2>1. ActiveLeases(u)' = ActiveLeases(u) /\ PendingRequests(u)' = PendingRequests(u)
    BY <1>0, <1>3, PortfolioEffect
    DEF ActiveLeases, LeasesOf, PendingRequests, RequestsFor
  <2>2. CASE units[u] # Null
    BY <1>0, <1>2, <1>3, <2>1, <2>2, PortfolioEffect, ExclusiveKept
  \* A unit that is new has no leases, since none refers to a missing unit.
  <2>3. CASE units[u] = Null
    <3>1. ActiveLeases(u) = {}
      BY <2>3 DEF Shape, NoDanglingRows, ActiveLeases, LeasesOf
    <3>2. ~units'[u].occupied
      BY <1>0, <1>3, <2>3, PortfolioEffect
    <3> QED
      BY <2>1, <3>1, <3>2 DEF Exclusive
  <2> QED
    BY <2>2, <2>3
<1>4. ASSUME NEW t \in Tenants, NEW v \in Units, NEW r \in Requests,
             SubmitRequest(t, v, r)
      PROVE Exclusive(u)'
  <2>1. units' = units /\ leases' = leases /\ units[u] # Null
    BY <1>4 DEF SubmitRequest, NewRequest
  <2>2. ActiveLeases(u)' = ActiveLeases(u)
    BY <2>1 DEF ActiveLeases, LeasesOf
  <2>3. units[u].occupied => u # v
    BY <1>4 DEF SubmitRequest, NewRequest, Lettable
  <2>4. units[u].occupied => PendingRequests(u)' \subseteq PendingRequests(u)
    BY <1>0, <1>4, <2>3 DEF SubmitRequest, NewRequest, TypeOK, PendingRequests, RequestsFor
  <2> QED
    BY <1>2, <2>1, <2>2, <2>4 DEF Exclusive
<1>5. ASSUME NEW s \in Staff, NEW r \in Requests, RejectRequest(s, r)
      PROVE Exclusive(u)'
  <2>1. units' = units /\ leases' = leases /\ units[u] # Null
    BY <1>5 DEF RejectRequest
  <2>2. ActiveLeases(u)' = ActiveLeases(u)
    BY <2>1 DEF ActiveLeases, LeasesOf
  <2>3. PendingRequests(u)' \subseteq PendingRequests(u)
    BY <1>0, <1>5, PendingShrinks DEF RejectRequest, TypeOK
  <2> QED
    BY <1>2, <2>1, <2>2, <2>3, ExclusiveKept
<1>6. ASSUME NEW s \in Staff, NEW l \in Leases, NEW v \in Units, NEW t \in Users,
             CreateLease(s, v, t, l)
      PROVE Exclusive(u)'
  <2>1. units' = units /\ requests' = requests /\ units[u] # Null
    BY <1>6 DEF CreateLease
  <2>2. ActiveLeases(u)' \subseteq ActiveLeases(u)
    BY <1>0, <1>6 DEF CreateLease, TypeOK, ActiveLeases, LeasesOf
  <2>3. PendingRequests(u)' = PendingRequests(u)
    BY <2>1 DEF PendingRequests, RequestsFor
  <2> QED
    BY <1>2, <2>1, <2>2, <2>3, ExclusiveKept
\* The remaining actions move one lease l; other units see nothing of it.
<1>7. ASSUME NEW l \in Leases, NEW row \in LeaseRow, LeaseMoves(l, row),
             leases[l] # Null => leases[l].unit = row.unit,
             \A q \in Requests : requests[q] = Null => requests'[q] = Null,
             u # row.unit
      PROVE Exclusive(u)'
  <2>1. units'[u] = units[u] /\ units[u] # Null
    BY <1>0, <1>7, LeaseMoveEffect
  <2>2. ActiveLeases(u)' \subseteq ActiveLeases(u)
    BY <1>0, <1>7, LeaseMoveEffect DEF ActiveLeases, LeasesOf
  <2> QED
    BY <1>2, <1>7, <2>1, <2>2, PendingShrinks, ExclusiveKept
<1>8. ASSUME NEW s \in Staff, NEW r \in Requests, NEW l \in Leases,
             ApproveRequest(s, r, l)
      PROVE Exclusive(u)'
  <2> DEFINE row == [unit |-> requests[r].unit, tenant |-> requests[r].tenant,
                     status |-> "ACTIVE", request |-> r]
  <2>1. /\ row \in LeaseRow /\ LeaseMoves(l, row) /\ leases[l] = Null
        /\ row.status = "ACTIVE" /\ row.unit = requests[r].unit
        /\ requests[r] \in RequestRow /\ requests[r].status = "PENDING"
    BY <1>8, ApproveMoves DEF ApproveRequest
  <2> HIDE DEF row
  <2>2. \A q \in Requests : requests[q] = Null => requests'[q] = Null
    BY <1>8, <2>1, ApproveAnswers, NullAssumption DEF PendingRequests, RequestsFor
  <2>3. CASE u # row.unit
    BY <1>7, <2>1, <2>2, <2>3
  <2>4. CASE u = row.unit
    <3>1. units[u] # Null /\ ~units[u].occupied
      BY <1>8, <2>1, <2>4 DEF ApproveRequest, Lettable
    <3>2. ActiveLeases(u) = {}
      BY <1>2, <3>1 DEF Exclusive
    <3>3. \A k \in Leases : leases'[k] = IF k = l THEN row ELSE leases[k]
      BY <1>0, <2>1, LeaseMoveEffect
    <3>4. \A k \in ActiveLeases(u)' : k = l
      BY <3>2, <3>3 DEF ActiveLeases, LeasesOf
    <3>5. units'[u].occupied
      BY <1>0, <2>1, <2>4, LeaseMoveEffect
    <3>6. ASSUME NEW q \in PendingRequests(u)' PROVE FALSE
      <4>1. q \in PendingRequests(u)
        BY <2>2, <3>6, PendingShrinks
      <4>2. /\ requests[q] \in RequestRow
            /\ "APPROVED" \in RequestStatus /\ "REJECTED" \in RequestStatus
        BY <1>0, <4>1, RowTypes DEF PendingRequests, RequestsFor, RequestStatus
      <4>3. requests'[q].status # "PENDING"
        BY <1>8, <2>1, <2>4, <4>1, <4>2, ApproveAnswers, DecidedShape
      <4> QED
        BY <3>6, <4>3 DEF PendingRequests
    <3> QED
      BY <3>4, <3>5, <3>6 DEF Exclusive
  <2> QED
    BY <2>3, <2>4
<1>9. ASSUME NEW s \in Staff, NEW l \in Leases, ActivateLease(s, l)
      PROVE Exclusive(u)'
  <2> DEFINE row == [leases[l] EXCEPT !.status = "ACTIVE"]
  <2>1. /\ row \in LeaseRow /\ LeaseMoves(l, row) /\ row.status = "ACTIVE"
        /\ leases[l] # Null /\ leases[l].status = "DRAFT"
        /\ row.unit = leases[l].unit /\ row.request = leases[l].request
    BY <1>9, LeaseMoveCases DEF LeaseRow, ActivateLease
  <2> HIDE DEF row
  <2>2. requests' = requests
    BY <1>9 DEF ActivateLease
  \* A draft was made by hand, so it is not u's: u's hand-made leases are
  \* drafts after the step.
  <2>3. row.request = Null
    BY <2>1 DEF LeasesMatchApprovals
  <2>4. leases'[l] = row /\ row # Null
    BY <1>0, <2>1, LeaseMoveEffect
  <2>5. u # row.unit
    BY <2>1, <2>3, <2>4 DEF LetByRequestsOnly, LeasesOf
  <2> QED
    BY <1>7, <2>1, <2>2, <2>5
<1>10. ASSUME NEW s \in Staff, NEW l \in Leases, TerminateLease(s, l)
       PROVE Exclusive(u)'
  <2> DEFINE row == [leases[l] EXCEPT !.status = "TERMINATED"]
  <2>1. /\ row \in LeaseRow /\ LeaseMoves(l, row) /\ row.status = "TERMINATED"
        /\ leases[l] # Null /\ leases[l].status = "ACTIVE"
        /\ row.unit = leases[l].unit
    BY <1>10, LeaseMoveCases DEF LeaseRow, TerminateLease
  <2> HIDE DEF row
  <2>2. requests' = requests
    BY <1>10 DEF TerminateLease
  <2>3. CASE u # row.unit
    BY <1>7, <2>1, <2>2, <2>3
  <2>4. CASE u = row.unit
    <3>1. units[u] # Null /\ ~units'[u].occupied
      BY <1>0, <2>1, <2>4, LeaseMoveEffect
    <3>2. \A k \in ActiveLeases(u) : k = l
      BY <1>2, <2>1, <2>4, <3>1 DEF Exclusive, ActiveLeases, LeasesOf
    <3>3. \A k \in Leases : leases'[k] = IF k = l THEN row ELSE leases[k]
      BY <1>0, <2>1, LeaseMoveEffect
    <3>4. ActiveLeases(u)' = {}
      BY <2>1, <3>2, <3>3 DEF ActiveLeases, LeasesOf
    <3> QED
      BY <3>1, <3>4 DEF Exclusive
  <2> QED
    BY <2>3, <2>4
<1>11. CASE UNCHANGED vars
  <2>1. /\ ActiveLeases(u)' = ActiveLeases(u)
        /\ PendingRequests(u)' = PendingRequests(u)
        /\ units' = units
    BY <1>11 DEF vars, ActiveLeases, LeasesOf, PendingRequests, RequestsFor
  <2> QED
    BY <1>2, <2>1, ExclusiveKept
<1> QED
  BY <1>3, <1>4, <1>5, <1>6, <1>8, <1>9, <1>10, <1>11
  DEF Next, Workflow, Lifecycle

\* Approvals alone never let a unit twice: only activating a lease made by
\* hand can, and until that happens occupancy and leases agree
\* (LeaseRequestService.approve, LeaseService.activate).
THEOREM ExclusiveCorrect == Spec => []RequestsLetExclusively
<1>1. Init => LeasesMatchApprovals /\ RequestsLetExclusively
  BY DEF Init, LeasesMatchApprovals, RequestsLetExclusively
<1> QED
  BY <1>1, ShapeInit, ShapeStep, MatchStep, ExclusiveStep, PTL DEF Spec

-----------------------------------------------------------------------------
(* Part two: LeasingTx *)

(***************************************************************************)
(* The inductive invariant. It says of every session, from the statement   *)
(* it is at, which rows it holds and how they differ from the committed    *)
(* ones.                                                                   *)
(***************************************************************************)
\* The statements at which a call of each kind can be.
OpsAt(label) ==
    CASE label = "scope" -> Ops \ {"submit"}
      [] label = "check" -> {"submit", "create"}
      [] label = "unit" -> LeaseOps \cup {"approve"}
      [] label = "insert" -> {"submit", "create", "approve"}
      [] label = "occupy" -> LeaseOps \cup {"approve"}
      [] label = "queue" -> {"approve"}
      [] label = "decide" -> RequestOps
      [] label = "lease" -> LeaseOps
      [] OTHER -> Ops

\* The rows a call was begun for are committed, and name its unit.
Named(s) ==
    LET c == call[s] IN
    /\ c.op \in RequestOps =>
          /\ c.by \in Staff /\ c.request \in Requests
          /\ requests[c.request] # Null
          /\ requests[c.request].unit = c.unit
          /\ requests[c.request].tenant = c.tenant
    /\ c.op \in LeaseOps =>
          /\ c.lease \in Leases
          /\ leases[c.lease] # Null /\ leases[c.lease].unit = c.unit
    /\ c.op \in LeaseOps \cup {"submit", "create"} => c.request = Null
    /\ c.op = "submit" => c.tenant \in Tenants

\* The requests a flush has still to update are committed ones for its unit.
ToDecide(s) ==
    /\ \A r \in todo[s] : requests[r] # Null /\ requests[r].unit = call[s].unit
    /\ pc[s] = "decide" /\ call[s].op = "reject" =>
          todo[s] = {call[s].request} /\ wr[s].requests = NoWrites.requests

\* A unit is held as it was committed, but for is_occupied.
HoldsUnits(s) ==
    \A u \in Units : wr[s].units[u] # Null =>
        /\ u = call[s].unit /\ units[u] # Null
        /\ wr[s].units[u] = [units[u] EXCEPT !.occupied = Assigned(call[s].op)]
        /\ \/ call[s].op = "approve" /\ pc[s] \in {"queue", "decide", "commit"}
           \/ call[s].op \in LeaseOps /\ pc[s] = "commit"

\* A lease is held that the call inserted, or that it was begun for.
HoldsLeases(s) ==
    \A l \in Leases : wr[s].leases[l] # Null =>
        LET c == call[s]  row == wr[s].leases[l] IN
        /\ row.unit = c.unit /\ units[c.unit] # Null
        /\ \/ /\ c.op \in LeaseOps /\ l = c.lease /\ pc[s] \in {"unit", "occupy", "commit"}
              /\ row = [leases[l] EXCEPT !.status =
                           IF c.op = "activate" THEN "ACTIVE" ELSE "TERMINATED"]
           \/ /\ leases[l] = Null /\ row.request = c.request
              /\ \/ c.op = "create" /\ pc[s] = "commit"
                 \/ c.op = "approve" /\ pc[s] \in {"occupy", "queue", "decide", "commit"}

\* A request is held that the call submitted, or that its flush answered.
HoldsRequests(s) ==
    \A r \in Requests : wr[s].requests[r] # Null =>
        LET c == call[s]  row == wr[s].requests[r] IN
        /\ row.unit = c.unit /\ units[c.unit] # Null
        /\ \/ /\ c.op = "submit" /\ pc[s] = "commit"
              /\ requests[r] = Null /\ row.status = "PENDING"
           \/ /\ c.op \in RequestOps /\ pc[s] \in {"decide", "commit"}
              /\ requests[r] # Null /\ row.unit = requests[r].unit
              /\ row.tenant = requests[r].tenant
              /\ row.status = "APPROVED" => c.op = "approve" /\ r = c.request

\* What a call has written by the time it is at its later statements.
HasWritten(s) ==
    LET c == call[s] IN
    /\ c.op \in LeaseOps /\ pc[s] \in {"unit", "occupy", "commit"} =>
          wr[s].leases[c.lease] # Null
    /\ c.op = "approve" /\ pc[s] \in {"occupy", "queue", "decide", "commit"} =>
          \E l \in Leases : /\ wr[s].leases[l] # Null
                            /\ wr[s].leases[l].status = "ACTIVE"
                            /\ wr[s].leases[l].request = c.request
    /\ c.op = "approve" /\ pc[s] \in {"queue", "decide", "commit"} =>
          wr[s].units[c.unit] # Null

Sound(s) ==
    IF call[s] = Null THEN wr[s] = NoWrites /\ todo[s] = {}
    ELSE /\ call[s].op \in OpsAt(pc[s])
         /\ Named(s) /\ ToDecide(s)
         /\ HoldsUnits(s) /\ HoldsLeases(s) /\ HoldsRequests(s)
         /\ HasWritten(s)

\* A row is held by one session at most.
Exclusively ==
    \A s, o \in Sessions : s # o =>
        /\ \A u \in Units : wr[s].units[u] # Null => wr[o].units[u] = Null
        /\ \A l \in Leases : wr[s].leases[l] # Null => wr[o].leases[l] = Null
        /\ \A r \in Requests : wr[s].requests[r] # Null => wr[o].requests[r] = Null

TxShape ==
    /\ TxTypeOK /\ NoDanglingRows
    /\ \A s \in Sessions : Sound(s)
    /\ Exclusively

\* s is about to end lease l without a word to its unit, which it read vacant.
Skips(s, l) ==
    /\ call[s] # Null
    /\ call[s].op = "terminate" /\ call[s].lease = l
    /\ pc[s] = "commit" /\ wr[s].units[call[s].unit] = Null

\* An occupied unit has a lease that nobody is about to end in silence.
StaysLeased ==
    \A u \in Units : units[u] # Null /\ units[u].occupied =>
        \E l \in ActiveLeases(u) : \A s \in Sessions : ~Skips(s, l)

(***************************************************************************)
(* Typing facts                                                            *)
(***************************************************************************)
LEMMA NoWritesTyped ==
    /\ NoWrites \in Writes
    /\ \A u \in Units : NoWrites.units[u] = Null
    /\ \A l \in Leases : NoWrites.leases[l] = Null
    /\ \A r \in Requests : NoWrites.requests[r] = Null
BY DEF NoWrites, Writes

\* The columns of what a session holds.
LEMMA HeldTypes ==
    ASSUME TxTypeOK, NEW s \in Sessions
    PROVE  /\ wr[s] \in Writes
           /\ \A u \in Units : wr[s].units[u] # Null => wr[s].units[u] \in UnitRow
           /\ \A l \in Leases : wr[s].leases[l] # Null => wr[s].leases[l] \in LeaseRow
           /\ \A r \in Requests : wr[s].requests[r] # Null => wr[s].requests[r] \in RequestRow
           /\ pc[s] \in PC /\ (call[s] = Null <=> pc[s] = "idle")
           /\ call[s] # Null => /\ call[s] \in Call /\ call[s].op \in Ops
                                /\ call[s].unit \in Units /\ call[s].tenant \in Users
                                /\ call[s].by \in Users
                                /\ call[s].request \in Requests \cup {Null}
BY DEF TxTypeOK, Writes, Call

\* One row more is held.
PutsUnit(s, u, row) == wr' = [wr EXCEPT ![s].units[u] = row]

LEMMA PutUnit ==
    ASSUME wr \in [Sessions -> Writes], NEW s \in Sessions, NEW u \in Units, NEW row \in UnitRow,
           PutsUnit(s, u, row)
    PROVE  /\ wr' \in [Sessions -> Writes]
           /\ \A o \in Sessions \ {s} : wr'[o] = wr[o]
           /\ wr'[s].leases = wr[s].leases /\ wr'[s].requests = wr[s].requests
           /\ \A v \in Units : wr'[s].units[v] = IF v = u THEN row ELSE wr[s].units[v]
BY DEF Writes, PutsUnit

PutsLease(s, l, row) == wr' = [wr EXCEPT ![s].leases[l] = row]

LEMMA PutLease ==
    ASSUME wr \in [Sessions -> Writes], NEW s \in Sessions, NEW l \in Leases, NEW row \in LeaseRow,
           PutsLease(s, l, row)
    PROVE  /\ wr' \in [Sessions -> Writes]
           /\ \A o \in Sessions \ {s} : wr'[o] = wr[o]
           /\ wr'[s].units = wr[s].units /\ wr'[s].requests = wr[s].requests
           /\ \A k \in Leases : wr'[s].leases[k] = IF k = l THEN row ELSE wr[s].leases[k]
BY DEF Writes, PutsLease

PutsRequest(s, r, row) == wr' = [wr EXCEPT ![s].requests[r] = row]

LEMMA PutRequest ==
    ASSUME wr \in [Sessions -> Writes], NEW s \in Sessions, NEW r \in Requests, NEW row \in RequestRow,
           PutsRequest(s, r, row)
    PROVE  /\ wr' \in [Sessions -> Writes]
           /\ \A o \in Sessions \ {s} : wr'[o] = wr[o]
           /\ wr'[s].units = wr[s].units /\ wr'[s].leases = wr[s].leases
           /\ \A q \in Requests : wr'[s].requests[q] = IF q = r THEN row ELSE wr[s].requests[q]
BY DEF Writes, PutsRequest

\* The same for a row of which nothing is known.
LEMMA PutRow ==
    ASSUME wr \in [Sessions -> Writes], NEW s \in Sessions, NEW row
    PROVE  /\ \A u \in Units : PutsUnit(s, u, row) =>
                 /\ wr'[s].leases = wr[s].leases /\ wr'[s].requests = wr[s].requests
                 /\ \A v \in Units : wr'[s].units[v] = IF v = u THEN row ELSE wr[s].units[v]
           /\ \A l \in Leases : PutsLease(s, l, row) =>
                 /\ wr'[s].units = wr[s].units /\ wr'[s].requests = wr[s].requests
                 /\ \A k \in Leases : wr'[s].leases[k] = IF k = l THEN row ELSE wr[s].leases[k]
           /\ \A r \in Requests : PutsRequest(s, r, row) =>
                 /\ wr'[s].units = wr[s].units /\ wr'[s].leases = wr[s].leases
                 /\ \A q \in Requests : wr'[s].requests[q] = IF q = r THEN row ELSE wr[s].requests[q]
BY DEF Writes, PutsUnit, PutsLease, PutsRequest

(***************************************************************************)
(* Steps of one session                                                    *)
(***************************************************************************)
\* No session but s moves.
OnlyMoves(s) ==
    \A o \in Sessions \ {s} :
        call'[o] = call[o] /\ pc'[o] = pc[o] /\ todo'[o] = todo[o] /\ wr'[o] = wr[o]

TxTypes ==
    /\ call \in [Sessions -> Call \cup {Null}] /\ pc \in [Sessions -> PC]
    /\ todo \in [Sessions -> SUBSET Requests] /\ wr \in [Sessions -> Writes]

\* Two sessions hold no row in common.
Apart(s, o) ==
    /\ \A u \in Units : wr[s].units[u] # Null => wr[o].units[u] = Null
    /\ \A l \in Leases : wr[s].leases[l] # Null => wr[o].leases[l] = Null
    /\ \A r \in Requests : wr[s].requests[r] # Null => wr[o].requests[r] = Null

\* A session that moves alone has only itself to answer for.
LEMMA OwnStep ==
    ASSUME TxShape, NEW s \in Sessions, UNCHANGED vars, OnlyMoves(s), TxTypes',
           call'[s] = Null <=> pc'[s] = "idle", Sound(s)',
           \A o \in Sessions \ {s} : Apart(s, o)'
    PROVE  TxShape'
<1>1. TypeOK' /\ NoDanglingRows'
  BY DEF TxShape, TxTypeOK, TypeOK, NoDanglingRows, vars
<1>2. TxTypeOK'
  BY <1>1 DEF TxShape, TxTypeOK, TxTypes, OnlyMoves
<1>3. ASSUME NEW o \in Sessions \ {s} PROVE Sound(o)'
  <2>1. Sound(o)
    BY DEF TxShape
  <2>2. UNCHANGED <<units, leases, requests>> /\ call'[o] = call[o] /\ pc'[o] = pc[o]
           /\ todo'[o] = todo[o] /\ wr'[o] = wr[o]
    BY DEF OnlyMoves, vars
  <2> QED
    BY <2>1, <2>2 DEF Sound, Named, ToDecide, HoldsUnits, HoldsLeases, HoldsRequests, HasWritten
<1>4. Exclusively'
  BY DEF TxShape, Exclusively, Apart, OnlyMoves
<1> QED
  BY <1>1, <1>2, <1>3, <1>4 DEF TxShape

\* A session that is closed holds nothing.
LEMMA CloseShape ==
    ASSUME TxShape, NEW s \in Sessions, Refuse(s)
    PROVE  TxShape'
<1>1. TxTypes' /\ OnlyMoves(s) /\ call'[s] = Null /\ pc'[s] = "idle" /\ wr'[s] = NoWrites /\ todo'[s] = {}
  BY NoWritesTyped DEF TxShape, TxTypeOK, TxTypes, OnlyMoves, Refuse, Close, Goto, PC
<1>2. Sound(s)' /\ \A o \in Sessions \ {s} : Apart(s, o)'
  BY <1>1, NoWritesTyped DEF Sound, Apart
<1> QED
  BY <1>1, <1>2, OwnStep DEF Refuse

\* A step that only reads moves its session on to another statement, with the
\* same rows in hand.
LEMMA ReadShape ==
    ASSUME TxShape, NEW s \in Sessions, NEW label \in PC \ {"idle"}, NEW ids \in SUBSET Requests,
           call[s] # Null, Goto(s, label), todo' = [todo EXCEPT ![s] = ids],
           UNCHANGED <<vars, call, wr>>, Sound(s)'
    PROVE  TxShape'
<1>1. TxTypes' /\ OnlyMoves(s) /\ call'[s] # Null /\ pc'[s] # "idle" /\ wr' = wr
  BY DEF TxShape, TxTypeOK, TxTypes, OnlyMoves, Goto
<1>2. \A o \in Sessions \ {s} : Apart(s, o)'
  BY <1>1 DEF Apart, TxShape, Exclusively
<1> QED
  BY <1>1, <1>2, OwnStep
\* A call that begins holds nothing and names rows that are there.
LEMMA BeginShape ==
    ASSUME TxShape, NEW s \in Sessions, NEW c \in Call, NEW label \in {"scope", "check"},
           Begin(s, c, label), c.op \in OpsAt(label), Named(s)'
    PROVE  TxShape'
<1>1. call[s] = Null /\ wr[s] = NoWrites /\ todo[s] = {}
  BY DEF Begin, TxShape, Sound
<1>2. /\ TxTypes' /\ OnlyMoves(s) /\ call'[s] = c /\ c # Null /\ pc'[s] = label
      /\ wr' = wr /\ todo' = todo /\ UNCHANGED vars
  BY CallAssumption DEF Begin, TxShape, TxTypeOK, TxTypes, OnlyMoves, Goto, PC
<1>3. \A o \in Sessions \ {s} : Apart(s, o)'
  BY <1>2 DEF Apart, TxShape, Exclusively
<1>4. Sound(s)'
  <2>1. ToDecide(s)' /\ HoldsUnits(s)' /\ HoldsLeases(s)' /\ HoldsRequests(s)' /\ HasWritten(s)'
    BY <1>1, <1>2, NoWritesTyped DEF ToDecide, HoldsUnits, HoldsLeases, HoldsRequests, HasWritten
  <2> QED
    BY <1>2, <2>1 DEF Sound, OpsAt
<1> QED
  BY <1>2, <1>3, <1>4, OwnStep

LEMMA StartShape ==
    ASSUME TxShape, NEW s \in Sessions, Start(s)
    PROVE  TxShape'
<1>0. /\ call \in [Sessions -> Call \cup {Null}] /\ TypeOK /\ Staff \subseteq Users
      /\ Tenants \subseteq Users /\ RequestOps \subseteq Ops /\ LeaseOps \subseteq Ops
  BY DEF TxShape, TxTypeOK, Staff, Users, Ops
<1>1. ASSUME NEW t \in Tenants, NEW u \in Units, SubmitBegin(s, t, u) PROVE TxShape'
  <2> DEFINE c == [op |-> "submit", by |-> t, unit |-> u, tenant |-> t,
                   request |-> Null, lease |-> Null]
  <2>1. c \in Call /\ c.op \in OpsAt("check")
    BY <1>0 DEF Call, Ops, OpsAt
  <2>2. Begin(s, c, "check") /\ call'[s] = c
    BY <1>0, <1>1 DEF SubmitBegin, Begin
  <2>3. Named(s)'
    BY <2>2 DEF Named, RequestOps, LeaseOps
  <2> QED
    BY <2>1, <2>2, <2>3, BeginShape
<1>2. ASSUME NEW by \in Staff, NEW op \in RequestOps, NEW r \in Requests, ReviewBegin(s, op, by, r)
      PROVE  TxShape'
  <2> DEFINE c == [op |-> op, by |-> by, unit |-> requests[r].unit,
                   tenant |-> requests[r].tenant, request |-> r, lease |-> Null]
  <2>1. requests[r] \in RequestRow /\ requests[r] # Null
    BY <1>0, <1>2 DEF ReviewBegin, TypeOK
  <2>2. c \in Call /\ c.op \in OpsAt("scope")
    BY <1>0, <2>1 DEF Call, OpsAt, RequestRow, RequestOps
  <2>3. Begin(s, c, "scope") /\ call'[s] = c /\ UNCHANGED <<requests, leases>>
    BY <1>0, <1>2 DEF ReviewBegin, Begin, vars
  <2>4. Named(s)'
    BY <2>1, <2>3 DEF Named, RequestOps, LeaseOps
  <2> QED
    BY <2>2, <2>3, <2>4, BeginShape
<1>3. ASSUME NEW by \in Staff, NEW op \in LeaseOps, NEW l \in Leases, LeaseBegin(s, op, by, l)
      PROVE  TxShape'
  <2> DEFINE c == [op |-> op, by |-> by, unit |-> leases[l].unit,
                   tenant |-> leases[l].tenant, request |-> Null, lease |-> l]
  <2>1. leases[l] \in LeaseRow /\ leases[l] # Null
    BY <1>0, <1>3 DEF LeaseBegin, TypeOK
  <2>2. c \in Call /\ c.op \in OpsAt("scope")
    BY <1>0, <2>1 DEF Call, OpsAt, LeaseRow, LeaseOps
  <2>3. Begin(s, c, "scope") /\ call'[s] = c /\ UNCHANGED <<requests, leases>>
    BY <1>0, <1>3 DEF LeaseBegin, Begin, vars
  <2>4. Named(s)'
    BY <2>1, <2>3 DEF Named, RequestOps, LeaseOps
  <2> QED
    BY <2>2, <2>3, <2>4, BeginShape
<1>4. ASSUME NEW by \in Staff, NEW u \in Units, NEW t \in Users, CreateBegin(s, by, u, t)
      PROVE  TxShape'
  <2> DEFINE c == [op |-> "create", by |-> by, unit |-> u, tenant |-> t,
                   request |-> Null, lease |-> Null]
  <2>1. c \in Call /\ c.op \in OpsAt("scope")
    BY <1>0 DEF Call, Ops, OpsAt
  <2>2. Begin(s, c, "scope") /\ call'[s] = c
    BY <1>0, <1>4 DEF CreateBegin, Begin
  <2>3. Named(s)'
    BY <2>2 DEF Named, RequestOps, LeaseOps
  <2> QED
    BY <2>1, <2>2, <2>3, BeginShape
<1> QED
  BY <1>1, <1>2, <1>3, <1>4 DEF Start

\* Before its first write a session holds nothing, and may go on to any
\* statement its call has before that.
Early(s) ==
    \/ pc[s] \in {"scope", "check", "insert", "lease"}
    \/ pc[s] = "unit" /\ call[s].op = "approve"

LEMMA EarlyHoldsNothing ==
    ASSUME TxShape, NEW s \in Sessions, Early(s)
    PROVE  /\ call[s] # Null /\ Sound(s)
           /\ \A u \in Units : wr[s].units[u] = Null
           /\ \A l \in Leases : wr[s].leases[l] = Null
           /\ \A r \in Requests : wr[s].requests[r] = Null
<1>1. call[s] # Null /\ Sound(s)
  BY HeldTypes DEF TxShape, Early
<1> QED
  BY <1>1 DEF Sound, HoldsUnits, HoldsLeases, HoldsRequests, Early, LeaseOps

LEMMA EarlySound ==
    ASSUME TxShape, NEW s \in Sessions, Early(s), UNCHANGED <<vars, call, wr>>,
           call[s].op \in OpsAt(pc'[s]),
           \/ Early(s)'
           \/ pc'[s] = "decide" /\ call[s].op = "reject" /\ todo'[s] = {call[s].request},
           \A r \in todo'[s] : requests[r] # Null /\ requests[r].unit = call[s].unit
    PROVE  Sound(s)'
<1>1. /\ call[s] # Null /\ Sound(s)
      /\ \A u \in Units : wr[s].units[u] = Null
      /\ \A l \in Leases : wr[s].leases[l] = Null
      /\ \A r \in Requests : wr[s].requests[r] = Null
  BY EarlyHoldsNothing
<1>2. UNCHANGED <<units, leases, requests>> /\ call' = call /\ wr' = wr
  BY DEF vars
<1>3. Named(s)'
  BY <1>1, <1>2 DEF Named, Sound
<1>4. HoldsUnits(s)' /\ HoldsLeases(s)' /\ HoldsRequests(s)'
  BY <1>1, <1>2 DEF HoldsUnits, HoldsLeases, HoldsRequests
<1>5. ToDecide(s)'
  <2>1. wr[s] \in Writes
    BY HeldTypes DEF TxShape
  <2>2. wr[s].requests = NoWrites.requests
    BY <1>1, <2>1 DEF Writes, NoWrites
  <2> QED
    BY <1>2, <2>2 DEF ToDecide, Early
<1>6. HasWritten(s)'
  BY <1>2 DEF HasWritten, Early, LeaseOps
<1> QED
  BY <1>1, <1>2, <1>3, <1>4, <1>5, <1>6 DEF Sound

LEMMA EarlyShape ==
    ASSUME TxShape, NEW s \in Sessions, Scope(s) \/ Check(s) \/ ReadUnit(s)
    PROVE  TxShape'
<1>0. /\ Early(s) /\ call[s] # Null /\ Sound(s) /\ TxTypeOK /\ pc \in [Sessions -> PC]
      /\ todo \in [Sessions -> SUBSET Requests] /\ call[s].op \in OpsAt(pc[s])
  <2>1. Early(s)
    BY DEF Early, Scope, Check, ReadUnit
  <2> QED
    BY <2>1, EarlyHoldsNothing DEF TxShape, TxTypeOK, Sound
<1>1. CASE Scope(s)
  <2>1. CASE Refuse(s)
    BY <2>1, CloseShape
  <2> DEFINE ids == IF call[s].op = "reject" THEN {call[s].request} ELSE {}
  <2>2. CASE /\ Goto(s, AfterScope[call[s].op]) /\ todo' = [todo EXCEPT ![s] = ids]
             /\ UNCHANGED <<vars, call, wr>>
    <3>1. call[s].op \in Ops \ {"submit"}
      BY <1>0, <1>1 DEF OpsAt, Scope
    <3>2. /\ AfterScope[call[s].op] \in PC \ {"idle"}
          /\ call[s].op \in OpsAt(AfterScope[call[s].op])
          /\ \/ AfterScope[call[s].op] \in {"check", "lease"}
             \/ AfterScope[call[s].op] = "unit" /\ call[s].op = "approve"
             \/ AfterScope[call[s].op] = "decide" /\ call[s].op = "reject"
      BY <3>1 DEF AfterScope, PC, OpsAt, Ops, LeaseOps, RequestOps
    <3>3. \A r \in ids : r \in Requests /\ requests[r] # Null /\ requests[r].unit = call[s].unit
      BY <1>0 DEF Sound, Named, RequestOps
    <3>4. pc'[s] = AfterScope[call[s].op] /\ todo'[s] = ids /\ call' = call
      BY <1>0, <2>2 DEF Goto
    <3>6. call[s].op = "reject" => ids = {call[s].request}
      OBVIOUS
    <3> HIDE DEF ids
    <3>5. Sound(s)'
      <4>1. \/ Early(s)'
            \/ pc'[s] = "decide" /\ call[s].op = "reject" /\ todo'[s] = {call[s].request}
        BY <3>2, <3>4, <3>6 DEF Early
      <4>2. call[s].op \in OpsAt(pc'[s]) /\ UNCHANGED <<vars, call, wr>>
        BY <2>2, <3>2, <3>4
      <4>3. \A r \in todo'[s] : requests[r] # Null /\ requests[r].unit = call[s].unit
        BY <3>3, <3>4
      <4> QED
        BY <1>0, <4>1, <4>2, <4>3, EarlySound
    <3> QED
      BY <1>0, <2>2, <3>2, <3>3, <3>5, ReadShape
  <2> QED
    BY <1>1, <2>1, <2>2 DEF Scope
<1>2. ASSUME NEW label \in {"insert"}, Goto(s, label), UNCHANGED <<vars, call, todo, wr>>,
             call[s].op \in OpsAt(label)
      PROVE  TxShape'
  <2>1. pc'[s] = label /\ todo'[s] = todo[s] /\ todo' = [todo EXCEPT ![s] = todo[s]] /\ call' = call
    BY <1>0, <1>2 DEF Goto
  <2>2. \A r \in todo[s] : requests[r] # Null /\ requests[r].unit = call[s].unit
    BY <1>0 DEF Sound, ToDecide
  <2>3. Sound(s)'
    <3>1. Early(s)'
      BY <1>2, <2>1 DEF Early
    <3>2. call[s].op \in OpsAt(pc'[s]) /\ UNCHANGED <<vars, call, wr>>
      BY <1>2, <2>1
    <3>3. \A r \in todo'[s] : requests[r] # Null /\ requests[r].unit = call[s].unit
      BY <2>1, <2>2
    <3> QED
      BY <1>0, <3>1, <3>2, <3>3, EarlySound
  <2>4. label \in PC \ {"idle"} /\ todo[s] \in SUBSET Requests
    BY <1>0 DEF PC
  <2> QED
    BY <1>0, <1>2, <2>1, <2>3, <2>4, ReadShape
<1>3. CASE Check(s)
  <2>1. call[s].op \in OpsAt("insert")
    BY <1>0, <1>3 DEF Check, OpsAt
  <2> QED
    BY <1>2, <1>3, <2>1, CloseShape DEF Check, Test
<1>4. CASE ReadUnit(s)
  <2>1. call[s].op \in OpsAt("insert")
    BY <1>4 DEF ReadUnit, OpsAt
  <2> QED
    BY <1>2, <1>4, <2>1, CloseShape DEF ReadUnit, Test
<1> QED
  BY <1>1, <1>3, <1>4
(***************************************************************************)
(* The inserts                                                             *)
(***************************************************************************)
LEMMA InsertRequestShape ==
    ASSUME TxShape, NEW s \in Sessions, NEW r \in Requests, InsertRequest(s, r)
    PROVE  TxShape'
<1> DEFINE c == call[s]  row == NewRequest(c.tenant, c.unit)
<1>0. /\ Early(s) /\ c # Null /\ Sound(s) /\ Named(s) /\ ToDecide(s) /\ c.op = "submit"
      /\ c.unit \in Units /\ units[c.unit] # Null /\ c.tenant \in Tenants
      /\ \A u \in Units : wr[s].units[u] = Null
      /\ \A l \in Leases : wr[s].leases[l] = Null
      /\ \A q \in Requests : wr[s].requests[q] = Null
  <2>1. Early(s)
    BY DEF Early, InsertRequest
  <2> QED
    BY <2>1, EarlyHoldsNothing, HeldTypes DEF TxShape, InsertRequest, Sound, Named
<1>1. row \in RequestRow /\ row.unit = c.unit /\ row.status = "PENDING" /\ row # Null
  BY <1>0, NullAssumption DEF NewRequest, RequestRow, RequestStatus
<1>2. /\ PutsRequest(s, r, row) /\ pc' = [pc EXCEPT ![s] = "commit"]
      /\ UNCHANGED <<vars, call, todo>>
      /\ requests[r] = Null /\ \A o \in Sessions : wr[o].requests[r] = Null
  BY DEF PutsRequest, InsertRequest, Goto, FreshRequest
<1> HIDE DEF row
<1>3. /\ wr' \in [Sessions -> Writes] /\ \A o \in Sessions \ {s} : wr'[o] = wr[o]
      /\ wr'[s].units = wr[s].units /\ wr'[s].leases = wr[s].leases
      /\ \A q \in Requests : wr'[s].requests[q] = IF q = r THEN row ELSE wr[s].requests[q]
  <2>1. wr \in [Sessions -> Writes]
    BY DEF TxShape, TxTypeOK
  <2>2. row \in RequestRow /\ PutsRequest(s, r, row) /\ r \in Requests
    BY <1>1, <1>2
  <2> QED
    BY <2>1, <2>2, PutRequest
<1>4. TxTypes' /\ OnlyMoves(s) /\ pc'[s] = "commit" /\ call' = call /\ todo' = todo
  BY <1>2, <1>3 DEF TxTypes, OnlyMoves, TxShape, TxTypeOK, PC
<1>5. \A o \in Sessions \ {s} : Apart(s, o)'
  BY <1>0, <1>2, <1>3 DEF Apart
<1>6. UNCHANGED <<units, leases, requests>>
  BY <1>2 DEF vars
<1>7. Sound(s)'
  <2>1. HoldsUnits(s)' /\ HoldsLeases(s)'
    BY <1>0, <1>3 DEF HoldsUnits, HoldsLeases
  <2>2. HoldsRequests(s)'
    BY <1>0, <1>1, <1>2, <1>3, <1>4, <1>6 DEF HoldsRequests
  <2>3. Named(s)' /\ ToDecide(s)' /\ HasWritten(s)' /\ call[s].op \in OpsAt("commit")
    BY <1>0, <1>4, <1>6 DEF Named, ToDecide, HasWritten, OpsAt, LeaseOps, Ops
  <2> QED
    BY <1>0, <1>4, <2>1, <2>2, <2>3 DEF Sound
<1>8. UNCHANGED vars /\ call'[s] # Null /\ pc'[s] # "idle"
  BY <1>0, <1>2, <1>4
<1> QED
  BY <1>4, <1>5, <1>7, <1>8, OwnStep

LEMMA InsertLeaseShape ==
    ASSUME TxShape, NEW s \in Sessions, NEW l \in Leases, InsertLease(s, l)
    PROVE  TxShape'
<1> DEFINE c == call[s]  granted == c.op = "approve"
           status == IF granted THEN "ACTIVE" ELSE "DRAFT"
           label == IF granted THEN "occupy" ELSE "commit"
           row == [unit |-> c.unit, tenant |-> c.tenant, status |-> status,
                   request |-> c.request]
<1>0. /\ Early(s) /\ c # Null /\ Sound(s) /\ Named(s) /\ ToDecide(s) /\ c.op \in {"create", "approve"}
      /\ c \in Call /\ c.unit \in Units /\ units[c.unit] # Null /\ c.tenant \in Users
      /\ c.request \in Requests \cup {Null}
      /\ \A u \in Units : wr[s].units[u] = Null
      /\ \A k \in Leases : wr[s].leases[k] = Null
      /\ \A q \in Requests : wr[s].requests[q] = Null
  <2>1. Early(s)
    BY DEF Early, InsertLease
  <2> QED
    BY <2>1, EarlyHoldsNothing, HeldTypes DEF TxShape, InsertLease, Sound
<1>1. /\ row \in LeaseRow /\ row.unit = c.unit /\ row.request = c.request /\ row # Null
      /\ row.status = status
  BY <1>0, NullAssumption DEF LeaseRow, LeaseStatus
<1>2. /\ PutsLease(s, l, row) /\ pc' = [pc EXCEPT ![s] = label]
      /\ UNCHANGED <<vars, call, todo>>
      /\ leases[l] = Null /\ \A o \in Sessions : wr[o].leases[l] = Null
  BY DEF PutsLease, InsertLease, Goto, FreshLease
<1>a. label \in PC \ {"idle"} /\ c.op \in OpsAt(label)
  BY <1>0 DEF PC, OpsAt, Ops
<1> HIDE DEF row
<1>3. /\ wr' \in [Sessions -> Writes] /\ \A o \in Sessions \ {s} : wr'[o] = wr[o]
      /\ wr'[s].units = wr[s].units /\ wr'[s].requests = wr[s].requests
      /\ \A k \in Leases : wr'[s].leases[k] = IF k = l THEN row ELSE wr[s].leases[k]
  <2>1. wr \in [Sessions -> Writes]
    BY DEF TxShape, TxTypeOK
  <2>2. row \in LeaseRow /\ PutsLease(s, l, row) /\ l \in Leases
    BY <1>1, <1>2
  <2> QED
    BY <2>1, <2>2, PutLease
<1>4. TxTypes' /\ OnlyMoves(s) /\ pc'[s] = label /\ call' = call /\ todo' = todo
  BY <1>2, <1>3, <1>a DEF TxTypes, OnlyMoves, TxShape, TxTypeOK
<1>5. \A o \in Sessions \ {s} : Apart(s, o)'
  BY <1>0, <1>2, <1>3 DEF Apart
<1>6. UNCHANGED <<units, leases, requests>>
  BY <1>2 DEF vars
<1>7. Sound(s)'
  <2>1. HoldsUnits(s)' /\ HoldsRequests(s)'
    BY <1>0, <1>3 DEF HoldsUnits, HoldsRequests
  <2>2. HoldsLeases(s)'
    BY <1>0, <1>1, <1>2, <1>3, <1>4, <1>6 DEF HoldsLeases
  <2>3. Named(s)' /\ ToDecide(s)'
    BY <1>0, <1>4, <1>6 DEF Named, ToDecide
  <2>4. HasWritten(s)'
    <3>1. c.op \notin LeaseOps
      BY <1>0 DEF LeaseOps
    <3>2. granted => wr'[s].leases[l] # Null /\ wr'[s].leases[l].status = "ACTIVE"
                        /\ wr'[s].leases[l].request = c.request
      BY <1>1, <1>3
    <3> QED
      BY <1>4, <3>1, <3>2 DEF HasWritten
  <2> QED
    BY <1>0, <1>4, <1>a, <2>1, <2>2, <2>3, <2>4 DEF Sound
<1>8. UNCHANGED vars /\ call'[s] # Null /\ pc'[s] # "idle"
  BY <1>0, <1>2, <1>4, <1>a
<1> QED
  BY <1>4, <1>5, <1>7, <1>8, OwnStep

(***************************************************************************)
(* The updates. Each waits for its row; from then on the committed row     *)
(* cannot change under it.                                                 *)
(***************************************************************************)
LEMMA WriteLeaseShape ==
    ASSUME TxShape, NEW s \in Sessions, WriteLease(s)
    PROVE  TxShape'
<1> DEFINE c == call[s]  l == c.lease
           status == IF c.op = "activate" THEN "ACTIVE" ELSE "TERMINATED"
           row == [leases[l] EXCEPT !.status = status]
<1>0. /\ Early(s) /\ c # Null /\ Sound(s) /\ Named(s) /\ ToDecide(s) /\ c.op \in LeaseOps
      /\ c.unit \in Units /\ l \in Leases /\ leases[l] # Null /\ leases[l].unit = c.unit
      /\ \A u \in Units : wr[s].units[u] = Null
      /\ \A k \in Leases : wr[s].leases[k] = Null
      /\ \A q \in Requests : wr[s].requests[q] = Null
  <2>1. Early(s)
    BY DEF Early, WriteLease
  <2> QED
    BY <2>1, EarlyHoldsNothing, HeldTypes DEF TxShape, WriteLease, Sound, Named, OpsAt
<1>1. row \in LeaseRow /\ row.unit = c.unit /\ row # Null /\ units[c.unit] # Null
  <2>1. leases[l] \in LeaseRow
    BY <1>0, RowTypes DEF TxShape, TxTypeOK
  <2>2. units[c.unit] # Null
    BY <1>0 DEF TxShape, NoDanglingRows
  <2> QED
    BY <1>0, <2>1, <2>2, NullAssumption DEF LeaseRow, LeaseStatus
<1>2. /\ PutsLease(s, l, row) /\ pc' = [pc EXCEPT ![s] = "unit"]
      /\ UNCHANGED <<vars, call, todo>>
      /\ \A o \in Sessions \ {s} : wr[o].leases[l] = Null
  BY DEF PutsLease, WriteLease, Goto, LeaseFree
<1>b. row = [leases[l] EXCEPT !.status = status]
  OBVIOUS
<1> HIDE DEF row
<1>3. /\ wr' \in [Sessions -> Writes] /\ \A o \in Sessions \ {s} : wr'[o] = wr[o]
      /\ wr'[s].units = wr[s].units /\ wr'[s].requests = wr[s].requests
      /\ \A k \in Leases : wr'[s].leases[k] = IF k = l THEN row ELSE wr[s].leases[k]
  <2>1. wr \in [Sessions -> Writes]
    BY DEF TxShape, TxTypeOK
  <2>2. row \in LeaseRow /\ PutsLease(s, l, row) /\ l \in Leases
    BY <1>0, <1>1, <1>2
  <2> QED
    BY <2>1, <2>2, PutLease
<1>4. TxTypes' /\ OnlyMoves(s) /\ pc'[s] = "unit" /\ call' = call /\ todo' = todo
  BY <1>2, <1>3 DEF TxTypes, OnlyMoves, TxShape, TxTypeOK, PC
<1>5. \A o \in Sessions \ {s} : Apart(s, o)'
  BY <1>0, <1>2, <1>3 DEF Apart
<1>6. UNCHANGED <<units, leases, requests>>
  BY <1>2 DEF vars
<1>7. Sound(s)'
  <2>1. HoldsUnits(s)' /\ HoldsRequests(s)'
    BY <1>0, <1>3 DEF HoldsUnits, HoldsRequests
  <2>2. HoldsLeases(s)'
    BY <1>0, <1>1, <1>2, <1>3, <1>4, <1>6, <1>b DEF HoldsLeases
  <2>3. Named(s)' /\ ToDecide(s)' /\ c.op \in OpsAt("unit")
    BY <1>0, <1>4, <1>6 DEF Named, ToDecide, OpsAt
  <2>4. HasWritten(s)'
    BY <1>0, <1>1, <1>3, <1>4 DEF HasWritten, LeaseOps
  <2> QED
    BY <1>0, <1>4, <2>1, <2>2, <2>3, <2>4 DEF Sound
<1>8. UNCHANGED vars /\ call'[s] # Null /\ pc'[s] # "idle"
  BY <1>0, <1>2, <1>4
<1> QED
  BY <1>4, <1>5, <1>7, <1>8, OwnStep

LEMMA OccupyShape ==
    ASSUME TxShape, NEW s \in Sessions, Occupy(s)
    PROVE  TxShape'
<1> DEFINE c == call[s]  u == c.unit
           label == IF c.op = "approve" THEN "queue" ELSE "commit"
           row == [units[u] EXCEPT !.occupied = Assigned(c.op)]
<1>0. /\ c # Null /\ Sound(s) /\ Named(s) /\ ToDecide(s) /\ c.op \in LeaseOps \cup {"approve"}
      /\ pc[s] = "occupy" /\ u \in Units
  BY HeldTypes DEF TxShape, Occupy, Sound, OpsAt, PC
<1>a. /\ HoldsUnits(s) /\ HoldsLeases(s) /\ HoldsRequests(s) /\ HasWritten(s)
      /\ c.op \in LeaseOps => c.lease \in Leases
  BY <1>0 DEF Sound, Named
<1>b. /\ units[u] # Null /\ \A v \in Units : wr[s].units[v] = Null
      /\ \A q \in Requests : wr[s].requests[q] = Null
  BY <1>0, <1>a DEF HasWritten, HoldsLeases, HoldsUnits, HoldsRequests
<1>1. row \in UnitRow /\ row # Null
  <2>1. units[u] \in UnitRow /\ Assigned(c.op) \in BOOLEAN
    BY <1>0, <1>b, RowTypes DEF TxShape, TxTypeOK, Assigned
  <2> QED
    BY <2>1, NullAssumption DEF UnitRow
<1>2. /\ PutsUnit(s, u, row) /\ pc' = [pc EXCEPT ![s] = label]
      /\ UNCHANGED <<vars, call, todo>>
      /\ \A o \in Sessions \ {s} : wr[o].units[u] = Null
  BY DEF PutsUnit, Occupy, Goto, UnitFree
<1>c. /\ row = [units[u] EXCEPT !.occupied = Assigned(c.op)]
      /\ label \in PC \ {"idle"} /\ c.op \in OpsAt(label)
  BY <1>0 DEF PC, OpsAt, Ops
<1> HIDE DEF row
<1>3. /\ wr' \in [Sessions -> Writes] /\ \A o \in Sessions \ {s} : wr'[o] = wr[o]
      /\ wr'[s].leases = wr[s].leases /\ wr'[s].requests = wr[s].requests
      /\ \A v \in Units : wr'[s].units[v] = IF v = u THEN row ELSE wr[s].units[v]
  <2>1. wr \in [Sessions -> Writes]
    BY DEF TxShape, TxTypeOK
  <2>2. row \in UnitRow /\ PutsUnit(s, u, row) /\ u \in Units
    BY <1>0, <1>1, <1>2
  <2> QED
    BY <2>1, <2>2, PutUnit
<1>4. TxTypes' /\ OnlyMoves(s) /\ pc'[s] = label /\ call' = call /\ todo' = todo
  BY <1>2, <1>3, <1>c DEF TxTypes, OnlyMoves, TxShape, TxTypeOK
<1>5. \A o \in Sessions \ {s} : Apart(s, o)'
  BY <1>b, <1>2, <1>3 DEF Apart, TxShape, Exclusively
<1>6. UNCHANGED <<units, leases, requests>>
  BY <1>2 DEF vars
<1>7. Sound(s)'
  <2>1. HoldsRequests(s)'
    BY <1>b, <1>3 DEF HoldsRequests
  <2>2. HoldsUnits(s)'
    BY <1>0, <1>b, <1>c, <1>2, <1>3, <1>4, <1>6 DEF HoldsUnits
  <2>3. Named(s)' /\ ToDecide(s)'
    BY <1>0, <1>4, <1>6 DEF Named, ToDecide
  <2>4. HasWritten(s)'
    BY <1>0, <1>a, <1>1, <1>3, <1>4 DEF HasWritten, LeaseOps
  <2>5. HoldsLeases(s)'
    BY <1>0, <1>a, <1>3, <1>4, <1>6 DEF HoldsLeases, LeaseOps
  <2> QED
    BY <1>0, <1>c, <1>4, <2>1, <2>2, <2>3, <2>4, <2>5 DEF Sound
<1>8. UNCHANGED vars /\ call'[s] # Null /\ pc'[s] # "idle"
  BY <1>0, <1>2, <1>4, <1>c
<1> QED
  BY <1>4, <1>5, <1>7, <1>8, OwnStep

LEMMA DecideShape ==
    ASSUME TxShape, NEW s \in Sessions, NEW r \in Requests, Decide(s, r)
    PROVE  TxShape'
<1> DEFINE c == call[s]
           status == IF c.op = "approve" /\ r = c.request THEN "APPROVED" ELSE "REJECTED"
           rest == todo[s] \ {r}
           label == IF rest = {} THEN "commit" ELSE "decide"
           row == Decided(requests[r], status, c.by)
<1>0. /\ c # Null /\ Sound(s) /\ Named(s) /\ ToDecide(s) /\ c.op \in RequestOps
      /\ pc[s] = "decide" /\ c.unit \in Units /\ r \in todo[s] /\ todo[s] \subseteq Requests
  BY HeldTypes DEF TxShape, Decide, Sound, OpsAt, PC, TxTypeOK
<1>a. /\ HoldsUnits(s) /\ HoldsLeases(s) /\ HoldsRequests(s) /\ HasWritten(s)
      /\ requests[r] # Null /\ requests[r].unit = c.unit /\ c.by \in Staff
      /\ c.op = "reject" => todo[s] = {c.request}
  BY <1>0 DEF Sound, ToDecide, Named
<1>b. requests[r] \in RequestRow /\ r \in Requests /\ units[c.unit] # Null
  <2>1. requests[r] \in RequestRow
    BY <1>a, RowTypes DEF TxShape, TxTypeOK
  <2>2. units[c.unit] # Null
    BY <1>a DEF TxShape, NoDanglingRows
  <2> QED
    BY <2>1, <2>2
<1>1. /\ row \in RequestRow /\ row # Null /\ row.unit = c.unit /\ row.tenant = requests[r].tenant
      /\ row.status = "APPROVED" => c.op = "approve" /\ r = c.request
      /\ row.status # "PENDING"
  BY <1>a, <1>b, NullAssumption DEF Decided, RequestRow, RequestStatus
<1>2. /\ PutsRequest(s, r, row)
      /\ todo' = [todo EXCEPT ![s] = rest] /\ pc' = [pc EXCEPT ![s] = label]
      /\ UNCHANGED <<vars, call>>
      /\ \A o \in Sessions \ {s} : wr[o].requests[r] = Null
  <2>1. todo' = [todo EXCEPT ![s] = rest] /\ todo'[s] = rest
    BY DEF Decide, TxShape, TxTypeOK
  <2> QED
    BY <2>1 DEF PutsRequest, Decide, Goto, RequestFree
<1>c. /\ label \in PC \ {"idle"} /\ c.op \in OpsAt(label) /\ rest \in SUBSET Requests
      /\ c.op = "reject" => label = "commit"
  BY <1>0, <1>a DEF PC, OpsAt, Ops
<1>d. label \in {"decide", "commit"}
  OBVIOUS
<1> HIDE DEF row, label, rest
<1>3. /\ wr' \in [Sessions -> Writes] /\ \A o \in Sessions \ {s} : wr'[o] = wr[o]
      /\ wr'[s].units = wr[s].units /\ wr'[s].leases = wr[s].leases
      /\ \A q \in Requests : wr'[s].requests[q] = IF q = r THEN row ELSE wr[s].requests[q]
  <2>1. wr \in [Sessions -> Writes]
    BY DEF TxShape, TxTypeOK
  <2>2. row \in RequestRow /\ PutsRequest(s, r, row) /\ r \in Requests
    BY <1>1, <1>2
  <2> QED
    BY <2>1, <2>2, PutRequest
<1>4. /\ TxTypes' /\ OnlyMoves(s) /\ pc'[s] = label /\ call' = call /\ todo'[s] = rest
      /\ rest \subseteq todo[s]
  BY <1>2, <1>3, <1>c DEF TxTypes, OnlyMoves, TxShape, TxTypeOK, rest
<1>5. \A o \in Sessions \ {s} : Apart(s, o)'
  BY <1>2, <1>3 DEF Apart, TxShape, Exclusively
<1>6. UNCHANGED <<units, leases, requests>>
  BY <1>2 DEF vars
<1>7. Sound(s)'
  <2>1. HoldsUnits(s)' /\ HoldsLeases(s)'
    BY <1>0, <1>a, <1>d, <1>3, <1>4, <1>6 DEF HoldsUnits, HoldsLeases, RequestOps, LeaseOps
  <2>2. HoldsRequests(s)'
    BY <1>0, <1>a, <1>b, <1>d, <1>1, <1>3, <1>4, <1>6 DEF HoldsRequests, RequestOps
  <2>3. Named(s)'
    BY <1>0, <1>4, <1>6 DEF Named
  <2>4. ToDecide(s)'
    BY <1>0, <1>c, <1>4, <1>6 DEF ToDecide
  <2>5. HasWritten(s)'
    BY <1>0, <1>a, <1>d, <1>3, <1>4 DEF HasWritten, RequestOps, LeaseOps
  <2> QED
    BY <1>0, <1>c, <1>4, <2>1, <2>2, <2>3, <2>4, <2>5 DEF Sound
<1>8. UNCHANGED vars /\ call'[s] # Null /\ pc'[s] # "idle"
  BY <1>0, <1>2, <1>4, <1>c
<1> QED
  BY <1>4, <1>5, <1>7, <1>8, OwnStep

(***************************************************************************)
(* The reads between two writes                                            *)
(***************************************************************************)
LEMMA ReadOccupiedShape ==
    ASSUME TxShape, NEW s \in Sessions, ReadOccupied(s)
    PROVE  TxShape'
<1> DEFINE c == call[s]
           label == IF units[c.unit].occupied = Assigned(c.op) THEN "commit" ELSE "occupy"
<1>0. /\ c # Null /\ Sound(s) /\ c.op \in LeaseOps /\ pc[s] = "unit"
      /\ todo[s] \in SUBSET Requests
  BY HeldTypes DEF TxShape, ReadOccupied, TxTypeOK, PC
<1>1. label \in {"commit", "occupy"}
  OBVIOUS
<1>2. Goto(s, label) /\ UNCHANGED <<vars, call, todo, wr>>
  BY DEF ReadOccupied
<1> HIDE DEF label
<1>3. /\ pc'[s] = label /\ todo' = [todo EXCEPT ![s] = todo[s]]
      /\ UNCHANGED <<units, leases, requests>> /\ call' = call /\ wr' = wr /\ todo' = todo
  BY <1>2 DEF Goto, vars, TxShape, TxTypeOK
<1>4. Sound(s)'
  <2>1. c.op \in OpsAt(label)
    BY <1>0, <1>1 DEF OpsAt, Ops
  <2> QED
    BY <1>0, <1>1, <1>3, <2>1
    DEF Sound, Named, ToDecide, HoldsUnits, HoldsLeases, HoldsRequests, HasWritten, LeaseOps, RequestOps
<1>5. label \in PC \ {"idle"}
  BY <1>1 DEF PC
<1> QED
  BY <1>0, <1>2, <1>3, <1>4, <1>5, ReadShape

LEMMA ReadQueueShape ==
    ASSUME TxShape, NEW s \in Sessions, ReadQueue(s)
    PROVE  TxShape'
<1> DEFINE c == call[s]  ids == PendingRequests(c.unit) \cup {c.request}
<1>0. c # Null /\ Sound(s) /\ c.op = "approve" /\ pc[s] = "queue"
  BY HeldTypes DEF TxShape, ReadQueue, Sound, OpsAt, PC
<1>1. ids \in SUBSET Requests /\ \A r \in ids : requests[r] # Null /\ requests[r].unit = c.unit
  BY <1>0 DEF PendingRequests, RequestsFor, Sound, Named, RequestOps
<1>2. Goto(s, "decide") /\ todo' = [todo EXCEPT ![s] = ids] /\ UNCHANGED <<vars, call, wr>>
  BY DEF ReadQueue
<1> HIDE DEF ids
<1>3. /\ pc'[s] = "decide" /\ todo'[s] = ids
      /\ UNCHANGED <<units, leases, requests>> /\ call' = call /\ wr' = wr
  BY <1>2 DEF Goto, vars, TxShape, TxTypeOK
<1>4. Sound(s)'
  BY <1>0, <1>1, <1>3
  DEF Sound, Named, ToDecide, HoldsUnits, HoldsLeases, HoldsRequests, HasWritten, LeaseOps, RequestOps, OpsAt
<1> QED
  BY <1>0, <1>1, <1>2, <1>4, ReadShape DEF PC

(***************************************************************************)
(* Commits                                                                 *)
(***************************************************************************)
\* What get_db's commit makes of the tables and of the session.
LEMMA CommitEffect ==
    ASSUME TxShape, NEW s \in Sessions, Commit(s)
    PROVE  /\ TypeOK' /\ call[s] # Null /\ pc[s] = "commit" /\ Sound(s)
           /\ UNCHANGED properties
           /\ \A u \in Units : units'[u] = IF wr[s].units[u] # Null THEN wr[s].units[u] ELSE units[u]
           /\ \A l \in Leases : leases'[l] = IF wr[s].leases[l] # Null THEN wr[s].leases[l] ELSE leases[l]
           /\ \A r \in Requests :
                 requests'[r] = IF wr[s].requests[r] # Null THEN wr[s].requests[r] ELSE requests[r]
           /\ TxTypes' /\ OnlyMoves(s)
           /\ call'[s] = Null /\ pc'[s] = "idle" /\ wr'[s] = NoWrites /\ todo'[s] = {}
<1>1. call[s] # Null /\ pc[s] = "commit" /\ Sound(s)
  BY HeldTypes DEF TxShape, Commit
<1>2. /\ TxTypes' /\ OnlyMoves(s)
      /\ call'[s] = Null /\ pc'[s] = "idle" /\ wr'[s] = NoWrites /\ todo'[s] = {}
  BY NoWritesTyped DEF TxShape, TxTypeOK, TxTypes, OnlyMoves, Commit, Close, Goto, PC
<1>3. TypeOK /\ wr[s] \in Writes
  BY DEF TxShape, TxTypeOK
<1>4. UNCHANGED properties
  BY DEF Commit
<1>5. /\ units' \in [Units -> UnitRow \cup {Null}]
      /\ \A u \in Units : units'[u] = IF wr[s].units[u] # Null THEN wr[s].units[u] ELSE units[u]
  BY <1>3 DEF Commit, Overlay, TypeOK, Writes
<1>6. /\ leases' \in [Leases -> LeaseRow \cup {Null}]
      /\ \A l \in Leases : leases'[l] = IF wr[s].leases[l] # Null THEN wr[s].leases[l] ELSE leases[l]
  BY <1>3 DEF Commit, Overlay, TypeOK, Writes
<1>7. /\ requests' \in [Requests -> RequestRow \cup {Null}]
      /\ \A r \in Requests :
            requests'[r] = IF wr[s].requests[r] # Null THEN wr[s].requests[r] ELSE requests[r]
  BY <1>3 DEF Commit, Overlay, TypeOK, Writes
<1> QED
  BY <1>1, <1>2, <1>3, <1>4, <1>5, <1>6, <1>7 DEF TypeOK

\* A commit takes no row away and leaves every row the columns that the
\* handlers never assign.
LEMMA CommitKeeps ==
    ASSUME TxShape, NEW s \in Sessions, Commit(s)
    PROVE  /\ \A u \in Units : units[u] # Null =>
                 /\ units'[u] # Null /\ units'[u].property = units[u].property
                 /\ units'[u].available = units[u].available
           /\ \A l \in Leases : leases[l] # Null =>
                 /\ leases'[l] # Null /\ leases'[l].unit = leases[l].unit
                 /\ leases'[l].tenant = leases[l].tenant /\ leases'[l].request = leases[l].request
           /\ \A r \in Requests : requests[r] # Null =>
                 /\ requests'[r] # Null /\ requests'[r].unit = requests[r].unit
                 /\ requests'[r].tenant = requests[r].tenant
<1>0. /\ TypeOK /\ HoldsUnits(s) /\ HoldsLeases(s) /\ HoldsRequests(s)
  BY CommitEffect DEF TxShape, TxTypeOK, Sound
<1>1. ASSUME NEW u \in Units, units[u] # Null
      PROVE  /\ units'[u] # Null /\ units'[u].property = units[u].property
             /\ units'[u].available = units[u].available
  <2>1. units[u] \in UnitRow /\ Assigned(call[s].op) \in BOOLEAN
    BY <1>0, <1>1, RowTypes DEF Assigned
  <2>2. units'[u] \in {units[u], [units[u] EXCEPT !.occupied = Assigned(call[s].op)]}
    <3>1. CASE wr[s].units[u] = Null
      BY <3>1, CommitEffect
    <3>2. CASE wr[s].units[u] # Null
      <4>1. wr[s].units[u] = [units[u] EXCEPT !.occupied = Assigned(call[s].op)]
        BY <1>0, <3>2 DEF HoldsUnits
      <4>2. units'[u] = wr[s].units[u]
        BY <3>2, CommitEffect
      <4> QED
        BY <4>1, <4>2
    <3> QED
      BY <3>1, <3>2
  <2> QED
    BY <2>1, <2>2, NullAssumption DEF UnitRow
<1>2. ASSUME NEW l \in Leases, leases[l] # Null
      PROVE  /\ leases'[l] # Null /\ leases'[l].unit = leases[l].unit
             /\ leases'[l].tenant = leases[l].tenant /\ leases'[l].request = leases[l].request
  <2> DEFINE status == IF call[s].op = "activate" THEN "ACTIVE" ELSE "TERMINATED"
  <2>1. leases[l] \in LeaseRow /\ status \in LeaseStatus
    BY <1>0, <1>2, RowTypes DEF LeaseStatus
  <2>2. leases'[l] \in {leases[l], [leases[l] EXCEPT !.status = status]}
    <3>1. CASE wr[s].leases[l] = Null
      BY <3>1, CommitEffect
    <3>2. CASE wr[s].leases[l] # Null
      <4>1. wr[s].leases[l] = [leases[l] EXCEPT !.status = status]
        BY <1>0, <1>2, <3>2 DEF HoldsLeases
      <4>2. leases'[l] = wr[s].leases[l]
        BY <3>2, CommitEffect
      <4> QED
        BY <4>1, <4>2
    <3> QED
      BY <3>1, <3>2
  <2> HIDE DEF status
  <2> QED
    BY <2>1, <2>2, NullAssumption DEF LeaseRow
<1>3. ASSUME NEW r \in Requests, requests[r] # Null
      PROVE  /\ requests'[r] # Null /\ requests'[r].unit = requests[r].unit
             /\ requests'[r].tenant = requests[r].tenant
  BY <1>0, <1>3, CommitEffect DEF HoldsRequests
<1> QED
  BY <1>1, <1>2, <1>3

\* A commit disturbs no other session: it writes no row the other holds, and
\* the rows the other was begun for keep their unit and tenant.
LEMMA CommitOthers ==
    ASSUME TxShape, NEW s \in Sessions, Commit(s), NEW o \in Sessions \ {s}
    PROVE  Sound(o)'
<1>1. /\ Sound(o) /\ call'[o] = call[o] /\ pc'[o] = pc[o]
      /\ todo'[o] = todo[o] /\ wr'[o] = wr[o] /\ TxTypeOK
  BY CommitEffect DEF OnlyMoves, TxShape
<1>2. CASE call[o] = Null
  BY <1>1, <1>2 DEF Sound
<1>3. CASE call[o] # Null
  <2>0. /\ Named(o) /\ ToDecide(o) /\ HoldsUnits(o) /\ HoldsLeases(o) /\ HoldsRequests(o)
        /\ HasWritten(o) /\ call[o].op \in OpsAt(pc[o]) /\ call[o].unit \in Units
        /\ todo[o] \subseteq Requests
    BY <1>1, <1>3, HeldTypes DEF Sound, TxTypeOK
  <2>1. /\ \A u \in Units : wr[o].units[u] # Null => units'[u] = units[u]
        /\ \A l \in Leases : wr[o].leases[l] # Null => leases'[l] = leases[l]
        /\ \A r \in Requests : wr[o].requests[r] # Null => requests'[r] = requests[r]
    BY CommitEffect DEF TxShape, Exclusively
  <2>2. Named(o)' /\ ToDecide(o)'
    BY <1>1, <2>0, CommitKeeps DEF Named, ToDecide
  <2>3. HoldsUnits(o)' /\ HasWritten(o)'
    BY <1>1, <2>0, <2>1 DEF HoldsUnits, HasWritten
  <2>4. HoldsLeases(o)'
    <3>1. units[call[o].unit] # Null => units'[call[o].unit] # Null
      BY <2>0, CommitKeeps
    <3>2. ASSUME NEW l \in Leases, wr[o].leases[l] # Null
          PROVE  leases'[l] = leases[l]
      BY <2>1, <3>2
    <3> QED
      BY <1>1, <2>0, <3>1, <3>2 DEF HoldsLeases
  <2>5. HoldsRequests(o)'
    BY <1>1, <2>0, <2>1, CommitKeeps DEF HoldsRequests
  <2> QED
    BY <1>1, <2>0, <2>2, <2>3, <2>4, <2>5 DEF Sound
<1> QED
  BY <1>2, <1>3

LEMMA CommitShape ==
    ASSUME TxShape, NEW s \in Sessions, Commit(s)
    PROVE  TxShape'
<1>0. /\ TypeOK /\ NoDanglingRows /\ TypeOK' /\ TxTypes' /\ OnlyMoves(s)
      /\ call[s] # Null /\ HoldsUnits(s) /\ HoldsLeases(s) /\ HoldsRequests(s)
  BY CommitEffect DEF TxShape, TxTypeOK, Sound
<1>1. TxTypeOK'
  BY <1>0, CommitEffect DEF TxShape, TxTypeOK, TxTypes, OnlyMoves
<1>2. NoDanglingRows'
  <2>1. ASSUME NEW l \in Leases, leases'[l] # Null PROVE units'[leases'[l].unit] # Null
    <3>1. CASE leases[l] # Null
      <4>1. leases[l].unit \in Units /\ units[leases[l].unit] # Null
        BY <1>0, <3>1, RowTypes DEF NoDanglingRows, LeaseRow
      <4> QED
        BY <3>1, <4>1, CommitKeeps
    <3>2. CASE leases[l] = Null
      <4>1. /\ wr[s].leases[l] # Null /\ leases'[l] = wr[s].leases[l]
        BY <2>1, <3>2, CommitEffect
      <4>2. leases'[l].unit \in Units /\ units[leases'[l].unit] # Null
        BY <1>0, <4>1, HeldTypes DEF HoldsLeases, TxShape
      <4> QED
        BY <4>2, CommitKeeps
    <3> QED
      BY <3>1, <3>2
  <2>2. ASSUME NEW r \in Requests, requests'[r] # Null PROVE units'[requests'[r].unit] # Null
    <3>1. CASE requests[r] # Null
      <4>1. requests[r].unit \in Units /\ units[requests[r].unit] # Null
        BY <1>0, <3>1, RowTypes DEF NoDanglingRows, RequestRow
      <4> QED
        BY <3>1, <4>1, CommitKeeps
    <3>2. CASE requests[r] = Null
      <4>1. /\ wr[s].requests[r] # Null /\ requests'[r] = wr[s].requests[r]
        BY <2>2, <3>2, CommitEffect
      <4>2. requests'[r].unit \in Units /\ units[requests'[r].unit] # Null
        BY <1>0, <4>1, HeldTypes DEF HoldsRequests, TxShape
      <4> QED
        BY <4>2, CommitKeeps
    <3> QED
      BY <3>1, <3>2
  <2>3. ASSUME NEW u \in Units, units'[u] # Null PROVE properties'[units'[u].property] # Null
    <3>1. units[u] # Null
      BY <1>0, <2>3, CommitEffect DEF HoldsUnits
    <3> QED
      BY <1>0, <3>1, CommitEffect, CommitKeeps DEF NoDanglingRows
  <2> QED
    BY <2>1, <2>2, <2>3 DEF NoDanglingRows
<1>3. \A o \in Sessions : Sound(o)'
  <2>1. Sound(s)'
    BY CommitEffect DEF Sound
  <2> QED
    BY <2>1, CommitOthers
<1>4. Exclusively'
  <2>1. \A o \in Sessions : wr'[o] = wr[o] \/ wr'[o] = NoWrites
    BY <1>0, CommitEffect DEF OnlyMoves
  <2> QED
    BY <2>1, NoWritesTyped DEF TxShape, Exclusively
<1> QED
  BY <1>1, <1>2, <1>3, <1>4 DEF TxShape

(***************************************************************************)
(* Property and unit maintenance                                           *)
(***************************************************************************)
\* Maintenance leaves the units that open calls hold, or hold rows of.
LEMMA PortfolioLeaves ==
    ASSUME TxShape, PortfolioTx
    PROVE  /\ Portfolio /\ UNCHANGED <<leases, requests, call, pc, todo, wr>>
           /\ \A u \in Units : /\ UnitLocked(u) /\ UnitKnown(u) => units'[u] = units[u]
                               /\ UnitInUse(u) /\ units[u] # Null => units'[u] # Null
<1>1. Portfolio /\ UNCHANGED <<leases, requests, call, pc, todo, wr>>
  BY PortfolioEffect DEF PortfolioTx, txVars, TxShape, TxTypeOK
<1>2. ASSUME NEW u \in Units
      PROVE  /\ UnitLocked(u) /\ UnitKnown(u) => units'[u] = units[u]
             /\ UnitInUse(u) /\ units[u] # Null => units'[u] # Null
  BY <1>2 DEF PortfolioTx
<1> QED
  BY <1>1, <1>2

LEMMA PortfolioShape ==
    ASSUME TxShape, PortfolioTx
    PROVE  TxShape'
<1>0. TypeOK /\ NoDanglingRows /\ TypeOK' /\ NoDanglingRows'
  BY PortfolioLeaves, TypePortfolio, DanglingPortfolio DEF TxShape, TxTypeOK
<1>1. TxTypeOK' /\ Exclusively'
  BY <1>0, PortfolioLeaves DEF TxShape, TxTypeOK, Exclusively
<1>2. ASSUME NEW s \in Sessions PROVE Sound(s)'
  <2>1. /\ Sound(s) /\ UNCHANGED <<leases, requests>>
        /\ call'[s] = call[s] /\ pc'[s] = pc[s] /\ todo'[s] = todo[s] /\ wr'[s] = wr[s]
    BY PortfolioLeaves DEF TxShape
  <2>2. CASE call[s] = Null
    BY <2>1, <2>2 DEF Sound
  <2>3. CASE call[s] # Null
    <3>0. /\ Named(s) /\ ToDecide(s) /\ HoldsUnits(s) /\ HoldsLeases(s) /\ HoldsRequests(s)
          /\ HasWritten(s) /\ call[s].op \in OpsAt(pc[s]) /\ call[s].unit \in Units
      BY <2>1, <2>3, HeldTypes DEF Sound, TxShape
    <3>1. Named(s)' /\ ToDecide(s)' /\ HasWritten(s)'
      BY <2>1, <3>0 DEF Named, ToDecide, HasWritten
    <3>2. HoldsUnits(s)'
      <4>1. ASSUME NEW u \in Units, wr[s].units[u] # Null PROVE units'[u] = units[u]
        <5>1. UnitLocked(u) /\ UnitKnown(u)
          BY <2>3, <3>0, <4>1 DEF UnitLocked, UnitKnown, HoldsUnits
        <5> QED
          BY <5>1, PortfolioLeaves
      <4> QED
        BY <2>1, <3>0, <4>1 DEF HoldsUnits
    <3>3. HoldsLeases(s)'
      <4>1. ASSUME NEW l \in Leases, wr[s].leases[l] # Null PROVE units'[call[s].unit] # Null
        <5>1. UnitInUse(call[s].unit) /\ units[call[s].unit] # Null
          BY <3>0, <4>1 DEF UnitInUse, HoldsLeases
        <5> QED
          BY <3>0, <5>1, PortfolioLeaves
      <4> QED
        BY <2>1, <3>0, <4>1 DEF HoldsLeases
    <3>4. HoldsRequests(s)'
      <4>1. ASSUME NEW r \in Requests, wr[s].requests[r] # Null PROVE units'[call[s].unit] # Null
        <5>1. UnitInUse(call[s].unit) /\ units[call[s].unit] # Null
          BY <3>0, <4>1 DEF UnitInUse, HoldsRequests
        <5> QED
          BY <3>0, <5>1, PortfolioLeaves
      <4> QED
        BY <2>1, <3>0, <4>1 DEF HoldsRequests
    <3> QED
      BY <2>1, <3>0, <3>1, <3>2, <3>3, <3>4 DEF Sound
  <2> QED
    BY <2>2, <2>3
<1> QED
  BY <1>0, <1>1, <1>2 DEF TxShape

(***************************************************************************)
(* Rows and locks, for every interleaving                                  *)
(***************************************************************************)
LEMMA TxShapeInit == TxInit => TxShape
<1> SUFFICES ASSUME TxInit PROVE TxShape
  OBVIOUS
<1>1. Shape
  BY ShapeInit DEF TxInit
<1>2. TxTypeOK
  BY <1>1, NoWritesTyped DEF TxInit, TxTypeOK, Shape, PC
<1>3. (\A s \in Sessions : Sound(s)) /\ Exclusively
  BY NoWritesTyped DEF TxInit, Sound, Exclusively
<1> QED
  BY <1>1, <1>2, <1>3 DEF TxShape, Shape

\* A step of a session, one statement of a handler, keeps the invariant.
LEMMA SessionShape ==
    ASSUME TxShape, NEW s \in Sessions, Start(s) \/ Run(s) \/ Locking(s) \/ Rollback(s)
    PROVE  TxShape'
<1>1. CASE Start(s)
  BY <1>1, StartShape
<1>2. CASE Rollback(s)
  BY <1>2, CloseShape DEF Rollback
<1>3. CASE Locking(s)
  BY <1>3, WriteLeaseShape, OccupyShape, DecideShape DEF Locking
<1>4. CASE Run(s)
  <2>1. CASE InsertFails(s)
    BY <2>1, CloseShape DEF InsertFails
  <2> QED
    BY <1>4, <2>1, EarlyShape, ReadOccupiedShape, ReadQueueShape, InsertRequestShape,
       InsertLeaseShape, CommitShape DEF Run
<1> QED
  BY <1>1, <1>2, <1>3, <1>4

LEMMA TxShapeStep == TxShape /\ [TxNext]_allVars => TxShape'
<1> SUFFICES ASSUME TxShape, [TxNext]_allVars PROVE TxShape'
  OBVIOUS
<1>1. CASE PortfolioTx
  BY <1>1, PortfolioShape
<1>2. ASSUME NEW s \in Sessions, Start(s) \/ Run(s) \/ Locking(s) \/ Rollback(s) PROVE TxShape'
  BY <1>2, SessionShape
<1>3. CASE UNCHANGED allVars
  BY <1>3 DEF allVars, vars, txVars, TxShape, TxTypeOK, TypeOK, NoDanglingRows, Sound, Named,
     ToDecide, HoldsUnits, HoldsLeases, HoldsRequests, HasWritten, Exclusively
<1> QED
  BY <1>1, <1>2, <1>3 DEF TxNext

\* However the statements of the calls interleave, the tables and what each
\* session holds keep their types, and no row that refers to another outlives
\* it: the locks of the foreign keys and READ COMMITTED are enough for that
\* (shared/db/database.get_db, models.py).
THEOREM TxShapeCorrect == TxSpec => []TxTypeOK /\ []NoDanglingRows
<1>1. TxShape => TxTypeOK /\ NoDanglingRows
  BY DEF TxShape
<1> QED
  BY <1>1, TxShapeInit, TxShapeStep, PTL DEF TxSpec

(***************************************************************************)
(* What calls that overlap leave in the tables                             *)
(***************************************************************************)
\* No statement but the commit is seen by anybody else.
LEMMA QuietStep ==
    ASSUME TxShape, NEW s \in Sessions, ~Commit(s),
           Start(s) \/ Run(s) \/ Locking(s) \/ Rollback(s)
    PROVE  UNCHANGED vars /\ OnlyMoves(s)
<1> DEFINE Quiet == UNCHANGED vars /\ OnlyMoves(s)
<1>0. TxTypeOK
  BY DEF TxShape
<1>1. ASSUME Refuse(s) PROVE Quiet
  BY <1>0, <1>1 DEF Refuse, Close, Goto, TxTypeOK, OnlyMoves
<1>2. ASSUME Start(s) PROVE Quiet
  <2>1. ASSUME NEW c, NEW label, Begin(s, c, label) PROVE Quiet
    BY <1>0, <2>1 DEF Begin, Goto, TxTypeOK, OnlyMoves
  <2> QED
    BY <1>2, <2>1 DEF Start, SubmitBegin, ReviewBegin, LeaseBegin, CreateBegin
<1>3. ASSUME Scope(s) \/ Check(s) \/ ReadUnit(s) \/ ReadOccupied(s) \/ ReadQueue(s) PROVE Quiet
  <2>1. ASSUME NEW label, NEW ids, Goto(s, label),
               todo' = todo \/ todo' = [todo EXCEPT ![s] = ids], UNCHANGED <<vars, call, wr>>
        PROVE  Quiet
    BY <1>0, <2>1 DEF Goto, TxTypeOK, OnlyMoves
  <2>2. CASE Scope(s)
    BY <1>1, <2>1, <2>2 DEF Scope
  <2>3. CASE Check(s)
    BY <1>1, <2>1, <2>3 DEF Check, Test
  <2>4. CASE ReadUnit(s)
    BY <1>1, <2>1, <2>4 DEF ReadUnit, Test
  <2>5. CASE ReadOccupied(s)
    BY <2>1, <2>5 DEF ReadOccupied
  <2>6. CASE ReadQueue(s)
    BY <2>1, <2>6 DEF ReadQueue
  <2> QED
    BY <1>3, <2>2, <2>3, <2>4, <2>5, <2>6
<1>4. ASSUME NEW r \in Requests, InsertRequest(s, r) PROVE Quiet
  BY <1>0, <1>4 DEF InsertRequest, Goto, TxTypeOK, OnlyMoves
<1>5. ASSUME NEW l \in Leases, InsertLease(s, l) PROVE Quiet
  BY <1>0, <1>5 DEF InsertLease, Goto, TxTypeOK, OnlyMoves
<1>6. ASSUME WriteLease(s) PROVE Quiet
  BY <1>0, <1>6 DEF WriteLease, Goto, TxTypeOK, OnlyMoves
<1>7. ASSUME Occupy(s) PROVE Quiet
  BY <1>0, <1>7 DEF Occupy, Goto, TxTypeOK, OnlyMoves
<1>8. ASSUME NEW r \in Requests, Decide(s, r) PROVE Quiet
  BY <1>0, <1>8 DEF Decide, Goto, TxTypeOK, OnlyMoves
<1> QED
  BY <1>1, <1>2, <1>3, <1>4, <1>5, <1>6, <1>7, <1>8 DEF Run, Locking, Rollback, InsertFails

LEMMA OccupiedRow ==
    ASSUME TxShape, NEW s \in Sessions, Occupy(s)
    PROVE  /\ call[s] # Null /\ call[s].unit \in Units /\ units[call[s].unit] # Null
           /\ [units[call[s].unit] EXCEPT !.occupied = Assigned(call[s].op)] # Null
<1> DEFINE u == call[s].unit
<1>1. /\ call[s] # Null /\ u \in Units /\ pc[s] = "occupy" /\ call[s].op \in LeaseOps \cup {"approve"}
      /\ HasWritten(s) /\ HoldsLeases(s) /\ Named(s)
  BY HeldTypes DEF TxShape, Occupy, Sound, OpsAt, PC
<1>2. units[u] # Null
  BY <1>1 DEF HasWritten, HoldsLeases, Named
<1>3. units[u] \in UnitRow /\ Assigned(call[s].op) \in BOOLEAN
  BY <1>1, <1>2, RowTypes DEF TxShape, TxTypeOK, Assigned
<1> QED
  BY <1>1, <1>2, <1>3, NullAssumption DEF UnitRow

\* A session comes to skip a unit by reading that it is vacant.
LEMMA SkipsVacant ==
    ASSUME TxShape, NEW s \in Sessions, ~Commit(s),
           Start(s) \/ Run(s) \/ Locking(s) \/ Rollback(s),
           NEW l \in Leases, Skips(s, l)'
    PROVE  leases[l] # Null /\ ~units[leases[l].unit].occupied
<1>0. /\ call'[s] # Null /\ call'[s].op = "terminate" /\ call'[s].lease = l
      /\ pc'[s] = "commit" /\ wr'[s].units[call'[s].unit] = Null /\ TxTypeOK
  BY DEF Skips, TxShape
<1>1. ASSUME Refuse(s) PROVE FALSE
  BY <1>0, <1>1 DEF Refuse, Close, TxTypeOK
<1>2. ASSUME Start(s) PROVE FALSE
  <2>1. ASSUME NEW c, NEW label \in {"scope", "check"}, Begin(s, c, label) PROVE FALSE
    BY <1>0, <2>1 DEF Begin, Goto, TxTypeOK
  <2> QED
    BY <1>2, <2>1 DEF Start, SubmitBegin, ReviewBegin, LeaseBegin, CreateBegin
<1>3. ASSUME Scope(s) \/ Check(s) \/ ReadUnit(s) \/ ReadQueue(s) PROVE FALSE
  <2>1. ASSUME NEW label \in PC \ {"commit"}, Goto(s, label) PROVE FALSE
    BY <1>0, <2>1 DEF Goto, TxTypeOK
  <2>2. CASE Scope(s)
    <3>1. AfterScope[call[s].op] \in PC \ {"commit"} \/ Refuse(s)
      <4>1. Sound(s) /\ call[s] # Null
        BY <2>2, HeldTypes DEF Scope, TxShape
      <4>2. call[s].op \in Ops \ {"submit"}
        BY <2>2, <4>1 DEF Sound, OpsAt, Scope
      <4> QED
        BY <4>2 DEF AfterScope, PC, Ops, LeaseOps, RequestOps
    <3> QED
      BY <1>1, <2>1, <2>2, <3>1 DEF Scope
  <2>3. CASE Check(s)
    BY <1>1, <2>1, <2>3 DEF Check, Test, PC
  <2>4. CASE ReadUnit(s)
    BY <1>1, <2>1, <2>4 DEF ReadUnit, Test, PC
  <2>5. CASE ReadQueue(s)
    BY <2>1, <2>5 DEF ReadQueue, PC
  <2> QED
    BY <1>3, <2>2, <2>3, <2>4, <2>5
<1>4. ASSUME NEW r \in Requests, InsertRequest(s, r) \/ Decide(s, r) PROVE FALSE
  <2>1. call[s].op \in RequestOps \cup {"submit"} /\ call' = call
    <3>1. pc[s] = "decide" => call[s].op \in RequestOps
      BY HeldTypes DEF TxShape, Sound, OpsAt
    <3> QED
      BY <1>4, <3>1 DEF InsertRequest, Decide
  <2> QED
    BY <1>0, <2>1 DEF RequestOps
<1>5. ASSUME NEW k \in Leases, InsertLease(s, k) PROVE FALSE
  BY <1>0, <1>5 DEF InsertLease
<1>6. ASSUME WriteLease(s) PROVE FALSE
  BY <1>0, <1>6 DEF WriteLease, Goto, TxTypeOK
<1>7. ASSUME Occupy(s) PROVE FALSE
  <2>1. TxShape' /\ call'[s].op \in LeaseOps /\ call'[s].op # "approve"
    BY <1>0, <1>7, OccupyShape DEF LeaseOps
  <2> DEFINE u == call[s].unit  row == [units[u] EXCEPT !.occupied = Assigned(call[s].op)]
  <2>2. /\ PutsUnit(s, u, row) /\ call' = call /\ u \in Units /\ row # Null
        /\ wr \in [Sessions -> Writes]
    BY <1>7, OccupiedRow DEF PutsUnit, Occupy, TxShape, TxTypeOK
  <2> HIDE DEF row
  <2>4. wr'[s].units[u] = row
    BY <2>2, PutRow
  <2> QED
    BY <1>0, <2>2, <2>4
<1>8. ReadOccupied(s)
  BY <1>1, <1>2, <1>3, <1>4, <1>5, <1>6, <1>7 DEF Run, Locking, Rollback, InsertFails
<1>9. /\ call' = call /\ pc[s] = "unit" /\ call[s].op \in LeaseOps
      /\ pc' = [pc EXCEPT ![s] = IF units[call[s].unit].occupied = Assigned(call[s].op)
                                 THEN "commit" ELSE "occupy"]
  BY <1>8 DEF ReadOccupied, Goto
<1>10. units[call[s].unit].occupied = FALSE
  <2>1. units[call[s].unit].occupied = Assigned(call[s].op)
    BY <1>0, <1>9 DEF TxTypeOK
  <2> QED
    BY <1>0, <1>9, <2>1 DEF Assigned
<1>11. leases[l] # Null /\ leases[l].unit = call[s].unit
  <2>1. Named(s)
    BY <1>0, <1>9 DEF TxShape, Sound
  <2> QED
    BY <1>0, <1>9, <2>1 DEF Named
<1> QED
  BY <1>10, <1>11

LEMMA StaysLeasedCommit ==
    ASSUME TxShape, StaysLeased, NEW s \in Sessions, Commit(s)
    PROVE  StaysLeased'
<1>1. SUFFICES ASSUME NEW u \in Units, units'[u] # Null, units'[u].occupied
               PROVE  \E l \in ActiveLeases(u)' : \A o \in Sessions : ~Skips(o, l)'
  BY DEF StaysLeased
<1> DEFINE c == call[s]
<1>0. /\ c # Null /\ pc[s] = "commit" /\ TypeOK
      /\ Named(s) /\ HoldsUnits(s) /\ HoldsLeases(s) /\ HasWritten(s)
      /\ call'[s] = Null /\ OnlyMoves(s)
  BY CommitEffect DEF Sound, TxShape, TxTypeOK
<1>2. ASSUME NEW l \in Leases PROVE /\ ~Skips(s, l)'
                                    /\ \A o \in Sessions \ {s} : Skips(o, l)' = Skips(o, l)
  <2>1. ~Skips(s, l)'
    BY <1>0 DEF Skips
  <2>2. ASSUME NEW o \in Sessions \ {s} PROVE Skips(o, l)' = Skips(o, l)
    <3>1. call'[o] = call[o] /\ pc'[o] = pc[o] /\ wr'[o] = wr[o]
      BY <1>0 DEF OnlyMoves
    <3> QED
      BY <3>1 DEF Skips
  <2> QED
    BY <2>1, <2>2
<1>3. ASSUME NEW l \in Leases, leases'[l] # Null, leases'[l].unit = u, leases'[l].status = "ACTIVE"
      PROVE  l \in ActiveLeases(u)'
  BY <1>3 DEF ActiveLeases, LeasesOf
<1>4. CASE wr[s].units[u] = Null
  <2>1. units[u] # Null /\ units[u].occupied
    BY <1>1, <1>4, CommitEffect
  <2>2. PICK l \in Leases : /\ leases[l] # Null /\ leases[l].unit = u /\ leases[l].status = "ACTIVE"
                            /\ \A o \in Sessions : ~Skips(o, l)
    BY <2>1 DEF StaysLeased, ActiveLeases, LeasesOf
  <2>3. CASE wr[s].leases[l] = Null
    <3>1. leases'[l] = leases[l]
      BY <2>3, CommitEffect
    <3>2. l \in ActiveLeases(u)'
      BY <1>3, <2>2, <3>1
    <3> QED
      BY <1>2, <2>2, <3>2
  <2>4. CASE wr[s].leases[l] # Null
    <3>1. c.op \in LeaseOps /\ l = c.lease /\ c.unit = u
      BY <1>0, <2>2, <2>4 DEF HoldsLeases, Named
    <3>2. c.op # "terminate"
      BY <1>0, <1>4, <2>2, <3>1 DEF Skips
    <3>3. c.op = "activate"
      BY <3>1, <3>2 DEF LeaseOps
    <3>4. wr[s].leases[l] = [leases[l] EXCEPT !.status = "ACTIVE"]
      BY <1>0, <2>2, <2>4, <3>3 DEF HoldsLeases
    <3>5. leases[l] \in LeaseRow /\ leases'[l] = wr[s].leases[l]
      BY <1>0, <2>2, <2>4, RowTypes, CommitEffect
    <3>6. leases'[l].unit = u /\ leases'[l].status = "ACTIVE"
      BY <2>2, <3>4, <3>5 DEF LeaseRow
    <3>7. l \in ActiveLeases(u)'
      BY <1>3, <2>4, <3>5, <3>6
    <3> QED
      BY <1>2, <2>2, <3>7
  <2> QED
    BY <2>3, <2>4
<1>5. CASE wr[s].units[u] # Null
  <2>1. /\ u = c.unit /\ units[u] # Null
        /\ wr[s].units[u] = [units[u] EXCEPT !.occupied = Assigned(c.op)]
        /\ c.op \in LeaseOps \cup {"approve"}
    BY <1>0, <1>5 DEF HoldsUnits
  <2>2. Assigned(c.op)
    <3>1. units'[u] = wr[s].units[u] /\ units[u] \in UnitRow
      BY <1>0, <1>5, <2>1, RowTypes, CommitEffect
    <3> QED
      BY <1>1, <2>1, <3>1 DEF UnitRow
  <2>3. c.op \in {"activate", "approve"}
    BY <2>1, <2>2 DEF Assigned, LeaseOps
  <2>4. PICK l \in Leases : wr[s].leases[l] # Null /\ wr[s].leases[l].status = "ACTIVE"
    <3>1. CASE c.op = "approve"
      BY <1>0, <3>1 DEF HasWritten
    <3>2. CASE c.op = "activate"
      <4>1. c.lease \in Leases /\ wr[s].leases[c.lease] # Null
        BY <1>0, <3>2 DEF HasWritten, Named, LeaseOps
      <4>2. /\ leases[c.lease] # Null
            /\ wr[s].leases[c.lease] = [leases[c.lease] EXCEPT !.status = "ACTIVE"]
        BY <1>0, <3>2, <4>1 DEF HoldsLeases, LeaseOps, Named
      <4>3. leases[c.lease] \in LeaseRow
        BY <1>0, <4>1, <4>2, RowTypes
      <4> QED
        BY <4>1, <4>2, <4>3 DEF LeaseRow
    <3> QED
      BY <2>3, <3>1, <3>2
  <2>5. leases'[l] = wr[s].leases[l] /\ leases'[l].unit = u
    <3>1. wr[s].leases[l].unit = u
      BY <1>0, <2>1, <2>4 DEF HoldsLeases
    <3>2. leases'[l] = wr[s].leases[l]
      BY <2>4, CommitEffect
    <3> QED
      BY <3>1, <3>2
  <2>6. l \in ActiveLeases(u)'
    BY <1>3, <2>4, <2>5
  <2>7. ASSUME NEW o \in Sessions \ {s} PROVE ~Skips(o, l)
    <3>1. wr[o].leases[l] = Null /\ Sound(o)
      BY <2>4 DEF TxShape, Exclusively
    <3> QED
      BY <3>1 DEF Skips, Sound, HasWritten, LeaseOps
  <2> QED
    BY <1>2, <2>6, <2>7
<1> QED
  BY <1>4, <1>5

LEMMA StaysLeasedStep ==
    TxShape /\ StaysLeased /\ [TxNext]_allVars => StaysLeased'
<1> SUFFICES ASSUME TxShape, StaysLeased, [TxNext]_allVars PROVE StaysLeased'
  OBVIOUS
<1>1. ASSUME PortfolioTx PROVE StaysLeased'
  <2>1. \A u \in Units : units'[u] # Null /\ units'[u].occupied => units[u] # Null /\ units[u].occupied
    BY <1>1, PortfolioLeaves, PortfolioEffect DEF TxShape, TxTypeOK
  <2> QED
    BY <1>1, <2>1, PortfolioLeaves DEF StaysLeased, ActiveLeases, LeasesOf, Skips
<1>2. ASSUME NEW s \in Sessions, Start(s) \/ Run(s) \/ Locking(s) \/ Rollback(s) PROVE StaysLeased'
  <2>1. CASE Commit(s)
    BY <2>1, StaysLeasedCommit
  <2>2. CASE ~Commit(s)
    <3>1. UNCHANGED <<units, leases>> /\ OnlyMoves(s)
      BY <1>2, <2>2, QuietStep DEF vars
    <3>2. SUFFICES ASSUME NEW u \in Units, units[u] # Null, units[u].occupied
                   PROVE  \E l \in ActiveLeases(u) : \A o \in Sessions : ~Skips(o, l)'
      BY <3>1 DEF StaysLeased, ActiveLeases, LeasesOf
    <3>3. PICK l \in ActiveLeases(u) : \A o \in Sessions : ~Skips(o, l)
      BY <3>2 DEF StaysLeased
    <3>4. l \in Leases /\ leases[l].unit = u
      BY DEF ActiveLeases, LeasesOf
    <3>5. ~Skips(s, l)'
      BY <1>2, <2>2, <3>2, <3>4, SkipsVacant
    <3>6. ASSUME NEW o \in Sessions \ {s} PROVE ~Skips(o, l)'
      <4>1. call'[o] = call[o] /\ pc'[o] = pc[o] /\ wr'[o] = wr[o]
        BY <3>1 DEF OnlyMoves
      <4> QED
        BY <3>3, <4>1 DEF Skips
    <3> QED
      BY <3>5, <3>6
  <2> QED
    BY <2>1, <2>2
<1>3. ASSUME UNCHANGED allVars PROVE StaysLeased'
  BY <1>3 DEF allVars, vars, txVars, StaysLeased, ActiveLeases, LeasesOf, Skips
<1> QED
  BY <1>1, <1>2, <1>3 DEF TxNext

\* However calls overlap, no unit stays blocked without an ACTIVE lease: a
\* terminate that found its unit vacant and leaves it alone, or one that
\* frees it over a lease activated meanwhile, never ends as an occupied unit
\* that nobody leases (LeaseService, LeaseRequestService.approve).
THEOREM OverlapKeepsOccupiedLeased == TxSpec => []OccupiedUnitsAreLeased
<1>1. TxInit => StaysLeased
  BY DEF TxInit, Init, StaysLeased
<1>2. StaysLeased => OccupiedUnitsAreLeased
  BY DEF StaysLeased, OccupiedUnitsAreLeased
<1> QED
  BY <1>1, <1>2, TxShapeInit, TxShapeStep, StaysLeasedStep, PTL DEF TxSpec

LEMMA ApprovedTxStep ==
    TxShape /\ ApprovedRequestsHaveLeases /\ [TxNext]_allVars => ApprovedRequestsHaveLeases'
<1> SUFFICES ASSUME TxShape, ApprovedRequestsHaveLeases, [TxNext]_allVars
             PROVE  ApprovedRequestsHaveLeases'
  OBVIOUS
<1>1. ASSUME UNCHANGED <<leases, requests>> PROVE ApprovedRequestsHaveLeases'
  BY <1>1 DEF ApprovedRequestsHaveLeases
<1>2. ASSUME NEW s \in Sessions, Commit(s), NEW r \in Requests,
             requests'[r] # Null, requests'[r].status = "APPROVED"
      PROVE  \E l \in Leases : leases'[l] # Null /\ leases'[l].request = r
  <2>0. HoldsRequests(s) /\ HasWritten(s) /\ call[s] # Null /\ pc[s] = "commit"
    BY <1>2, CommitEffect DEF Sound
  <2>1. CASE wr[s].requests[r] = Null
    <3>1. requests'[r] = requests[r]
      BY <1>2, <2>1, CommitEffect
    <3>2. PICK l \in Leases : leases[l] # Null /\ leases[l].request = r
      BY <1>2, <3>1 DEF ApprovedRequestsHaveLeases
    <3> QED
      BY <1>2, <3>2, CommitKeeps
  <2>2. CASE wr[s].requests[r] # Null
    <3>1. requests'[r] = wr[s].requests[r]
      BY <1>2, <2>2, CommitEffect
    <3>2. call[s].op = "approve" /\ r = call[s].request
      BY <1>2, <2>0, <2>2, <3>1 DEF HoldsRequests
    <3>3. PICK l \in Leases : wr[s].leases[l] # Null /\ wr[s].leases[l].request = r
      BY <2>0, <3>2 DEF HasWritten
    <3>4. leases'[l] = wr[s].leases[l]
      BY <1>2, <3>3, CommitEffect
    <3> QED
      BY <3>3, <3>4
  <2> QED
    BY <2>1, <2>2
<1>3. ASSUME NEW s \in Sessions, Start(s) \/ Run(s) \/ Locking(s) \/ Rollback(s)
      PROVE  ApprovedRequestsHaveLeases'
  <2>1. CASE Commit(s)
    BY <1>2, <2>1 DEF ApprovedRequestsHaveLeases
  <2>2. CASE ~Commit(s)
    BY <1>1, <1>3, <2>2, QuietStep DEF vars
  <2> QED
    BY <2>1, <2>2
<1>4. CASE PortfolioTx
  BY <1>1, <1>4, PortfolioLeaves
<1>5. CASE UNCHANGED allVars
  BY <1>1, <1>5 DEF allVars, vars
<1> QED
  BY <1>3, <1>4, <1>5 DEF TxNext

\* An approval and the lease it makes are committed together or not at all,
\* and no later write of another call separates them: a request that ends up
\* APPROVED has its lease (LeaseRequestService.approve, get_db).
THEOREM OverlapKeepsApprovedLeased == TxSpec => []ApprovedRequestsHaveLeases
<1>1. TxInit => ApprovedRequestsHaveLeases
  BY DEF TxInit, Init, ApprovedRequestsHaveLeases
<1> QED
  BY <1>1, TxShapeInit, TxShapeStep, ApprovedTxStep, PTL DEF TxSpec

(***************************************************************************)
(* What no late write brings back                                          *)
(***************************************************************************)
\* A lease that an approval granted has never been a draft.
GrantedInForce ==
    \A l \in Leases : leases[l] # Null /\ leases[l].request # Null => leases[l].status # "DRAFT"

\* What a session read when its call began still says what its late write can
\* not undo, and what it holds is no step back from what is committed.
Forward(s) ==
    /\ call[s].op = "activate" => leases[call[s].lease].request = Null
    /\ call[s].op = "terminate" => leases[call[s].lease].status # "DRAFT"
    /\ \A l \in Leases : /\ wr[s].leases[l] # Null /\ leases[l] = Null
                         /\ wr[s].leases[l].request # Null
          => wr[s].leases[l].status # "DRAFT"
    /\ \A r \in Requests : wr[s].requests[r] # Null /\ requests[r] # Null =>
          \E status \in {"APPROVED", "REJECTED"}, by \in Staff :
             wr[s].requests[r] = Decided(requests[r], status, by)

OnlyForward == GrantedInForce /\ \A s \in Sessions : call[s] # Null => Forward(s)

LEMMA StartForward ==
    ASSUME TxShape, GrantedInForce, NEW s \in Sessions, Start(s)
    PROVE  Forward(s)'
<1>0. call \in [Sessions -> Call \cup {Null}]
  BY DEF TxShape, TxTypeOK
<1>1. ASSUME NEW c, NEW label, Begin(s, c, label),
             c.op = "activate" => leases[c.lease].request = Null,
             c.op = "terminate" => leases[c.lease].status # "DRAFT"
      PROVE  Forward(s)'
  <2>1. wr[s] = NoWrites
    BY <1>1 DEF Begin, TxShape, Sound
  <2>2. call'[s] = c /\ wr' = wr /\ UNCHANGED <<leases, requests>>
    BY <1>0, <1>1 DEF Begin, vars
  <2> QED
    BY <1>1, <2>1, <2>2, NoWritesTyped DEF Forward
<1>2. ASSUME NEW by \in Staff, NEW op \in LeaseOps, NEW l \in Leases, LeaseBegin(s, op, by, l)
      PROVE  Forward(s)'
  <2> DEFINE c == [op |-> op, by |-> by, unit |-> leases[l].unit,
                   tenant |-> leases[l].tenant, request |-> Null, lease |-> l]
  <2>1. Begin(s, c, "scope") /\ c.op = op /\ c.lease = l
    BY <1>2 DEF LeaseBegin
  <2>2. /\ op = "activate" => leases[l].request = Null
        /\ op = "terminate" => leases[l].status # "DRAFT"
    BY <1>2 DEF LeaseBegin, GrantedInForce
  <2> HIDE DEF c
  <2> QED
    BY <1>1, <2>1, <2>2
<1>3. ASSUME NEW by \in Staff, NEW op \in RequestOps, NEW r \in Requests, ReviewBegin(s, op, by, r)
      PROVE  Forward(s)'
  <2> DEFINE c == [op |-> op, by |-> by, unit |-> requests[r].unit,
                   tenant |-> requests[r].tenant, request |-> r, lease |-> Null]
  <2>1. Begin(s, c, "scope") /\ c.op \notin LeaseOps
    BY <1>3 DEF ReviewBegin, RequestOps, LeaseOps
  <2> HIDE DEF c
  <2> QED
    BY <1>1, <2>1 DEF LeaseOps
<1>4. ASSUME NEW t \in Tenants, NEW u \in Units, SubmitBegin(s, t, u)
      PROVE  Forward(s)'
  <2> DEFINE c == [op |-> "submit", by |-> t, unit |-> u, tenant |-> t,
                   request |-> Null, lease |-> Null]
  <2>1. Begin(s, c, "check") /\ c.op = "submit"
    BY <1>4 DEF SubmitBegin
  <2> HIDE DEF c
  <2> QED
    BY <1>1, <2>1
<1>5. ASSUME NEW by \in Staff, NEW u \in Units, NEW t \in Users, CreateBegin(s, by, u, t)
      PROVE  Forward(s)'
  <2> DEFINE c == [op |-> "create", by |-> by, unit |-> u, tenant |-> t,
                   request |-> Null, lease |-> Null]
  <2>1. Begin(s, c, "scope") /\ c.op = "create"
    BY <1>5 DEF CreateBegin
  <2> HIDE DEF c
  <2> QED
    BY <1>1, <2>1
<1> QED
  BY <1>2, <1>3, <1>4, <1>5 DEF Start

\* A statement that commits nothing adds no step back to what a session holds.
LEMMA QuietForward ==
    ASSUME TxShape, OnlyForward, NEW s \in Sessions, ~Commit(s),
           Run(s) \/ Locking(s) \/ Rollback(s)
    PROVE  call'[s] = Null \/ Forward(s)'
<1>0. /\ TxTypeOK /\ wr \in [Sessions -> Writes] /\ UNCHANGED <<leases, requests>>
      /\ call[s] # Null => Sound(s) /\ Named(s) /\ Forward(s)
  BY QuietStep DEF TxShape, TxTypeOK, vars, Sound, OnlyForward
<1>1. ASSUME Refuse(s) PROVE call'[s] = Null
  BY <1>0, <1>1 DEF Refuse, Close, TxTypeOK
<1>2. ASSUME Scope(s) \/ Check(s) \/ ReadUnit(s) \/ ReadOccupied(s) \/ ReadQueue(s)
      PROVE  call'[s] = Null \/ Forward(s)'
  <2>1. Refuse(s) \/ UNCHANGED <<call, wr>>
    BY <1>2 DEF Scope, Check, ReadUnit, ReadOccupied, ReadQueue, Test
  <2>2. call[s] # Null
    BY <1>0, <1>2, HeldTypes DEF Scope, Check, ReadUnit, ReadOccupied, ReadQueue
  <2> QED
    BY <1>0, <1>1, <2>1, <2>2 DEF Forward
<1>3. ASSUME NEW r \in Requests, InsertRequest(s, r) PROVE Forward(s)'
  <2> DEFINE row == NewRequest(call[s].tenant, call[s].unit)
  <2>1. call' = call /\ requests[r] = Null /\ PutsRequest(s, r, row) /\ call[s] # Null
    BY <1>0, <1>3, HeldTypes DEF InsertRequest, FreshRequest, PutsRequest
  <2> HIDE DEF row
  <2>2. /\ wr'[s].leases = wr[s].leases
        /\ \A q \in Requests : wr'[s].requests[q] = IF q = r THEN row ELSE wr[s].requests[q]
    BY <1>0, <2>1, PutRow
  <2> QED
    BY <1>0, <2>1, <2>2 DEF Forward
<1>4. ASSUME NEW l \in Leases, InsertLease(s, l) PROVE Forward(s)'
  <2> DEFINE granted == call[s].op = "approve"
             row == [unit |-> call[s].unit, tenant |-> call[s].tenant,
                     status |-> IF granted THEN "ACTIVE" ELSE "DRAFT",
                     request |-> call[s].request]
  <2>1. /\ call' = call /\ PutsLease(s, l, row) /\ call[s] # Null
        /\ call[s].op \in {"create", "approve"}
    BY <1>0, <1>4, HeldTypes DEF InsertLease, PutsLease
  <2>2. row.request # Null => row.status # "DRAFT"
    BY <1>0, <2>1 DEF Named
  <2> HIDE DEF row
  <2>3. /\ wr'[s].requests = wr[s].requests
        /\ \A k \in Leases : wr'[s].leases[k] = IF k = l THEN row ELSE wr[s].leases[k]
    BY <1>0, <2>1, PutRow
  <2> QED
    BY <1>0, <2>1, <2>2, <2>3 DEF Forward
<1>5. ASSUME WriteLease(s) PROVE Forward(s)'
  <2> DEFINE l == call[s].lease
             row == [leases[l] EXCEPT !.status =
                        IF call[s].op = "activate" THEN "ACTIVE" ELSE "TERMINATED"]
  <2>1. call' = call /\ PutsLease(s, l, row) /\ call[s] # Null /\ pc[s] = "lease"
    BY <1>0, <1>5, HeldTypes DEF WriteLease, PutsLease
  <2>2. l \in Leases /\ leases[l] # Null
    BY <1>0, <2>1 DEF Sound, OpsAt, Named
  <2> HIDE DEF row
  <2>3. /\ wr'[s].requests = wr[s].requests
        /\ \A k \in Leases \ {l} : wr'[s].leases[k] = wr[s].leases[k]
    BY <1>0, <2>1, <2>2, PutRow
  <2> QED
    BY <1>0, <2>1, <2>2, <2>3 DEF Forward
<1>6. ASSUME Occupy(s) PROVE Forward(s)'
  <2> DEFINE u == call[s].unit
             row == [units[u] EXCEPT !.occupied = Assigned(call[s].op)]
  <2>1. call' = call /\ PutsUnit(s, u, row) /\ call[s] # Null /\ u \in Units
    BY <1>0, <1>6, HeldTypes DEF Occupy, PutsUnit
  <2> HIDE DEF row
  <2>2. wr'[s].requests = wr[s].requests /\ wr'[s].leases = wr[s].leases
    BY <1>0, <2>1, PutRow
  <2> QED
    BY <1>0, <2>1, <2>2 DEF Forward
<1>7. ASSUME NEW r \in Requests, Decide(s, r) PROVE Forward(s)'
  <2> DEFINE status == IF call[s].op = "approve" /\ r = call[s].request
                       THEN "APPROVED" ELSE "REJECTED"
             row == Decided(requests[r], status, call[s].by)
  <2>1. call' = call /\ PutsRequest(s, r, row) /\ call[s] # Null /\ pc[s] = "decide"
    BY <1>0, <1>7, HeldTypes DEF Decide, PutsRequest
  <2>2. call[s].by \in Staff /\ status \in {"APPROVED", "REJECTED"}
    BY <1>0, <2>1 DEF Sound, OpsAt, Named
  <2> HIDE DEF status
  <2>3. \E answer \in {"APPROVED", "REJECTED"}, by \in Staff :
           row = Decided(requests[r], answer, by)
    BY <2>2
  <2> HIDE DEF row
  <2>4. /\ wr'[s].leases = wr[s].leases
        /\ \A q \in Requests : wr'[s].requests[q] = IF q = r THEN row ELSE wr[s].requests[q]
    BY <1>0, <2>1, PutRow
  <2> QED
    BY <1>0, <2>1, <2>3, <2>4 DEF Forward
<1> QED
  BY <1>1, <1>2, <1>3, <1>4, <1>5, <1>6, <1>7 DEF Run, Locking, Rollback, InsertFails

LEMMA CommitReopensNothing ==
    ASSUME TxShape, OnlyForward, NEW s \in Sessions, Commit(s)
    PROVE  NoReopening /\ GrantedInForce'
<1>0. /\ HoldsLeases(s) /\ HoldsRequests(s) /\ Forward(s) /\ TypeOK /\ GrantedInForce
  BY CommitEffect DEF Sound, OnlyForward, TxShape, TxTypeOK
<1>1. ASSUME NEW r \in Requests, requests[r] # Null
      PROVE  \/ requests'[r] = requests[r]
             \/ \E status \in {"APPROVED", "REJECTED"}, by \in Staff :
                   requests'[r] = Decided(requests[r], status, by)
  BY <1>0, <1>1, CommitEffect DEF Forward
<1>2. ASSUME NEW l \in Leases, leases[l] # Null
      PROVE  \/ leases'[l] = leases[l]
             \/ /\ leases[l].status # "DRAFT"
                /\ leases'[l] = [leases[l] EXCEPT !.status = "TERMINATED"]
             \/ /\ leases[l].request = Null
                /\ leases'[l] = [leases[l] EXCEPT !.status = "ACTIVE"]
  <2>1. CASE wr[s].leases[l] = Null
    BY <2>1, CommitEffect
  <2>2. CASE wr[s].leases[l] # Null
    <3>1. /\ call[s].op \in LeaseOps /\ l = call[s].lease
          /\ wr[s].leases[l] = [leases[l] EXCEPT !.status =
                IF call[s].op = "activate" THEN "ACTIVE" ELSE "TERMINATED"]
      BY <1>0, <1>2, <2>2 DEF HoldsLeases
    <3>2. leases'[l] = wr[s].leases[l]
      BY <2>2, CommitEffect
    <3>3. CASE call[s].op = "activate"
      BY <1>0, <3>1, <3>2, <3>3 DEF Forward
    <3>4. CASE call[s].op = "terminate"
      BY <1>0, <3>1, <3>2, <3>4 DEF Forward
    <3> QED
      BY <3>1, <3>3, <3>4 DEF LeaseOps
  <2> QED
    BY <2>1, <2>2
<1>3. ASSUME NEW l \in Leases, leases'[l] # Null, leases'[l].request # Null
      PROVE  leases'[l].status # "DRAFT"
  <2>1. CASE leases[l] = Null
    BY <1>0, <1>3, <2>1, CommitEffect DEF Forward
  <2>2. CASE leases[l] # Null
    <3>1. leases[l] \in LeaseRow
      BY <1>0, <2>2, RowTypes
    <3>2. leases'[l].request = leases[l].request
      BY <2>2, CommitKeeps
    <3> QED
      BY <1>0, <1>2, <1>3, <2>2, <3>1, <3>2 DEF GrantedInForce, LeaseRow
  <2> QED
    BY <2>1, <2>2
<1> QED
  BY <1>1, <1>2, <1>3 DEF NoReopening, GrantedInForce

\* A commit leaves what another session read and holds as it is, or further on.
LEMMA CommitForward ==
    ASSUME TxShape, OnlyForward, NEW s \in Sessions, Commit(s),
           NEW o \in Sessions \ {s}, call[o] # Null
    PROVE  Forward(o)'
<1>1. /\ Sound(o) /\ Named(o) /\ Forward(o) /\ call'[o] = call[o] /\ wr'[o] = wr[o] /\ TypeOK
  BY CommitEffect DEF OnlyMoves, TxShape, TxTypeOK, OnlyForward, Sound
<1>2. /\ \A l \in Leases : wr[o].leases[l] # Null => leases'[l] = leases[l]
      /\ \A r \in Requests : wr[o].requests[r] # Null => requests'[r] = requests[r]
  BY CommitEffect DEF TxShape, Exclusively
<1>3. call[o].op \in LeaseOps =>
         /\ leases'[call[o].lease].request = leases[call[o].lease].request
         /\ leases[call[o].lease].status # "DRAFT" => leases'[call[o].lease].status # "DRAFT"
  <2> SUFFICES ASSUME call[o].op \in LeaseOps
               PROVE  /\ leases'[call[o].lease].request = leases[call[o].lease].request
                      /\ leases[call[o].lease].status # "DRAFT" =>
                            leases'[call[o].lease].status # "DRAFT"
    OBVIOUS
  <2> DEFINE l == call[o].lease
  <2>1. l \in Leases /\ leases[l] # Null
    BY <1>1 DEF Named
  <2> HIDE DEF l
  <2>2. leases[l] \in LeaseRow
    BY <1>1, <2>1, RowTypes
  <2>3. leases'[l].request = leases[l].request
    BY <2>1, CommitKeeps
  <2>4. leases[l].status # "DRAFT" => leases'[l].status # "DRAFT"
    BY <2>1, <2>2, CommitReopensNothing DEF NoReopening, LeaseRow
  <2> QED
    BY <2>3, <2>4 DEF l
<1> QED
  BY <1>1, <1>2, <1>3 DEF Forward, LeaseOps

LEMMA ForwardStep ==
    TxShape /\ OnlyForward /\ [TxNext]_allVars => OnlyForward' /\ NoReopening
<1> SUFFICES ASSUME TxShape, OnlyForward, [TxNext]_allVars PROVE OnlyForward' /\ NoReopening
  OBVIOUS
<1>1. ASSUME UNCHANGED <<leases, requests>> PROVE NoReopening
  BY <1>1 DEF NoReopening
<1>2. ASSUME UNCHANGED <<leases, requests, call, wr>> PROVE OnlyForward'
  BY <1>2 DEF OnlyForward, GrantedInForce, Forward
<1>3. ASSUME NEW s \in Sessions, Start(s) \/ Run(s) \/ Locking(s) \/ Rollback(s)
      PROVE  OnlyForward' /\ NoReopening
  <2>1. CASE Commit(s)
    <3>1. NoReopening /\ GrantedInForce' /\ call'[s] = Null /\ OnlyMoves(s)
      BY <2>1, CommitReopensNothing, CommitEffect
    <3>2. ASSUME NEW o \in Sessions, call'[o] # Null PROVE Forward(o)'
      <4>1. o # s /\ call[o] # Null
        BY <3>1, <3>2 DEF OnlyMoves
      <4> QED
        BY <2>1, <4>1, CommitForward
    <3> QED
      BY <3>1, <3>2 DEF OnlyForward
  <2>2. CASE ~Commit(s)
    <3>1. UNCHANGED <<leases, requests>> /\ OnlyMoves(s)
      BY <1>3, <2>2, QuietStep DEF vars
    <3>2. call'[s] = Null \/ Forward(s)'
      BY <1>3, <2>2, StartForward, QuietForward DEF OnlyForward
    <3>3. ASSUME NEW o \in Sessions \ {s}, call'[o] # Null PROVE Forward(o)'
      BY <3>1, <3>3 DEF OnlyMoves, OnlyForward, Forward
    <3>4. GrantedInForce'
      BY <3>1 DEF OnlyForward, GrantedInForce
    <3> QED
      BY <1>1, <3>1, <3>2, <3>3, <3>4 DEF OnlyForward
  <2> QED
    BY <2>1, <2>2
<1>4. CASE PortfolioTx
  BY <1>1, <1>2, <1>4, PortfolioLeaves
<1>5. CASE UNCHANGED allVars
  BY <1>1, <1>2, <1>5 DEF allVars, vars, txVars
<1> QED
  BY <1>3, <1>4, <1>5 DEF TxNext

\* However calls overlap, what an approval granted is final and nothing is
\* reopened: a request once answered never waits again, a lease in force is no
\* draft again, and one from an approval that was terminated stays so
\* (LeaseService.activate and terminate, LeaseRequestService.approve).
THEOREM OverlapReopensNothing == TxSpec => NothingReopens
<1>1. TxInit => OnlyForward
  BY DEF TxInit, Init, OnlyForward, GrantedInForce
<1>2. TxShape /\ OnlyForward /\ [TxNext]_allVars => [NoReopening]_vars
  BY ForwardStep
<1>3. TxSpec => [][NoReopening]_vars
  BY <1>1, <1>2, TxShapeInit, TxShapeStep, ForwardStep, PTL DEF TxSpec
<1> QED
  BY <1>3 DEF NothingReopens

(***************************************************************************)
(* No deadlock                                                             *)
(***************************************************************************)
\* The order in which the handlers take their locks: a session waits only
\* for sessions of a higher rank.
Rank(s) ==
    CASE pc[s] = "lease" -> 0
      [] pc[s] = "occupy" -> 1
      [] pc[s] = "decide" /\ call[s].op = "reject" -> 2
      [] pc[s] = "decide" /\ call[s].op # "reject" -> 3
      [] OTHER -> 4

LEMMA RankTyped ==
    ASSUME NEW s PROVE Rank(s) \in 0..4
BY DEF Rank

LEMMA WaitsUpwards ==
    ASSUME TxShape, NEW s \in Sessions, NEW o \in Sessions, WaitsFor(s, o)
    PROVE  Rank(s) < Rank(o)
<1>0. /\ Sound(s) /\ Sound(o) /\ s # o
      /\ call[s] # Null /\ call[s].op \in OpsAt(pc[s]) /\ Named(s) /\ ToDecide(s) /\ HasWritten(s)
      /\ call[s].unit \in Units /\ todo[s] \subseteq Requests
  BY HeldTypes DEF TxShape, TxTypeOK, WaitsFor, Sound
<1>1. ASSUME call[o] = Null PROVE FALSE
  <2>1. wr[o] = NoWrites
    BY <1>0, <1>1 DEF Sound
  <2>2. pc[s] = "lease" => call[s].lease \in Leases
    BY <1>0 DEF OpsAt, Named
  <2> QED
    BY <1>0, <2>1, <2>2, NoWritesTyped DEF WaitsFor
<1>2. /\ HoldsUnits(o) /\ HoldsLeases(o) /\ HoldsRequests(o) /\ ToDecide(o) /\ HasWritten(o)
      /\ call[o].op \in OpsAt(pc[o]) /\ call[o].unit \in Units
  BY <1>0, <1>1, HeldTypes DEF Sound, TxShape
<1>3. CASE pc[s] = "lease" /\ wr[o].leases[call[s].lease] # Null
  <2>1. call[s].lease \in Leases
    BY <1>0, <1>3 DEF OpsAt, Named
  <2>2. pc[o] \in {"unit", "occupy", "queue", "decide", "commit"}
    BY <1>2, <1>3, <2>1 DEF HoldsLeases
  <2> QED
    BY <1>3, <2>2 DEF Rank
<1>4. CASE pc[s] = "occupy" /\ wr[o].units[call[s].unit] # Null
  <2>1. \/ call[o].op = "approve" /\ pc[o] \in {"queue", "decide", "commit"}
        \/ pc[o] = "commit"
    BY <1>0, <1>2, <1>4 DEF HoldsUnits
  <2> QED
    BY <1>4, <2>1 DEF Rank
<1>5. ASSUME pc[s] = "decide", NEW r \in todo[s], wr[o].requests[r] # Null PROVE Rank(s) < Rank(o)
  <2>1. /\ r \in Requests /\ requests[r] # Null /\ requests[r].unit = call[s].unit
        /\ call[s].op \in RequestOps
    BY <1>0, <1>5 DEF ToDecide, OpsAt
  <2>2. /\ call[o].op \in RequestOps /\ pc[o] \in {"decide", "commit"}
        /\ requests[r].unit = call[o].unit
    BY <1>2, <1>5, <2>1 DEF HoldsRequests
  <2>3. CASE pc[o] = "commit"
    BY <1>5, <2>3 DEF Rank
  <2>4. CASE pc[o] = "decide"
    <3>1. call[o].op = "approve"
      BY <1>2, <1>5, <2>1, <2>2, <2>4, NoWritesTyped DEF ToDecide, RequestOps
    <3>2. call[s].op # "approve"
      <4>1. ASSUME call[s].op = "approve" PROVE FALSE
        <5>1. wr[s].units[call[s].unit] # Null /\ wr[o].units[call[o].unit] # Null
          BY <1>0, <1>2, <1>5, <2>4, <3>1, <4>1 DEF HasWritten
        <5> QED
          BY <1>0, <2>1, <2>2, <5>1 DEF TxShape, Exclusively
      <4> QED
        BY <4>1
    <3>3. call[s].op = "reject"
      BY <2>1, <3>2 DEF RequestOps
    <3> QED
      BY <1>5, <2>4, <3>1, <3>3 DEF Rank
  <2> QED
    BY <2>2, <2>3, <2>4
<1> QED
  BY <1>3, <1>4, <1>5 DEF WaitsFor

LEMMA NoCycle == TxShape => NoLockCycle
<1> SUFFICES ASSUME TxShape, NEW group \in SUBSET Sessions, group # {}
             PROVE  \E s \in group : \A o \in group : ~WaitsFor(s, o)
  BY DEF NoLockCycle
<1>1. ASSUME NEW s \in group, \A o \in group : Rank(o) <= Rank(s)
      PROVE  \A o \in group : ~WaitsFor(s, o)
  <2>1. ASSUME NEW o \in group, WaitsFor(s, o) PROVE FALSE
    <3>1. Rank(s) < Rank(o) /\ Rank(o) <= Rank(s) /\ Rank(s) \in 0..4 /\ Rank(o) \in 0..4
      BY <1>1, <2>1, WaitsUpwards, RankTyped
    <3> QED
      BY <3>1
  <2> QED
    BY <2>1
<1>2. \E s \in group : \A o \in group : Rank(o) <= Rank(s)
  <2> DEFINE Top(n) == \A o \in group : Rank(o) <= n
             Some(n) == \E s \in group : Rank(s) = n
  <2>1. Top(4) /\ \A n \in 1..4 : Top(n) /\ ~Some(n) => Top(n - 1)
    BY RankTyped
  <2>2. \E n \in 0..4 : Top(n) /\ Some(n)
    <3>1. ASSUME \A n \in 0..4 : ~(Top(n) /\ Some(n)) PROVE FALSE
      <4>1. Top(3)
        BY <2>1, <3>1
      <4>2. Top(2)
        BY <2>1, <3>1, <4>1
      <4>3. Top(1)
        BY <2>1, <3>1, <4>2
      <4>4. Top(0)
        BY <2>1, <3>1, <4>3
      <4>5. Some(0)
        BY <4>4, RankTyped
      <4> QED
        BY <3>1, <4>4, <4>5
    <3> QED
      BY <3>1
  <2> QED
    BY <2>2
<1> QED
  BY <1>1, <1>2

\* Whatever the calls in flight, no sessions wait for each other in a circle:
\* leases before units before requests, and approvals for one unit meet at
\* the unit (LeaseService, LeaseRequestService.approve and .reject).
THEOREM NoDeadlock == TxSpec => []NoLockCycle
<1> QED
  BY TxShapeInit, TxShapeStep, NoCycle, PTL DEF TxSpec

(***************************************************************************)
(* Calls that do not overlap implement Leasing                             *)
(***************************************************************************)
\* The requests that an approval answers, and the answers it gives.
Answered(c) == PendingRequests(c.unit) \cup {c.request}

Answer(c, q) ==
    Decided(requests[q], IF c.op = "approve" /\ q = c.request THEN "APPROVED" ELSE "REJECTED", c.by)

MadeLease(c) ==
    [unit |-> c.unit, tenant |-> c.tenant,
     status |-> IF c.op = "approve" THEN "ACTIVE" ELSE "DRAFT", request |-> c.request]

HoldsOnlyLease(s, l) ==
    leases[l] = Null /\ \A k \in Leases : wr[s].leases[k] = IF k = l THEN MadeLease(call[s]) ELSE Null

HoldsOnlyRequest(s, r) ==
    /\ requests[r] = Null
    /\ \A q \in Requests :
          wr[s].requests[q] = IF q = r THEN NewRequest(call[s].tenant, call[s].unit) ELSE Null

\* s has written the answers to ids and nothing else.
HoldsAnswers(s, ids) ==
    \A q \in Requests : wr[s].requests[q] = IF q \in ids THEN Answer(call[s], q) ELSE Null

\* What a call that runs alone has found out, and written, by each statement:
\* what it has read is still so, since nobody else has written.
SubmitAlone(s) ==
    LET c == call[s] IN
    /\ Lettable(c.unit)
    /\ pc[s] \in {"insert", "commit"} => ~HasPending(c.tenant, c.unit)
    /\ pc[s] = "commit" => \E r \in Requests : HoldsOnlyRequest(s, r)

CreateAlone(s) ==
    LET c == call[s] IN
    /\ c.by \in Staff /\ units[c.unit] # Null
    /\ pc[s] # "scope" => InScope(c.by, c.unit)
    /\ pc[s] \in {"insert", "commit"} => ActiveLeases(c.unit) = {}
    /\ pc[s] = "commit" => \E l \in Leases : HoldsOnlyLease(s, l)

ReviewAlone(s) ==
    LET c == call[s] IN
    /\ requests[c.request].status = "PENDING"
    /\ pc[s] # "scope" => InScope(c.by, c.unit)
    /\ c.op = "reject" /\ pc[s] = "commit" => HoldsAnswers(s, {c.request})
    /\ c.op = "approve" /\ pc[s] \notin {"scope", "unit"} => Lettable(c.unit)
    /\ c.op = "approve" /\ pc[s] \in {"occupy", "queue", "decide", "commit"}
          => \E l \in Leases : HoldsOnlyLease(s, l)
    /\ c.op = "approve" /\ pc[s] \in {"decide", "commit"} => HoldsAnswers(s, Answered(c) \ todo[s])
    /\ c.op = "approve" /\ pc[s] = "decide" => todo[s] \subseteq Answered(c)
    /\ c.op = "approve" /\ pc[s] = "commit" => todo[s] = {}

LeaseAlone(s) ==
    LET c == call[s] IN
    /\ c.by \in Staff
    /\ leases[c.lease].status = IF c.op = "activate" THEN "DRAFT" ELSE "ACTIVE"
    /\ pc[s] # "scope" => InScope(c.by, c.unit)
    /\ pc[s] = "commit" /\ wr[s].units[c.unit] = Null => units[c.unit].occupied = Assigned(c.op)

Progress(s) ==
    /\ call[s].op = "submit" => SubmitAlone(s)
    /\ call[s].op = "create" => CreateAlone(s)
    /\ call[s].op \in RequestOps => ReviewAlone(s)
    /\ call[s].op \in LeaseOps => LeaseAlone(s)

AloneShape ==
    /\ TxShape
    /\ \A s, o \in Sessions : call[s] # Null /\ call[o] # Null => s = o
    /\ \A s \in Sessions : call[s] # Null => Progress(s)

\* While the tables and its call stand, a session's reads would say the same.
LEMMA ReadsStand ==
    ASSUME UNCHANGED vars, NEW s \in Sessions, call'[s] = call[s]
    PROVE  /\ Lettable(call[s].unit)' = Lettable(call[s].unit)
           /\ InScope(call[s].by, call[s].unit)' = InScope(call[s].by, call[s].unit)
           /\ HasPending(call[s].tenant, call[s].unit)' = HasPending(call[s].tenant, call[s].unit)
           /\ ActiveLeases(call[s].unit)' = ActiveLeases(call[s].unit)
           /\ Answered(call[s])' = Answered(call[s])
           /\ \A q : Answer(call[s], q)' = Answer(call[s], q)
           /\ MadeLease(call[s])' = MadeLease(call[s])
           /\ NewRequest(call[s].tenant, call[s].unit)' = NewRequest(call[s].tenant, call[s].unit)
           /\ units' = units /\ leases' = leases /\ requests' = requests
<1>1. properties' = properties /\ units' = units /\ leases' = leases /\ requests' = requests
  BY DEF vars
<1>2. Lettable(call[s].unit)' = Lettable(call[s].unit)
  BY <1>1 DEF Lettable
<1>3. InScope(call[s].by, call[s].unit)' = InScope(call[s].by, call[s].unit)
  BY <1>1 DEF InScope
<1>4. HasPending(call[s].tenant, call[s].unit)' = HasPending(call[s].tenant, call[s].unit)
  BY <1>1 DEF HasPending, PendingRequests, RequestsFor
<1>5. ActiveLeases(call[s].unit)' = ActiveLeases(call[s].unit)
  BY <1>1 DEF ActiveLeases, LeasesOf
<1>6. Answered(call[s])' = Answered(call[s])
  BY <1>1 DEF Answered, PendingRequests, RequestsFor
<1>7. \A q : Answer(call[s], q)' = Answer(call[s], q)
  BY <1>1 DEF Answer, Decided
<1>8. /\ MadeLease(call[s])' = MadeLease(call[s])
      /\ NewRequest(call[s].tenant, call[s].unit)' = NewRequest(call[s].tenant, call[s].unit)
  BY <1>1 DEF MadeLease, NewRequest
<1> QED
  BY <1>1, <1>2, <1>3, <1>4, <1>5, <1>6, <1>7, <1>8

LEMMA ScopeAlone ==
    ASSUME TxShape, NEW s \in Sessions, call[s] # Null, Progress(s), Scope(s), call'[s] # Null
    PROVE  Progress(s)'
<1> DEFINE c == call[s]
<1>0. Sound(s) /\ c.op \in Ops \ {"submit"} /\ pc[s] = "scope" /\ c.by \in Users
  BY HeldTypes DEF TxShape, Sound, OpsAt, Scope
<1>1. /\ c.by \in Managers => units[c.unit] # Null /\ InScope(c.by, c.unit)
      /\ Goto(s, AfterScope[c.op]) /\ UNCHANGED <<vars, call, wr>>
  BY DEF Scope, Refuse, Close, TxShape, TxTypeOK
<1>2. /\ InScope(c.by, c.unit) /\ call'[s] = call[s] /\ wr' = wr
      /\ pc'[s] = AfterScope[c.op] /\ UNCHANGED vars
  BY <1>1 DEF InScope, Goto, TxShape, TxTypeOK
<1>3. /\ c.op = "approve" => pc'[s] = "unit"
      /\ c.op = "reject" => pc'[s] = "decide"
      /\ c.op = "create" => pc'[s] = "check"
      /\ c.op \in LeaseOps => pc'[s] = "lease"
  BY <1>2 DEF AfterScope, LeaseOps
<1>4. ASSUME c.op = "create" PROVE CreateAlone(s)'
  BY <1>0, <1>2, <1>3, <1>4, ReadsStand DEF Progress, CreateAlone
<1>5. ASSUME c.op \in RequestOps PROVE ReviewAlone(s)'
  BY <1>0, <1>2, <1>3, <1>5, ReadsStand DEF Progress, ReviewAlone, RequestOps
<1>6. ASSUME c.op \in LeaseOps PROVE LeaseAlone(s)'
  BY <1>0, <1>2, <1>3, <1>6, ReadsStand DEF Progress, LeaseAlone
<1> QED
  BY <1>0, <1>2, <1>4, <1>5, <1>6 DEF Progress

LEMMA BeginAlone ==
    ASSUME TxShape, NEW s \in Sessions, Start(s)
    PROVE  Progress(s)'
<1>0. TxTypeOK
  BY DEF TxShape
<1>1. ASSUME NEW c, NEW label, Begin(s, c, label)
      PROVE  call'[s] = c /\ pc'[s] = label /\ UNCHANGED <<properties, units, leases, requests>>
  BY <1>0, <1>1 DEF Begin, Goto, TxTypeOK, vars
<1>2. ASSUME NEW t \in Tenants, NEW u \in Units, SubmitBegin(s, t, u) PROVE Progress(s)'
  <2> DEFINE c == [op |-> "submit", by |-> t, unit |-> u, tenant |-> t,
                   request |-> Null, lease |-> Null]
  <2>1. /\ call'[s] = c /\ pc'[s] = "check" /\ Lettable(u)
        /\ UNCHANGED <<properties, units, leases, requests>>
    BY <1>1, <1>2 DEF SubmitBegin
  <2>2. SubmitAlone(s)'
    BY <2>1 DEF SubmitAlone, Lettable
  <2> QED
    BY <2>1, <2>2 DEF Progress, RequestOps, LeaseOps
<1>3. ASSUME NEW by \in Staff, NEW op \in RequestOps, NEW r \in Requests, ReviewBegin(s, op, by, r)
      PROVE  Progress(s)'
  <2> DEFINE c == [op |-> op, by |-> by, unit |-> requests[r].unit,
                   tenant |-> requests[r].tenant, request |-> r, lease |-> Null]
  <2>1. /\ call'[s] = c /\ pc'[s] = "scope" /\ requests[r].status = "PENDING"
        /\ UNCHANGED <<properties, units, leases, requests>>
    BY <1>1, <1>3 DEF ReviewBegin
  <2>2. ReviewAlone(s)'
    BY <2>1 DEF ReviewAlone
  <2> QED
    BY <2>1, <2>2 DEF Progress, RequestOps, LeaseOps
<1>4. ASSUME NEW by \in Staff, NEW op \in LeaseOps, NEW l \in Leases, LeaseBegin(s, op, by, l)
      PROVE  Progress(s)'
  <2> DEFINE c == [op |-> op, by |-> by, unit |-> leases[l].unit,
                   tenant |-> leases[l].tenant, request |-> Null, lease |-> l]
  <2>1. /\ call'[s] = c /\ pc'[s] = "scope"
        /\ leases[l].status = IF op = "activate" THEN "DRAFT" ELSE "ACTIVE"
        /\ UNCHANGED <<properties, units, leases, requests>>
    BY <1>1, <1>4 DEF LeaseBegin
  <2>2. LeaseAlone(s)'
    BY <2>1 DEF LeaseAlone
  <2> QED
    BY <2>1, <2>2 DEF Progress, RequestOps, LeaseOps
<1>5. ASSUME NEW by \in Staff, NEW u \in Units, NEW t \in Users, CreateBegin(s, by, u, t)
      PROVE  Progress(s)'
  <2> DEFINE c == [op |-> "create", by |-> by, unit |-> u, tenant |-> t,
                   request |-> Null, lease |-> Null]
  <2>1. /\ call'[s] = c /\ pc'[s] = "scope" /\ units[u] # Null
        /\ UNCHANGED <<properties, units, leases, requests>>
    BY <1>1, <1>5 DEF CreateBegin
  <2>2. CreateAlone(s)'
    BY <2>1 DEF CreateAlone
  <2> QED
    BY <2>1, <2>2 DEF Progress, RequestOps, LeaseOps
<1> QED
  BY <1>2, <1>3, <1>4, <1>5 DEF Start

\* The tests that precede an insert.
LEMMA TestAlone ==
    ASSUME TxShape, NEW s \in Sessions, call[s] # Null, Progress(s), Check(s) \/ ReadUnit(s),
           call'[s] # Null
    PROVE  Progress(s)'
<1> DEFINE c == call[s]
<1>0. Sound(s) /\ TxTypeOK /\ c.op \in OpsAt(pc[s])
  BY DEF TxShape, Sound
<1>1. CASE Check(s)
  <2>1. /\ IF c.op = "submit" THEN ~HasPending(c.tenant, c.unit) ELSE ActiveLeases(c.unit) = {}
        /\ Goto(s, "insert") /\ UNCHANGED <<vars, call, todo, wr>>
    BY <1>0, <1>1 DEF Check, Test, Refuse, Close, TxTypeOK
  <2>2. /\ call'[s] = call[s] /\ pc'[s] = "insert" /\ wr' = wr /\ UNCHANGED vars
        /\ c.op \in {"submit", "create"} /\ pc[s] = "check"
    BY <1>0, <1>1, <2>1 DEF Goto, TxTypeOK, Check, OpsAt
  <2>3. ASSUME c.op = "submit" PROVE SubmitAlone(s)'
    BY <2>1, <2>2, <2>3, ReadsStand DEF Progress, SubmitAlone
  <2>4. ASSUME c.op = "create" PROVE CreateAlone(s)'
    BY <2>1, <2>2, <2>4, ReadsStand DEF Progress, CreateAlone
  <2> QED
    BY <2>2, <2>3, <2>4 DEF Progress, RequestOps, LeaseOps
<1>2. CASE ReadUnit(s)
  <2>1. Lettable(c.unit) /\ Goto(s, "insert") /\ UNCHANGED <<vars, call, todo, wr>>
    BY <1>0, <1>2 DEF ReadUnit, Test, Refuse, Close, TxTypeOK
  <2>2. /\ call'[s] = call[s] /\ pc'[s] = "insert" /\ wr' = wr /\ UNCHANGED vars
        /\ c.op = "approve" /\ pc[s] = "unit"
    BY <1>0, <1>2, <2>1 DEF Goto, TxTypeOK, ReadUnit
  <2>3. ReviewAlone(s)'
    BY <2>1, <2>2, ReadsStand DEF Progress, ReviewAlone, RequestOps
  <2> QED
    BY <2>2, <2>3 DEF Progress, RequestOps, LeaseOps
<1> QED
  BY <1>1, <1>2

LEMMA InsertAlone ==
    ASSUME TxShape, NEW s \in Sessions, call[s] # Null, Progress(s),
           (\E r \in Requests : InsertRequest(s, r)) \/ (\E l \in Leases : InsertLease(s, l))
    PROVE  Progress(s)'
<1> DEFINE c == call[s]
<1>0. TxTypeOK /\ wr \in [Sessions -> Writes]
  BY DEF TxShape, TxTypeOK
<1>1. ASSUME NEW r \in Requests, InsertRequest(s, r) PROVE Progress(s)'
  <2> DEFINE row == NewRequest(c.tenant, c.unit)
  <2>1. /\ PutsRequest(s, r, row) /\ UNCHANGED vars /\ call'[s] = call[s] /\ pc'[s] = "commit"
        /\ requests[r] = Null /\ c.op = "submit" /\ pc[s] = "insert"
    BY <1>0, <1>1 DEF InsertRequest, PutsRequest, Goto, TxTypeOK, FreshRequest
  <2>2. \A q \in Requests : wr[s].requests[q] = Null
    <3>1. Early(s)
      BY <1>1 DEF InsertRequest, Early
    <3> QED
      BY <3>1, EarlyHoldsNothing
  <2> HIDE DEF row
  <2>3. \A q \in Requests : wr'[s].requests[q] = IF q = r THEN row ELSE Null
    BY <1>0, <2>1, <2>2, PutRow
  <2>4. HoldsOnlyRequest(s, r)'
    BY <2>1, <2>3, ReadsStand DEF HoldsOnlyRequest, row
  <2>5. SubmitAlone(s)'
    BY <2>1, <2>4, ReadsStand DEF Progress, SubmitAlone
  <2> QED
    BY <2>1, <2>5 DEF Progress, RequestOps, LeaseOps
<1>2. ASSUME NEW l \in Leases, InsertLease(s, l) PROVE Progress(s)'
  <2> DEFINE row == MadeLease(c)
  <2>1. /\ PutsLease(s, l, row) /\ UNCHANGED vars /\ call'[s] = call[s]
        /\ pc'[s] = IF c.op = "approve" THEN "occupy" ELSE "commit"
        /\ leases[l] = Null /\ c.op \in {"create", "approve"} /\ pc[s] = "insert"
    BY <1>0, <1>2 DEF InsertLease, PutsLease, Goto, TxTypeOK, FreshLease, MadeLease
  <2>2. \A k \in Leases : wr[s].leases[k] = Null
    <3>1. Early(s)
      BY <1>2 DEF InsertLease, Early
    <3> QED
      BY <3>1, EarlyHoldsNothing
  <2> HIDE DEF row
  <2>3. \A k \in Leases : wr'[s].leases[k] = IF k = l THEN row ELSE Null
    BY <1>0, <2>1, <2>2, PutRow
  <2>4. HoldsOnlyLease(s, l)'
    BY <2>1, <2>3, ReadsStand DEF HoldsOnlyLease, row
  <2>5. ASSUME c.op = "create" PROVE CreateAlone(s)'
    BY <2>1, <2>4, <2>5, ReadsStand DEF Progress, CreateAlone
  <2>6. ASSUME c.op = "approve" PROVE ReviewAlone(s)'
    BY <2>1, <2>4, <2>6, ReadsStand DEF Progress, ReviewAlone, RequestOps
  <2> QED
    BY <2>1, <2>5, <2>6 DEF Progress, RequestOps, LeaseOps
<1> QED
  BY <1>1, <1>2

\* The statements of activate and terminate.
LEMMA LeaseStepsAlone ==
    ASSUME TxShape, NEW s \in Sessions, call[s] # Null, Progress(s), call[s].op \in LeaseOps,
           WriteLease(s) \/ ReadOccupied(s) \/ Occupy(s)
    PROVE  Progress(s)'
<1> DEFINE c == call[s]
<1>0. TxTypeOK /\ wr \in [Sessions -> Writes]
  BY DEF TxShape, TxTypeOK
<1>1. CASE WriteLease(s)
  <2>1. call'[s] = call[s] /\ pc'[s] = "unit" /\ pc[s] = "lease" /\ UNCHANGED vars
    BY <1>0, <1>1 DEF WriteLease, Goto, TxTypeOK
  <2>2. LeaseAlone(s)'
    BY <2>1, ReadsStand DEF Progress, LeaseAlone
  <2> QED
    BY <2>1, <2>2 DEF Progress, LeaseOps, RequestOps
<1>2. CASE ReadOccupied(s)
  <2>1. /\ call'[s] = call[s] /\ pc[s] = "unit" /\ UNCHANGED vars /\ wr' = wr
        /\ pc'[s] = IF units[c.unit].occupied = Assigned(c.op) THEN "commit" ELSE "occupy"
    BY <1>0, <1>2 DEF ReadOccupied, Goto, TxTypeOK
  <2>2. LeaseAlone(s)'
    BY <2>1, ReadsStand DEF Progress, LeaseAlone
  <2> QED
    BY <2>1, <2>2 DEF Progress, LeaseOps, RequestOps
<1>3. CASE Occupy(s)
  <2> DEFINE row == [units[c.unit] EXCEPT !.occupied = Assigned(c.op)]
  <2>1. /\ call'[s] = call[s] /\ pc[s] = "occupy" /\ UNCHANGED vars /\ pc'[s] = "commit"
        /\ PutsUnit(s, c.unit, row)
    BY <1>0, <1>3 DEF Occupy, Goto, TxTypeOK, PutsUnit, LeaseOps
  <2>2. row # Null /\ c.unit \in Units
    BY <1>3, OccupiedRow
  <2> HIDE DEF row
  <2>3. wr'[s].units[c.unit] # Null
    BY <1>0, <2>1, <2>2, PutRow
  <2>4. LeaseAlone(s)'
    BY <2>1, <2>3, ReadsStand DEF Progress, LeaseAlone
  <2> QED
    BY <2>1, <2>4 DEF Progress, LeaseOps, RequestOps
<1> QED
  BY <1>1, <1>2, <1>3

\* The statements of approve after its insert, and the update of reject.
LEMMA ReviewStepsAlone ==
    ASSUME TxShape, NEW s \in Sessions, call[s] # Null, Progress(s), call[s].op \in RequestOps,
           Occupy(s) \/ ReadQueue(s) \/ \E r \in Requests : Decide(s, r)
    PROVE  Progress(s)'
<1> DEFINE c == call[s]
<1>0. TxTypeOK /\ wr \in [Sessions -> Writes] /\ Sound(s) /\ ReviewAlone(s)
  BY DEF TxShape, TxTypeOK, Progress
<1>1. ASSUME ReviewAlone(s)', call'[s] = call[s] PROVE Progress(s)'
  BY <1>1 DEF Progress, RequestOps, LeaseOps
<1>2. CASE Occupy(s)
  <2> DEFINE row == [units[c.unit] EXCEPT !.occupied = Assigned(c.op)]
  <2>1. /\ call'[s] = call[s] /\ pc[s] = "occupy" /\ UNCHANGED vars
        /\ PutsUnit(s, c.unit, row) /\ c.op = "approve"
    BY <1>0, <1>2 DEF Occupy, Goto, TxTypeOK, PutsUnit, Sound, OpsAt, RequestOps, LeaseOps
  <2>2. pc'[s] = "queue" /\ c.unit \in Units
    BY <1>0, <1>2, <2>1, OccupiedRow DEF Occupy, Goto, TxTypeOK
  <2> HIDE DEF row
  <2>3. wr'[s].leases = wr[s].leases
    BY <1>0, <2>1, <2>2, PutRow
  <2>4. ASSUME NEW l \in Leases, HoldsOnlyLease(s, l) PROVE HoldsOnlyLease(s, l)'
    BY <2>1, <2>3, <2>4, ReadsStand DEF HoldsOnlyLease
  <2>5. ReviewAlone(s)'
    BY <1>0, <2>1, <2>2, <2>4, ReadsStand DEF ReviewAlone
  <2> QED
    BY <1>1, <2>1, <2>5
<1>3. CASE ReadQueue(s)
  <2>1. /\ call'[s] = call[s] /\ pc[s] = "queue" /\ UNCHANGED vars /\ wr' = wr /\ pc'[s] = "decide"
        /\ todo'[s] = Answered(c) /\ c.op = "approve"
    BY <1>0, <1>3 DEF ReadQueue, Goto, TxTypeOK, Sound, OpsAt, Answered
  <2>2. \A q \in Requests : wr[s].requests[q] = Null
    BY <1>0, <2>1 DEF Sound, HoldsRequests
  <2>3. HoldsAnswers(s, {})'
    BY <2>1, <2>2 DEF HoldsAnswers
  <2>4. ASSUME NEW l \in Leases, HoldsOnlyLease(s, l) PROVE HoldsOnlyLease(s, l)'
    BY <2>1, <2>4, ReadsStand DEF HoldsOnlyLease
  <2>5. Answered(c) \ todo'[s] = {}
    BY <2>1
  <2>6. HoldsAnswers(s, Answered(call[s]) \ todo[s])'
    BY <2>1, <2>3, <2>5, ReadsStand DEF HoldsAnswers
  <2>7. ReviewAlone(s)'
    BY <1>0, <2>1, <2>4, <2>6, ReadsStand DEF ReviewAlone
  <2> QED
    BY <1>1, <2>1, <2>7
<1>4. ASSUME NEW r \in Requests, Decide(s, r) PROVE Progress(s)'
  <2> DEFINE row == Answer(c, r)
  <2>1. /\ call'[s] = call[s] /\ pc[s] = "decide" /\ UNCHANGED vars /\ PutsRequest(s, r, row)
        /\ todo'[s] = todo[s] \ {r} /\ r \in todo[s]
        /\ pc'[s] = IF todo'[s] = {} THEN "commit" ELSE "decide"
    BY <1>0, <1>4 DEF Decide, Goto, TxTypeOK, PutsRequest, Answer
  <2> HIDE DEF row
  <2>2. /\ wr'[s].leases = wr[s].leases
        /\ \A q \in Requests : wr'[s].requests[q] = IF q = r THEN row ELSE wr[s].requests[q]
    BY <1>0, <2>1, PutRow
  <2>4. ASSUME NEW l \in Leases, HoldsOnlyLease(s, l) PROVE HoldsOnlyLease(s, l)'
    BY <2>1, <2>2, <2>4, ReadsStand DEF HoldsOnlyLease
  <2>5. CASE c.op = "reject"
    <3>1. todo[s] = {c.request} /\ r = c.request /\ wr[s].requests = NoWrites.requests
      BY <1>0, <2>1, <2>5 DEF Sound, ToDecide
    <3>3. HoldsAnswers(s, {c.request})'
      <4>1. \A q \in Requests : wr'[s].requests[q] = IF q = r THEN row ELSE Null
        BY <2>2, <3>1, NoWritesTyped
      <4> QED
        BY <2>1, <3>1, <4>1, ReadsStand DEF HoldsAnswers, row
    <3>4. ReviewAlone(s)'
      BY <1>0, <2>1, <2>5, <3>3, ReadsStand DEF ReviewAlone, HoldsAnswers
    <3> QED
      BY <1>1, <2>1, <3>4
  <2>6. CASE c.op = "approve"
    <3>1. HoldsAnswers(s, Answered(c) \ todo[s]) /\ todo[s] \subseteq Answered(c)
      BY <1>0, <2>1, <2>6 DEF ReviewAlone
    <3>2. (Answered(c) \ todo[s]) \cup {r} = Answered(c) \ todo'[s]
      BY <2>1, <3>1
    <3> DEFINE ids == Answered(c) \ todo[s]
    <3>3. \A q \in Requests : wr'[s].requests[q] = IF q \in ids \cup {r} THEN Answer(c, q) ELSE Null
      BY <2>2, <3>1 DEF HoldsAnswers, row
    <3>4. HoldsAnswers(s, Answered(call[s]) \ todo[s])'
      BY <2>1, <3>2, <3>3, ReadsStand DEF HoldsAnswers
    <3>5. ReviewAlone(s)'
      BY <1>0, <2>1, <2>4, <2>6, <3>1, <3>4, ReadsStand DEF ReviewAlone
    <3> QED
      BY <1>1, <2>1, <3>5
  <2> QED
    BY <2>5, <2>6 DEF RequestOps
<1> QED
  BY <1>2, <1>3, <1>4

LEMMA ProgressStep ==
    ASSUME TxShape, NEW s \in Sessions, call[s] # Null => Progress(s), ~Commit(s),
           Start(s) \/ Run(s) \/ Locking(s) \/ Rollback(s), call'[s] # Null
    PROVE  Progress(s)'
<1>0. TxTypeOK
  BY DEF TxShape
<1>1. ASSUME Refuse(s) PROVE FALSE
  BY <1>0, <1>1 DEF Refuse, Close, TxTypeOK
<1>2. CASE Start(s)
  BY <1>2, BeginAlone
<1>3. CASE Run(s) \/ Locking(s)
  <2>1. CASE InsertFails(s)
    BY <1>1, <2>1 DEF InsertFails
  <2>2. call[s] # Null /\ Sound(s)
    <3>1. pc[s] # "idle"
      BY <1>3 DEF Run, Locking, Scope, Check, ReadUnit, ReadOccupied, ReadQueue, InsertRequest,
         InsertLease, InsertFails, Commit, WriteLease, Occupy, Decide
    <3> QED
      BY <3>1, HeldTypes DEF TxShape
  <2>3. Progress(s)
    BY <2>2
  <2>4. CASE Scope(s)
    BY <2>2, <2>3, <2>4, ScopeAlone
  <2>5. CASE Check(s) \/ ReadUnit(s)
    BY <2>2, <2>3, <2>5, TestAlone
  <2>6. CASE (\E r \in Requests : InsertRequest(s, r)) \/ (\E l \in Leases : InsertLease(s, l))
    BY <2>2, <2>3, <2>6, InsertAlone
  <2>7. CASE WriteLease(s) \/ ReadOccupied(s) \/ Occupy(s)
    <3>1. call[s].op \in LeaseOps \/ (call[s].op \in RequestOps /\ Occupy(s))
      BY <2>2, <2>7 DEF WriteLease, ReadOccupied, Occupy, Sound, OpsAt, RequestOps
    <3> QED
      BY <2>2, <2>3, <2>7, <3>1, LeaseStepsAlone, ReviewStepsAlone
  <2>8. CASE ReadQueue(s) \/ \E r \in Requests : Decide(s, r)
    <3>1. call[s].op \in RequestOps
      BY <2>2, <2>8 DEF ReadQueue, Decide, Sound, OpsAt, RequestOps
    <3> QED
      BY <2>2, <2>3, <2>8, <3>1, ReviewStepsAlone
  <2> QED
    BY <1>3, <2>1, <2>4, <2>5, <2>6, <2>7, <2>8 DEF Run, Locking
<1>4. CASE Rollback(s)
  BY <1>1, <1>4 DEF Rollback
<1> QED
  BY <1>2, <1>3, <1>4

LEMMA AloneStep ==
    AloneShape /\ [OneAtATimeNext]_allVars => AloneShape'
<1> SUFFICES ASSUME AloneShape, [OneAtATimeNext]_allVars PROVE AloneShape'
  OBVIOUS
<1>1. TxShape'
  <2>1. [TxNext]_allVars
    BY DEF OneAtATimeNext, TxNext
  <2> QED
    BY <2>1, TxShapeStep DEF AloneShape
<1>2. ASSUME NEW s \in Sessions, Alone(s), Start(s) \/ Run(s) \/ Locking(s) \/ Rollback(s)
      PROVE  AloneShape'
  <2>1. OnlyMoves(s)
    BY <1>2, QuietStep, CommitEffect DEF AloneShape
  <2>2. \A o \in Sessions \ {s} : call'[o] = Null
    BY <1>2, <2>1 DEF Alone, OnlyMoves
  <2>3. ASSUME call'[s] # Null PROVE Progress(s)'
    <3>1. ~Commit(s)
      BY <2>3, CommitEffect DEF AloneShape
    <3> QED
      BY <1>2, <2>3, <3>1, ProgressStep DEF AloneShape
  <2> QED
    BY <1>1, <2>2, <2>3 DEF AloneShape
<1>3. CASE (\A s \in Sessions : call[s] = Null) /\ PortfolioTx
  BY <1>1, <1>3, PortfolioLeaves DEF AloneShape
<1>4. CASE UNCHANGED allVars
  <2>1. UNCHANGED vars /\ UNCHANGED <<call, pc, todo, wr>>
    BY <1>4 DEF allVars, txVars
  <2>2. ASSUME NEW s \in Sessions, Progress(s) PROVE Progress(s)'
    BY <2>1, <2>2, ReadsStand DEF Progress, SubmitAlone, CreateAlone, ReviewAlone, LeaseAlone,
       HoldsOnlyLease, HoldsOnlyRequest, HoldsAnswers
  <2> QED
    BY <1>1, <2>1, <2>2 DEF AloneShape
<1> QED
  BY <1>2, <1>3, <1>4 DEF OneAtATimeNext

\* What the commit of each call, run alone, does to the tables is the step
\* that Leasing takes for it.
LEMMA CommitSubmit ==
    ASSUME TxShape, NEW s \in Sessions, Commit(s), Progress(s), call[s].op = "submit"
    PROVE  Workflow
<1> DEFINE c == call[s]
<1>1. /\ c.unit \in Units /\ c.tenant \in Tenants /\ Lettable(c.unit)
      /\ ~HasPending(c.tenant, c.unit) /\ HoldsUnits(s) /\ HoldsLeases(s) /\ TypeOK /\ TypeOK'
  BY CommitEffect, HeldTypes DEF Progress, SubmitAlone, Sound, Named, TxShape, TxTypeOK
<1>2. PICK r \in Requests : HoldsOnlyRequest(s, r)
  BY CommitEffect DEF Progress, SubmitAlone
<1>3. units' = units /\ leases' = leases
  <2>1. (\A u \in Units : wr[s].units[u] = Null) /\ \A l \in Leases : wr[s].leases[l] = Null
    BY <1>1 DEF HoldsUnits, HoldsLeases, LeaseOps
  <2> QED
    BY <1>1, <2>1, CommitEffect DEF TypeOK
<1>4. requests' = [requests EXCEPT ![r] = NewRequest(c.tenant, c.unit)]
  <2>1. NewRequest(c.tenant, c.unit) # Null
    BY <1>1, NullAssumption DEF NewRequest, RequestRow, RequestStatus
  <2>2. \A q \in Requests : requests'[q] = IF q = r THEN NewRequest(c.tenant, c.unit) ELSE requests[q]
    BY <1>2, <2>1, CommitEffect DEF HoldsOnlyRequest
  <2> QED
    BY <1>1, <2>2 DEF TypeOK
<1>5. SubmitRequest(c.tenant, c.unit, r)
  BY <1>1, <1>2, <1>3, <1>4, CommitEffect DEF SubmitRequest, HoldsOnlyRequest
<1> QED
  BY <1>1, <1>5 DEF Workflow

\* A lease that is inserted appears in the table, and no other changes.
LEMMA CommitInsert ==
    ASSUME TxShape, NEW s \in Sessions, Commit(s), NEW l \in Leases, HoldsOnlyLease(s, l),
           call[s].op \in {"create", "approve"}
    PROVE  leases[l] = Null /\ leases' = [leases EXCEPT ![l] = MadeLease(call[s])]
<1>1. MadeLease(call[s]) # Null
  <2>1. MadeLease(call[s]) \in LeaseRow
    BY CommitEffect, HeldTypes DEF MadeLease, LeaseRow, LeaseStatus, TxShape
  <2> QED
    BY <2>1, NullAssumption
<1>2. \A k \in Leases : leases'[k] = IF k = l THEN MadeLease(call[s]) ELSE leases[k]
  BY <1>1, CommitEffect DEF HoldsOnlyLease
<1>3. TypeOK /\ TypeOK'
  BY CommitEffect DEF TxShape, TxTypeOK
<1> QED
  BY <1>2, <1>3 DEF TypeOK, HoldsOnlyLease

LEMMA CommitCreate ==
    ASSUME TxShape, NEW s \in Sessions, Commit(s), Progress(s), call[s].op = "create"
    PROVE  Lifecycle
<1> DEFINE c == call[s]
<1>1. /\ c.unit \in Units /\ c.tenant \in Users /\ c.by \in Staff /\ c.request = Null
      /\ units[c.unit] # Null /\ InScope(c.by, c.unit) /\ ActiveLeases(c.unit) = {}
      /\ HoldsUnits(s) /\ HoldsRequests(s) /\ TypeOK /\ TypeOK'
  BY CommitEffect, HeldTypes DEF Progress, CreateAlone, Sound, Named, TxShape, TxTypeOK
<1>2. PICK l \in Leases : HoldsOnlyLease(s, l)
  BY CommitEffect DEF Progress, CreateAlone
<1>3. units' = units /\ requests' = requests
  <2>1. (\A u \in Units : wr[s].units[u] = Null) /\ \A q \in Requests : wr[s].requests[q] = Null
    BY <1>1 DEF HoldsUnits, HoldsRequests, LeaseOps, RequestOps
  <2> QED
    BY <1>1, <2>1, CommitEffect DEF TypeOK
<1>4. CreateLease(c.by, c.unit, c.tenant, l)
  BY <1>1, <1>2, <1>3, CommitInsert, CommitEffect DEF CreateLease, MadeLease
<1> QED
  BY <1>1, <1>4 DEF Lifecycle

LEMMA CommitReject ==
    ASSUME TxShape, NEW s \in Sessions, Commit(s), Progress(s), call[s].op = "reject"
    PROVE  Workflow
<1> DEFINE c == call[s]  r == c.request
<1>1. /\ c.by \in Staff /\ r \in Requests /\ requests[r] # Null /\ requests[r].unit = c.unit
      /\ requests[r].status = "PENDING" /\ InScope(c.by, c.unit) /\ HoldsAnswers(s, {r})
      /\ HoldsUnits(s) /\ HoldsLeases(s) /\ TypeOK /\ TypeOK'
  BY CommitEffect DEF Progress, ReviewAlone, Sound, Named, RequestOps, TxShape, TxTypeOK
<1>2. units' = units /\ leases' = leases
  <2>1. (\A u \in Units : wr[s].units[u] = Null) /\ \A l \in Leases : wr[s].leases[l] = Null
    BY <1>1 DEF HoldsUnits, HoldsLeases, LeaseOps
  <2> QED
    BY <1>1, <2>1, CommitEffect DEF TypeOK
<1>3. requests' = [requests EXCEPT ![r] = Decided(requests[r], "REJECTED", c.by)]
  <2>1. Answer(c, r) = Decided(requests[r], "REJECTED", c.by)
    BY DEF Answer
  <2>2. Decided(requests[r], "REJECTED", c.by) # Null
    <3>1. requests[r] \in RequestRow /\ "REJECTED" \in RequestStatus
      BY <1>1, RowTypes DEF RequestStatus
    <3> QED
      BY <1>1, <3>1, NullAssumption DEF Decided, RequestRow
  <2>3. \A q \in Requests :
           requests'[q] = IF q = r THEN Decided(requests[r], "REJECTED", c.by) ELSE requests[q]
    BY <1>1, <2>1, <2>2, CommitEffect DEF HoldsAnswers
  <2> QED
    BY <1>1, <2>3 DEF TypeOK
<1>4. RejectRequest(c.by, r)
  BY <1>1, <1>2, <1>3, CommitEffect DEF RejectRequest
<1> QED
  BY <1>1, <1>4 DEF Workflow

LEMMA CommitApprove ==
    ASSUME TxShape, NEW s \in Sessions, Commit(s), Progress(s), call[s].op = "approve"
    PROVE  Workflow
<1> DEFINE c == call[s]  r == c.request  u == c.unit
<1>1. /\ c.by \in Staff /\ r \in Requests /\ requests[r] # Null
      /\ requests[r].unit = u /\ requests[r].tenant = c.tenant
      /\ requests[r].status = "PENDING" /\ InScope(c.by, u) /\ Lettable(u) /\ u \in Units
      /\ todo[s] = {} /\ HoldsAnswers(s, Answered(c) \ todo[s])
      /\ HoldsUnits(s) /\ HasWritten(s) /\ TypeOK /\ TypeOK' /\ pc[s] = "commit"
  BY CommitEffect, HeldTypes
  DEF Progress, ReviewAlone, Sound, Named, RequestOps, TxShape, TxTypeOK
<1>2. PICK l \in Leases : HoldsOnlyLease(s, l)
  BY CommitEffect DEF Progress, ReviewAlone, RequestOps
<1>3. units' = [units EXCEPT ![u].occupied = TRUE]
  <2>1. wr[s].units[u] # Null /\ Assigned(c.op) = TRUE
    BY <1>1 DEF HasWritten, Assigned
  <2>2. wr[s].units[u] = [units[u] EXCEPT !.occupied = TRUE]
    BY <1>1, <2>1 DEF HoldsUnits
  <2>3. \A v \in Units \ {u} : wr[s].units[v] = Null
    BY <1>1 DEF HoldsUnits
  <2>4. units'[u] = [units[u] EXCEPT !.occupied = TRUE] /\ \A v \in Units \ {u} : units'[v] = units[v]
    BY <1>1, <2>1, <2>2, <2>3, CommitEffect
  <2> QED
    BY <1>1, <2>4 DEF TypeOK
<1>4. leases[l] = Null
      /\ leases' = [leases EXCEPT ![l] = [unit |-> u, tenant |-> requests[r].tenant,
                                          status |-> "ACTIVE", request |-> r]]
  BY <1>1, <1>2, CommitInsert DEF MadeLease
<1>5. requests' = [q \in Requests |->
          CASE q = r -> Decided(requests[q], "APPROVED", c.by)
            [] q # r /\ q \in PendingRequests(u) -> Decided(requests[q], "REJECTED", c.by)
            [] OTHER -> requests[q]]
  <2>1. ASSUME NEW q \in Requests
        PROVE  requests'[q] = CASE q = r -> Decided(requests[q], "APPROVED", c.by)
                 [] q # r /\ q \in PendingRequests(u) -> Decided(requests[q], "REJECTED", c.by)
                 [] OTHER -> requests[q]
    <3>1. wr[s].requests[q] = IF q \in Answered(c) THEN Answer(c, q) ELSE Null
      BY <1>1 DEF HoldsAnswers
    <3>2. CASE q \in Answered(c)
      <4>1. requests[q] \in RequestRow
        BY <1>1, <3>2, RowTypes DEF Answered, PendingRequests, RequestsFor
      <4>2. Answer(c, q) \in RequestRow
        BY <1>1, <4>1 DEF Answer, Decided, RequestRow, RequestStatus
      <4>3. requests'[q] = Answer(c, q)
        BY <3>1, <3>2, <4>2, NullAssumption, CommitEffect
      <4> QED
        BY <1>1, <3>2, <4>3 DEF Answer, Answered
    <3>3. CASE q \notin Answered(c)
      <4>1. requests'[q] = requests[q]
        BY <3>1, <3>3, CommitEffect
      <4> QED
        BY <3>3, <4>1 DEF Answered
    <3> QED
      BY <3>2, <3>3
  <2> QED
    BY <1>1, <2>1 DEF TypeOK
<1>6. ApproveRequest(c.by, r, l)
  BY <1>1, <1>3, <1>4, <1>5, CommitEffect DEF ApproveRequest
<1> QED
  BY <1>1, <1>6 DEF Workflow

LEMMA CommitLease ==
    ASSUME TxShape, NEW s \in Sessions, Commit(s), Progress(s), call[s].op \in LeaseOps
    PROVE  Lifecycle
<1> DEFINE c == call[s]  l == c.lease  u == c.unit
           status == IF c.op = "activate" THEN "ACTIVE" ELSE "TERMINATED"
           free == c.op = "terminate"
<1>1. /\ c.by \in Staff /\ l \in Leases /\ leases[l] # Null /\ leases[l].unit = u
      /\ leases[l].status = IF c.op = "activate" THEN "DRAFT" ELSE "ACTIVE"
      /\ InScope(c.by, u) /\ u \in Units /\ units[u] # Null
      /\ wr[s].units[u] = Null => units[u].occupied = Assigned(c.op)
      /\ HoldsUnits(s) /\ HoldsLeases(s) /\ HoldsRequests(s) /\ HasWritten(s)
      /\ TypeOK /\ TypeOK' /\ pc[s] = "commit"
  BY CommitEffect, HeldTypes
  DEF Progress, LeaseAlone, Sound, Named, TxShape, TxTypeOK, NoDanglingRows
<1>2. requests' = requests
  <2>1. \A q \in Requests : wr[s].requests[q] = Null
    BY <1>1 DEF HoldsRequests, RequestOps, LeaseOps
  <2> QED
    BY <1>1, <2>1, CommitEffect DEF TypeOK
<1>3. leases' = [leases EXCEPT ![l].status = status]
  <2>1. wr[s].leases[l] # Null
    BY <1>1 DEF HasWritten
  <2>2. wr[s].leases[l] = [leases[l] EXCEPT !.status = status]
    BY <1>1, <2>1 DEF HoldsLeases
  <2>3. \A k \in Leases \ {l} : wr[s].leases[k] = Null
    BY <1>1 DEF HoldsLeases, LeaseOps
  <2>4. leases'[l] = wr[s].leases[l] /\ \A k \in Leases \ {l} : leases'[k] = leases[k]
    BY <1>1, <2>1, <2>3, CommitEffect
  <2> HIDE DEF status
  <2> QED
    BY <1>1, <2>2, <2>4 DEF TypeOK
<1>4. units' = [units EXCEPT ![u].occupied = ~free]
  <2>0. Assigned(c.op) = ~free
    BY DEF Assigned
  <2>1. \A v \in Units \ {u} : units'[v] = units[v]
    <3>1. \A v \in Units \ {u} : wr[s].units[v] = Null
      BY <1>1 DEF HoldsUnits
    <3> QED
      BY <3>1, CommitEffect
  <2>2. units[u] \in UnitRow
    BY <1>1, RowTypes
  <2>3. units'[u] = [units[u] EXCEPT !.occupied = ~free]
    <3>1. CASE wr[s].units[u] = Null
      <4>1. units[u].occupied = ~free /\ units'[u] = units[u]
        BY <1>1, <2>0, <3>1, CommitEffect
      <4> QED
        BY <2>2, <4>1 DEF UnitRow
    <3>2. CASE wr[s].units[u] # Null
      <4>1. wr[s].units[u] = [units[u] EXCEPT !.occupied = ~free]
        BY <1>1, <2>0, <3>2 DEF HoldsUnits
      <4>2. units'[u] = wr[s].units[u]
        BY <1>1, <3>2, CommitEffect
      <4> QED
        BY <4>1, <4>2
    <3> QED
      BY <3>1, <3>2
  <2> HIDE DEF free
  <2> QED
    BY <1>1, <2>1, <2>3 DEF TypeOK
<1>5. CASE c.op = "activate"
  BY <1>1, <1>2, <1>3, <1>4, <1>5, CommitEffect DEF Lifecycle, ActivateLease
<1>6. CASE c.op = "terminate"
  BY <1>1, <1>2, <1>3, <1>4, <1>6, CommitEffect DEF Lifecycle, TerminateLease
<1> QED
  BY <1>5, <1>6 DEF LeaseOps

\* Every step of calls that do not overlap is a step of Leasing or invisible.
LEMMA AloneIsLeasing ==
    AloneShape /\ [OneAtATimeNext]_allVars => [Next]_vars
<1> SUFFICES ASSUME AloneShape, [OneAtATimeNext]_allVars PROVE [Next]_vars
  OBVIOUS
<1>1. ASSUME NEW s \in Sessions, Start(s) \/ Run(s) \/ Locking(s) \/ Rollback(s)
      PROVE  [Next]_vars
  <2>1. CASE ~Commit(s)
    BY <1>1, <2>1, QuietStep DEF AloneShape
  <2>2. CASE Commit(s)
    <3>1. /\ TxShape /\ Progress(s)
          /\ call[s].op \in LeaseOps \cup {"submit", "create", "approve", "reject"}
      <4>1. TxShape /\ TxTypeOK
        BY DEF AloneShape, TxShape
      <4>2. call[s] # Null
        BY <2>2, <4>1, CommitEffect
      <4>3. call[s].op \in Ops
        BY <4>1, <4>2, HeldTypes
      <4> QED
        BY <4>1, <4>2, <4>3 DEF AloneShape, Ops, RequestOps
    <3> QED
      BY <2>2, <3>1, CommitSubmit, CommitCreate, CommitReject, CommitApprove, CommitLease DEF Next
  <2> QED
    BY <2>1, <2>2
<1>2. CASE PortfolioTx
  BY <1>2 DEF PortfolioTx, Next
<1>3. CASE UNCHANGED allVars
  BY <1>3 DEF allVars
<1> QED
  BY <1>1, <1>2, <1>3 DEF OneAtATimeNext

LEMMA AloneInit == TxInit => AloneShape
BY TxShapeInit DEF TxInit, AloneShape

\* Statement by statement, with rollbacks anywhere, calls that do not overlap
\* do exactly what Leasing says in one step (get_db: one transaction per
\* call): what is proved of Leasing holds of the handlers as they run.
THEOREM OneAtATimeImplements == OneAtATimeSpec => ImplementsLeasing
<1>1. TxInit => Init
  BY DEF TxInit
<1> QED
  BY <1>1, AloneInit, AloneStep, AloneIsLeasing, PTL DEF OneAtATimeSpec, ImplementsLeasing, Spec
=============================================================================
