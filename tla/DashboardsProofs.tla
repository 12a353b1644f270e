-------------------------- MODULE DashboardsProofs --------------------------
(***************************************************************************)
(* Proofs about Dashboards, for any leases, requests, offers, properties   *)
(* and days, and any number of changes elsewhere: the types, that a page   *)
(* that has loaded shows nothing that was never so, and that its figures   *)
(* agree.                                                                  *)
(***************************************************************************)
EXTENDS Dashboards, FiniteSetTheorems, TLAPS

-----------------------------------------------------------------------------
(* Lists. The columns that a list fills.                                   *)

Columns(part) == CASE part = "properties" -> {"listed", "occupied"}
                   [] part = "units" -> {"occupied"}
                   [] part \in {"leases", "payments", "requests", "offers"} -> {part}

LEMMA NeedsAre ==
    /\ Needs("away") = {} /\ Needs("tenant") = {"leases", "payments", "requests"}
    /\ Needs("manager") = {"properties", "leases", "payments", "requests", "offers"}
    /\ Needs("owner") = {"properties", "leases", "payments", "requests", "offers"}
    /\ Needs("portfolio") = {"properties", "leases"} /\ Needs("buildings") = {"properties"}
    /\ Needs("building") = {"units", "leases"}
BY DEF Needs

\* No two lists of a page fill the same column.
LEMMA ColumnsApart ==
    ASSUME NEW view \in View, NEW p \in Needs(view), NEW q \in Needs(view)
    PROVE  /\ p \in Parts /\ Columns(p) \subseteq DOMAIN NoRows \ {"day"}
           /\ p # q => Columns(p) \cap Columns(q) = {}
<1>1. p \in Parts /\ q \in Parts
  BY NeedsAre DEF View, Parts
<1>2. DOMAIN NoRows = {"leases", "payments", "requests", "offers", "listed", "occupied", "day"}
  BY DEF NoRows
<1>3. /\ Columns("properties") = {"listed", "occupied"} /\ Columns("units") = {"occupied"}
      /\ Columns("leases") = {"leases"} /\ Columns("payments") = {"payments"}
      /\ Columns("requests") = {"requests"} /\ Columns("offers") = {"offers"}
  BY DEF Columns
<1>4. ~(p = "properties" /\ q = "units") /\ ~(q = "properties" /\ p = "units")
  BY NeedsAre DEF View
<1>5. Columns(p) \subseteq DOMAIN NoRows \ {"day"}
  BY <1>1, <1>2, <1>3 DEF Parts
<1>6. ASSUME p # q PROVE Columns(p) \cap Columns(q) = {}
  BY <1>1, <1>3, <1>4, <1>6 DEF Parts
<1> QED
  BY <1>1, <1>5, <1>6

LEMMA NoRowsTyped ==
    /\ NoRows \in Rows /\ NoRows.day = 0
    /\ \A o \in Offers : NoRows.offers[o] # "pending"
<1>1. NoRows \in Rows
  BY DEF NoRows, Rows, LeaseStatus, Unpaid0, PaymentStatus, RequestStatus, OfferStatus
<1> QED
  BY <1>1 DEF NoRows

\* What a list does to the rows a page has been given.
LEMMA ListFills ==
    ASSUME NEW view \in View, NEW part \in Needs(view), NEW tables \in Rows, NEW rows \in Rows
    PROVE  /\ List(part, view, tables, rows) \in Rows
           /\ \A column \in DOMAIN NoRows :
                 List(part, view, tables, rows)[column] =
                    IF column \in Columns(part) THEN AtOnce(view, tables)[column]
                    ELSE rows[column]
<1> DEFINE new == List(part, view, tables, rows)  first == List(part, view, tables, NoRows)
           fields == {"leases", "payments", "requests", "offers", "listed", "occupied", "day"}
<1>1. DOMAIN NoRows = fields /\ NoRows \in Rows
  BY NoRowsTyped DEF NoRows
<1>2. ASSUME NEW old \in Rows
      PROVE  /\ List(part, view, tables, old) \in Rows
             /\ \A column \in fields \ Columns(part) :
                   List(part, view, tables, old)[column] = old[column]
             /\ \A column \in Columns(part) :
                   List(part, view, tables, old)[column] = first[column]
  <2> DEFINE l2 == [l \in Leases |-> IF l \in Visible(view) THEN tables.leases[l] ELSE "none"]
             p2 == [l \in Leases |-> IF l \in Visible(view) THEN tables.payments[l] ELSE Unpaid0]
             r2 == [r \in Requests |-> IF r \in Visible(view) THEN tables.requests[r]
                                       ELSE NoRows.requests[r]]
             u2 == tables.occupied \cap UnitsOf(Building)
  <2>1. CASE part = "leases"
    <3>1. /\ List(part, view, tables, old) = [old EXCEPT !.leases = l2]
          /\ first = [NoRows EXCEPT !.leases = l2]
      BY <2>1 DEF List
    <3>2. l2 \in [Leases -> LeaseStatus]
      BY DEF Rows, LeaseStatus
    <3> HIDE DEF l2, first
    <3> QED
      BY <1>1, <2>1, <3>1, <3>2 DEF Rows, Columns
  <2>2. CASE part = "payments"
    <3>1. /\ List(part, view, tables, old) = [old EXCEPT !.payments = p2]
          /\ first = [NoRows EXCEPT !.payments = p2]
      BY <2>2 DEF List
    <3>2. p2 \in [Leases -> [status : PaymentStatus, on : Nat]]
      BY DEF Rows, PaymentStatus, Unpaid0
    <3> HIDE DEF p2, first
    <3> QED
      BY <1>1, <2>2, <3>1, <3>2 DEF Rows, Columns
  <2>3. CASE part = "requests"
    <3>1. /\ List(part, view, tables, old) = [old EXCEPT !.requests = r2]
          /\ first = [NoRows EXCEPT !.requests = r2]
      BY <2>3 DEF List
    <3>2. r2 \in [Requests -> [status : RequestStatus, updated : Int]]
      BY <1>1 DEF Rows
    <3> HIDE DEF r2, first
    <3> QED
      BY <1>1, <2>3, <3>1, <3>2 DEF Rows, Columns
  <2>4. CASE part = "offers"
    <3>1. /\ List(part, view, tables, old) = [old EXCEPT !.offers = tables.offers]
          /\ first = [NoRows EXCEPT !.offers = tables.offers]
      BY <2>4 DEF List
    <3> HIDE DEF first
    <3> QED
      BY <1>1, <2>4, <3>1 DEF Rows, Columns
  <2>5. CASE part = "properties"
    <3>1. /\ List(part, view, tables, old) =
                [old EXCEPT !.listed = tables.listed, !.occupied = tables.occupied]
          /\ first = [NoRows EXCEPT !.listed = tables.listed, !.occupied = tables.occupied]
      BY <2>5 DEF List
    <3> HIDE DEF first
    <3> QED
      BY <1>1, <2>5, <3>1 DEF Rows, Columns
  <2>6. CASE part = "units"
    <3>1. /\ List(part, view, tables, old) = [old EXCEPT !.occupied = u2]
          /\ first = [NoRows EXCEPT !.occupied = u2]
      BY <2>6 DEF List
    <3>2. u2 \in SUBSET Leases
      BY DEF Rows
    <3> HIDE DEF u2, first
    <3> QED
      BY <1>1, <2>6, <3>1, <3>2 DEF Rows, Columns
  <2> QED
    BY <2>1, <2>2, <2>3, <2>4, <2>5, <2>6, ColumnsApart DEF Parts
<1>3. \A column \in Columns(part) : AtOnce(view, tables)[column] = first[column]
  <2>1. part \in Parts /\ (part = "units" <=> part \in Parts /\ part = "units" /\ view = "building")
        /\ (part = "properties" => view # "building")
    BY NeedsAre, ColumnsApart DEF View, Parts
  <2> HIDE DEF first
  <2> QED
    BY <2>1 DEF AtOnce, Columns, Parts, first
<1> QED
  BY <1>1, <1>2, <1>3

-----------------------------------------------------------------------------
(* What happens elsewhere. A lease has a unit, so its property is listed,  *)
(* and nothing was paid on a day to come.                                  *)

Tables(rows) ==
    /\ rows \in Rows
    /\ \A l \in Leases : /\ rows.listed[Home[l]] > 0
                         /\ rows.payments[l].status = "paid" => rows.payments[l].on <= rows.day

Rest == <<page, load, data, error, form, create>>

LEMMA SomeLeaseSigned ==
    ASSUME Tables(db), NEW l \in Leases, ManagerSigns(l) \/ TenantSigns(l)
    PROVE  Tables(db') /\ db'.day = db.day /\ db'.offers = db.offers
<1>1. CASE ManagerSigns(l)
  <2> DEFINE new == [db.leases EXCEPT ![l] = "pending_tenant"]
  <2>1. db' = [db EXCEPT !.leases = new]
    BY <1>1 DEF ManagerSigns, Change, Tables, Rows
  <2>2. new \in [Leases -> LeaseStatus]
    BY DEF Tables, Rows, LeaseStatus
  <2> HIDE DEF new
  <2> QED
    BY <2>1, <2>2 DEF Tables, Rows
<1>2. CASE TenantSigns(l)
  <2> DEFINE new == [db.leases EXCEPT ![l] = "active"]
             let == db.occupied \cup {l}
             due == [db.payments EXCEPT ![l] = [status |-> "pending", on |-> 0]]
  <2>1. db' = [db EXCEPT !.leases = new, !.occupied = let, !.payments = due]
    BY <1>2 DEF TenantSigns, Change, Tables, Rows
  <2>2. new \in [Leases -> LeaseStatus] /\ let \in SUBSET Leases
    BY DEF Tables, Rows, LeaseStatus
  <2>3. due \in [Leases -> [status : PaymentStatus, on : Nat]]
    BY DEF Tables, Rows, PaymentStatus
  <2>4. \A k \in Leases : due[k].status = "paid" => due[k] = db.payments[k]
    BY DEF Tables, Rows
  <2> HIDE DEF new, let, due
  <2> QED
    BY <2>1, <2>2, <2>3, <2>4 DEF Tables, Rows
<1> QED
  BY <1>1, <1>2

LEMMA SomeRentPaid ==
    ASSUME Tables(db), NEW l \in Leases, Pays(l)
    PROVE  Tables(db') /\ db'.day = db.day /\ db'.offers = db.offers
<1> DEFINE new == [db.payments EXCEPT ![l] = [status |-> "paid", on |-> db.day]]
<1>1. db' = [db EXCEPT !.payments = new]
  BY DEF Pays, Change, Tables, Rows
<1>2. new \in [Leases -> [status : PaymentStatus, on : Nat]]
  BY DEF Tables, Rows, PaymentStatus
<1>3. \A k \in Leases : new[k] = db.payments[k] \/ new[k].on = db.day
  BY DEF Tables, Rows
<1>4. db.day \in Nat
  BY DEF Tables, Rows
<1> HIDE DEF new
<1> QED
  BY <1>1, <1>2, <1>3, <1>4 DEF Tables, Rows

LEMMA SomethingMoved ==
    ASSUME Tables(db), changes \in Nat, NEW r \in Requests, NEW s \in RequestStatus,
           MovesRequest(r, s)
    PROVE  Tables(db') /\ db'.day = db.day /\ db'.offers = db.offers
<1> DEFINE new == [db.requests EXCEPT ![r] = [status |-> s, updated |-> changes + 1]]
<1>1. db' = [db EXCEPT !.requests = new]
  BY DEF MovesRequest, Change, Tables, Rows
<1>2. new \in [Requests -> [status : RequestStatus, updated : Int]]
  BY DEF Tables, Rows
<1> HIDE DEF new
<1> QED
  BY <1>1, <1>2 DEF Tables, Rows

LEMMA SomeOfferAnswered ==
    ASSUME Tables(db), NEW o \in Offers, NEW s \in OfferStatus, AnswersOffer(o, s)
    PROVE  Tables(db') /\ db'.day = db.day
<1> DEFINE new == [db.offers EXCEPT ![o] = s]
<1>1. db' = [db EXCEPT !.offers = new]
  BY DEF AnswersOffer, Change, Tables, Rows
<1>2. new \in [Offers -> OfferStatus]
  BY DEF Tables, Rows
<1> HIDE DEF new
<1> QED
  BY <1>1, <1>2 DEF Tables, Rows

LEMMA SomePropertyListed ==
    ASSUME Tables(db), NEW p \in Properties, db' = [db EXCEPT !.listed[p] = 1]
    PROVE  Tables(db') /\ db'.day = db.day
<1> DEFINE new == [db.listed EXCEPT ![p] = 1]
<1>1. db' = [db EXCEPT !.listed = new]
  BY DEF Tables, Rows
<1>2. new \in [Properties -> Nat]
  BY DEF Tables, Rows
<1>3. \A l \in Leases : new[Home[l]] > 0
  BY SeedAssumption DEF Tables, Rows
<1> HIDE DEF new
<1> QED
  BY <1>1, <1>2, <1>3 DEF Tables, Rows

\* A change elsewhere leaves the tab alone, and the day only goes on.
LEMMA ElsewhereKeeps ==
    ASSUME Tables(db), changes \in 0 .. MaxChanges, Elsewhere
    PROVE  /\ Tables(db') /\ changes' \in 0 .. MaxChanges
           /\ db'.day = db.day \/ (db'.day > db.day /\ db'.payments = db.payments)
           /\ Remember /\ UNCHANGED Rest
<1>0. db.day \in Nat /\ MaxChanges \in Nat
  BY SeedAssumption DEF Tables, Rows
<1>1. CASE \E l \in Leases : ManagerSigns(l) \/ TenantSigns(l) \/ Pays(l)
  <2> PICK l \in Leases : ManagerSigns(l) \/ TenantSigns(l) \/ Pays(l)
    BY <1>1
  <2>1. Tables(db') /\ db'.day = db.day
    BY SomeLeaseSigned, SomeRentPaid
  <2> QED
    BY <1>0, <2>1 DEF ManagerSigns, TenantSigns, Pays, Change, Rest
<1>2. CASE \E r \in Requests, status \in RequestStatus : MovesRequest(r, status)
  <2> PICK r \in Requests, s \in RequestStatus : MovesRequest(r, s)
    BY <1>2
  <2>1. Tables(db') /\ db'.day = db.day
    BY <1>0, SomethingMoved
  <2> QED
    BY <1>0, <2>1 DEF MovesRequest, Change, Rest
<1>3. CASE \E o \in Offers, status \in OfferStatus : AnswersOffer(o, status)
  <2> PICK o \in Offers, s \in OfferStatus : AnswersOffer(o, s)
    BY <1>3
  <2>1. Tables(db') /\ db'.day = db.day
    BY SomeOfferAnswered
  <2> QED
    BY <1>0, <2>1 DEF AnswersOffer, Change, Rest
<1>4. CASE \E p \in Properties : ListsProperty(p)
  <2> PICK p \in Properties : ListsProperty(p)
    BY <1>4
  <2>1. Tables(db') /\ db'.day = db.day
    BY SomePropertyListed DEF ListsProperty, Change
  <2> QED
    BY <1>0, <2>1 DEF ListsProperty, Change, Rest
<1>5. CASE \E day \in Days : NightFalls(day)
  <2> PICK day \in Days : NightFalls(day)
    BY <1>5
  <2>1. day \in Nat /\ day > db.day /\ db' = [db EXCEPT !.day = day]
    BY SeedAssumption DEF NightFalls, Change
  <2>2. Tables(db') /\ db'.day > db.day /\ db'.payments = db.payments
    BY <1>0, <2>1 DEF Tables, Rows
  <2> QED
    BY <1>0, <2>2 DEF NightFalls, Change, Rest
<1> QED
  BY <1>1, <1>2, <1>3, <1>4, <1>5 DEF Elsewhere

LEMMA AtOnceTyped ==
    ASSUME NEW view \in View, NEW tables, Tables(tables)
    PROVE  /\ AtOnce(view, tables) \in Rows /\ AtOnce(view, tables).day = tables.day
           /\ \A l \in Leases : \/ AtOnce(view, tables).payments[l].status = "none"
                               \/ AtOnce(view, tables).payments[l] = tables.payments[l]
<1> DEFINE all == AtOnce(view, tables)
<1>1. /\ tables \in Rows /\ tables.day \in Nat /\ NoRows \in Rows
      /\ \A l \in Leases : NoRows.payments[l].status = "none"
  BY NoRowsTyped DEF Tables, Rows, NoRows, Unpaid0
<1>2. \A part \in Needs(view) : List(part, view, tables, NoRows) \in Rows
  BY <1>1, ListFills
<1>3. /\ all.leases \in {NoRows.leases, List("leases", view, tables, NoRows).leases}
      /\ all.payments \in {NoRows.payments, List("payments", view, tables, NoRows).payments}
      /\ all.requests \in {NoRows.requests, List("requests", view, tables, NoRows).requests}
      /\ all.offers \in {NoRows.offers, List("offers", view, tables, NoRows).offers}
      /\ all.listed \in {NoRows.listed, List("properties", view, tables, NoRows).listed}
      /\ all.day = tables.day
  BY DEF AtOnce
<1>4. all \in Rows
  BY <1>1, <1>2 DEF AtOnce, Rows
<1>5. \A l \in Leases :
         \/ all.payments[l].status = "none"
         \/ all.payments[l] = tables.payments[l]
  <2>1. "payments" \in Needs(view) =>
           List("payments", view, tables, NoRows).payments =
              [l \in Leases |-> IF l \in Visible(view) THEN tables.payments[l] ELSE Unpaid0]
    BY <1>1 DEF List, Rows
  <2>2. all.payments = IF "payments" \in Needs(view)
                       THEN List("payments", view, tables, NoRows).payments ELSE NoRows.payments
    BY DEF AtOnce
  <2> HIDE DEF all
  <2> QED
    BY <1>1, <2>1, <2>2 DEF Unpaid0
<1> HIDE DEF all
<1> QED
  BY <1>3, <1>4, <1>5 DEF all

-----------------------------------------------------------------------------
(* Types. A property that is being created has no unit, and its POST is    *)
(* awaited on the page of the manager's properties alone.                  *)

Creating ==
    /\ \A p \in Properties :
          /\ create[p] \in {"sent", "made"} => page = "buildings"
          /\ create[p] # "idle" => \A l \in Leases : Home[l] # p
    /\ form.open => page = "buildings"

NothingAhead ==
    \A l \in Leases : load.rows.payments[l].status = "paid" =>
                         load.rows.payments[l].on <= db.day

Shape == TypeOK /\ Tables(db) /\ NothingAhead /\ Creating

LEMMA InitShape == Init => Shape
<1> SUFFICES ASSUME Init PROVE Shape
  OBVIOUS
<1>1. /\ NoLoad \in [on : BOOLEAN, needs : SUBSET Needs("away"), rows : Rows]
      /\ \A l \in Leases : NoRows.payments[l].status = "none"
  BY NoRowsTyped DEF NoLoad, NoRows, Unpaid0
<1>2. TypeOK
  <2>1. /\ form \in Form /\ page \in View /\ 0 \in 0 .. MaxChanges
        /\ create \in [Properties -> {"idle", "sent", "made", "gone"}]
    BY SeedAssumption DEF Init, View, Form, Closed
  <2> QED
    BY <1>1, <2>1, NoRowsTyped, SeedAssumption DEF Init, TypeOK
<1>3. Tables(db) /\ NothingAhead /\ Creating
  BY <1>1, SeedAssumption DEF Init, Tables, NothingAhead, Creating, NoLoad, Closed
<1> QED
  BY <1>2, <1>3 DEF Shape

\* The tab by itself: what is said of the load, of the page and of its rows.
LEMMA TabKeepsShape ==
    ASSUME Shape,
           \/ \E view \in View : OpenPage(view)
           \/ LeavePage \/ Reload \/ GotLoad \/ LoadFailed
           \/ \E part \in Parts : HandlePart(part) \/ FailQuietly(part)
    PROVE  Shape'
<1>0. /\ load \in [on : BOOLEAN, needs : SUBSET Needs(page), rows : Rows]
      /\ NoLoad \in [on : BOOLEAN, needs : SUBSET {}, rows : Rows]
      /\ \A l \in Leases : NoLoad.rows.payments[l].status = "none"
      /\ page \in View /\ db.day \in Nat /\ "away" \in View
  BY NoRowsTyped DEF Shape, TypeOK, NoLoad, Tables, Rows, NoRows, Unpaid0, View
<1>1. CASE \E view \in View : OpenPage(view)
  <2> PICK view \in View : OpenPage(view)
    BY <1>1
  <2>1. /\ page' = view /\ load'.on /\ load'.rows = NoLoad.rows
        /\ load' \in [on : BOOLEAN, needs : SUBSET Needs(page'), rows : Rows]
    BY <1>0 DEF OpenPage
  <2>2. page = "away" /\ UNCHANGED <<db, changes, data, error, form, create>>
    BY DEF OpenPage
  <2> QED
    BY <1>0, <2>1, <2>2 DEF Shape, TypeOK, Tables, NothingAhead, Creating
<1>2. CASE LeavePage
  <2>1. /\ page' = "away" /\ load' = NoLoad /\ data' = NoRows /\ error' = FALSE
        /\ form' = Closed(FALSE) /\ UNCHANGED <<db, changes>>
    BY <1>2 DEF LeavePage
  <2>2. /\ create' \in [Properties -> {"idle", "sent", "made", "gone"}]
        /\ \A p \in Properties : /\ create'[p] \in {"idle", "gone"}
                                 /\ create'[p] = "gone" => create[p] # "idle"
    BY <1>2 DEF LeavePage, Shape, TypeOK
  <2>3. Closed(FALSE) \in Form /\ ~Closed(FALSE).open
    BY DEF Closed, Form
  <2> QED
    BY <1>0, <2>1, <2>2, <2>3, NoRowsTyped, NeedsAre
       DEF Shape, TypeOK, Tables, NothingAhead, Creating
<1>3. CASE Reload
  <2>1. /\ load'.on /\ load'.rows = NoLoad.rows
        /\ load' \in [on : BOOLEAN, needs : SUBSET Needs(page), rows : Rows]
    BY <1>0, <1>3 DEF Reload
  <2>2. UNCHANGED <<db, changes, page, data, error, form, create>>
    BY <1>3 DEF Reload
  <2> QED
    BY <1>0, <2>1, <2>2 DEF Shape, TypeOK, Tables, NothingAhead, Creating
<1>4. CASE GotLoad
  <2>1. data' \in Rows /\ error' = FALSE /\ load' = NoLoad
    BY <1>0, <1>4 DEF GotLoad, Rows
  <2>2. UNCHANGED <<db, changes, page, form, create>>
    BY <1>4 DEF GotLoad
  <2> QED
    BY <1>0, <2>1, <2>2 DEF Shape, TypeOK, Tables, NothingAhead, Creating
<1>5. CASE LoadFailed
  BY <1>0, <1>5 DEF LoadFailed, Shape, TypeOK, Tables, NothingAhead, Creating
<1>6. CASE \E part \in Parts : HandlePart(part)
  <2> PICK part \in Parts : HandlePart(part)
    BY <1>6
  <2> DEFINE got == List(part, page, db, load.rows)
  <2>1. /\ load.on /\ part \in Needs(page) /\ part \in load.needs
        /\ load' = [load EXCEPT !.needs = load.needs \ {part}, !.rows = got]
        /\ UNCHANGED <<db, changes, page, data, error, form, create>>
    BY <1>0 DEF HandlePart
  <2>2. /\ got \in Rows
        /\ got.payments = IF "payments" \in Columns(part) THEN AtOnce(page, db).payments
                          ELSE load.rows.payments
    BY <1>0, <2>1, ListFills DEF Shape, Tables, NoRows
  <2> HIDE DEF got
  <2>3. load' \in [on : BOOLEAN, needs : SUBSET Needs(page), rows : Rows] /\ load'.rows = got
    BY <1>0, <2>1, <2>2
  <2>4. NothingAhead'
    BY <1>0, <2>1, <2>2, <2>3, AtOnceTyped DEF Shape, Tables, NothingAhead
  <2> QED
    BY <2>1, <2>3, <2>4 DEF Shape, TypeOK, Tables, Creating
<1>7. CASE \E part \in Parts : FailQuietly(part)
  <2> PICK part \in Parts : FailQuietly(part)
    BY <1>7
  <2>1. /\ load'.rows = load.rows
        /\ load' \in [on : BOOLEAN, needs : SUBSET Needs(page), rows : Rows]
        /\ UNCHANGED <<db, changes, page, data, error, form, create>>
    BY <1>0 DEF FailQuietly
  <2> QED
    BY <2>1 DEF Shape, TypeOK, Tables, NothingAhead, Creating
<1> QED
  BY <1>1, <1>2, <1>3, <1>4, <1>5, <1>6, <1>7

\* The dialog. A property is created with no unit in it.
LEMMA FormKeepsShape ==
    ASSUME Shape,
           \/ OpenForm \/ CloseForm
           \/ \E ok \in BOOLEAN : GotOwners(ok)
           \/ \E p \in Properties : \/ SubmitProperty(p) \/ HandleCreate(p)
                                    \/ \E ok \in BOOLEAN : GotCreated(p, ok)
    PROVE  Shape'
<1>0. /\ form \in Form /\ \A b \in BOOLEAN : Closed(b) \in Form
      /\ create \in [Properties -> {"idle", "sent", "made", "gone"}]
      /\ form.owners \in BOOLEAN /\ Tables(db) /\ data \in Rows
  BY DEF Shape, TypeOK, Form, Closed
<1>1. CASE OpenForm \/ CloseForm \/ \E ok \in BOOLEAN : GotOwners(ok)
  <2>1. form' \in Form /\ (form'.open => page = "buildings" \/ form.open)
    BY <1>0, <1>1 DEF OpenForm, CloseForm, GotOwners, Form, Closed
  <2>2. UNCHANGED <<db, changes, page, load, data, error, create>>
    BY <1>1 DEF OpenForm, CloseForm, GotOwners
  <2> QED
    BY <2>1, <2>2 DEF Shape, TypeOK, Tables, NothingAhead, Creating
<1>2. CASE \E p \in Properties : SubmitProperty(p)
  <2> PICK p \in Properties : SubmitProperty(p)
    BY <1>2
  <2>1. /\ form' \in Form /\ create' = [create EXCEPT ![p] = "sent"]
        /\ db.listed[p] = 0 /\ form.open
        /\ UNCHANGED <<db, changes, page, load, data, error>>
    BY <1>0 DEF SubmitProperty, Form
  <2>2. \A l \in Leases : Home[l] # p
    BY <1>0, <2>1 DEF Tables
  <2> QED
    BY <1>0, <2>1, <2>2 DEF Shape, TypeOK, Tables, NothingAhead, Creating
<1>3. CASE \E p \in Properties : HandleCreate(p)
  <2> PICK p \in Properties : HandleCreate(p)
    BY <1>3
  <2>1. Tables(db') /\ db'.day = db.day /\ UNCHANGED <<changes, page, load, data, error, form>>
    BY <1>0, SomePropertyListed DEF HandleCreate
  <2>2. /\ create' \in [Properties -> {"idle", "sent", "made", "gone"}]
        /\ \A q \in Properties :
              \/ create'[q] = create[q] \/ create'[q] = "idle"
              \/ create'[q] = "made" /\ create[q] = "sent"
    BY <1>0 DEF HandleCreate
  <2> QED
    BY <2>1, <2>2 DEF Shape, TypeOK, Tables, NothingAhead, Creating
<1>4. CASE \E p \in Properties, ok \in BOOLEAN : GotCreated(p, ok)
  <2> PICK p \in Properties, ok \in BOOLEAN : GotCreated(p, ok)
    BY <1>4
  <2> DEFINE listed == [data.listed EXCEPT ![p] = data.listed[p] + 1]
  <2>1. data' = data \/ data' = [data EXCEPT !.listed = listed]
    BY <1>0 DEF GotCreated, Rows
  <2>2. listed \in [Properties -> Nat]
    BY <1>0 DEF Rows
  <2> HIDE DEF listed
  <2>3. data' \in Rows
    BY <1>0, <2>1, <2>2 DEF Rows
  <2>4. form' \in Form /\ (form'.open => form.open)
    BY <1>0 DEF GotCreated, Form, Closed
  <2>5. /\ create' = [create EXCEPT ![p] = "idle"]
        /\ UNCHANGED <<db, changes, page, load, error>>
    BY DEF GotCreated
  <2> QED
    BY <1>0, <2>3, <2>4, <2>5 DEF Shape, TypeOK, Tables, NothingAhead, Creating
<1> QED
  BY <1>1, <1>2, <1>3, <1>4

LEMMA ElsewhereKeepsShape == ASSUME Shape, Elsewhere PROVE Shape'
<1>1. /\ Tables(db') /\ changes' \in 0 .. MaxChanges /\ db'.day >= db.day
      /\ UNCHANGED Rest /\ db.day \in Nat /\ db'.day \in Nat
  BY ElsewhereKeeps DEF Shape, TypeOK, Tables, Rows
<1>2. \A l \in Leases : load.rows.payments[l].on \in Nat
  BY DEF Shape, TypeOK, Rows
<1>3. NothingAhead'
  BY <1>1, <1>2 DEF Shape, NothingAhead, Rest
<1> QED
  BY <1>1, <1>3 DEF Shape, TypeOK, Tables, Creating, Rest

LEMMA NextShape == Shape /\ [Next]_vars => Shape'
<1> SUFFICES ASSUME Shape, [Next]_vars PROVE Shape'
  OBVIOUS
<1>1. CASE UNCHANGED vars
  BY <1>1 DEF vars, Shape, TypeOK, Tables, NothingAhead, Creating
<1>2. CASE Next
  BY <1>2, TabKeepsShape, FormKeepsShape, ElsewhereKeepsShape DEF Next
<1> QED
  BY <1>1, <1>2

(***************************************************************************)
(* The tables, the rows of a load in flight and the rows on the page have  *)
(* their types at all times, and a load only waits for lists the page asks *)
(* for: an answer that comes after the page was left finds no load.        *)
(***************************************************************************)
THEOREM ShapeCorrect == Spec => []TypeOK
<1>1. Spec => []Shape
  BY InitShape, NextShape, PTL DEF Spec
<1> QED
  BY <1>1, PTL DEF Shape

-----------------------------------------------------------------------------
(* Cards. Each card of a page is computed from one of its lists, and what  *)
(* the page says by a card is what it would say by any rows that have the  *)
(* same list.                                                              *)

Cards(view) ==
    CASE view = "tenant" -> {"lease", "toSign", "due", "open", "recent"}
      [] view = "manager" ->
            {"properties", "occupancy", "open", "escalated", "overdue", "queue", "payments"}
      [] view = "owner" ->
            {"bars", "occupancy", "vacant", "mrr", "ytd", "overdue", "open", "escalated",
             "paymentMix", "maintenanceMix"}
      [] view = "portfolio" -> {"bars", "occupancy", "vacant", "mrr"}
      [] view = "buildings" -> {"units", "occupied"}
      [] view = "building" -> {"occupied", "vacant", "leases"}

Source(view, card) ==
    CASE card \in {"occupied", "vacant"} /\ view = "building" -> "units"
      [] card \in {"properties", "bars", "occupancy", "vacant", "units", "occupied"}
         /\ view # "building" -> "properties"
      [] card \in {"lease", "toSign", "mrr", "leases"} -> "leases"
      [] card \in {"due", "overdue", "payments", "ytd", "paymentMix"} -> "payments"
      [] card \in {"open", "escalated", "recent", "queue", "maintenanceMix"} -> "requests"

LEMMA CardsAre ==
    /\ Cards("tenant") = {"lease", "toSign", "due", "open", "recent"}
    /\ Cards("manager") =
          {"properties", "occupancy", "open", "escalated", "overdue", "queue", "payments"}
    /\ Cards("owner") =
          {"bars", "occupancy", "vacant", "mrr", "ytd", "overdue", "open", "escalated",
           "paymentMix", "maintenanceMix"}
    /\ Cards("portfolio") = {"bars", "occupancy", "vacant", "mrr"}
    /\ Cards("buildings") = {"units", "occupied"}
    /\ Cards("building") = {"occupied", "vacant", "leases"}
BY DEF Cards

LEMMA ShowsAre ==
    ASSUME NEW rows
    PROVE  /\ PageShows("tenant", rows) = TenantShows(rows)
           /\ PageShows("manager", rows) = ManagerShows(rows)
           /\ PageShows("owner", rows) = OwnerShows(rows)
           /\ PageShows("portfolio", rows) = PortfolioShows(rows)
           /\ PageShows("buildings", rows) = BuildingsShow(rows)
           /\ PageShows("building", rows) = BuildingShows(rows)
BY DEF PageShows

\* What a page says: a card each, and the offers that await an answer.
LEMMA StatementsAre ==
    ASSUME NEW view \in View \ {"away"}, NEW rows
    PROVE  Statements(view, rows) =
              {<<card, PageShows(view, rows)[card]>> : card \in Cards(view)}
                 \cup {<<"offer", o>> : o \in {x \in Offers : rows.offers[x] = "pending"}}
<1>1. DOMAIN PageShows(view, rows) = Cards(view)
  <2>1. /\ DOMAIN TenantShows(rows) = Cards("tenant")
        /\ DOMAIN ManagerShows(rows) = Cards("manager")
        /\ DOMAIN OwnerShows(rows) = Cards("owner")
        /\ DOMAIN PortfolioShows(rows) = Cards("portfolio")
        /\ DOMAIN BuildingsShow(rows) = Cards("buildings")
        /\ DOMAIN BuildingShows(rows) = Cards("building")
    BY CardsAre DEF TenantShows, ManagerShows, OwnerShows, PortfolioShows, BuildingsShow,
                    BuildingShows
  <2> QED
    BY <2>1, ShowsAre DEF View
<1> QED
  BY <1>1 DEF Statements

LEMMA SourceListed ==
    ASSUME NEW view \in View \ {"away"}, NEW card \in Cards(view)
    PROVE  Source(view, card) \in Needs(view) \ Quiet
BY CardsAre, NeedsAre DEF View, Source, Quiet

LEMMA SameLeases ==
    ASSUME NEW a, NEW b, a.leases = b.leases
    PROVE  /\ Active(a) = Active(b) /\ lease(a) = lease(b)
           /\ pendingLease(a) = pendingLease(b)
<1>1. Active(a) = Active(b)
  BY DEF Active
<1>2. lease(a) = lease(b)
  BY <1>1 DEF lease
<1>3. pendingLease(a) = pendingLease(b)
  BY DEF pendingLease
<1> QED
  BY <1>1, <1>2, <1>3

LEMMA SamePayments ==
    ASSUME NEW a, NEW b, a.payments = b.payments
    PROVE  /\ \A s : Invoices(a, s) = Invoices(b, s)
           /\ nextDue(a) = nextDue(b) /\ paymentsQueue(a) = paymentsQueue(b)
           /\ paymentMix(a) = paymentMix(b)
           /\ a.day = b.day => ytd(a) = ytd(b)
<1>1. \A s : Invoices(a, s) = Invoices(b, s)
  BY DEF Invoices
<1>2. nextDue(a) = nextDue(b)
  BY <1>1 DEF nextDue
<1>3. paymentsQueue(a) = paymentsQueue(b)
  BY <1>1 DEF paymentsQueue
<1>4. paymentMix(a) = paymentMix(b)
  BY <1>1 DEF paymentMix
<1>5. a.day = b.day => ytd(a) = ytd(b)
  BY <1>1 DEF ytd
<1> QED
  BY <1>1, <1>2, <1>3, <1>4, <1>5

LEMMA SameRequests ==
    ASSUME NEW a, NEW b, a.requests = b.requests
    PROVE  /\ Open(a) = Open(b) /\ queue(a) = queue(b)
           /\ maintenanceMix(a) = maintenanceMix(b) /\ recentRequests(a) = recentRequests(b)
<1>1. Open(a) = Open(b)
  BY DEF Open
<1>2. queue(a) = queue(b)
  BY <1>1 DEF queue
<1>3. maintenanceMix(a) = maintenanceMix(b)
  BY DEF maintenanceMix
<1>4. recentRequests(a) = recentRequests(b)
  BY DEF recentRequests
<1> QED
  BY <1>1, <1>2, <1>3, <1>4

\* A card of a property that no lease has a unit in adds no unit.
LEMMA SameUnits ==
    ASSUME NEW a, NEW b, a.occupied = b.occupied,
           \A l \in Leases : a.listed[Home[l]] = b.listed[Home[l]]
    PROVE  /\ totalUnits(a) = totalUnits(b) /\ occupied(a) = occupied(b)
           /\ occupancyPct(a) = occupancyPct(b)
<1>1. Units(a) = Units(b)
  BY DEF Units
<1>2. totalUnits(a) = totalUnits(b)
  BY <1>1 DEF totalUnits
<1>3. occupied(a) = occupied(b)
  BY <1>1 DEF occupied
<1> QED
  BY <1>2, <1>3 DEF occupancyPct

LEMMA SameProperties ==
    ASSUME NEW a, NEW b, a.occupied = b.occupied, a.listed = b.listed
    PROVE  /\ totalUnits(a) = totalUnits(b) /\ occupied(a) = occupied(b)
           /\ occupancyPct(a) = occupancyPct(b)
           /\ occupancyByProperty(a) = occupancyByProperty(b)
<1>1. occupancyByProperty(a) = occupancyByProperty(b)
  BY DEF occupancyByProperty
<1> QED
  BY <1>1, SameUnits

LEMMA SameCard ==
    ASSUME NEW view \in View \ {"away"}, NEW card \in Cards(view), NEW a, NEW b,
           \A column \in Columns(Source(view, card)) : a[column] = b[column],
           card = "ytd" => a.day = b.day
    PROVE  PageShows(view, a)[card] = PageShows(view, b)[card]
<1>0. /\ Columns("properties") = {"listed", "occupied"} /\ Columns("units") = {"occupied"}
      /\ Columns("leases") = {"leases"} /\ Columns("payments") = {"payments"}
      /\ Columns("requests") = {"requests"}
  BY DEF Columns
<1>1. card \in {"lease", "toSign", "mrr", "leases"} =>
         Active(a) = Active(b) /\ lease(a) = lease(b) /\ pendingLease(a) = pendingLease(b)
  BY <1>0, SameLeases DEF Source
<1>2. card \in {"due", "overdue", "payments", "ytd", "paymentMix"} =>
         /\ nextDue(a) = nextDue(b) /\ paymentsQueue(a) = paymentsQueue(b)
         /\ Invoices(a, {"overdue"}) = Invoices(b, {"overdue"})
         /\ paymentMix(a) = paymentMix(b) /\ (card = "ytd" => ytd(a) = ytd(b))
  BY <1>0, SamePayments DEF Source
<1>3. card \in {"open", "escalated", "recent", "queue", "maintenanceMix"} =>
         /\ Open(a) = Open(b) /\ queue(a) = queue(b) /\ maintenanceMix(a) = maintenanceMix(b)
         /\ recentRequests(a) = recentRequests(b)
  BY <1>0, SameRequests DEF Source
<1>4. card \in {"properties", "bars", "occupancy", "vacant", "units", "occupied"}
      /\ view # "building" =>
         /\ totalUnits(a) = totalUnits(b) /\ occupied(a) = occupied(b)
         /\ occupancyPct(a) = occupancyPct(b)
         /\ occupancyByProperty(a) = occupancyByProperty(b)
  BY <1>0, SameProperties DEF Source
<1>5. card \in {"occupied", "vacant"} /\ view = "building" => a.occupied = b.occupied
  BY <1>0 DEF Source
<1>6. CASE view = "tenant"
  <2>1. TenantShows(a)[card] = TenantShows(b)[card]
    <3>1. \A rows : /\ TenantShows(rows)["lease"] = lease(rows)
                    /\ TenantShows(rows)["due"] = nextDue(rows)
                    /\ TenantShows(rows)["open"] = Open(rows)
                    /\ TenantShows(rows)["toSign"] = pendingLease(rows)
                    /\ TenantShows(rows)["recent"] = recentRequests(rows)
      BY DEF TenantShows
    <3> QED
      BY <1>1, <1>2, <1>3, <1>6, <3>1, CardsAre
  <2> QED
    BY <1>6, <2>1, ShowsAre
<1>7. CASE view = "manager"
  <2>1. ManagerShows(a)[card] = ManagerShows(b)[card]
    <3>1. \A rows : /\ ManagerShows(rows)["properties"] = occupancyByProperty(rows)
                    /\ ManagerShows(rows)["occupancy"] = occupancyPct(rows)
                    /\ ManagerShows(rows)["open"] = Open(rows)
                    /\ ManagerShows(rows)["escalated"] = Open(rows) \cap Escalated
                    /\ ManagerShows(rows)["overdue"] = Invoices(rows, {"overdue"})
                    /\ ManagerShows(rows)["queue"] = queue(rows)
                    /\ ManagerShows(rows)["payments"] = paymentsQueue(rows)
      BY DEF ManagerShows
    <3> QED
      BY <1>2, <1>3, <1>4, <1>7, <3>1, CardsAre
  <2> QED
    BY <1>7, <2>1, ShowsAre
<1>8. CASE view = "owner"
  <2>1. OwnerShows(a)[card] = OwnerShows(b)[card]
    <3>1. \A rows : /\ OwnerShows(rows)["bars"] = occupancyByProperty(rows)
                    /\ OwnerShows(rows)["occupancy"] = occupancyPct(rows)
                    /\ OwnerShows(rows)["vacant"] = totalUnits(rows) - occupied(rows)
                    /\ OwnerShows(rows)["mrr"] = Active(rows)
                    /\ OwnerShows(rows)["ytd"] = ytd(rows)
                    /\ OwnerShows(rows)["overdue"] = Invoices(rows, {"overdue"})
                    /\ OwnerShows(rows)["open"] = Open(rows)
                    /\ OwnerShows(rows)["escalated"] = Open(rows) \cap Escalated
                    /\ OwnerShows(rows)["paymentMix"] = paymentMix(rows)
                    /\ OwnerShows(rows)["maintenanceMix"] = maintenanceMix(rows)
      BY DEF OwnerShows
    <3>2. card \in {"bars", "occupancy", "vacant", "mrr"}
             => OwnerShows(a)[card] = OwnerShows(b)[card]
      BY <1>1, <1>4, <1>8, <3>1
    <3>3. card \in {"ytd", "overdue", "paymentMix"}
             => OwnerShows(a)[card] = OwnerShows(b)[card]
      BY <1>2, <3>1
    <3>4. card \in {"open", "escalated", "maintenanceMix"}
             => OwnerShows(a)[card] = OwnerShows(b)[card]
      BY <1>3, <3>1
    <3> QED
      BY <1>8, <3>2, <3>3, <3>4, CardsAre
  <2> QED
    BY <1>8, <2>1, ShowsAre
<1>9. CASE view = "portfolio"
  <2>1. PortfolioShows(a)[card] = PortfolioShows(b)[card]
    <3>1. \A rows : /\ PortfolioShows(rows)["bars"] = occupancyByProperty(rows)
                    /\ PortfolioShows(rows)["occupancy"] = occupancyPct(rows)
                    /\ PortfolioShows(rows)["vacant"] = totalUnits(rows) - occupied(rows)
                    /\ PortfolioShows(rows)["mrr"] = Active(rows)
      BY DEF PortfolioShows
    <3> QED
      BY <1>1, <1>4, <1>9, <3>1, CardsAre
  <2> QED
    BY <1>9, <2>1, ShowsAre
<1>10. CASE view = "buildings"
  <2>1. BuildingsShow(a)[card] = BuildingsShow(b)[card]
    BY <1>4, <1>10, CardsAre DEF BuildingsShow
  <2> QED
    BY <1>10, <2>1, ShowsAre
<1>11. CASE view = "building"
  <2>1. BuildingShows(a)[card] = BuildingShows(b)[card]
    <3>1. \A rows : /\ BuildingShows(rows)["occupied"] = rows.occupied
                    /\ BuildingShows(rows)["vacant"] = UnitsOf(Building) \ rows.occupied
                    /\ BuildingShows(rows)["leases"] = Active(rows) \cap UnitsOf(Building)
      BY DEF BuildingShows
    <3>2. CASE card = "leases"
      BY <1>1, <3>1, <3>2
    <3>3. CASE card \in {"occupied", "vacant"}
      <4>1. a.occupied = b.occupied
        BY <1>5, <1>11, <3>3
      <4> QED
        BY <3>1, <3>3, <4>1
    <3> QED
      BY <1>11, <3>2, <3>3, CardsAre
  <2> QED
    BY <1>11, <2>1, ShowsAre
<1> QED
  BY <1>6, <1>7, <1>8, <1>9, <1>10, <1>11 DEF View

-----------------------------------------------------------------------------
(* What a page says. At any time it could say what is so now, and what it  *)
(* has been given so far was so.                                           *)

Known == page # "away" => Statements(page, AtOnce(page, db)) \subseteq held

Dated(rows, day) == [rows EXCEPT !.day = day]

Shown(card) == <<card, PageShows(page, Dated(load.rows, db.day))[card]>>

Loading ==
    page # "away" /\ load.on =>
        /\ \A card \in Cards(page) : Source(page, card) \notin load.needs => Shown(card) \in held
        /\ \A o \in Offers : load.rows.offers[o] = "pending" => <<"offer", o>> \in held

Honest == Known /\ Loading /\ SaidWasSo

LEMMA Contents ==
    ASSUME NEW view \in View \ {"away"}, NEW rows, NEW seen
    PROVE  Statements(view, rows) \subseteq seen <=>
              /\ \A card \in Cards(view) : <<card, PageShows(view, rows)[card]>> \in seen
              /\ \A o \in Offers : rows.offers[o] = "pending" => <<"offer", o>> \in seen
BY StatementsAre

LEMMA DatedIs ==
    ASSUME NEW rows \in Rows, NEW day
    PROVE  /\ Dated(rows, day).day = day /\ Dated(rows, day).offers = rows.offers
           /\ Dated(rows, day).payments = rows.payments
           /\ \A column \in DOMAIN NoRows \ {"day"} : Dated(rows, day)[column] = rows[column]
BY DEF Dated, Rows, NoRows

LEMMA InitHonest == Init => Honest
BY DEF Init, Honest, Known, Loading, SaidWasSo

LEMMA OpeningHonest ==
    ASSUME Shape, Honest, (\E view \in View : OpenPage(view)) \/ LeavePage \/ Reload
    PROVE  Honest'
<1>1. CASE \E view \in View : OpenPage(view)
  <2> PICK view \in View : OpenPage(view)
    BY <1>1
  <2>1. /\ view # "away" /\ page' = view /\ load'.on /\ load'.needs = Needs(view)
        /\ load'.rows = NoRows /\ db' = db /\ held' = Statements(view, AtOnce(view, db))
    BY DEF OpenPage, NoLoad
  <2> QED
    BY <2>1, SourceListed, NoRowsTyped DEF Honest, Known, Loading, SaidWasSo
<1>2. CASE LeavePage
  BY <1>2 DEF LeavePage, Honest, Known, Loading, SaidWasSo
<1>3. CASE Reload
  <2>1. /\ page = "portfolio" /\ page' = page /\ load'.on /\ load'.needs = Needs(page)
        /\ load'.rows = NoRows /\ db' = db /\ held' = held
    BY <1>3 DEF Reload, NoLoad
  <2> QED
    BY <2>1, SourceListed, NoRowsTyped DEF Honest, Known, Loading, SaidWasSo, View
<1> QED
  BY <1>1, <1>2, <1>3

\* An answer brings what is so now, and nothing else changes on the page.
LEMMA AnswerHonest ==
    ASSUME Shape, Honest, NEW part \in Parts, HandlePart(part)
    PROVE  Honest'
<1> DEFINE got == List(part, page, db, load.rows)  all == AtOnce(page, db)
<1>1. /\ load \in [on : BOOLEAN, needs : SUBSET Needs(page), rows : Rows]
      /\ page \in View /\ db \in Rows
  BY DEF Shape, TypeOK
<1>2. /\ load.on /\ part \in Needs(page) /\ part \in load.needs
      /\ load' = [load EXCEPT !.needs = load.needs \ {part}, !.rows = got]
      /\ UNCHANGED <<db, changes, page, data, error, form, create, held>>
  BY <1>1 DEF HandlePart
<1>3. page \in View \ {"away"}
  BY <1>1, <1>2, NeedsAre
<1>4. /\ got \in Rows /\ all \in Rows /\ all.day = db.day
      /\ \A column \in DOMAIN NoRows :
            got[column] = IF column \in Columns(part) THEN all[column] ELSE load.rows[column]
  BY <1>1, <1>2, ListFills, AtOnceTyped DEF Shape
<1> HIDE DEF got, all
<1>5. load'.on /\ load'.needs = load.needs \ {part} /\ load'.rows = got
  BY <1>1, <1>2, <1>4
<1>6. ASSUME NEW card \in Cards(page), Source(page, card) \notin load'.needs
      PROVE  Shown(card)' \in held'
  <2> DEFINE source == Source(page, card)
  <2>0. source \in Needs(page) /\ Columns(source) \subseteq DOMAIN NoRows \ {"day"}
    BY <1>3, SourceListed, ColumnsApart
  <2>1. CASE source = part
    <3>1. <<card, PageShows(page, all)[card]>> \in held
      BY <1>3, Contents DEF Honest, Known, all
    <3>2. \A column \in Columns(source) : Dated(got, db.day)[column] = all[column]
      BY <1>4, <2>0, <2>1, DatedIs
    <3>3. Dated(got, db.day).day = all.day
      BY <1>4, DatedIs
    <3>4. PageShows(page, Dated(got, db.day))[card] = PageShows(page, all)[card]
      BY <1>3, <3>2, <3>3, SameCard
    <3> QED
      BY <1>2, <1>5, <3>1, <3>4 DEF Shown
  <2>2. CASE source # part
    <3>1. Shown(card) \in held
      BY <1>2, <1>3, <1>5, <1>6, <2>2 DEF Honest, Loading
    <3>2. Columns(source) \cap Columns(part) = {}
      BY <1>2, <1>3, <2>0, <2>2, ColumnsApart
    <3>3. \A column \in Columns(source) :
             Dated(got, db.day)[column] = Dated(load.rows, db.day)[column]
      BY <1>1, <1>4, <2>0, <3>2, DatedIs
    <3>4. Dated(got, db.day).day = Dated(load.rows, db.day).day
      BY <1>1, <1>4, DatedIs
    <3>5. PageShows(page, Dated(got, db.day))[card] =
             PageShows(page, Dated(load.rows, db.day))[card]
      BY <1>3, <3>3, <3>4, SameCard
    <3> QED
      BY <1>2, <1>5, <3>1, <3>5 DEF Shown
  <2> QED
    BY <2>1, <2>2
<1>7. ASSUME NEW o \in Offers, got.offers[o] = "pending" PROVE <<"offer", o>> \in held
  <2>1. "offers" \in DOMAIN NoRows
    BY DEF NoRows
  <2>2. got.offers = all.offers \/ got.offers = load.rows.offers
    BY <1>4, <2>1
  <2>3. all.offers[o] = "pending" => <<"offer", o>> \in held
    BY <1>3, Contents DEF Honest, Known, all
  <2> QED
    BY <1>2, <1>3, <1>7, <2>2, <2>3 DEF Honest, Loading
<1>8. Known' /\ SaidWasSo'
  BY <1>2, <1>5 DEF Honest, Known, SaidWasSo
<1> QED
  BY <1>2, <1>5, <1>6, <1>7, <1>8 DEF Honest, Loading

\* A call that fails quietly is no card's source.
LEMMA LoadEndsHonest ==
    ASSUME Shape, Honest, GotLoad \/ LoadFailed \/ \E part \in Parts : FailQuietly(part)
    PROVE  Honest'
<1>1. /\ load \in [on : BOOLEAN, needs : SUBSET Needs(page), rows : Rows]
      /\ page \in View
  BY DEF Shape, TypeOK
<1>2. CASE GotLoad
  <2>1. /\ load.on /\ load.needs = {} /\ data' = Dated(load.rows, db.day) /\ ~load'.on
        /\ UNCHANGED <<db, page, held>>
    BY <1>2 DEF GotLoad, NoLoad, Dated
  <2>2. Known' /\ Loading'
    BY <2>1 DEF Honest, Known, Loading
  <2>3. ASSUME page # "away" PROVE Statements(page, data') \subseteq held
    <3>1. \A card \in Cards(page) : <<card, PageShows(page, data')[card]>> \in held
      BY <2>1, <2>3 DEF Honest, Loading, Shown
    <3>2. \A o \in Offers : data'.offers[o] = "pending" => <<"offer", o>> \in held
      BY <1>1, <2>1, <2>3, DatedIs DEF Honest, Loading
    <3> QED
      BY <1>1, <2>3, <3>1, <3>2, Contents
  <2> QED
    BY <2>1, <2>2, <2>3 DEF Honest, SaidWasSo
<1>3. CASE LoadFailed
  BY <1>3 DEF LoadFailed, NoLoad, Honest, Known, Loading, SaidWasSo
<1>4. CASE \E part \in Parts : FailQuietly(part)
  <2> PICK part \in Parts : FailQuietly(part)
    BY <1>4
  <2>1. /\ load.on /\ part \in load.needs /\ part \in Quiet
        /\ load'.on /\ load'.needs = load.needs \ {part} /\ load'.rows = load.rows
        /\ UNCHANGED <<db, page, data, error, held>>
    BY <1>1 DEF FailQuietly
  <2>2. page \in View \ {"away"}
    BY <1>1, <2>1, NeedsAre
  <2>3. \A card \in Cards(page) : Source(page, card) # part
    BY <2>1, <2>2, SourceListed
  <2> QED
    BY <2>1, <2>3 DEF Honest, Known, Loading, SaidWasSo, Shown
<1> QED
  BY <1>2, <1>3, <1>4

\* The dialog: the card it adds is of a property without units.
LEMMA FormHonest ==
    ASSUME Shape, Honest,
           \/ OpenForm \/ CloseForm
           \/ \E ok \in BOOLEAN : GotOwners(ok)
           \/ \E p \in Properties : \/ SubmitProperty(p) \/ HandleCreate(p)
                                    \/ \E ok \in BOOLEAN : GotCreated(p, ok)
    PROVE  Honest'
<1>1. CASE \/ OpenForm \/ CloseForm \/ \E ok \in BOOLEAN : GotOwners(ok)
           \/ \E p \in Properties : SubmitProperty(p)
  <2>1. UNCHANGED <<db, page, load, data, error, held>>
    BY <1>1 DEF OpenForm, CloseForm, GotOwners, SubmitProperty
  <2> QED
    BY <2>1 DEF Honest, Known, Loading, SaidWasSo, Shown
<1>2. CASE \E p \in Properties : HandleCreate(p)
  <2> PICK p \in Properties : HandleCreate(p)
    BY <1>2
  <2>1. db'.day = db.day /\ Remember /\ UNCHANGED <<page, load, data, error>>
    BY SomePropertyListed DEF HandleCreate, Shape
  <2> QED
    BY <2>1 DEF Honest, Known, Loading, SaidWasSo, Shown, Remember
<1>3. CASE \E p \in Properties, ok \in BOOLEAN : GotCreated(p, ok)
  <2> PICK p \in Properties, ok \in BOOLEAN : GotCreated(p, ok)
    BY <1>3
  <2> DEFINE listed == [data.listed EXCEPT ![p] = data.listed[p] + 1]
  <2>1. /\ page = "buildings" /\ (\A l \in Leases : Home[l] # p)
        /\ data' = data \/ data' = [data EXCEPT !.listed = listed]
        /\ UNCHANGED <<db, page, load, error, held>> /\ data \in Rows
    BY DEF GotCreated, Shape, TypeOK, Creating, Rows
  <2>2. \A l \in Leases : listed[Home[l]] = data.listed[Home[l]]
    BY <2>1, SeedAssumption DEF Rows
  <2> HIDE DEF listed
  <2>3. /\ data'.occupied = data.occupied /\ data'.offers = data.offers
        /\ \A l \in Leases : data'.listed[Home[l]] = data.listed[Home[l]]
    BY <2>1, <2>2 DEF Rows
  <2>4. PageShows(page, data') = PageShows(page, data)
    <3>1. totalUnits(data') = totalUnits(data) /\ occupied(data') = occupied(data)
      BY <2>3, SameUnits
    <3>2. BuildingsShow(data') = BuildingsShow(data)
      BY <3>1 DEF BuildingsShow
    <3> QED
      BY <2>1, <3>2, ShowsAre
  <2>5. Statements(page, data) \subseteq held => Statements(page, data') \subseteq held
    <3>1. page \in View \ {"away"}
      BY <2>1 DEF View
    <3> QED
      BY <2>3, <2>4, <3>1, Contents
  <2> QED
    BY <2>1, <2>5 DEF Honest, Known, Loading, SaidWasSo, Shown
<1> QED
  BY <1>1, <1>2, <1>3

LEMMA YearTurns ==
    ASSUME NEW d \in Nat, NEW e \in Nat, e > d
    PROVE  YearStart(e) = YearStart(d) \/ YearStart(e) > d
BY DEF YearStart

\* When the year turns, nothing is paid in the new one yet.
LEMMA NightHonest ==
    ASSUME Shape, Honest, Tables(db'), db'.day > db.day, db'.payments = db.payments,
           Known', UNCHANGED <<page, load>>, held \subseteq held',
           page = "owner", load.on, "payments" \notin load.needs
    PROVE  Shown("ytd")' \in held'
<1> DEFINE now == Dated(load.rows, db'.day)  before == Dated(load.rows, db.day)
           all == AtOnce(page, db')
<1>1. /\ db.day \in Nat /\ db'.day \in Nat /\ load.rows \in Rows /\ page \in View \ {"away"}
      /\ \A l \in Leases : load.rows.payments[l].on \in Nat /\ db.payments[l].on \in Nat
  BY DEF Shape, TypeOK, Tables, Rows, View
<1>2. /\ now.payments = load.rows.payments /\ now.day = db'.day
      /\ before.payments = load.rows.payments /\ before.day = db.day
  BY <1>1, DatedIs
<1>3. \A rows : PageShows(page, rows)["ytd"] = ytd(rows)
  BY ShowsAre DEF OwnerShows
<1>4. "ytd" \in Cards(page) /\ Source(page, "ytd") = "payments"
  BY CardsAre DEF Source
<1>5. CASE YearStart(db'.day) = YearStart(db.day)
  <2>1. ytd(now) = ytd(before)
    BY <1>2, <1>5 DEF ytd, Invoices
  <2>2. <<"ytd", ytd(before)>> \in held
    BY <1>1, <1>3, <1>4 DEF Honest, Loading, Shown
  <2> QED
    BY <1>3, <2>1, <2>2 DEF Shown
<1>6. CASE YearStart(db'.day) > db.day
  <2>1. YearStart(db'.day) \in Int
    BY <1>1 DEF YearStart
  <2>2. ytd(now) = {}
    BY <1>1, <1>2, <1>6, <2>1 DEF ytd, Invoices, Shape, NothingAhead
  <2>3. /\ all.day = db'.day
        /\ \A l \in Leases : all.payments[l].status = "none" \/ all.payments[l] = db.payments[l]
    BY <1>1, AtOnceTyped DEF Shape
  <2>4. ytd(all) = {}
    BY <1>1, <1>6, <2>1, <2>3 DEF ytd, Invoices, Shape, Tables
  <2>5. <<"ytd", ytd(all)>> \in held'
    BY <1>1, <1>3, <1>4, Contents DEF Known
  <2> QED
    BY <1>3, <2>2, <2>4, <2>5 DEF Shown
<1> QED
  BY <1>1, <1>5, <1>6, YearTurns

LEMMA ElsewhereHonest ==
    ASSUME Shape, Honest, Elsewhere
    PROVE  Honest'
<1>1. /\ Tables(db') /\ db' \in Rows
      /\ db'.day = db.day \/ (db'.day > db.day /\ db'.payments = db.payments)
      /\ Remember /\ UNCHANGED <<page, load, data, error>>
  BY ElsewhereKeeps DEF Shape, TypeOK, Tables, Rest
<1>2. held \subseteq held' /\ Known'
  BY <1>1 DEF Remember, Known
<1>3. SaidWasSo'
  BY <1>1, <1>2 DEF Honest, SaidWasSo
<1>4. ASSUME page # "away", load.on, NEW card \in Cards(page),
             Source(page, card) \notin load.needs
      PROVE  Shown(card)' \in held'
  <2>0. page \in View \ {"away"} /\ load.rows \in Rows
    BY <1>4 DEF Shape, TypeOK
  <2>1. Shown(card) \in held
    BY <1>4 DEF Honest, Loading
  <2>2. CASE db'.day = db.day
    BY <1>1, <1>2, <2>1, <2>2 DEF Shown
  <2>3. CASE card # "ytd"
    <3>1. \A column \in Columns(Source(page, card)) :
             Dated(load.rows, db'.day)[column] = Dated(load.rows, db.day)[column]
      BY <2>0, SourceListed, ColumnsApart, DatedIs
    <3>2. PageShows(page, Dated(load.rows, db'.day))[card] =
             PageShows(page, Dated(load.rows, db.day))[card]
      BY <2>0, <2>3, <3>1, SameCard
    <3> QED
      BY <1>1, <1>2, <2>1, <3>2 DEF Shown
  <2>4. CASE card = "ytd" /\ db'.day # db.day
    <3>1. page = "owner" /\ Source(page, card) = "payments"
      BY <2>0, <2>4, CardsAre DEF View, Source
    <3> QED
      BY <1>1, <1>2, <1>4, <2>4, <3>1, NightHonest
  <2> QED
    BY <2>2, <2>3, <2>4
<1>5. Loading'
  BY <1>1, <1>2, <1>4 DEF Honest, Loading
<1> QED
  BY <1>2, <1>3, <1>5 DEF Honest

LEMMA NextHonest == Shape /\ Shape' /\ Honest /\ [Next]_vars => Honest'
<1> SUFFICES ASSUME Shape, Shape', Honest, [Next]_vars PROVE Honest'
  OBVIOUS
<1>1. CASE UNCHANGED vars
  BY <1>1 DEF vars, Honest, Known, Loading, SaidWasSo, Shown
<1>2. CASE Next
  BY <1>2, OpeningHonest, AnswerHonest, LoadEndsHonest, FormHonest, ElsewhereHonest DEF Next
<1> QED
  BY <1>1, <1>2

(***************************************************************************)
(* SaidWasSo for any number of lists, answers and changes: a page that has *)
(* loaded says nothing, card by card, that was not so at some time since   *)
(* it was opened.                                                          *)
(***************************************************************************)
THEOREM SaidCorrect == Spec => []SaidWasSo
<1>1. Spec => [](Shape /\ Honest)
  BY InitShape, InitHonest, NextShape, NextHonest, PTL DEF Spec
<1> QED
  BY <1>1, PTL DEF Honest

-----------------------------------------------------------------------------
(* Lists that are sorted and cut. *)

Keys(rows) == [rows -> Int \X Int]

\* A list of a set has each of its members once.
LEMMA ListIs ==
    ASSUME NEW rows, IsFiniteSet(rows)
    PROVE  /\ Cardinality(rows) \in Nat
           /\ SetToSeq(rows) \in [1 .. Cardinality(rows) -> rows]
           /\ \A i, j \in 1 .. Cardinality(rows) :
                 SetToSeq(rows)[i] = SetToSeq(rows)[j] => i = j
           /\ \A x \in rows : \E i \in 1 .. Cardinality(rows) : SetToSeq(rows)[i] = x
<1> DEFINE n == Cardinality(rows)  places == 1 .. n
<1>1. n \in Nat /\ ExistsBijection(places, rows)
  BY FS_CardinalityType
<1>2. PICK f \in [places -> rows] : \A i, j \in places : f[i] = f[j] => i = j
  BY <1>1 DEF ExistsBijection, Bijection, Injection, IsInjective
<1>3. \E g \in [places -> rows] : IsInjective(g)
  BY <1>2 DEF IsInjective
<1>4. SetToSeq(rows) \in [places -> rows] /\ IsInjective(SetToSeq(rows))
  BY <1>3 DEF SetToSeq
<1>5. \A i, j \in places : SetToSeq(rows)[i] = SetToSeq(rows)[j] => i = j
  BY <1>4 DEF IsInjective
<1>6. SetToSeq(rows) \in Injection(places, rows)
  BY <1>4, <1>5 DEF Injection, IsInjective
<1>7. Cardinality(places) = n
  BY <1>1, FS_Interval
<1>8. SetToSeq(rows) \in Surjection(places, rows)
  BY <1>6, <1>7, FS_Injection
<1>9. \A x \in rows : \E i \in places : SetToSeq(rows)[i] = x
  BY <1>8 DEF Surjection
<1> QED
  BY <1>1, <1>4, <1>5, <1>9

LEMMA BeforeOrders ==
    ASSUME NEW a \in Int \X Int, NEW b \in Int \X Int, NEW c \in Int \X Int
    PROVE  /\ ~Before(a, a) /\ ~(Before(a, b) /\ Before(b, a))
           /\ Before(a, b) /\ Before(b, c) => Before(a, c)
           /\ ~Before(a, b) /\ ~Before(b, c) => ~Before(a, c)
BY DEF Before

\* A list that is sorted has every row once, and none before a smaller one.
LEMMA SortedIs ==
    ASSUME NEW rows, IsFiniteSet(rows), NEW key \in Keys(rows)
    PROVE  /\ Sorted(rows, key) \in [1 .. Cardinality(rows) -> rows]
           /\ \A x \in rows : \E i \in 1 .. Cardinality(rows) : Sorted(rows, key)[i] = x
           /\ \A i, j \in 1 .. Cardinality(rows) : i < j =>
                 /\ Sorted(rows, key)[i] # Sorted(rows, key)[j]
                 /\ ~Before(key[Sorted(rows, key)[j]], key[Sorted(rows, key)[i]])
<1> DEFINE n == Cardinality(rows)  places == 1 .. n  list == SetToSeq(rows)
           Le(j, i) == \/ Before(key[list[j]], key[list[i]])
                       \/ j <= i /\ ~Before(key[list[i]], key[list[j]])
           below(i) == {j \in places : Le(j, i)}
           place == [i \in places |-> Cardinality(below(i))]
           at(m) == CHOOSE i \in places : Cardinality(below(i)) = m
<1>1. /\ n \in Nat /\ list \in [places -> rows]
      /\ \A i, j \in places : list[i] = list[j] => i = j
      /\ \A x \in rows : \E i \in places : list[i] = x
  BY ListIs
<1>2. IsFiniteSet(places) /\ Cardinality(places) = n
  BY <1>1, FS_Interval
<1>3. \A i \in places : key[list[i]] \in Int \X Int
  BY <1>1 DEF Keys
<1>4. ASSUME NEW i \in places, NEW j \in places
      PROVE  /\ Le(i, i) /\ (Le(i, j) \/ Le(j, i))
             /\ Le(i, j) /\ Le(j, i) => i = j
             /\ Le(i, j) => ~Before(key[list[j]], key[list[i]])
  BY <1>1, <1>3, BeforeOrders
<1>5. ASSUME NEW i \in places, NEW j \in places, NEW k \in places, Le(i, j), Le(j, k)
      PROVE  Le(i, k)
  <2>1. i \in Int /\ j \in Int /\ k \in Int
    BY <1>1
  <2> QED
    BY <1>3, <1>5, <2>1, BeforeOrders
<1> HIDE DEF Le
<1>6. \A i \in places : /\ IsFiniteSet(below(i)) /\ below(i) \in SUBSET places
                        /\ Cardinality(below(i)) \in 1 .. n
  <2> SUFFICES ASSUME NEW i \in places
               PROVE  /\ IsFiniteSet(below(i)) /\ below(i) \in SUBSET places
                      /\ Cardinality(below(i)) \in 1 .. n
    OBVIOUS
  <2>1. below(i) \in SUBSET places /\ i \in below(i)
    BY <1>4
  <2> HIDE DEF below
  <2>2. IsFiniteSet(below(i)) /\ Cardinality(below(i)) <= n
    BY <1>2, <2>1, FS_Subset
  <2>3. Cardinality(below(i)) \in Nat /\ Cardinality(below(i)) # 0
    BY <2>1, <2>2, FS_CardinalityType, FS_EmptySet
  <2> QED
    BY <1>1, <2>1, <2>2, <2>3
<1>7. ASSUME NEW i \in places, NEW j \in places, Le(i, j), i # j
      PROVE  Cardinality(below(i)) < Cardinality(below(j))
  <2>1. below(i) \in SUBSET below(j) /\ j \in below(j) /\ j \notin below(i)
    BY <1>4, <1>5, <1>7
  <2> HIDE DEF below
  <2>2. Cardinality(below(i)) <= Cardinality(below(j))
        /\ Cardinality(below(i)) # Cardinality(below(j))
    BY <1>6, <2>1, FS_Subset
  <2> QED
    BY <1>6, <2>2
<1>8. place \in [places -> places] /\ \A i \in places : place[i] = Cardinality(below(i))
  BY <1>6
<1> HIDE DEF place, below
<1>9. ASSUME NEW i \in places, NEW j \in places, place[i] = place[j]
      PROVE  i = j
  <2>1. Cardinality(below(i)) = Cardinality(below(j)) /\ Cardinality(below(i)) \in Int
    BY <1>1, <1>6, <1>8, <1>9
  <2> QED
    BY <1>4, <1>7, <2>1
<1>10. \A m \in places : at(m) \in places /\ place[at(m)] = m
  <2>1. place \in Injection(places, places)
    BY <1>8, <1>9 DEF Injection, IsInjective
  <2>2. place \in Surjection(places, places)
    BY <1>2, <2>1, FS_Injection
  <2>3. \A m \in places : \E i \in places : Cardinality(below(i)) = m
    BY <1>8, <2>2 DEF Surjection
  <2> QED
    BY <1>8, <2>3
<1>11. Sorted(rows, key) = [m \in places |-> list[at(m)]]
  <2>1. DOMAIN list = places
    BY <1>1
  <2>2. Sorted(rows, key) =
           [m \in places |-> list[CHOOSE i \in places : Cardinality({j \in places :
              \/ Before(key[list[j]], key[list[i]])
              \/ j <= i /\ ~Before(key[list[i]], key[list[j]])}) = m]]
    BY <2>1 DEF Sorted
  <2> QED
    BY <2>2 DEF below, Le
<1> HIDE DEF at, list
<1>12. ASSUME NEW x \in rows PROVE \E i \in places : Sorted(rows, key)[i] = x
  <2>1. PICK i \in places : list[i] = x
    BY <1>1
  <2>2. at(place[i]) = i
    BY <1>8, <1>9, <1>10
  <2> QED
    BY <1>8, <1>11, <2>1, <2>2
<1>13. ASSUME NEW i \in places, NEW j \in places, i < j
       PROVE  /\ Sorted(rows, key)[i] # Sorted(rows, key)[j]
              /\ ~Before(key[Sorted(rows, key)[j]], key[Sorted(rows, key)[i]])
  <2>1. at(i) \in places /\ at(j) \in places /\ place[at(i)] = i /\ place[at(j)] = j
    BY <1>10
  <2>2. at(i) # at(j) /\ Le(at(i), at(j))
    BY <1>1, <1>4, <1>6, <1>7, <1>8, <1>13, <2>1
  <2> QED
    BY <1>1, <1>4, <1>11, <2>1, <2>2
<1> QED
  BY <1>1, <1>10, <1>11, <1>12, <1>13

\* The first rows of a sorted list: none that was cut off goes before one of
\* them.
IsTop(top, rows, key, n) ==
    /\ top \in Seq(rows) /\ DOMAIN top = 1 .. Len(top) /\ Elements(top) \subseteq rows
    /\ Len(top) = Min({n, Cardinality(rows)}) /\ (Len(top) = 0 <=> n = 0 \/ rows = {})
    /\ \A i \in DOMAIN top, x \in rows \ Elements(top) : ~Before(key[x], key[top[i]])

LEMMA TopIs ==
    ASSUME NEW rows, IsFiniteSet(rows), NEW key \in Keys(rows), NEW n \in Nat
    PROVE  IsTop(Slice(Sorted(rows, key), n), rows, key, n)
<1> DEFINE c == Cardinality(rows)  q == Sorted(rows, key)  m == Min({n, c})
           top == Slice(q, n)
<1>1. c \in Nat /\ (c = 0 <=> rows = {})
  BY ListIs, FS_EmptySet
<1>2. /\ q \in [1 .. c -> rows]
      /\ \A x \in rows : \E i \in 1 .. c : q[i] = x
      /\ \A i, j \in 1 .. c : i < j => ~Before(key[q[j]], key[q[i]])
  BY SortedIs
<1> HIDE DEF q, c
<1>3. q \in Seq(rows) /\ Len(q) = c
  BY <1>1, <1>2
<1>4. m \in Nat /\ m <= c /\ m <= n /\ m \in {n, c}
  <2>1. \E x \in {n, c} : \A y \in {n, c} : x <= y
    BY <1>1
  <2> QED
    BY <1>1, <2>1 DEF Min
<1>5. top = SubSeq(q, 1, m)
  BY <1>3 DEF Slice
<1> HIDE DEF m
<1>6. top \in Seq(rows) /\ Len(top) = m /\ \A i \in 1 .. m : top[i] = q[i]
  BY <1>3, <1>4, <1>5
<1> HIDE DEF top
<1>7. DOMAIN top = 1 .. m
  BY <1>6
<1>8. Elements(top) \subseteq rows
  BY <1>6, <1>7 DEF Elements
<1>9. ASSUME NEW i \in DOMAIN top, NEW x \in rows \ Elements(top)
      PROVE  ~Before(key[x], key[top[i]])
  <2>1. PICK j \in 1 .. c : q[j] = x
    BY <1>2
  <2>2. j \notin 1 .. m
    BY <1>6, <1>7, <2>1 DEF Elements
  <2>3. i \in 1 .. c /\ i < j /\ top[i] = q[i]
    BY <1>1, <1>4, <1>6, <1>7, <2>2
  <2> QED
    BY <1>2, <2>1, <2>3
<1>10. Len(top) = 0 <=> n = 0 \/ rows = {}
  BY <1>1, <1>4, <1>6
<1>11. IsTop(top, rows, key, n)
  BY <1>6, <1>7, <1>8, <1>9, <1>10 DEF IsTop, m, c
<1> QED
  BY <1>11 DEF top, q

\* The smallest key is that of the first row.
LEMMA SomeIsFirst ==
    ASSUME NEW rows, IsFiniteSet(rows), NEW number \in [rows -> Int], rows # {}
    PROVE  \E x \in rows : \A y \in rows : number[x] <= number[y]
<1> DEFINE key == [x \in rows |-> <<number[x], 0>>]  q == Sorted(rows, key)
<1>1. key \in Keys(rows)
  BY DEF Keys
<1>2. \A x, y \in rows : ~Before(key[y], key[x]) => number[x] <= number[y]
  BY DEF Before
<1> HIDE DEF key
<1>3. /\ q \in [1 .. Cardinality(rows) -> rows]
      /\ \A x \in rows : \E i \in 1 .. Cardinality(rows) : q[i] = x
      /\ \A i, j \in 1 .. Cardinality(rows) : i < j => ~Before(key[q[j]], key[q[i]])
      /\ Cardinality(rows) \in Nat /\ Cardinality(rows) # 0
  BY <1>1, SortedIs, ListIs, FS_EmptySet
<1> HIDE DEF q
<1>4. q[1] \in rows
  BY <1>3
<1>5. ASSUME NEW y \in rows PROVE number[q[1]] <= number[y]
  <2> PICK i \in 1 .. Cardinality(rows) : q[i] = y
    BY <1>3
  <2> QED
    BY <1>2, <1>3, <1>4
<1> QED
  BY <1>4, <1>5

-----------------------------------------------------------------------------
(* The queues and lists of a page. *)

LEMMA QueueKeepsUrgent ==
    ASSUME NEW rows \in Rows
    PROVE  /\ Len(queue(rows)) = Min({ListLength, Cardinality(Open(rows))})
           /\ \A r \in Open(rows) \ Elements(queue(rows)), i \in DOMAIN queue(rows) :
                 /\ PRIORITY_ORDER[Priority[queue(rows)[i]]] <= PRIORITY_ORDER[Priority[r]]
                 /\ Priority[queue(rows)[i]] = Priority[r] =>
                       rows.requests[r].updated <= rows.requests[queue(rows)[i]].updated
<1> DEFINE open == Open(rows)
           key == [r \in open |-> <<PRIORITY_ORDER[Priority[r]], 0 - rows.requests[r].updated>>]
           top == queue(rows)
<1>1. open \in SUBSET Requests /\ IsFiniteSet(open) /\ ListLength \in Nat
  BY ListsAssumption, FS_Subset DEF Open
<1>2. \A r \in Requests : /\ PRIORITY_ORDER[Priority[r]] \in Int
                          /\ rows.requests[r].updated \in Int
  <2>1. \A p \in DOMAIN PRIORITY_ORDER : PRIORITY_ORDER[p] \in Int
    BY DEF PRIORITY_ORDER
  <2> QED
    BY <2>1, ListsAssumption DEF Rows
<1>3. key \in Keys(open) /\ \A r \in open : key[r] = <<PRIORITY_ORDER[Priority[r]],
                                                      0 - rows.requests[r].updated>>
  BY <1>1, <1>2 DEF Keys
<1>4. top = Slice(Sorted(open, key), ListLength)
  BY DEF queue, ByUrgency
<1> HIDE DEF key, top, open
<1>5. IsTop(top, open, key, ListLength)
  BY <1>1, <1>3, <1>4, TopIs
<1>6. /\ Len(top) = Min({ListLength, Cardinality(open)}) /\ DOMAIN top = 1 .. Len(top)
      /\ Elements(top) \subseteq open
      /\ \A i \in DOMAIN top, x \in open \ Elements(top) : ~Before(key[x], key[top[i]])
  BY <1>5 DEF IsTop
<1>7. ASSUME NEW r \in open \ Elements(top), NEW i \in DOMAIN top
      PROVE  /\ PRIORITY_ORDER[Priority[top[i]]] <= PRIORITY_ORDER[Priority[r]]
             /\ Priority[top[i]] = Priority[r] =>
                   rows.requests[r].updated <= rows.requests[top[i]].updated
  <2>1. top[i] \in open
    BY <1>6 DEF Elements
  <2>2. ~Before(key[r], key[top[i]])
    BY <1>6
  <2> QED
    BY <1>1, <1>2, <1>3, <2>1, <2>2 DEF Before
<1> QED
  BY <1>6, <1>7 DEF top, open

LEMMA PaymentsKeepUrgent ==
    ASSUME NEW rows \in Rows
    PROVE  LET p == paymentsQueue(rows)  late == Invoices(rows, {"overdue"}) IN
           /\ late \subseteq Elements(p) \/ Elements(p) \subseteq late
           /\ nextDue(rows) = {} <=> p = <<>>
<1> DEFINE due == Invoices(rows, {"pending", "overdue"})  late == Invoices(rows, {"overdue"})
           key == [l \in due |-> <<IF l \in late THEN 0 ELSE 1, Due[l]>>]
           p == paymentsQueue(rows)
<1>1. due \in SUBSET Leases /\ late \subseteq due /\ IsFiniteSet(due)
  <2>1. due \in SUBSET Leases /\ late \subseteq due
    BY DEF Invoices
  <2> QED
    BY <2>1, ListsAssumption, FS_Subset
<1>2. ListLength \in Nat /\ ListLength # 0 /\ Due \in [Leases -> Int]
  BY ListsAssumption
<1>3. p = Slice(Sorted(due, key), ListLength)
  BY DEF paymentsQueue, ByDueDate
<1>4. nextDue(rows) = {l \in due : \A k \in due : Due[l] <= Due[k]}
  BY DEF nextDue
<1> HIDE DEF due, late, p
<1>5. key \in Keys(due) /\ \A l \in due : key[l] = <<IF l \in late THEN 0 ELSE 1, Due[l]>>
  BY <1>1, <1>2 DEF Keys
<1> HIDE DEF key
<1>6. IsTop(p, due, key, ListLength)
  BY <1>1, <1>2, <1>3, <1>5, TopIs
<1>7. /\ DOMAIN p = 1 .. Len(p) /\ p \in Seq(due) /\ (Len(p) = 0 <=> due = {})
      /\ Elements(p) \subseteq due
      /\ \A i \in DOMAIN p, x \in due \ Elements(p) : ~Before(key[x], key[p[i]])
  BY <1>6, <1>2 DEF IsTop
<1>8. ASSUME NEW x \in late \ Elements(p), NEW y \in Elements(p) \ late
      PROVE  FALSE
  <2>1. PICK i \in DOMAIN p : p[i] = y
    BY DEF Elements
  <2>2. ~Before(key[x], key[y]) /\ x \in due /\ y \in due
    BY <1>1, <1>7, <2>1
  <2>3. key[x][1] = 0 /\ key[y][1] = 1
    BY <1>5, <2>2
  <2> QED
    BY <2>2, <2>3 DEF Before
<1>9. due # {} => nextDue(rows) # {}
  <2> DEFINE number == [l \in due |-> Due[l]]
  <2>1. number \in [due -> Int]
    BY <1>1, <1>2
  <2> SUFFICES ASSUME due # {} PROVE nextDue(rows) # {}
    OBVIOUS
  <2>2. PICK l \in due : \A k \in due : number[l] <= number[k]
    BY <1>1, <2>1, SomeIsFirst
  <2> QED
    BY <1>4, <2>2
<1>10. Len(p) = 0 <=> p = <<>>
  BY <1>7
<1> QED
  BY <1>4, <1>7, <1>8, <1>9, <1>10 DEF p, late

LEMMA EndsAreNext ==
    ASSUME NEW rows \in Rows, NEW from \in Int, NEW to \in Int, from <= 0, NEW n \in Nat,
           NEW k \in Elements(Slice(Ending(rows, from, to), n)),
           NEW l \in Active(rows) \ Elements(Slice(Ending(rows, from, to), n)),
           DaysLeft(l, rows) >= 0
    PROVE  Ends[k] <= Ends[l]
<1> DEFINE near == {x \in Active(rows) : DaysLeft(x, rows) \in from .. to}
           key == [x \in near |-> <<Ends[x], 0>>]
           list == Slice(Ending(rows, from, to), n)
<1>1. /\ near \in SUBSET Leases /\ IsFiniteSet(near)
      /\ Active(rows) \subseteq Leases /\ Ends \in [Leases -> Int] /\ rows.day \in Nat
  <2>1. near \in SUBSET Leases /\ Active(rows) \subseteq Leases
    BY DEF Active
  <2> QED
    BY <2>1, ListsAssumption, FS_Subset DEF Rows
<1>2. key \in Keys(near) /\ \A x \in near : key[x] = <<Ends[x], 0>>
  BY <1>1 DEF Keys
<1>3. list = Slice(Sorted(near, key), n)
  BY DEF Ending, ByEnd
<1> HIDE DEF key
<1>4. IsTop(list, near, key, n)
  BY <1>1, <1>2, <1>3, TopIs
<1> HIDE DEF list
<1>5. k \in Elements(list) /\ l \in Active(rows) /\ l \notin Elements(list)
  BY DEF list
<1>6. /\ k \in near /\ Ends[k] - rows.day <= to /\ Ends[l] - rows.day >= 0
      /\ l \notin near => Ends[l] - rows.day > to
  <2>1. Elements(list) \subseteq near
    BY <1>4 DEF IsTop
  <2> QED
    BY <1>1, <1>5, <2>1 DEF DaysLeft
<1> HIDE DEF near
<1>7. CASE l \in near
  <2>1. PICK i \in DOMAIN list : list[i] = k
    BY <1>5 DEF Elements
  <2>2. ~Before(key[l], key[list[i]])
    BY <1>4, <1>5, <1>7 DEF IsTop
  <2> QED
    BY <1>1, <1>2, <1>6, <1>7, <2>1, <2>2 DEF Before
<1>8. CASE l \notin near
  <2>1. Ends[k] \in Int /\ Ends[l] \in Int
    BY <1>1, <1>5, <1>6
  <2> QED
    BY <1>1, <1>6, <1>8, <2>1
<1> QED
  BY <1>7, <1>8

LEMMA QueuesCorrect == ASSUME NEW rows \in Rows PROVE QueuesKeepTheUrgent(rows)
<1>1. rows.day \in Nat /\ ListLength \in Nat /\ LeaseLines \in Nat
  BY ListsAssumption DEF Rows
<1>2. ASSUME NEW list \in {expiringLeases(rows), expiringSoon(rows)},
             NEW k \in Elements(list), NEW l \in Active(rows) \ Elements(list),
             DaysLeft(l, rows) >= 0
      PROVE  Ends[k] <= Ends[l]
  <2>1. CASE list = expiringLeases(rows)
    BY <1>1, <1>2, <2>1, EndsAreNext DEF expiringLeases
  <2>2. CASE list = expiringSoon(rows)
    <3>1. 0 - rows.day \in Int /\ 0 - rows.day <= 0
      BY <1>1
    <3> QED
      BY <1>1, <1>2, <2>2, <3>1, EndsAreNext DEF expiringSoon
  <2> QED
    BY <2>1, <2>2
<1> QED
  BY <1>2, QueueKeepsUrgent, PaymentsKeepUrgent DEF QueuesKeepTheUrgent

-----------------------------------------------------------------------------
(* The figures: the parts of a set that do not overlap. *)

LEMMA TwoParts ==
    ASSUME NEW A, NEW B, IsFiniteSet(A), IsFiniteSet(B), A \cap B = {}
    PROVE  /\ IsFiniteSet(A \cup B) /\ Cardinality(A) \in Nat /\ Cardinality(B) \in Nat
           /\ Cardinality(A \cup B) = Cardinality(A) + Cardinality(B)
<1>1. Cardinality(A) \in Nat /\ Cardinality(B) \in Nat
  BY FS_CardinalityType
<1>2. /\ IsFiniteSet(A \cup B)
      /\ Cardinality(A \cup B) = Cardinality(A) + Cardinality(B) - Cardinality(A \cap B)
  BY FS_Union
<1>3. Cardinality(A \cap B) = 0
  BY FS_EmptySet
<1> QED
  BY <1>1, <1>2, <1>3

LEMMA ThreeParts ==
    ASSUME NEW A, NEW B, NEW C, IsFiniteSet(A), IsFiniteSet(B), IsFiniteSet(C),
           A \cap B = {}, A \cap C = {}, B \cap C = {}
    PROVE  /\ IsFiniteSet(A \cup B \cup C)
           /\ Cardinality(A \cup B \cup C) = Cardinality(A) + Cardinality(B) + Cardinality(C)
           /\ Cardinality(A \cup B \cup C) \in Nat
<1>1. (A \cup B) \cap C = {}
  OBVIOUS
<1>2. /\ IsFiniteSet(A \cup B)
      /\ Cardinality(A \cup B) = Cardinality(A) + Cardinality(B)
  BY TwoParts
<1>3. /\ IsFiniteSet(A \cup B \cup C)
      /\ Cardinality(A \cup B \cup C) = Cardinality(A \cup B) + Cardinality(C)
  BY <1>1, <1>2, TwoParts
<1> QED
  BY <1>2, <1>3, FS_CardinalityType

\* A percentage that is rounded.
LEMMA PercentIs ==
    ASSUME NEW part \in Nat, NEW total \in Nat, part <= total, total > 0
    PROVE  (200 * part + total) \div (2 * total) \in 0 .. 100
<1> DEFINE a == 200 * part + total  b == 2 * total  q == a \div b
<1>1. a \in Nat /\ b \in Nat /\ b > 0 /\ a <= 201 * total
  OBVIOUS
<1> HIDE DEF a, b
<1>2. PICK r \in 0 .. (b - 1) : q \in Int /\ a = (b * q) + r
  <2>1. q \in Int /\ (a % b) \in 0 .. (b - 1) /\ a = (b * q) + (a % b)
    BY <1>1
  <2> QED
    BY <2>1
<1> HIDE DEF q
<1>3. q >= 0
  <2> SUFFICES ASSUME q <= 0 - 1 PROVE FALSE
    BY <1>2
  <2>1. b * q <= 0 - b
    BY <1>1, <1>2
  <2> QED
    BY <1>1, <1>2, <2>1
<1>4. q <= 100
  <2> SUFFICES ASSUME q >= 101 PROVE FALSE
    BY <1>2
  <2>1. b * q >= b * 101
    BY <1>1, <1>2
  <2>2. b * 101 = 202 * total
    BY DEF b
  <2> QED
    BY <1>1, <1>2, <2>1, <2>2
<1> QED
  BY <1>2, <1>3, <1>4 DEF q, a, b

LEMMA UnitsAdd ==
    ASSUME NEW rows \in Rows
    PROVE  /\ occupancyPct(rows) \in 0 .. 100
           /\ \A p \in DOMAIN occupancyByProperty(rows) :
                 occupancyByProperty(rows)[p].vacant >= 0
<1>1. IsFiniteSet(Units(rows))
  <2> DEFINE cards(l) == {l} \X (1 .. rows.listed[Home[l]])
             each == [l \in Leases |-> cards(l)]
             all == {cards(l) : l \in Leases}
  <2>1. \A l \in Leases : rows.listed[Home[l]] \in Nat
    BY SeedAssumption DEF Rows
  <2>2. ASSUME NEW l \in Leases PROVE IsFiniteSet(cards(l))
    <3> DEFINE n == rows.listed[Home[l]]
    <3>1. 1 \in Int /\ n \in Int
      BY <2>1
    <3> HIDE DEF n
    <3>2. IsFiniteSet(1 .. n)
      BY <3>1, FS_Interval
    <3>3. IsFiniteSet({l})
      BY FS_Singleton
    <3> QED
      BY <3>2, <3>3, FS_Product DEF n
  <2> HIDE DEF cards
  <2>3. IsFiniteSet(all)
    <3>1. each \in Surjection(Leases, all)
      BY DEF Surjection
    <3> HIDE DEF all, each
    <3> QED
      BY <3>1, ListsAssumption, FS_Surjection
  <2>4. \A set \in all : IsFiniteSet(set)
    BY <2>2
  <2>5. IsFiniteSet(UNION all)
    BY <2>3, <2>4, FS_UNION
  <2> QED
    BY <2>5 DEF Units, cards
<1>2. /\ totalUnits(rows) \in Nat /\ occupied(rows) \in Nat
      /\ occupied(rows) <= totalUnits(rows)
  <2> DEFINE let == {unit \in Units(rows) : unit[1] \in rows.occupied}
  <2>1. let \in SUBSET Units(rows)
    OBVIOUS
  <2>2. IsFiniteSet(let) /\ Cardinality(let) <= Cardinality(Units(rows))
    BY <1>1, <2>1, FS_Subset
  <2> QED
    BY <1>1, <2>2, FS_CardinalityType DEF totalUnits, occupied
<1>3. occupancyPct(rows) \in 0 .. 100
  BY <1>2, PercentIs DEF occupancyPct
<1>4. \A p \in Properties : Cardinality(UnitsOf(p)) - Cardinality(UnitsOf(p) \cap rows.occupied) >= 0
  <2> TAKE p \in Properties
  <2>1. UnitsOf(p) \in SUBSET Leases
    BY DEF UnitsOf
  <2>2. IsFiniteSet(UnitsOf(p))
    BY <2>1, ListsAssumption, FS_Subset
  <2>3. /\ IsFiniteSet(UnitsOf(p) \cap rows.occupied)
        /\ Cardinality(UnitsOf(p) \cap rows.occupied) <= Cardinality(UnitsOf(p))
    BY <2>2, FS_Intersection
  <2> QED
    BY <2>2, <2>3, FS_CardinalityType
<1> QED
  BY <1>3, <1>4 DEF occupancyByProperty

LEMMA MixesAdd ==
    ASSUME NEW rows \in Rows
    PROVE  LET mix == maintenanceMix(rows)  paid == paymentMix(rows) IN
           /\ mix["submitted"] + mix["assigned"] + mix["in_progress"] = Cardinality(Open(rows))
           /\ paid["pending"] + paid["overdue"] + paid["paid"]
                 = Cardinality(Invoices(rows, PaymentStatus \ {"none"}))
<1> DEFINE In(s) == {r \in Requests : rows.requests[r].status = s}
<1>1. \A s : IsFiniteSet(In(s))
  <2> TAKE s
  <2>1. In(s) \in SUBSET Requests
    OBVIOUS
  <2> QED
    BY <2>1, ListsAssumption, FS_Subset
<1>2. /\ In("submitted") \cap In("assigned") = {} /\ In("submitted") \cap In("in_progress") = {}
      /\ In("assigned") \cap In("in_progress") = {}
      /\ Open(rows) = In("submitted") \cup In("assigned") \cup In("in_progress")
  BY DEF Open, ACTIVE_STATUSES
<1>3. /\ maintenanceMix(rows)["submitted"] = Cardinality(In("submitted"))
      /\ maintenanceMix(rows)["assigned"] = Cardinality(In("assigned"))
      /\ maintenanceMix(rows)["in_progress"] = Cardinality(In("in_progress"))
  BY DEF maintenanceMix, RequestStatus, ACTIVE_STATUSES
<1> HIDE DEF In
<1>4. Cardinality(Open(rows)) = Cardinality(In("submitted")) + Cardinality(In("assigned"))
                                   + Cardinality(In("in_progress"))
  BY <1>1, <1>2, ThreeParts
<1> DEFINE Of(s) == Invoices(rows, {s})
<1>5. \A s : IsFiniteSet(Of(s))
  <2> TAKE s
  <2>1. Of(s) \in SUBSET Leases
    BY DEF Invoices
  <2> QED
    BY <2>1, ListsAssumption, FS_Subset
<1>6. /\ Of("pending") \cap Of("overdue") = {} /\ Of("pending") \cap Of("paid") = {}
      /\ Of("overdue") \cap Of("paid") = {}
      /\ Invoices(rows, PaymentStatus \ {"none"}) = Of("pending") \cup Of("overdue") \cup Of("paid")
  BY DEF Invoices, PaymentStatus
<1>7. /\ paymentMix(rows)["pending"] = Cardinality(Of("pending"))
      /\ paymentMix(rows)["overdue"] = Cardinality(Of("overdue"))
      /\ paymentMix(rows)["paid"] = Cardinality(Of("paid"))
  BY DEF paymentMix, PaymentStatus
<1> HIDE DEF Of
<1>8. Cardinality(Invoices(rows, PaymentStatus \ {"none"})) =
         Cardinality(Of("pending")) + Cardinality(Of("overdue")) + Cardinality(Of("paid"))
  BY <1>5, <1>6, ThreeParts
<1> QED
  BY <1>3, <1>4, <1>7, <1>8

(* The revenue of the year: the bars are of different months, so no rent is *)
(* in two of them, and early in the year every rent is in one.              *)

\* A month is of one year.
LEMMA MonthIs ==
    ASSUME NEW d \in Nat
    PROVE  /\ Month(d) \in Nat /\ 30 * Month(d) <= d /\ d < (30 * Month(d)) + 30
           /\ Month(d) \div 12 = d \div 360
           /\ YearStart(d) = 360 * (d \div 360) /\ d \div 360 \in Nat
           /\ Month(d) % 12 = Month(d) - (12 * (d \div 360))
<1> DEFINE m == d \div 30  y == m \div 12
<1>1. m \in Nat /\ 30 * m <= d /\ d < (30 * m) + 30
  OBVIOUS
<1> HIDE DEF m
<1>2. y \in Nat /\ 12 * y <= m /\ m < (12 * y) + 12 /\ m % 12 = m - (12 * y)
  BY <1>1
<1> HIDE DEF y
<1>3. 360 * y <= d /\ d < (360 * y) + 360
  BY <1>1, <1>2
<1>4. d \div 360 = y
  BY <1>2, <1>3
<1> QED
  BY <1>1, <1>2, <1>4 DEF m, y, Month, YearStart

\* Six finite sets that do not overlap.
Apart(A, B, C, D, E, F) ==
    /\ IsFiniteSet(A) /\ IsFiniteSet(B) /\ IsFiniteSet(C)
    /\ IsFiniteSet(D) /\ IsFiniteSet(E) /\ IsFiniteSet(F)
    /\ A \cap (B \cup C \cup D \cup E \cup F) = {} /\ B \cap (C \cup D \cup E \cup F) = {}
    /\ C \cap (D \cup E \cup F) = {} /\ D \cap (E \cup F) = {} /\ E \cap F = {}

LEMMA SixParts ==
    ASSUME NEW A, NEW B, NEW C, NEW D, NEW E, NEW F, Apart(A, B, C, D, E, F)
    PROVE  /\ IsFiniteSet((A \cup B \cup C) \cup (D \cup E \cup F))
           /\ Cardinality((A \cup B \cup C) \cup (D \cup E \cup F)) =
                 Cardinality(A) + Cardinality(B) + Cardinality(C)
                    + Cardinality(D) + Cardinality(E) + Cardinality(F)
<1> DEFINE first == A \cup B \cup C  last == D \cup E \cup F
<1>1. /\ IsFiniteSet(first)
      /\ Cardinality(first) = Cardinality(A) + Cardinality(B) + Cardinality(C)
  <2>1. /\ IsFiniteSet(A) /\ IsFiniteSet(B) /\ IsFiniteSet(C)
        /\ A \cap B = {} /\ A \cap C = {} /\ B \cap C = {}
    BY DEF Apart
  <2>2. /\ IsFiniteSet(A \cup B \cup C)
        /\ Cardinality(A \cup B \cup C) = Cardinality(A) + Cardinality(B) + Cardinality(C)
        /\ Cardinality(A \cup B \cup C) \in Nat
    BY <2>1, ThreeParts, Zenon
  <2> QED
    BY <2>2
<1>2. /\ IsFiniteSet(last)
      /\ Cardinality(last) = Cardinality(D) + Cardinality(E) + Cardinality(F)
  <2>1. /\ IsFiniteSet(D) /\ IsFiniteSet(E) /\ IsFiniteSet(F)
        /\ D \cap E = {} /\ D \cap F = {} /\ E \cap F = {}
    BY DEF Apart
  <2>2. /\ IsFiniteSet(D \cup E \cup F)
        /\ Cardinality(D \cup E \cup F) = Cardinality(D) + Cardinality(E) + Cardinality(F)
        /\ Cardinality(D \cup E \cup F) \in Nat
    BY <2>1, ThreeParts, Zenon
  <2> QED
    BY <2>2
<1>3. first \cap last = {}
  BY DEF Apart
<1> HIDE DEF first, last
<1>4. /\ IsFiniteSet(first \cup last)
      /\ Cardinality(first \cup last) = Cardinality(first) + Cardinality(last)
  BY <1>1, <1>2, <1>3, TwoParts
<1>5. /\ Cardinality(A) \in Nat /\ Cardinality(B) \in Nat /\ Cardinality(C) \in Nat
      /\ Cardinality(D) \in Nat /\ Cardinality(E) \in Nat /\ Cardinality(F) \in Nat
  BY FS_CardinalityType DEF Apart
<1> QED
  BY <1>1, <1>2, <1>4, <1>5 DEF first, last

PaidByThen(rows) ==
    \A l \in Leases : rows.payments[l].status = "paid" => rows.payments[l].on <= rows.day

\* The rents in the bar of the month so many months ago, if that is this year.
InBar(rows, ago) ==
    {l \in Invoices(rows, {"paid"}) :
        /\ Month(rows.payments[l].on) = Month(rows.day) - ago
        /\ (Month(rows.day) - ago) \div 12 = rows.day \div 360}

LEMMA BarIs ==
    ASSUME NEW rows \in Rows, NEW ago \in 0 .. 5
    PROVE  /\ InBar(rows, ago) \in SUBSET ytd(rows)
           /\ Cardinality(InBar(rows, ago)) =
                 (IF (Month(rows.day) - ago) \div 12 = rows.day \div 360
                  THEN revenueTrend(rows)[Month(rows.day) - ago] ELSE 0)
<1> DEFINE m == Month(rows.day) - ago
<1>0. rows.day \in Nat /\ \A l \in Leases : rows.payments[l].on \in Nat
  BY DEF Rows
<1>1. Month(rows.day) \in Nat
  BY <1>0, MonthIs
<1>2. m \in (Month(rows.day) - 5) .. Month(rows.day)
  BY <1>1
<1>3. ASSUME NEW l \in InBar(rows, ago) PROVE l \in ytd(rows)
  <2>1. /\ l \in Invoices(rows, {"paid"}) /\ l \in Leases
        /\ Month(rows.payments[l].on) = m /\ m \div 12 = rows.day \div 360
    BY <1>3 DEF InBar, Invoices
  <2>2. rows.payments[l].on \div 360 = rows.day \div 360
    <3> DEFINE on == rows.payments[l].on  d == rows.day
    <3>1. on \in Nat /\ Month(on) \div 12 = d \div 360
      BY <1>0, <2>1
    <3> HIDE DEF on, d
    <3>2. Month(on) \div 12 = on \div 360
      BY <3>1, MonthIs
    <3> QED
      BY <3>1, <3>2 DEF on, d
  <2>3. YearStart(rows.payments[l].on) = YearStart(rows.day)
    BY <2>2 DEF YearStart
  <2>4. YearStart(rows.payments[l].on) <= rows.payments[l].on
    <3> DEFINE on == rows.payments[l].on
    <3>1. on \in Nat
      BY <1>0, <2>1
    <3> HIDE DEF on
    <3>2. 360 * (on \div 360) <= on
      BY <3>1
    <3> QED
      BY <3>2 DEF on, YearStart
  <2> QED
    BY <2>1, <2>3, <2>4 DEF ytd
<1>4. CASE m \div 12 = rows.day \div 360
  <2>1. InBar(rows, ago) = {l \in Invoices(rows, {"paid"}) : Month(rows.payments[l].on) = m}
    BY <1>4 DEF InBar
  <2>2. revenueTrend(rows)[m] =
           Cardinality({l \in Invoices(rows, {"paid"}) : Month(rows.payments[l].on) = m})
    BY <1>2 DEF revenueTrend
  <2> QED
    BY <1>3, <1>4, <2>1, <2>2
<1>5. CASE m \div 12 # rows.day \div 360
  <2>1. InBar(rows, ago) = {}
    BY <1>5 DEF InBar
  <2> QED
    BY <1>5, <2>1, FS_EmptySet
<1> QED
  BY <1>4, <1>5

LEMMA TrendAdds ==
    ASSUME NEW rows \in Rows, PaidByThen(rows)
    PROVE  LET all == Cardinality(InBar(rows, 0)) + Cardinality(InBar(rows, 1))
                         + Cardinality(InBar(rows, 2)) + Cardinality(InBar(rows, 3))
                         + Cardinality(InBar(rows, 4)) + Cardinality(InBar(rows, 5))
           IN  /\ all <= Cardinality(ytd(rows))
               /\ Month(rows.day) % 12 < 6 => all = Cardinality(ytd(rows))
<1> DEFINE bar(ago) == InBar(rows, ago)
           bars == (bar(0) \cup bar(1) \cup bar(2)) \cup (bar(3) \cup bar(4) \cup bar(5))
<1>0. rows.day \in Nat /\ \A l \in Leases : rows.payments[l].on \in Nat
  BY DEF Rows
<1>1. Month(rows.day) \in Nat
  BY <1>0, MonthIs
<1>2. IsFiniteSet(ytd(rows))
  <2>1. ytd(rows) \in SUBSET Leases
    BY DEF ytd, Invoices
  <2> QED
    BY <2>1, ListsAssumption, FS_Subset
<1>3. \A ago \in 0 .. 5 : bar(ago) \in SUBSET ytd(rows) /\ IsFiniteSet(bar(ago))
  BY <1>2, BarIs, FS_Subset
<1>4. \A j \in 0 .. 5, k \in 0 .. 5 : j # k => bar(j) \cap bar(k) = {}
  BY <1>1 DEF InBar
<1>5. bars \in SUBSET ytd(rows)
  BY <1>3
<1>6. Month(rows.day) % 12 < 6 => ytd(rows) \subseteq bars
  <2> SUFFICES ASSUME Month(rows.day) % 12 < 6, NEW l \in ytd(rows) PROVE l \in bars
    OBVIOUS
  <2> DEFINE d == rows.day  on == rows.payments[l].on  y == d \div 360
             m == Month(d)  n == Month(on)
  <2>1. /\ l \in Leases /\ l \in Invoices(rows, {"paid"}) /\ on >= YearStart(d) /\ on <= d
    BY DEF ytd, Invoices, PaidByThen
  <2>2. d \in Nat /\ on \in Nat
    BY <1>0, <2>1
  <2> HIDE DEF d, on
  <2>3. /\ m \in Nat /\ n \in Nat /\ y \in Nat /\ 30 * n <= on /\ on < (30 * n) + 30
        /\ 30 * m <= d /\ d < (30 * m) + 30
        /\ on >= 360 * y /\ m % 12 = m - (12 * y)
    <3> HIDE DEF m, n, y
    <3>1. /\ Month(on) \in Nat /\ 30 * Month(on) <= on /\ on < (30 * Month(on)) + 30
      BY <2>2, MonthIs
    <3>2. /\ Month(d) \in Nat /\ 30 * Month(d) <= d /\ d < (30 * Month(d)) + 30
      BY <2>2, MonthIs
    <3>3. YearStart(d) = 360 * (d \div 360) /\ d \div 360 \in Nat
      BY <2>2 DEF YearStart
    <3>4. Month(d) % 12 = Month(d) - (12 * (d \div 360))
      BY <2>2, MonthIs
    <3> QED
      BY <2>1, <3>1, <3>2, <3>3, <3>4 DEF m, n, y
  <2> HIDE DEF m, n, y
  <2>4. n <= m /\ m - n < 6 /\ 12 * y <= n /\ n < (12 * y) + 12
    <3>1. m - (12 * y) < 6
      BY <2>3 DEF m, d
    <3>2. n <= m
      BY <2>1, <2>2, <2>3
    <3>3. 12 * y <= n
      BY <2>2, <2>3
    <3> QED
      BY <2>3, <3>1, <3>2, <3>3
  <2>5. n \div 12 = y
    BY <2>3, <2>4
  <2>6. l \in bar(m - n)
    <3>1. m - (m - n) = n
      BY <2>3
    <3> QED
      BY <2>1, <2>5, <3>1 DEF InBar, d, on, m, n, y
  <2>7. m - n \in 0 .. 5
    BY <2>3, <2>4
  <2>8. m - n \in {0, 1, 2, 3, 4, 5}
    BY <2>7
  <2> HIDE DEF bar
  <2> QED
    BY <2>6, <2>8
<1>7. /\ IsFiniteSet(bars)
      /\ Cardinality(bars) = Cardinality(bar(0)) + Cardinality(bar(1)) + Cardinality(bar(2))
                                + Cardinality(bar(3)) + Cardinality(bar(4)) + Cardinality(bar(5))
  <2> HIDE DEF bar
  <2>1. /\ bar(0) \cap (bar(1) \cup bar(2) \cup bar(3) \cup bar(4) \cup bar(5)) = {}
        /\ bar(1) \cap (bar(2) \cup bar(3) \cup bar(4) \cup bar(5)) = {}
        /\ bar(2) \cap (bar(3) \cup bar(4) \cup bar(5)) = {}
        /\ bar(3) \cap (bar(4) \cup bar(5)) = {} /\ bar(4) \cap bar(5) = {}
    <3>1. \A j \in 0 .. 5, k \in 0 .. 5 : j # k => \A x \in bar(j) : x \notin bar(k)
      BY <1>4
    <3> QED
      BY <3>1
  <2>2. /\ IsFiniteSet(bar(0)) /\ IsFiniteSet(bar(1)) /\ IsFiniteSet(bar(2))
        /\ IsFiniteSet(bar(3)) /\ IsFiniteSet(bar(4)) /\ IsFiniteSet(bar(5))
    BY <1>3
  <2> QED
    <3>1. Apart(bar(0), bar(1), bar(2), bar(3), bar(4), bar(5))
      BY <2>1, <2>2 DEF Apart
    <3> QED
      BY <3>1, SixParts
<1> HIDE DEF bars
<1>8. Cardinality(bars) <= Cardinality(ytd(rows))
  BY <1>2, <1>5, FS_Subset
<1>9. Month(rows.day) % 12 < 6 => bars = ytd(rows)
  BY <1>5, <1>6
<1> QED
  BY <1>7, <1>8, <1>9

LEMMA ChartsCorrect ==
    ASSUME NEW rows \in Rows, PaidByThen(rows)
    PROVE  ChartsAddUp(rows)
<1> DEFINE m == Month(rows.day)
           Bar(ago) == IF (m - ago) \div 12 = rows.day \div 360
                       THEN revenueTrend(rows)[m - ago] ELSE 0
           inTrend == Bar(0) + Bar(1) + Bar(2) + Bar(3) + Bar(4) + Bar(5)
<1>1. \A ago \in 0 .. 5 : Bar(ago) = Cardinality(InBar(rows, ago))
  BY BarIs
<1>2. /\ inTrend <= Cardinality(ytd(rows))
      /\ m % 12 < 6 => inTrend = Cardinality(ytd(rows))
  <2>1. /\ Bar(0) = Cardinality(InBar(rows, 0)) /\ Bar(1) = Cardinality(InBar(rows, 1))
        /\ Bar(2) = Cardinality(InBar(rows, 2)) /\ Bar(3) = Cardinality(InBar(rows, 3))
        /\ Bar(4) = Cardinality(InBar(rows, 4)) /\ Bar(5) = Cardinality(InBar(rows, 5))
    BY <1>1
  <2> HIDE DEF Bar
  <2> QED
    BY <2>1, TrendAdds
<1> QED
  BY <1>2, UnitsAdd, MixesAdd DEF ChartsAddUp

-----------------------------------------------------------------------------
(* What a page holds was paid by the day it was put on the screen.         *)

LEMMA NextPaid == Shape /\ PaidByThen(data) /\ [Next]_vars => PaidByThen(data)'
<1> SUFFICES ASSUME Shape, PaidByThen(data), [Next]_vars PROVE PaidByThen(data)'
  OBVIOUS
<1>1. CASE UNCHANGED data
  BY <1>1 DEF PaidByThen
<1>2. CASE LeavePage
  <2>1. data' = NoRows
    BY <1>2 DEF LeavePage
  <2> QED
    BY <2>1 DEF PaidByThen, NoRows, Unpaid0
<1>3. CASE GotLoad
  <2>1. data' = Dated(load.rows, db.day) /\ load.rows \in Rows
    BY <1>3 DEF GotLoad, Dated, Shape, TypeOK
  <2>2. data'.payments = load.rows.payments /\ data'.day = db.day
    BY <2>1, DatedIs
  <2> QED
    BY <2>2 DEF PaidByThen, Shape, NothingAhead
<1>4. CASE \E p \in Properties, ok \in BOOLEAN : GotCreated(p, ok)
  <2> PICK p \in Properties, ok \in BOOLEAN : GotCreated(p, ok)
    BY <1>4
  <2>1. data \in Rows /\ (data' = data \/ data' = [data EXCEPT !.listed[p] = data.listed[p] + 1])
    BY DEF GotCreated, Shape, TypeOK
  <2>2. data'.payments = data.payments /\ data'.day = data.day
    BY <2>1 DEF Rows
  <2> QED
    BY <2>2 DEF PaidByThen
<1>5. CASE Elsewhere
  <2>1. UNCHANGED data
    BY <1>5, ElsewhereKeeps DEF Shape, TypeOK, Rest
  <2> QED
    BY <1>1, <2>1
<1>6. CASE \/ \E view \in View : OpenPage(view)
           \/ Reload \/ LoadFailed \/ OpenForm \/ CloseForm
           \/ \E part \in Parts : HandlePart(part) \/ FailQuietly(part)
           \/ \E ok \in BOOLEAN : GotOwners(ok)
           \/ \E p \in Properties : SubmitProperty(p) \/ HandleCreate(p)
  <2>1. UNCHANGED data
    BY <1>6 DEF OpenPage, Reload, LoadFailed, OpenForm, CloseForm, HandlePart, FailQuietly,
                GotOwners, SubmitProperty, HandleCreate
  <2> QED
    BY <1>1, <2>1
<1> QED
  BY <1>1, <1>2, <1>3, <1>4, <1>5, <1>6 DEF Next, vars

(***************************************************************************)
(* FiguresAgree for any tables, lengths of the lists and days: whatever    *)
(* the answers brought, a list that is cut leaves out nothing more urgent  *)
(* than what it shows, and the parts of a chart add up.                    *)
(***************************************************************************)
THEOREM FiguresCorrect == Spec => []FiguresAgree
<1>1. Init => PaidByThen(data)
  BY DEF Init, PaidByThen, NoRows, Unpaid0
<1>2. Spec => [](Shape /\ PaidByThen(data))
  BY <1>1, InitShape, NextShape, NextPaid, PTL DEF Spec
<1>3. Shape /\ PaidByThen(data) => FiguresAgree
  BY QueuesCorrect, ChartsCorrect DEF Shape, TypeOK, FiguresAgree
<1> QED
  BY <1>2, <1>3, PTL
=============================================================================
