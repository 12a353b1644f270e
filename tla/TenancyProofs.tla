--------------------------- MODULE TenancyProofs ---------------------------
(***************************************************************************)
(* Proofs, for any sets of tenants, units and calls and any number of      *)
(* leases, that a lease in force is complete, that signatures and receipts *)
(* stand, and that no page is ahead of the API.                            *)
(***************************************************************************)
EXTENDS Tenancy, TLAPS

(***************************************************************************)
(* Shape: the types, and what calls, dialogs and payments are about. What  *)
(* the handlers write is well typed only because signatures and payments   *)
(* name a lease and drafts a tenant and a unit.                            *)
(***************************************************************************)
SoundCall ==
    {r \in Call : /\ r.kind # "idle" => r.by \in Users
                  /\ r.kind \in {"sign", "pay"} => r.lease \in Leases
                  /\ r.kind = "create" => /\ r.by = Manager
                                          /\ r.tenant \in Tenants /\ r.unit \in Units
                                          /\ r.reply = "ok" => r.lease \in Leases
                  /\ r.kind = "invite" => r.tenant \in Tenants}

SoundDialog == {d \in Dialog : d.is = "draft" => d.tenant \in Tenants}

SoundPay == {p \in Pay : p.open => p.lease \in Leases}

Shape ==
    /\ TypeOK
    /\ calls \in [Calls -> SoundCall]
    /\ dialog \in SoundDialog
    /\ pay \in [Tenants -> SoundPay]

\* The manager and the tenants are users.
LEMMA AreUsers == Manager \in Users /\ Tenants \subseteq Users /\ Manager \notin Tenants
BY UsersAssumption DEF Users

\* An empty page, and any one of its lists replaced, is well typed.
LEMMA RowsType ==
    /\ NoRows \in Rows
    /\ \A r \in Rows :
          /\ \A x \in [Leases -> LeaseStatus] : [r EXCEPT !.leases = x] \in Rows
          /\ \A x \in [Leases -> PaymentStatus] : [r EXCEPT !.payments = x] \in Rows
          /\ \A x \in [Units -> UnitStatus] : [r EXCEPT !.units = x] \in Rows
          /\ \A x \in SUBSET Tenants : [r EXCEPT !.tenants = x] \in Rows
<1>1. NoRows \in Rows
  BY DEF NoRows, Rows, LeaseStatus, PaymentStatus, UnitStatus
<1> QED
  BY <1>1 DEF Rows

\* The lists that name one lease only are well typed.
LEMMA OnlyType ==
    \A l : /\ \A s \in LeaseStatus : Only(l, s) \in [Leases -> LeaseStatus]
           /\ \A s \in PaymentStatus : Only(l, s) \in [Leases -> PaymentStatus]
BY DEF Only, LeaseStatus, PaymentStatus

\* Closed dialogs name nothing.
LEMMA ClosedType == Closed \in SoundDialog /\ NoPay \in SoundPay
BY DEF Closed, SoundDialog, Dialog, NoPay, SoundPay, Pay

\* A place among Calls that no call has taken is sound.
LEMMA IdleSound == Idle \in SoundCall
BY RowsType DEF Idle, SoundCall, Call, Kinds

\* So is each call that a page sends.
LEMMA AskSound ==
    ASSUME NEW u \in Users
    PROVE  /\ \A kind \in {"load", "vacant", "unit", "receipts"} : Ask(kind, u) \in SoundCall
           /\ \A kind \in {"load", "sign", "pay"}, l \in Leases :
                 [Ask(kind, u) EXCEPT !.lease = l] \in SoundCall
           /\ \A t \in Tenants : [Ask("invite", u) EXCEPT !.tenant = t] \in SoundCall
           /\ \A t \in Tenants, h \in Units :
                 u = Manager => [Ask("create", u) EXCEPT !.tenant = t, !.unit = h] \in SoundCall
           /\ \A l \in Leases, b \in BOOLEAN :
                 [Ask("sign", u) EXCEPT !.lease = l, !.chained = TRUE, !.mounted = b]
                     \in SoundCall
<1> USE RowsType DEF Ask, Idle, SoundCall, Call, Kinds
<1>1. \A kind \in {"load", "vacant", "unit", "receipts"} : Ask(kind, u) \in SoundCall
  OBVIOUS
<1>2. \A kind \in {"load", "sign", "pay"}, l \in Leases :
         [Ask(kind, u) EXCEPT !.lease = l] \in SoundCall
  OBVIOUS
<1>3. \A t \in Tenants : [Ask("invite", u) EXCEPT !.tenant = t] \in SoundCall
  OBVIOUS
<1>4. \A t \in Tenants, h \in Units :
         u = Manager => [Ask("create", u) EXCEPT !.tenant = t, !.unit = h] \in SoundCall
  OBVIOUS
<1>5. \A l \in Leases, b \in BOOLEAN :
         [Ask("sign", u) EXCEPT !.lease = l, !.chained = TRUE, !.mounted = b] \in SoundCall
  OBVIOUS
<1> QED
  BY <1>1, <1>2, <1>3, <1>4, <1>5

\* A load names the lists its page needs.
LEMMA NeedsSound ==
    ASSUME NEW u \in Users, NEW r \in SoundCall, r.kind = "load",
           NEW view \in {"lease", "payments", "tenants", "property"}
    PROVE  [r EXCEPT !.needs = Needs(view)] \in SoundCall
BY DEF SoundCall, Call, Needs

\* A sound call may be given an answer and rows.
LEMMA AnswerSound ==
    ASSUME NEW r \in SoundCall, r.kind # "create",
           NEW s \in {"awaited", "checked", "declined", "ok"}
    PROVE  /\ [r EXCEPT !.reply = s] \in SoundCall
           /\ \A x \in Rows : [r EXCEPT !.reply = s, !.rows = x] \in SoundCall
BY DEF SoundCall, Call

\* What is sent, answered or left behind takes one place among Calls.
LEMMA PlaceSound ==
    ASSUME calls \in [Calls -> SoundCall], NEW c \in Calls, NEW r \in SoundCall,
           Sends(c, r) \/ Reply(c, r) \/ Then(c, r)
    PROVE  calls' \in [Calls -> SoundCall]
BY IdleSound DEF Sends, Reply, Then

\* Whether a call's page is still there, and what rows it has, is all the same.
LEMMA AlikeSound ==
    ASSUME NEW r \in SoundCall
    PROVE  /\ [r EXCEPT !.mounted = FALSE] \in SoundCall
           /\ \A x \in Rows : [r EXCEPT !.rows = x] \in SoundCall
<1>1. r \in Call
  BY DEF SoundCall
<1>2. [r EXCEPT !.mounted = FALSE] \in Call
  BY <1>1 DEF Call
<1>3. \A x \in Rows : [r EXCEPT !.rows = x] \in Call
  BY <1>1 DEF Call
<1>4. \A q : /\ q \in Call /\ q.kind = r.kind /\ q.by = r.by /\ q.lease = r.lease
             /\ q.tenant = r.tenant /\ q.unit = r.unit /\ q.reply = r.reply
             => q \in SoundCall
  BY DEF SoundCall
<1>5. [r EXCEPT !.mounted = FALSE] \in SoundCall
  BY <1>1, <1>2, <1>4 DEF Call
<1>6. \A x \in Rows : [r EXCEPT !.rows = x] \in SoundCall
  BY <1>1, <1>3, <1>4 DEF Call
<1> QED
  BY <1>5, <1>6

\* Leaving a page keeps the calls sound.
LEMMA AbandonSound ==
    ASSUME calls \in [Calls -> SoundCall], NEW u PROVE Abandon(u) \in [Calls -> SoundCall]
<1>1. \A c \in Calls : [calls[c] EXCEPT !.mounted = FALSE] \in SoundCall
  BY AlikeSound
<1>2. \A c \in Calls : Abandon(u)[c] \in {calls[c], [calls[c] EXCEPT !.mounted = FALSE], Idle}
  BY DEF Abandon
<1>3. \A c \in Calls : Abandon(u)[c] \in SoundCall
  BY <1>1, <1>2, IdleSound
<1> QED
  BY <1>3 DEF Abandon

\* Soundness adds to the types.
LEMMA SoundTypes ==
    /\ SoundCall \subseteq Call /\ SoundDialog \subseteq Dialog /\ SoundPay \subseteq Pay
    /\ [Calls -> SoundCall] \subseteq [Calls -> Call]
    /\ [Tenants -> SoundPay] \subseteq [Tenants -> Pay]
BY DEF SoundCall, SoundDialog, SoundPay

\* The empty tables and the closed dialogs have the shape.
LEMMA ShapeInit == Init => Shape
<1> SUFFICES ASSUME Init PROVE Shape
  OBVIOUS
<1>1. calls \in [Calls -> SoundCall] /\ dialog \in SoundDialog /\ pay \in [Tenants -> SoundPay]
  BY IdleSound, ClosedType DEF Init
<1>2. seen \in [Users -> Rows] /\ page \in [Users -> View] /\ accounts \subseteq Tenants
  BY RowsType DEF Init, View
<1>3. leases \in [Leases -> LeaseRow]
  BY DEF Init, NoLease, LeaseRow, LeaseStatus
<1>4. units \in [Units -> UnitStatus] /\ payments \in [Leases -> PaymentRow]
  BY DEF Init, UnitStatus, PaymentRow, PaymentStatus
<1> QED
  BY <1>1, <1>2, <1>3, <1>4, SoundTypes DEF Shape, TypeOK

\* Going to a page keeps the shape.
LEMMA ShapeGoes ==
    ASSUME Shape, NEW c \in Calls, NEW u \in Users, NEW call \in SoundCall, call.kind = "load",
           NEW view \in {"lease", "payments", "tenants", "property"}, Goes(u, view, call, c)
    PROVE  Shape'
<1> USE DEF Shape, TypeOK
<1>1. calls' \in [Calls -> SoundCall]
  BY NeedsSound, AbandonSound DEF Goes
<1>2. page' \in [Users -> View] /\ seen' \in [Users -> Rows]
  BY RowsType DEF Goes, View
<1>3. dialog' \in SoundDialog /\ pay' \in [Tenants -> SoundPay]
  BY ClosedType DEF Goes
<1> QED
  BY <1>1, <1>2, <1>3, SoundTypes DEF Goes, api

\* What the users do on their pages keeps the shape.
LEMMA ShapePages ==
    ASSUME Shape,
           \/ CloseDialog
           \/ \E is \in {"invite", "draft", "unit"}, t \in Tenants \cup {None} : OpenDialog(is, t)
           \/ \E t \in Tenants : TenantStep(t)
           \/ \E c \in Calls :
                 \/ \E u \in Users, view \in View : OpenPage(u, view, c)
                 \/ \E u \in Users, l \in Leases : SubmitSignature(u, l, c)
                 \/ ManagerStep(c)
    PROVE  Shape'
<1> USE DEF Shape, TypeOK, api, client
<1>0. \A c \in Calls, r \in SoundCall : Sends(c, r) => calls' \in [Calls -> SoundCall]
  BY PlaceSound
<1>1. CASE CloseDialog
  <2>1. calls' \in [Calls -> SoundCall]
    BY <1>1, IdleSound DEF CloseDialog
  <2> QED
    BY <1>1, <2>1, ClosedType, SoundTypes DEF CloseDialog
<1>2. ASSUME NEW is \in {"invite", "draft", "unit"}, NEW t \in Tenants \cup {None},
             OpenDialog(is, t)
      PROVE Shape'
  <2>1. is = "draft" => t \in Tenants
    BY <1>2, AreUsers DEF OpenDialog, Rows
  <2>2. [Closed EXCEPT !.is = is, !.tenant = t] \in SoundDialog
    BY <2>1 DEF Closed, SoundDialog, Dialog
  <2> QED
    BY <1>2, <2>2, SoundTypes DEF OpenDialog
<1>3. ASSUME NEW t \in Tenants, NEW l \in Leases, OpenPay(t, l) PROVE Shape'
  <2>1. [NoPay EXCEPT !.open = TRUE, !.lease = l] \in SoundPay
    BY DEF NoPay, SoundPay, Pay
  <2>2. pay' \in [Tenants -> SoundPay]
    BY <1>3, <2>1 DEF OpenPay
  <2> QED
    BY <1>3, <2>2, SoundTypes DEF OpenPay
<1>4. ASSUME NEW t \in Tenants, ClosePay(t) PROVE Shape'
  <2>1. pay' \in [Tenants -> SoundPay]
    BY <1>4, ClosedType DEF ClosePay
  <2> QED
    BY <1>4, <2>1, SoundTypes DEF ClosePay
<1>5. ASSUME NEW t \in Tenants, NEW c \in Calls, SubmitPay(t, c) PROVE Shape'
  <2>1. pay[t].lease \in Leases
    BY <1>5 DEF SubmitPay, SoundPay
  <2>2. calls' \in [Calls -> SoundCall]
    BY <1>0, <1>5, <2>1, AskSound, AreUsers DEF SubmitPay
  <2>3. pay' \in [Tenants -> SoundPay]
    BY <1>5 DEF SubmitPay, SoundPay, Pay
  <2> QED
    BY <1>5, <2>2, <2>3, SoundTypes DEF SubmitPay
<1>6. ASSUME NEW c \in Calls, NEW u \in Users, NEW view \in View, OpenPage(u, view, c)
      PROVE Shape'
  <2>1. view \in {"lease", "payments", "tenants", "property"}
    BY <1>6 DEF OpenPage, Views
  <2>2. Ask("load", u) \in SoundCall /\ Ask("load", u).kind = "load"
    BY AskSound DEF Ask, Idle
  <2> QED
    BY <1>6, <2>1, <2>2, ShapeGoes DEF OpenPage
<1>7. ASSUME NEW c \in Calls, NEW t \in Tenants, OpenLease(t, c) PROVE Shape'
  <2>1. PICK l \in Newest(seen[Manager], t) :
           Goes(Manager, "lease", [Ask("load", Manager) EXCEPT !.lease = l], c)
    BY <1>7 DEF OpenLease
  <2>2. l \in Leases
    BY <2>1 DEF Newest
  <2>3. [Ask("load", Manager) EXCEPT !.lease = l] \in SoundCall
    BY <2>2, AskSound, AreUsers
  <2>4. [Ask("load", Manager) EXCEPT !.lease = l].kind = "load"
    BY DEF Ask, Idle
  <2> QED
    BY <2>1, <2>3, <2>4, ShapeGoes, AreUsers
<1>8. ASSUME NEW c \in Calls, NEW u \in Users, NEW l \in Leases, SubmitSignature(u, l, c)
      PROVE Shape'
  <2>1. calls' \in [Calls -> SoundCall]
    BY <1>0, <1>8, AskSound DEF SubmitSignature
  <2> QED
    BY <1>8, <2>1, SoundTypes DEF SubmitSignature
<1>9. ASSUME NEW c \in Calls, PickProperty(c) PROVE Shape'
  <2>1. calls' \in [Calls -> SoundCall]
    BY <1>0, <1>9, AskSound, AreUsers DEF PickProperty
  <2> QED
    BY <1>9, <2>1, SoundTypes DEF PickProperty
<1>10. ASSUME NEW c \in Calls, NEW r \in SoundCall, Submits(c, r) PROVE Shape'
  <2>1. calls' \in [Calls -> SoundCall]
    BY <1>0, <1>10 DEF Submits
  <2>2. dialog' \in SoundDialog
    BY <1>10 DEF Submits, SoundDialog, Dialog
  <2> QED
    BY <1>10, <2>1, <2>2, SoundTypes DEF Submits
<1>11. ASSUME NEW c \in Calls, SubmitUnit(c) PROVE Shape'
  BY <1>10, <1>11, AskSound, AreUsers DEF SubmitUnit
<1>12. ASSUME NEW c \in Calls, NEW t \in Tenants, SubmitInvite(t, c) PROVE Shape'
  BY <1>10, <1>12, AskSound, AreUsers DEF SubmitInvite
<1>13. ASSUME NEW c \in Calls, NEW h \in Units, SubmitDraft(h, c) PROVE Shape'
  <2>1. dialog.tenant \in Tenants
    BY <1>13 DEF SubmitDraft, SoundDialog
  <2> QED
    BY <1>10, <1>13, <2>1, AskSound, AreUsers DEF SubmitDraft
<1>14. ASSUME NEW t \in Tenants, TenantStep(t) PROVE Shape'
  BY <1>3, <1>4, <1>5, <1>14 DEF TenantStep
<1>15. ASSUME NEW c \in Calls, ManagerStep(c) PROVE Shape'
  BY <1>7, <1>9, <1>11, <1>12, <1>13, <1>15 DEF ManagerStep
<1> QED
  BY <1>1, <1>2, <1>6, <1>8, <1>14, <1>15

\* The handlers keep the shape.
LEMMA ShapeHandle == ASSUME Shape, NEW c \in Calls, Handle(c) PROVE Shape'
<1> USE DEF Shape, TypeOK, client
<1>0. calls[c] \in SoundCall /\ calls[c] \in Call /\ calls[c].rows \in Rows
  BY SoundTypes DEF Call
<1>1. \A r \in SoundCall : Reply(c, r) => calls' \in [Calls -> SoundCall]
  BY PlaceSound
<1>2. ASSUME NEW part \in {"leases", "payments", "units", "tenants"}, HandlePart(c, part)
      PROVE Shape'
  <2> DEFINE call == [calls[c] EXCEPT !.needs = @ \ {part},
                         !.reply = IF calls[c].needs = {part} THEN "ok" ELSE @]
  <2>1. call \in SoundCall /\ call.rows = calls[c].rows
    BY <1>0, <1>2 DEF HandlePart, Awaiting, SoundCall, Call
  <2>2. \A x \in Rows : [call EXCEPT !.rows = x] \in SoundCall
    BY <2>1, AlikeSound
  <2> HIDE DEF call
  <2>3. /\ LeasesFor(c) \in [Leases -> LeaseStatus]
        /\ PaymentsFor(c) \in [Leases -> PaymentStatus]
    BY DEF LeasesFor, PaymentsFor, LeaseRow, PaymentRow, LeaseStatus, PaymentStatus
  <2>4. /\ [call EXCEPT !.rows.leases = LeasesFor(c)] \in SoundCall
        /\ [call EXCEPT !.rows.payments = PaymentsFor(c)] \in SoundCall
        /\ [call EXCEPT !.rows.units = units] \in SoundCall
        /\ \A ts \in {accounts, {}} : [call EXCEPT !.rows.tenants = ts] \in SoundCall
    BY <1>0, <2>1, <2>2, <2>3, RowsType
  <2>5. \E r \in SoundCall : Reply(c, r)
    BY <1>2, <2>4 DEF HandlePart, call
  <2>6. calls' \in [Calls -> SoundCall]
    BY <1>1, <2>5
  <2> QED
    BY <1>2, <2>6, SoundTypes DEF HandlePart, api
<1>3. CASE HandleUnits(c)
  <2>1. [Ok(c) EXCEPT !.rows.units = units] \in SoundCall
    <3>1. Ok(c).rows = calls[c].rows
      BY <1>0 DEF Ok, Call
    <3>2. \A x \in Rows : [Ok(c) EXCEPT !.rows = x] \in SoundCall
      BY <1>0, <1>3, AnswerSound DEF HandleUnits, Awaiting, Ok
    <3> QED
      BY <1>0, <3>1, <3>2, RowsType
  <2>2. calls' \in [Calls -> SoundCall]
    BY <1>1, <1>3, <2>1 DEF HandleUnits
  <2> QED
    BY <1>3, <2>2, SoundTypes DEF HandleUnits, api
<1>4. CASE HandleReceipts(c)
  <2>1. calls' \in [Calls -> SoundCall]
    BY <1>0, <1>1, <1>4, AnswerSound DEF HandleReceipts, Awaiting, Ok
  <2> QED
    BY <1>4, <2>1, SoundTypes DEF HandleReceipts, api
<1>5. calls[c].kind # "create" =>
         /\ Ok(c).rows = calls[c].rows
         /\ \A x \in Rows : [Ok(c) EXCEPT !.rows = x] \in SoundCall
  BY <1>0, AnswerSound DEF Ok, Call
<1>6. CASE HandleInvite(c)
  <2>1. calls[c].tenant \in Tenants
    BY <1>0, <1>6 DEF HandleInvite, Awaiting, SoundCall
  <2>2. [Ok(c) EXCEPT !.rows.tenants = {calls[c].tenant}] \in SoundCall
    BY <1>0, <1>5, <1>6, <2>1, RowsType DEF HandleInvite, Awaiting
  <2>3. calls' \in [Calls -> SoundCall]
    BY <1>1, <1>6, <2>2 DEF HandleInvite
  <2> QED
    BY <1>6, <2>1, <2>3, SoundTypes DEF HandleInvite
<1>7. ASSUME NEW h \in Units, HandleUnit(c, h) PROVE Shape'
  <2>1. [calls[c].rows.units EXCEPT ![h] = "vacant"] \in [Units -> UnitStatus]
    BY <1>0 DEF Rows, UnitStatus
  <2>2. [Ok(c) EXCEPT !.rows.units[h] = "vacant"] \in SoundCall
    BY <1>0, <1>5, <1>7, <2>1, RowsType DEF HandleUnit, Awaiting
  <2>3. calls' \in [Calls -> SoundCall]
    BY <1>1, <1>7, <2>2 DEF HandleUnit
  <2>4. units' \in [Units -> UnitStatus]
    BY <1>7 DEF HandleUnit, UnitStatus
  <2> QED
    BY <1>7, <2>3, <2>4, SoundTypes DEF HandleUnit
<1>8. ASSUME NEW l \in Leases, HandleCreate(c, l) PROVE Shape'
  <2>1. calls[c].tenant \in Tenants /\ calls[c].unit \in Units
    BY <1>0, <1>8 DEF HandleCreate, Awaiting, SoundCall
  <2>2. [calls[c].rows EXCEPT !.leases = Only(l, "draft")] \in Rows
    BY <1>0, RowsType, OnlyType DEF LeaseStatus
  <2>3. [Ok(c) EXCEPT !.lease = l, !.rows.leases = Only(l, "draft")] \in SoundCall
    BY <1>0, <1>8, <2>1, <2>2 DEF HandleCreate, Awaiting, Ok, SoundCall, Call
  <2>4. calls' \in [Calls -> SoundCall]
    BY <1>1, <1>8, <2>3 DEF HandleCreate
  <2>5. leases' \in [Leases -> LeaseRow]
    BY <1>8, <2>1 DEF HandleCreate, NoLease, LeaseRow, LeaseStatus
  <2> QED
    BY <1>8, <2>4, <2>5, SoundTypes DEF HandleCreate
<1>9. ASSUME NEW s \in LeaseStatus, NEW x, x \in Signer, calls[c].kind # "create"
      PROVE  /\ [leases EXCEPT ![calls[c].lease].status = s,
                               ![calls[c].lease].signed = @ \cup {x}] \in [Leases -> LeaseRow]
             /\ [Ok(c) EXCEPT !.rows.leases = Only(calls[c].lease, s)] \in SoundCall
  <2>1. \A l \in Leases : [leases[l] EXCEPT !.status = s, !.signed = @ \cup {x}] \in LeaseRow
    BY <1>9 DEF LeaseRow
  <2>2. [leases EXCEPT ![calls[c].lease].status = s,
                       ![calls[c].lease].signed = @ \cup {x}] \in [Leases -> LeaseRow]
    BY <2>1
  <2>3. [calls[c].rows EXCEPT !.leases = Only(calls[c].lease, s)] \in Rows
    BY <1>0, <1>9, RowsType, OnlyType
  <2> QED
    BY <1>5, <1>9, <2>2, <2>3
<1>10. CASE ManagerSigns(c)
  <2>1. "manager" \in Signer /\ "pending_tenant" \in LeaseStatus /\ calls[c].kind # "create"
    BY <1>10 DEF ManagerSigns, Awaiting, Signer, LeaseStatus
  <2>2. calls' \in [Calls -> SoundCall] /\ leases' \in [Leases -> LeaseRow]
    BY <1>1, <1>9, <1>10, <2>1 DEF ManagerSigns
  <2> QED
    BY <1>10, <2>2, SoundTypes DEF ManagerSigns
<1>11. CASE TenantSigns(c)
  <2>1. "tenant" \in Signer /\ "active" \in LeaseStatus /\ calls[c].kind # "create"
    BY <1>11 DEF TenantSigns, Awaiting, Signer, LeaseStatus
  <2>2. calls' \in [Calls -> SoundCall] /\ leases' \in [Leases -> LeaseRow]
    BY <1>1, <1>9, <1>11, <2>1 DEF TenantSigns
  <2>3. units' \in [Units -> UnitStatus]
    BY <1>11 DEF TenantSigns, UnitStatus
  <2>4. payments' \in [Leases -> PaymentRow]
    BY <1>11 DEF TenantSigns, PaymentRow, PaymentStatus
  <2> QED
    BY <1>11, <2>2, <2>3, <2>4, SoundTypes DEF TenantSigns
<1>12. CASE CheckPay(c)
  <2>1. [calls[c] EXCEPT !.reply = "checked"] \in SoundCall
    BY <1>0, <1>12, AnswerSound DEF CheckPay, Awaiting
  <2>2. calls' \in [Calls -> SoundCall]
    BY <1>12, <2>1 DEF CheckPay
  <2> QED
    BY <1>12, <2>2, SoundTypes DEF CheckPay, api
<1>13. CASE Lose(c)
  <2>1. calls' \in [Calls -> SoundCall]
    BY <1>13, IdleSound DEF Lose
  <2> QED
    BY <1>13, <2>1, SoundTypes DEF Lose, api
<1>14. ASSUME NEW decline \in BOOLEAN, SettlePay(c, decline) PROVE Shape'
  <2>1. payments' \in [Leases -> PaymentRow]
    <3>1. /\ [status |-> "paid", receipt |-> TRUE] \in PaymentRow
          /\ \A l \in Leases : [payments[l] EXCEPT !.status = "pending"] \in PaymentRow
      BY DEF PaymentRow, PaymentStatus
    <3> QED
      BY <1>14, <3>1 DEF SettlePay
  <2>2. [calls[c] EXCEPT !.reply = "declined"] \in SoundCall
    BY <1>0, <1>14, AnswerSound DEF SettlePay
  <2>3. [Ok(c) EXCEPT !.rows.payments = Only(calls[c].lease, "paid")] \in SoundCall
    <3>1. [calls[c].rows EXCEPT !.payments = Only(calls[c].lease, "paid")] \in Rows
      BY <1>0, RowsType, OnlyType DEF PaymentStatus
    <3> QED
      BY <1>5, <1>14, <3>1 DEF SettlePay
  <2>4. calls' \in [Calls -> SoundCall]
    BY <1>1, <1>14, <2>2, <2>3 DEF SettlePay
  <2> QED
    BY <1>14, <2>1, <2>4, SoundTypes DEF SettlePay
<1> QED
  BY <1>2, <1>3, <1>4, <1>6, <1>7, <1>8, <1>10, <1>11, <1>12, <1>13, <1>14 DEF Handle

\* The lease of TenantLease is one of those its load has brought.
LEMMA LeaseType ==
    ASSUME NEW ls \in [Leases -> LeaseStatus]
    PROVE  /\ Lease(ls) \in [Leases -> LeaseStatus]
           /\ \A l \in Leases : Lease(ls)[l] \in {ls[l], "none"}
BY DEF Lease, LeaseStatus

\* The continuations keep the shape.
LEMMA ShapeGet == ASSUME Shape, NEW c \in Calls, NEW ok \in BOOLEAN, Get(c, ok) PROVE Shape'
<1> USE DEF Shape, TypeOK, api
<1>0. /\ calls[c] \in SoundCall /\ calls[c] \in Call
      /\ calls[c].rows \in Rows /\ calls[c].rows.leases \in [Leases -> LeaseStatus]
      /\ calls[c].rows.payments \in [Leases -> PaymentStatus]
      /\ calls[c].rows.units \in [Units -> UnitStatus]
      /\ calls[c].rows.tenants \in SUBSET Tenants
  BY SoundTypes DEF Call, Rows
<1>1. \A r \in SoundCall : Then(c, r) => calls' \in [Calls -> SoundCall]
  BY PlaceSound
<1>2. Then(c, Idle) => calls' \in [Calls -> SoundCall]
  BY <1>1, IdleSound
<1>3. \A u \in Users : /\ seen[u].leases \in [Leases -> LeaseStatus]
                       /\ seen[u].payments \in [Leases -> PaymentStatus]
                       /\ seen[u].units \in [Units -> UnitStatus]
                       /\ seen[u].tenants \in SUBSET Tenants
  BY DEF Rows
<1>4. ASSUME NEW is \in {"invite", "draft", "unit"} PROVE DialogAfter(is, ok) \in SoundDialog
  BY ClosedType DEF DialogAfter, SoundDialog, Dialog
<1>5. CASE GotLoad(c, ok)
  <2>1. [calls[c].rows EXCEPT !.leases = Lease(@)] \in Rows
    BY <1>0, LeaseType, RowsType
  <2>2. seen' \in [Users -> Rows]
    BY <1>0, <1>5, <2>1 DEF GotLoad
  <2> QED
    BY <1>2, <1>5, <2>2, SoundTypes DEF GotLoad
<1>6. CASE GotVacant(c, ok)
  <2>1. dialog' \in SoundDialog
    BY <1>6 DEF GotVacant, SoundDialog, Dialog
  <2> QED
    BY <1>2, <1>6, <2>1, SoundTypes DEF GotVacant
<1>7. CASE GotInvited(c, ok)
  <2>1. [seen EXCEPT ![Manager].tenants = @ \cup calls[c].rows.tenants] \in [Users -> Rows]
    BY <1>0, <1>3, RowsType
  <2>2. dialog' \in SoundDialog
    BY <1>4, <1>7 DEF GotInvited
  <2> QED
    BY <1>2, <1>7, <2>1, <2>2, SoundTypes DEF GotInvited
<1>8. CASE GotUnit(c, ok)
  <2> DEFINE x == [h \in Units |-> IF calls[c].rows.units[h] # "none" THEN calls[c].rows.units[h]
                                  ELSE seen[Manager].units[h]]
  <2>1. x \in [Units -> UnitStatus]
    BY <1>0, <1>3, AreUsers
  <2>2. [seen EXCEPT ![Manager].units = x] \in [Users -> Rows]
    BY <2>1, RowsType
  <2>3. seen' \in [Users -> Rows]
    BY <1>8, <2>2 DEF GotUnit
  <2>4. dialog' \in SoundDialog
    BY <1>4, <1>8 DEF GotUnit
  <2> QED
    BY <1>2, <1>8, <2>3, <2>4, SoundTypes DEF GotUnit
<1>9. ASSUME Drafted(c, ok), ok => calls[c].lease \in Leases, UNCHANGED <<api, page, pay>>
      PROVE Shape'
  <2> DEFINE l == calls[c].lease
  <2>1. ASSUME ok PROVE [seen EXCEPT ![Manager].leases[l] = calls[c].rows.leases[l]]
                            \in [Users -> Rows]
    <3>1. [seen[Manager].leases EXCEPT ![l] = calls[c].rows.leases[l]]
              \in [Leases -> LeaseStatus]
      BY <1>0, <1>3, <1>9, <2>1, AreUsers
    <3> QED
      BY <3>1, RowsType, AreUsers
  <2>2. seen' \in [Users -> Rows]
    BY <1>9, <2>1 DEF Drafted
  <2>3. dialog' \in SoundDialog
    BY <1>4, <1>9 DEF Drafted
  <2> QED
    BY <1>2, <1>9, <2>2, <2>3, SoundTypes DEF Drafted
<1>10. ASSUME NEW sign \in BOOLEAN, GotCreated(c, ok, sign) PROVE Shape'
  <2>1. ok => calls[c].lease \in Leases
    BY <1>0, <1>10 DEF GotCreated, Answered, SoundCall
  <2>2. CASE ok /\ sign
    <3>1. calls[c].mounted \in BOOLEAN
      BY <1>0 DEF Call
    <3>2. calls' \in [Calls -> SoundCall]
      BY <1>1, <1>10, <2>1, <2>2, <3>1, AskSound, AreUsers DEF GotCreated
    <3> QED
      BY <1>10, <2>2, <3>2, SoundTypes DEF GotCreated
  <2>3. CASE ~(ok /\ sign) /\ calls[c].mounted
    BY <1>9, <1>10, <2>1, <2>3 DEF GotCreated
  <2>4. CASE ~(ok /\ sign) /\ ~calls[c].mounted
    BY <1>2, <1>10, <2>4, SoundTypes DEF GotCreated
  <2> QED
    BY <2>2, <2>3, <2>4
<1>11. CASE GotSigned(c, ok)
  <2>1. calls[c].by \in Users /\ calls[c].lease \in Leases
    BY <1>0, <1>11 DEF GotSigned, Answered, SoundCall
  <2>2. CASE calls[c].chained
    BY <1>9, <1>11, <2>1, <2>2 DEF GotSigned
  <2>3. CASE ~calls[c].chained
    <3>1. seen' \in [Users -> Rows]
      BY <1>0, <1>11, <2>3, RowsType DEF GotSigned
    <3>2. calls' \in [Calls -> SoundCall]
      BY <1>1, <1>2, <1>11, <2>1, <2>3, AskSound DEF GotSigned
    <3> QED
      BY <1>11, <2>3, <3>1, <3>2, SoundTypes DEF GotSigned
  <2> QED
    BY <2>2, <2>3
<1>12. CASE GotReceipts(c, ok)
  BY <1>2, <1>12, SoundTypes DEF GotReceipts, client
<1>13. CASE GotPaid(c, ok)
  <2> DEFINE t == calls[c].by  l == calls[c].lease
  <2>1. l \in Leases /\ t \in Users
    BY <1>0, <1>13 DEF GotPaid, Answered, SoundCall
  <2>2. [seen EXCEPT ![t].payments[l] = calls[c].rows.payments[l]] \in [Users -> Rows]
    <3>1. [seen[t].payments EXCEPT ![l] = calls[c].rows.payments[l]]
              \in [Leases -> PaymentStatus]
      BY <1>0, <1>3, <2>1
    <3> QED
      BY <2>1, <3>1, RowsType
  <2>3. seen' \in [Users -> Rows]
    BY <1>13, <2>2 DEF GotPaid
  <2>4. pay' \in [Tenants -> SoundPay]
    <3>1. \A u \in Tenants, b \in BOOLEAN :
             [pay[u] EXCEPT !.submitting = FALSE, !.success = b] \in SoundPay
      BY DEF SoundPay, Pay
    <3>2. \A u \in Tenants : pay[u].success \/ ok \in BOOLEAN
      OBVIOUS
    <3>3. [pay EXCEPT ![t].submitting = FALSE, ![t].success = @ \/ ok] \in [Tenants -> SoundPay]
      BY <3>1, <3>2
    <3> QED
      BY <1>13, <3>3 DEF GotPaid
  <2> QED
    BY <1>2, <1>13, <2>3, <2>4, SoundTypes DEF GotPaid
<1> QED
  BY <1>5, <1>6, <1>7, <1>8, <1>10, <1>11, <1>12, <1>13 DEF Get

\* So the shape is kept by every step.
LEMMA ShapeStep == Shape /\ [Next]_vars => Shape'
<1>1. Shape /\ Next => Shape'
  BY ShapePages, ShapeHandle, ShapeGet DEF Next
<1>2. Shape /\ UNCHANGED vars => Shape'
  BY DEF Shape, TypeOK, vars, api, client
<1> QED
  BY <1>1, <1>2

\* Tables, pages, dialogs and calls keep their types, however the calls of the
\* tenants and the manager overlap, fail or arrive late.
THEOREM ShapeCorrect == Spec => []TypeOK
<1>1. Spec => []Shape
  BY ShapeInit, ShapeStep, PTL DEF Spec
<1>2. Shape => TypeOK
  BY DEF Shape
<1> QED
  BY <1>1, <1>2, PTL

(***************************************************************************)
(* The tables grow: what one step may do to them.                          *)
(***************************************************************************)
Grows ==
    /\ \A l \in Leases :
          /\ \/ leases'[l].status = leases[l].status
             \/ leases[l].status = "none" /\ leases'[l].status = "draft"
             \/ leases[l].status = "draft" /\ leases'[l].status = "pending_tenant"
             \/ leases[l].status = "pending_tenant" /\ leases'[l].status = "active"
          /\ leases[l].status # "none" =>
                /\ leases'[l].tenant = leases[l].tenant
                /\ leases'[l].unit = leases[l].unit
                /\ leases[l].signed \subseteq leases'[l].signed
          /\ payments[l].receipt => payments'[l].receipt
    /\ \A h \in Units :
          /\ units[h] = "occupied" => units'[h] = "occupied"
          /\ units[h] # "none" => units'[h] # "none"
    /\ accounts \subseteq accounts'

(***************************************************************************)
(* LeasesAreComplete is not inductive. A payment is settled one step after *)
(* it was tested, and the tests are not made again: that its invoice is    *)
(* still there then is known because a page pays only what it was shown.   *)
(***************************************************************************)
Complete ==
    /\ LeasesAreComplete
    /\ \A l \in Leases : /\ payments[l].receipt => payments[l].status # "none"
                         /\ payments[l].status = "paid" => payments[l].receipt

PaysInvoices ==
    \A c \in Calls : calls[c].kind = "pay" => leases[calls[c].lease].status = "active"

\* The handlers add to the tables and leave leases in force complete.
LEMMA HandleGrows ==
    ASSUME Shape, Complete, PaysInvoices, NEW c \in Calls, Handle(c)
    PROVE  Grows /\ Complete'
<1> USE DEF Shape, TypeOK
<1>0. calls[c] \in SoundCall
  OBVIOUS
<1>1. UNCHANGED api => Grows /\ Complete'
  BY DEF api, Grows, Complete, LeasesAreComplete
<1>2. CASE \E part \in {"leases", "payments", "units", "tenants"} : HandlePart(c, part)
  BY <1>1, <1>2 DEF HandlePart
<1>3. CASE HandleUnits(c) \/ HandleReceipts(c) \/ CheckPay(c) \/ Lose(c)
  BY <1>1, <1>3 DEF HandleUnits, HandleReceipts, CheckPay, Lose
<1>4. CASE HandleInvite(c)
  BY <1>4 DEF HandleInvite, Grows, Complete, LeasesAreComplete
<1>5. ASSUME NEW h \in Units, HandleUnit(c, h) PROVE Grows /\ Complete'
  <2>1. /\ UNCHANGED <<leases, payments, accounts>>
        /\ \A k \in Units : units'[k] = IF k = h THEN "vacant" ELSE units[k]
        /\ units[h] = "none"
    BY <1>5 DEF HandleUnit
  <2> QED
    BY <2>1 DEF Grows, Complete, LeasesAreComplete
<1>6. ASSUME NEW l \in Leases, HandleCreate(c, l) PROVE Grows /\ Complete'
  <2>1. /\ UNCHANGED <<units, payments, accounts>>
        /\ leases[l].status = "none" /\ leases'[l].status = "draft" /\ leases'[l].signed = {}
        /\ \A k \in Leases : k # l => leases'[k] = leases[k]
    BY <1>6 DEF HandleCreate, NoLease
  <2>2. Grows
    BY <2>1 DEF Grows
  <2>3. Complete'
    BY <2>1 DEF Complete, LeasesAreComplete
  <2> QED
    BY <2>2, <2>3
<1>7. CASE ManagerSigns(c)
  <2> DEFINE l == calls[c].lease
  <2>1. l \in Leases
    BY <1>0, <1>7 DEF ManagerSigns, Awaiting, SoundCall
  <2>2. /\ UNCHANGED <<units, payments, accounts>>
        /\ leases[l].status = "draft" /\ leases'[l].status = "pending_tenant"
        /\ leases'[l].signed = leases[l].signed \cup {"manager"}
        /\ leases'[l].tenant = leases[l].tenant /\ leases'[l].unit = leases[l].unit
        /\ \A k \in Leases : k # l => leases'[k] = leases[k]
    BY <1>7, <2>1 DEF ManagerSigns, Signable, LeaseRow
  <2> HIDE DEF l
  <2>3. Grows
    BY <2>1, <2>2 DEF Grows
  <2>4. Complete'
    BY <2>1, <2>2 DEF Complete, LeasesAreComplete
  <2> QED
    BY <2>3, <2>4
<1>8. CASE TenantSigns(c)
  <2> DEFINE l == calls[c].lease
  <2>1. l \in Leases
    BY <1>0, <1>8 DEF TenantSigns, Awaiting, SoundCall
  <2>2. /\ UNCHANGED accounts
        /\ leases[l].status = "pending_tenant" /\ leases'[l].status = "active"
        /\ leases'[l].signed = leases[l].signed \cup {"tenant"}
        /\ leases'[l].tenant = leases[l].tenant /\ leases'[l].unit = leases[l].unit
        /\ \A k \in Leases : k # l => leases'[k] = leases[k]
        /\ \A k \in Leases : payments'[k] = IF k = l THEN [status |-> "pending", receipt |-> FALSE]
                                             ELSE payments[k]
        /\ \A h \in Units : units'[h] = IF h = leases[l].unit THEN "occupied" ELSE units[h]
    BY <1>8, <2>1 DEF TenantSigns, Signable, LeaseRow
  <2> HIDE DEF l
  <2>3. payments[l].status = "none" /\ ~payments[l].receipt
    BY <2>1, <2>2 DEF Complete, LeasesAreComplete, PaymentRow
  <2>4. Grows
    BY <2>1, <2>2, <2>3 DEF Grows
  <2>5. \A k \in Leases :
          /\ leases'[k].status = "active" <=> "tenant" \in leases'[k].signed
          /\ leases'[k].status \in {"pending_tenant", "active"} <=> "manager" \in leases'[k].signed
          /\ leases'[k].status = "active" <=> payments'[k].status # "none"
          /\ payments'[k].receipt => payments'[k].status # "none"
          /\ payments'[k].status = "paid" => payments'[k].receipt
    BY <2>1, <2>2 DEF Complete, LeasesAreComplete
  <2>6. \A h \in Units : units'[h] = "occupied" <=>
           \E k \in Leases : leases'[k].status = "active" /\ leases'[k].unit = h
    BY <2>1, <2>2 DEF Complete, LeasesAreComplete
  <2> QED
    BY <2>4, <2>5, <2>6 DEF Complete, LeasesAreComplete
<1>9. ASSUME NEW decline \in BOOLEAN, SettlePay(c, decline) PROVE Grows /\ Complete'
  <2> DEFINE l == calls[c].lease
  <2>1. l \in Leases /\ leases[l].status = "active"
    BY <1>0, <1>9 DEF SettlePay, SoundCall, PaysInvoices
  <2>2. /\ UNCHANGED <<leases, units, accounts>>
        /\ payments'[l].status # "none"
        /\ payments[l].receipt => payments'[l].receipt
        /\ payments'[l].status = "paid" => payments'[l].receipt
        /\ \A k \in Leases : k # l => payments'[k] = payments[k]
    BY <1>9, <2>1 DEF SettlePay, PaymentRow
  <2> HIDE DEF l
  <2>3. Grows
    BY <2>1, <2>2 DEF Grows
  <2>4. Complete'
    BY <2>1, <2>2 DEF Complete, LeasesAreComplete
  <2> QED
    BY <2>3, <2>4
<1> QED
  BY <1>2, <1>3, <1>4, <1>5, <1>6, <1>7, <1>8, <1>9 DEF Handle

\* Nothing else touches the tables.
LEMMA OthersQuiet ==
    ASSUME \/ CloseDialog
           \/ \E is \in {"invite", "draft", "unit"}, t \in Tenants \cup {None} : OpenDialog(is, t)
           \/ \E t \in Tenants : TenantStep(t)
           \/ \E c \in Calls :
                 \/ \E u \in Users, view \in View : OpenPage(u, view, c)
                 \/ \E u \in Users, l \in Leases : SubmitSignature(u, l, c)
                 \/ ManagerStep(c)
                 \/ \E ok \in BOOLEAN : Get(c, ok)
    PROVE  UNCHANGED api
<1>1. ASSUME NEW c \in Calls, NEW ok \in BOOLEAN, Get(c, ok) PROVE UNCHANGED api
  BY <1>1 DEF Get, GotLoad, GotVacant, GotInvited, GotUnit, GotCreated, GotSigned, GotReceipts,
              GotPaid
<1>2. ASSUME NEW c \in Calls, ManagerStep(c) PROVE UNCHANGED api
  BY <1>2 DEF ManagerStep, PickProperty, SubmitUnit, OpenLease, SubmitInvite, SubmitDraft,
              Submits, Goes
<1>3. ASSUME NEW t \in Tenants, TenantStep(t) PROVE UNCHANGED api
  BY <1>3 DEF TenantStep, OpenPay, ClosePay, SubmitPay
<1>4. ASSUME NEW c \in Calls, NEW u \in Users, NEW view \in View, OpenPage(u, view, c)
      PROVE UNCHANGED api
  BY <1>4 DEF OpenPage, Goes
<1>5. ASSUME NEW c \in Calls, NEW u \in Users, NEW l \in Leases, SubmitSignature(u, l, c)
      PROVE UNCHANGED api
  BY <1>5 DEF SubmitSignature
<1>6. ASSUME CloseDialog PROVE UNCHANGED api
  BY <1>6 DEF CloseDialog
<1>7. ASSUME NEW is \in {"invite", "draft", "unit"}, NEW t \in Tenants \cup {None},
             OpenDialog(is, t)
      PROVE UNCHANGED api
  BY <1>7 DEF OpenDialog
<1> QED
  BY <1>1, <1>2, <1>3, <1>4, <1>5, <1>6, <1>7

\* So every step adds to the tables and leaves leases in force complete.
LEMMA GrowsStep ==
    ASSUME Shape, Complete, PaysInvoices, [Next]_vars PROVE Grows /\ Complete'
<1>1. ASSUME UNCHANGED api PROVE Grows /\ Complete'
  BY <1>1 DEF api, Grows, Complete, LeasesAreComplete
<1>2. CASE UNCHANGED vars
  BY <1>1, <1>2 DEF vars
<1>3. CASE Next
  BY <1>1, <1>3, OthersQuiet, HandleGrows DEF Next
<1> QED
  BY <1>2, <1>3

\* The order in which a lease comes into force.
LEMMA Ranks ==
    /\ Rank["none"] = 0 /\ Rank["draft"] = 1
    /\ Rank["pending_tenant"] = 2 /\ Rank["active"] = 3
BY DEF Rank

\* Ranks are numbers.
LEMMA RankType == \A s \in LeaseStatus : Rank[s] \in 0 .. 3 /\ Rank["none"] <= Rank[s]
BY Ranks DEF LeaseStatus

(***************************************************************************)
(* What pages know: the rows they hold and are sent lag, and a payment is  *)
(* of an invoice that exists.                                              *)
(***************************************************************************)
KnownLeases(u, x) ==
    \A l \in Leases : /\ Rank[x[l]] <= Rank[leases[l].status]
                      /\ u \in Tenants /\ x[l] # "none" => leases[l].tenant = u

KnownPayments(x) ==
    \A l \in Leases : /\ x[l] # "none" => leases[l].status = "active"
                      /\ x[l] = "paid" => payments[l].receipt

KnownUnits(x) ==
    \A h \in Units : /\ x[h] = "occupied" => units[h] = "occupied"
                     /\ x[h] # "none" => units[h] # "none"

KnownRows(u, r) ==
    /\ KnownLeases(u, r.leases) /\ KnownPayments(r.payments)
    /\ KnownUnits(r.units) /\ r.tenants \subseteq accounts

Pages ==
    /\ \A u \in Users : KnownRows(u, seen[u])
    /\ \A c \in Calls : KnownRows(calls[c].by, calls[c].rows)
    /\ \A t \in Tenants : pay[t].open => leases[pay[t].lease].status = "active"
    /\ PaysInvoices

\* The same, of the tables as they are after a step.
NextLeases(u, x) ==
    \A l \in Leases : /\ Rank[x[l]] <= Rank[leases'[l].status]
                      /\ u \in Tenants /\ x[l] # "none" => leases'[l].tenant = u

NextPayments(x) ==
    \A l \in Leases : /\ x[l] # "none" => leases'[l].status = "active"
                      /\ x[l] = "paid" => payments'[l].receipt

NextUnits(x) ==
    \A h \in Units : /\ x[h] = "occupied" => units'[h] = "occupied"
                     /\ x[h] # "none" => units'[h] # "none"

NextRows(u, r) ==
    /\ NextLeases(u, r.leases) /\ NextPayments(r.payments)
    /\ NextUnits(r.units) /\ r.tenants \subseteq accounts'

NextCall(r) ==
    /\ NextRows(r.by, r.rows)
    /\ r.kind = "pay" => leases'[r.lease].status = "active"

\* What was known is still known when the tables have grown.
LEMMA Persists ==
    ASSUME Shape, Shape', Grows
    PROVE  /\ \A u, r : r \in Rows /\ KnownRows(u, r) => NextRows(u, r)
           /\ \A l \in Leases : leases[l].status = "active" => leases'[l].status = "active"
<1> USE DEF Shape, TypeOK
<1>1. \A l \in Leases : leases[l].status \in LeaseStatus /\ leases'[l].status \in LeaseStatus
  BY DEF LeaseRow
<1>2. \A l \in Leases : Rank[leases[l].status] <= Rank[leases'[l].status]
  BY <1>1, Ranks, RankType DEF Grows
<1>3. \A l \in Leases : leases[l].status = "active" => leases'[l].status = "active"
  BY DEF Grows
<1>4. ASSUME NEW u, NEW r \in Rows, KnownRows(u, r) PROVE NextRows(u, r)
  <2>1. r.leases \in [Leases -> LeaseStatus]
    BY DEF Rows
  <2>2. ASSUME NEW l \in Leases
        PROVE /\ Rank[r.leases[l]] <= Rank[leases'[l].status]
              /\ u \in Tenants /\ r.leases[l] # "none" => leases'[l].tenant = u
    <3>1. Rank[r.leases[l]] <= Rank[leases'[l].status]
      BY <1>1, <1>2, <1>4, <2>1, RankType DEF KnownRows, KnownLeases
    <3>2. r.leases[l] # "none" => leases[l].status # "none"
      BY <1>4, <2>1, Ranks DEF KnownRows, KnownLeases, LeaseStatus
    <3> QED
      BY <1>4, <3>1, <3>2 DEF KnownRows, KnownLeases, Grows
  <2>3. NextLeases(u, r.leases)
    BY <2>2 DEF NextLeases
  <2>4. NextPayments(r.payments)
    BY <1>3, <1>4 DEF KnownRows, KnownPayments, NextPayments, Grows
  <2>5. NextUnits(r.units) /\ r.tenants \subseteq accounts'
    BY <1>4 DEF KnownRows, KnownUnits, NextUnits, Grows
  <2> QED
    BY <2>3, <2>4, <2>5 DEF NextRows
<1> QED
  BY <1>3, <1>4

\* Nothing is known of a page without rows.
LEMMA NothingKnown ==
    ASSUME Shape, Shape'
    PROVE  \A u : KnownRows(u, NoRows) /\ NextRows(u, NoRows)
<1>1. \A l \in Leases : leases[l].status \in LeaseStatus /\ leases'[l].status \in LeaseStatus
  BY DEF Shape, TypeOK, LeaseRow
<1> QED
  BY <1>1, RankType DEF NoRows, KnownRows, KnownLeases, KnownPayments, KnownUnits, NextRows,
                        NextLeases, NextPayments, NextUnits

\* What is sent, answered or left behind leaves the other places alone.
LEMMA PlaceOf ==
    ASSUME calls \in [Calls -> SoundCall], NEW c \in Calls, NEW r,
           Sends(c, r) \/ Reply(c, r) \/ Then(c, r)
    PROVE  \A d \in Calls : calls'[d] = calls[d] \/ (d = c /\ calls'[d] \in {r, Idle})
BY DEF Sends, Reply, Then

\* A place among Calls that changes takes what is known with it.
LEMMA PlaceKnown ==
    ASSUME Shape, Shape', Grows, Pages, NEW c \in Calls, NEW r, NextCall(r),
           Sends(c, r) \/ Reply(c, r) \/ Then(c, r)
    PROVE  \A d \in Calls : NextCall(calls'[d])
<1>1. \A d \in Calls : calls'[d] = calls[d] \/ (d = c /\ calls'[d] \in {r, Idle})
  BY PlaceOf DEF Shape
<1>2. \A d \in Calls : NextCall(calls[d])
  <2>1. \A d \in Calls : calls[d].rows \in Rows
                         /\ (calls[d].kind = "pay" => calls[d].lease \in Leases)
    BY DEF Shape, SoundCall, Call
  <2> QED
    BY <2>1, Persists DEF Pages, PaysInvoices, NextCall
<1>3. NextCall(Idle)
  <2>1. Idle.rows = NoRows /\ Idle.kind = "idle"
    BY DEF Idle
  <2> QED
    BY <2>1, NothingKnown DEF NextCall
<1> QED
  BY <1>1, <1>2, <1>3

\* Pages that keep what they have keep what they know.
LEMMA PagesNext ==
    ASSUME Shape, Shape', Grows, Pages,
           \A u \in Users : seen'[u] = seen[u] \/ NextRows(u, seen'[u]),
           \A d \in Calls : calls'[d] = calls[d] \/ NextCall(calls'[d]),
           \A t \in Tenants : pay'[t].open =>
              \/ pay[t].open /\ pay'[t].lease = pay[t].lease
              \/ leases'[pay'[t].lease].status = "active"
    PROVE  Pages'
<1>1. \A u \in Users : NextRows(u, seen'[u])
  BY Persists DEF Pages, Shape, TypeOK
<1>2. \A d \in Calls : NextCall(calls'[d])
  <2>1. \A d \in Calls : calls[d].rows \in Rows
                         /\ (calls[d].kind = "pay" => calls[d].lease \in Leases)
    BY DEF Shape, SoundCall, Call
  <2> QED
    BY <2>1, Persists DEF Pages, PaysInvoices, NextCall
<1>3. \A t \in Tenants : pay'[t].open => leases'[pay'[t].lease].status = "active"
  BY Persists DEF Pages, Shape, SoundPay
<1>4. \A u, r : NextRows(u, r) <=>
         /\ \A l \in Leases : /\ Rank[r.leases[l]] <= Rank[leases'[l].status]
                              /\ u \in Tenants /\ r.leases[l] # "none" => leases'[l].tenant = u
         /\ NextPayments(r.payments) /\ NextUnits(r.units) /\ r.tenants \subseteq accounts'
  BY DEF NextRows, NextLeases
<1>5. \A u \in Users : KnownRows(u, seen[u])'
  BY <1>1, <1>4 DEF KnownRows, KnownLeases, KnownPayments, KnownUnits, NextPayments, NextUnits
<1>6. \A c \in Calls : KnownRows(calls[c].by, calls[c].rows)'
  BY <1>2, <1>4 DEF NextCall, KnownRows, KnownLeases, KnownPayments, KnownUnits, NextPayments,
                    NextUnits
<1>7. PaysInvoices'
  BY <1>2 DEF NextCall, PaysInvoices
<1> QED
  BY <1>3, <1>5, <1>6, <1>7 DEF Pages

\* A call that a page sends knows nothing yet, and a payment its invoice.
LEMMA AskKnown ==
    ASSUME Shape, Shape', NEW r, r.rows = NoRows,
           r.kind = "pay" => leases'[r.lease].status = "active"
    PROVE  NextCall(r)
BY NothingKnown DEF NextCall

\* What the users do on their pages: a page they go to is empty, and they pay
\* what it then shows.
LEMMA PagesPages ==
    ASSUME Shape, Shape', Grows, Pages,
           \/ CloseDialog
           \/ \E is \in {"invite", "draft", "unit"}, t \in Tenants \cup {None} : OpenDialog(is, t)
           \/ \E t \in Tenants : TenantStep(t)
           \/ \E c \in Calls :
                 \/ \E u \in Users, view \in View : OpenPage(u, view, c)
                 \/ \E u \in Users, l \in Leases : SubmitSignature(u, l, c)
                 \/ ManagerStep(c)
    PROVE  Pages'
<1> USE DEF client
<1>0. /\ UNCHANGED api
      /\ \A l \in Leases : leases'[l] = leases[l]
  BY OthersQuiet DEF api
<1>1. ASSUME NEW c \in Calls, NEW r, r.rows = NoRows, r.kind # "pay", Sends(c, r),
             UNCHANGED <<seen, pay>>
      PROVE Pages'
  <2>1. \A d \in Calls : NextCall(calls'[d])
    BY <1>1, AskKnown, PlaceKnown
  <2> QED
    BY <1>1, <2>1, PagesNext
<1>2. CASE CloseDialog
  <2>1. \A d \in Calls : calls'[d] = calls[d] \/ calls'[d] = Idle
    BY <1>2 DEF CloseDialog
  <2>2. Idle.rows = NoRows /\ Idle.kind # "pay"
    BY DEF Idle
  <2>3. NextCall(Idle)
    BY <2>2, AskKnown
  <2> QED
    BY <1>2, <2>1, <2>3, PagesNext DEF CloseDialog
<1>3. ASSUME NEW is \in {"invite", "draft", "unit"}, NEW t \in Tenants \cup {None},
             OpenDialog(is, t)
      PROVE Pages'
  BY <1>3, PagesNext DEF OpenDialog
<1>4. ASSUME NEW t \in Tenants, NEW l \in Leases, OpenPay(t, l) PROVE Pages'
  <2>1. leases[l].status = "active"
    BY <1>4, AreUsers DEF OpenPay, Pages, KnownRows, KnownPayments
  <2>2. \A u \in Tenants : pay'[u] = IF u = t THEN [NoPay EXCEPT !.open = TRUE, !.lease = l]
                                    ELSE pay[u]
    BY <1>4 DEF OpenPay, Shape, TypeOK
  <2>3. [NoPay EXCEPT !.open = TRUE, !.lease = l].lease = l
    BY DEF NoPay
  <2>4. \A u \in Tenants : pay'[u].open =>
           \/ pay[u].open /\ pay'[u].lease = pay[u].lease
           \/ leases'[pay'[u].lease].status = "active"
    BY <1>0, <2>1, <2>2, <2>3
  <2> QED
    BY <1>4, <2>4, PagesNext DEF OpenPay
<1>5. ASSUME NEW t \in Tenants, ClosePay(t) PROVE Pages'
  <2>1. \A u \in Tenants : pay'[u] = IF u = t THEN NoPay ELSE pay[u]
    BY <1>5 DEF ClosePay, Shape, TypeOK
  <2>2. ~NoPay.open
    BY DEF NoPay
  <2> QED
    BY <1>5, <2>1, <2>2, PagesNext DEF ClosePay
<1>6. ASSUME NEW t \in Tenants, NEW c \in Calls, SubmitPay(t, c) PROVE Pages'
  <2> DEFINE r == [Ask("pay", t) EXCEPT !.lease = pay[t].lease]
  <2>1. pay[t].lease \in Leases /\ leases[pay[t].lease].status = "active"
    BY <1>6 DEF SubmitPay, Shape, SoundPay, Pages
  <2>2. r.rows = NoRows /\ r.lease = pay[t].lease
    BY DEF Ask, Idle
  <2>3. Sends(c, r)
    BY <1>6 DEF SubmitPay
  <2> HIDE DEF r
  <2>4. \A d \in Calls : NextCall(calls'[d])
    BY <1>0, <2>1, <2>2, <2>3, AskKnown, PlaceKnown
  <2>5. \A u \in Tenants : pay'[u].open = pay[u].open /\ pay'[u].lease = pay[u].lease
    BY <1>6 DEF SubmitPay, Shape, SoundPay, Pay
  <2> QED
    BY <1>6, <2>4, <2>5, PagesNext DEF SubmitPay
<1>7. ASSUME NEW c \in Calls, NEW u \in Users, NEW view, NEW r, r.rows = NoRows, r.kind = "load",
             r \in SoundCall, Goes(u, view, r, c)
      PROVE Pages'
  <2>1. \A d \in Calls : \/ calls'[d] = calls[d]
                         \/ calls'[d] = Idle
                         \/ calls'[d] = [calls[d] EXCEPT !.mounted = FALSE]
                         \/ calls'[d] = [r EXCEPT !.needs = Needs(view)]
    BY <1>7 DEF Goes, Abandon
  <2>2. /\ Idle.rows = NoRows /\ Idle.kind # "pay"
        /\ [r EXCEPT !.needs = Needs(view)].rows = NoRows
        /\ [r EXCEPT !.needs = Needs(view)].kind # "pay"
    BY <1>7 DEF Idle, SoundCall, Call
  <2>3. \A d \in Calls : NextCall(calls[d]) /\ NextCall([calls[d] EXCEPT !.mounted = FALSE])
    <3>1. \A d \in Calls : /\ calls[d].rows \in Rows
                           /\ calls[d].kind = "pay" => calls[d].lease \in Leases
                           /\ [calls[d] EXCEPT !.mounted = FALSE].rows = calls[d].rows
                           /\ [calls[d] EXCEPT !.mounted = FALSE].by = calls[d].by
                           /\ [calls[d] EXCEPT !.mounted = FALSE].kind = calls[d].kind
                           /\ [calls[d] EXCEPT !.mounted = FALSE].lease = calls[d].lease
      BY DEF Shape, SoundCall, Call
    <3> QED
      BY <3>1, Persists DEF Pages, PaysInvoices, NextCall
  <2>4. NextCall(Idle) /\ NextCall([r EXCEPT !.needs = Needs(view)])
    BY <2>2, AskKnown
  <2>5. \A d \in Calls : NextCall(calls'[d])
    BY <2>1, <2>3, <2>4
  <2>6. \A v \in Users : seen'[v] = seen[v] \/ NextRows(v, seen'[v])
    <3>1. \A v \in Users : seen'[v] \in {seen[v], NoRows}
      BY <1>7 DEF Goes, Shape, TypeOK
    <3> QED
      BY <3>1, NothingKnown
  <2>7. \A t \in Tenants : pay'[t].open => pay[t].open /\ pay'[t].lease = pay[t].lease
    BY <1>7 DEF Goes, NoPay, Shape, TypeOK
  <2> QED
    BY <2>5, <2>6, <2>7, PagesNext
<1>8. ASSUME NEW c \in Calls, NEW u \in Users, NEW view \in View, OpenPage(u, view, c)
      PROVE Pages'
  <2>1. /\ Ask("load", u).rows = NoRows /\ Ask("load", u).kind = "load"
        /\ Ask("load", u) \in SoundCall
    BY AskSound DEF Ask, Idle
  <2> QED
    BY <1>7, <1>8, <2>1 DEF OpenPage
<1>9. ASSUME NEW c \in Calls, NEW t \in Tenants, OpenLease(t, c) PROVE Pages'
  <2>1. PICK l \in Newest(seen[Manager], t) :
           Goes(Manager, "lease", [Ask("load", Manager) EXCEPT !.lease = l], c)
    BY <1>9 DEF OpenLease
  <2> DEFINE r == [Ask("load", Manager) EXCEPT !.lease = l]
  <2>2. r.rows = NoRows /\ r.kind = "load"
    BY DEF Ask, Idle
  <2>3. r \in SoundCall
    BY <2>1, AskSound, AreUsers DEF Newest
  <2> HIDE DEF r
  <2>4. Goes(Manager, "lease", r, c)
    BY <2>1 DEF r
  <2> QED
    BY <1>7, <2>2, <2>3, <2>4, AreUsers
<1>10. ASSUME NEW c \in Calls, NEW u \in Users, NEW l \in Leases, SubmitSignature(u, l, c)
       PROVE Pages'
  <2> DEFINE r == [Ask("sign", u) EXCEPT !.lease = l]
  <2>1. r.rows = NoRows /\ r.kind # "pay"
    BY DEF Ask, Idle
  <2>2. Sends(c, r) /\ UNCHANGED <<seen, pay>>
    BY <1>10 DEF SubmitSignature
  <2> HIDE DEF r
  <2> QED
    BY <1>1, <2>1, <2>2
<1>11. ASSUME NEW c \in Calls, PickProperty(c) PROVE Pages'
  <2>1. Ask("vacant", Manager).rows = NoRows /\ Ask("vacant", Manager).kind # "pay"
    BY DEF Ask, Idle
  <2> QED
    BY <1>1, <1>11, <2>1 DEF PickProperty
<1>12. ASSUME NEW c \in Calls, NEW r, r.rows = NoRows, r.kind # "pay", Submits(c, r)
       PROVE Pages'
  BY <1>1, <1>12 DEF Submits
<1>13. ASSUME NEW c \in Calls, SubmitUnit(c) PROVE Pages'
  <2>1. Ask("unit", Manager).rows = NoRows /\ Ask("unit", Manager).kind # "pay"
    BY DEF Ask, Idle
  <2> QED
    BY <1>12, <1>13, <2>1 DEF SubmitUnit
<1>14. ASSUME NEW c \in Calls, NEW t \in Tenants, SubmitInvite(t, c) PROVE Pages'
  <2> DEFINE r == [Ask("invite", Manager) EXCEPT !.tenant = t]
  <2>1. r.rows = NoRows /\ r.kind # "pay" /\ Submits(c, r)
    BY <1>14 DEF SubmitInvite, Ask, Idle
  <2> HIDE DEF r
  <2> QED
    BY <1>12, <2>1
<1>15. ASSUME NEW c \in Calls, NEW h \in Units, SubmitDraft(h, c) PROVE Pages'
  <2> DEFINE r == [Ask("create", Manager) EXCEPT !.tenant = dialog.tenant, !.unit = h]
  <2>1. r.rows = NoRows /\ r.kind # "pay" /\ Submits(c, r)
    BY <1>15 DEF SubmitDraft, Ask, Idle
  <2> HIDE DEF r
  <2> QED
    BY <1>12, <2>1
<1>16. ASSUME NEW t \in Tenants, TenantStep(t) PROVE Pages'
  BY <1>4, <1>5, <1>6, <1>16 DEF TenantStep
<1>17. ASSUME NEW c \in Calls, ManagerStep(c) PROVE Pages'
  BY <1>9, <1>11, <1>13, <1>14, <1>15, <1>17 DEF ManagerStep
<1> QED
  BY <1>2, <1>3, <1>8, <1>10, <1>16, <1>17

\* A list of rows replaced by one that is known.
LEMMA ListKnown ==
    ASSUME NEW u, NEW r \in Rows, NextRows(u, r)
    PROVE  /\ \A x : NextLeases(u, x) => NextRows(u, [r EXCEPT !.leases = x])
           /\ \A x : NextPayments(x) => NextRows(u, [r EXCEPT !.payments = x])
           /\ \A x : NextUnits(x) => NextRows(u, [r EXCEPT !.units = x])
           /\ \A x : x \subseteq accounts' => NextRows(u, [r EXCEPT !.tenants = x])
BY DEF NextRows, Rows

\* What a call knows before it is answered.
LEMMA HeldKnown ==
    ASSUME Shape, Shape', Grows, Pages, NEW c \in Calls
    PROVE  /\ NextCall(calls[c]) /\ NextRows(calls[c].by, calls[c].rows)
           /\ calls[c] \in Call /\ calls[c].rows \in Rows
<1>1. calls[c] \in SoundCall /\ calls[c] \in Call /\ calls[c].rows \in Rows
  BY SoundTypes DEF Shape, Call
<1>2. calls[c].kind = "pay" => calls[c].lease \in Leases
  BY <1>1 DEF SoundCall
<1> QED
  BY <1>1, <1>2, Persists DEF Pages, PaysInvoices, NextCall

\* An answer that is known leaves pages behind the API.
LEMMA ReplyPages ==
    ASSUME Shape, Shape', Grows, Pages, NEW c \in Calls, NEW r, NextCall(r),
           Reply(c, r) \/ Then(c, r), UNCHANGED <<seen, pay>>
    PROVE  Pages'
<1>1. \A d \in Calls : NextCall(calls'[d])
  BY PlaceKnown
<1> QED
  BY <1>1, PagesNext

\* A lease that is the only one shown, with the status it now has.
LEMMA OnlyKnown ==
    ASSUME Shape, Shape', NEW u, NEW l \in Leases, NEW s, leases'[l].status = s,
           u \in Tenants => leases'[l].tenant = u
    PROVE  NextLeases(u, Only(l, s))
<1>1. \A k \in Leases : leases'[k].status \in LeaseStatus
  BY DEF Shape, TypeOK, LeaseRow
<1>2. \A k \in Leases : Only(l, s)[k] = IF k = l THEN s ELSE "none"
  BY DEF Only
<1>3. \A k \in Leases : Rank[leases'[k].status] \in 0 .. 3
                        /\ Rank["none"] <= Rank[leases'[k].status]
  BY <1>1, RankType
<1> QED
  BY <1>2, <1>3 DEF NextLeases

\* What the API answers is what it now holds.
LEMMA HandlePages ==
    ASSUME Shape, Shape', Complete, Grows, Pages, NEW c \in Calls, Handle(c) PROVE Pages'
<1> USE DEF client
<1>0. /\ NextCall(calls[c]) /\ NextRows(calls[c].by, calls[c].rows)
      /\ calls[c] \in Call /\ calls[c] \in SoundCall /\ calls[c].rows \in Rows
  BY HeldKnown DEF Shape
<1>1. \A r, x : /\ r.kind = calls[c].kind /\ r.by = calls[c].by
                /\ r.rows = x /\ NextRows(calls[c].by, x)
                /\ (r.kind = "pay" => r.lease = calls[c].lease)
                => NextCall(r)
  BY <1>0 DEF NextCall
<1>2. ASSUME NEW part \in {"leases", "payments", "units", "tenants"}, HandlePart(c, part)
      PROVE Pages'
  <2> DEFINE call == [calls[c] EXCEPT !.needs = @ \ {part},
                         !.reply = IF calls[c].needs = {part} THEN "ok" ELSE @]
  <2>1. /\ call \in [kind : Kinds, by : Users \cup {None}, lease : Leases \cup {None},
                     tenant : Tenants \cup {None}, unit : Units \cup {None},
                     chained : BOOLEAN, mounted : BOOLEAN,
                     needs : SUBSET {"leases", "payments", "units", "tenants"},
                     reply : {"awaited", "checked", "declined", "ok"}, rows : Rows]
        /\ call.kind = calls[c].kind /\ call.by = calls[c].by /\ call.lease = calls[c].lease
        /\ call.rows = calls[c].rows
    BY <1>0 DEF Call
  <2>2. UNCHANGED <<leases, payments, units, accounts, seen, pay>>
    BY <1>2 DEF HandlePart, api
  <2>3. NextLeases(calls[c].by, LeasesFor(c))
    <3>1. \A l \in Leases : leases[l].status \in LeaseStatus
      BY DEF Shape, TypeOK, LeaseRow
    <3>2. \A l \in Leases : /\ LeasesFor(c)[l] \in {leases[l].status, "none"}
                            /\ LeasesFor(c)[l] # "none" => May(calls[c].by, l)
      BY DEF LeasesFor
    <3>3. \A l \in Leases : /\ Rank[leases[l].status] \in 0 .. 3
                            /\ Rank["none"] <= Rank[leases[l].status]
      BY <3>1, RankType
    <3> QED
      BY <2>2, <3>2, <3>3, AreUsers DEF NextLeases, May
  <2>4. NextPayments(PaymentsFor(c))
    <3>1. \A l \in Leases : PaymentsFor(c)[l] \in {payments[l].status, "none"}
      BY DEF PaymentsFor
    <3> QED
      BY <2>2, <3>1 DEF NextPayments, Complete, LeasesAreComplete
  <2>5. NextUnits(units)
    BY <2>2 DEF NextUnits
  <2> HIDE DEF call
  <2>6. ASSUME NEW x, NextRows(calls[c].by, x), NEW r, r = [call EXCEPT !.rows = x], Reply(c, r)
        PROVE Pages'
    <3>1. /\ r.kind = call.kind /\ r.by = call.by /\ r.lease = call.lease /\ r.rows = x
      BY <2>1, <2>6
    <3>2. NextCall(r)
      BY <1>1, <2>1, <2>6, <3>1
    <3> QED
      BY <2>2, <2>6, <3>2, ReplyPages
  <2>7. /\ NextRows(calls[c].by, [calls[c].rows EXCEPT !.leases = LeasesFor(c)])
        /\ NextRows(calls[c].by, [calls[c].rows EXCEPT !.payments = PaymentsFor(c)])
        /\ NextRows(calls[c].by, [calls[c].rows EXCEPT !.units = units])
        /\ \A ts \in {accounts, {}} :
              NextRows(calls[c].by, [calls[c].rows EXCEPT !.tenants = ts])
    BY <1>0, <2>2, <2>3, <2>4, <2>5, ListKnown
  <2>8. \/ Reply(c, [call EXCEPT !.rows = [calls[c].rows EXCEPT !.leases = LeasesFor(c)]])
        \/ Reply(c, [call EXCEPT !.rows = [calls[c].rows EXCEPT !.payments = PaymentsFor(c)]])
        \/ Reply(c, [call EXCEPT !.rows = [calls[c].rows EXCEPT !.units = units]])
        \/ \E ts \in {accounts, {}} :
              Reply(c, [call EXCEPT !.rows = [calls[c].rows EXCEPT !.tenants = ts]])
    BY <1>2, <2>1 DEF HandlePart, call
  <2> QED
    BY <2>6, <2>7, <2>8
<1>3. CASE HandleUnits(c)
  <2> DEFINE r == [Ok(c) EXCEPT !.rows.units = units]
  <2>1. /\ r.kind = calls[c].kind /\ r.by = calls[c].by /\ r.lease = calls[c].lease
        /\ r.rows = [calls[c].rows EXCEPT !.units = units]
    BY <1>0 DEF Ok, Call
  <2>2. UNCHANGED <<units, seen, pay>> /\ Reply(c, r)
    BY <1>3 DEF HandleUnits, api
  <2> HIDE DEF r
  <2>3. NextRows(calls[c].by, [calls[c].rows EXCEPT !.units = units])
    BY <1>0, <2>2, ListKnown DEF NextUnits
  <2> QED
    BY <1>1, <2>1, <2>2, <2>3, ReplyPages
<1>4. ASSUME NEW r, r.kind = calls[c].kind, r.by = calls[c].by, r.lease = calls[c].lease,
             r.rows = calls[c].rows, Reply(c, r) \/ Then(c, r), UNCHANGED client
      PROVE Pages'
  BY <1>0, <1>1, <1>4, ReplyPages
<1>5. CASE HandleReceipts(c)
  <2> DEFINE r == Ok(c)
  <2>1. /\ r.kind = calls[c].kind /\ r.by = calls[c].by /\ r.lease = calls[c].lease
        /\ r.rows = calls[c].rows
    BY <1>0 DEF Ok, Call
  <2>2. Reply(c, r)
    BY <1>5 DEF HandleReceipts
  <2> HIDE DEF r
  <2> QED
    BY <1>4, <1>5, <2>1, <2>2 DEF HandleReceipts
<1>6. CASE CheckPay(c)
  <2> DEFINE r == [calls[c] EXCEPT !.reply = "checked"]
  <2>1. /\ r.kind = calls[c].kind /\ r.by = calls[c].by /\ r.lease = calls[c].lease
        /\ r.rows = calls[c].rows
    BY <1>0 DEF Call
  <2>2. Then(c, r)
    BY <1>6 DEF CheckPay, Then
  <2> HIDE DEF r
  <2> QED
    BY <1>4, <1>6, <2>1, <2>2 DEF CheckPay
<1>7. CASE Lose(c)
  <2>1. NextCall(Idle)
    BY AskKnown DEF Idle
  <2>2. Then(c, Idle) /\ UNCHANGED <<seen, pay>>
    BY <1>7 DEF Lose, Then
  <2> QED
    BY <2>1, <2>2, ReplyPages
<1>8. CASE HandleInvite(c)
  <2> DEFINE x == {calls[c].tenant}
             r == [Ok(c) EXCEPT !.rows.tenants = x]
  <2>1. /\ r.kind = calls[c].kind /\ r.by = calls[c].by /\ r.lease = calls[c].lease
        /\ r.rows = [calls[c].rows EXCEPT !.tenants = x]
    BY <1>0 DEF Ok, Call
  <2>2. UNCHANGED <<seen, pay>> /\ Reply(c, r) /\ x \subseteq accounts'
    BY <1>8 DEF HandleInvite
  <2> HIDE DEF r, x
  <2>3. NextRows(calls[c].by, [calls[c].rows EXCEPT !.tenants = x])
    BY <1>0, <2>2, ListKnown
  <2> QED
    BY <1>1, <2>1, <2>2, <2>3, ReplyPages
<1>9. ASSUME NEW h \in Units, HandleUnit(c, h) PROVE Pages'
  <2> DEFINE x == [calls[c].rows.units EXCEPT ![h] = "vacant"]
             r == [Ok(c) EXCEPT !.rows.units = x]
  <2>1. /\ r.kind = calls[c].kind /\ r.by = calls[c].by /\ r.lease = calls[c].lease
        /\ r.rows = [calls[c].rows EXCEPT !.units = x]
    BY <1>0 DEF Ok, Call
  <2>2. UNCHANGED <<seen, pay>> /\ Reply(c, r)
    BY <1>0, <1>9 DEF HandleUnit, Ok, Call
  <2>3. NextUnits(x)
    <3>1. units'[h] = "vacant"
      BY <1>9 DEF HandleUnit, Shape, TypeOK
    <3>2. \A k \in Units : x[k] = IF k = h THEN "vacant" ELSE calls[c].rows.units[k]
      BY <1>0 DEF Rows
    <3>3. NextUnits(calls[c].rows.units)
      BY <1>0 DEF NextRows
    <3> HIDE DEF x
    <3> QED
      BY <3>1, <3>2, <3>3 DEF NextUnits
  <2> HIDE DEF r, x
  <2>4. NextRows(calls[c].by, [calls[c].rows EXCEPT !.units = x])
    BY <1>0, <2>3, ListKnown
  <2> QED
    BY <1>1, <2>1, <2>2, <2>4, ReplyPages
<1>10. ASSUME NEW l \in Leases, HandleCreate(c, l) PROVE Pages'
  <2> DEFINE x == Only(l, "draft")
             r == [Ok(c) EXCEPT !.lease = l, !.rows.leases = x]
  <2>1. /\ r.kind = "create" /\ r.by = Manager
        /\ r.rows = [calls[c].rows EXCEPT !.leases = x]
    BY <1>0, <1>10 DEF HandleCreate, Awaiting, Ok, Call, SoundCall
  <2>2. UNCHANGED <<seen, pay>> /\ Reply(c, r) /\ calls[c].by = Manager
    BY <1>0, <1>10 DEF HandleCreate, Awaiting, SoundCall
  <2>3. leases'[l].status = "draft"
    BY <1>10 DEF HandleCreate, NoLease, Shape, TypeOK
  <2>4. NextLeases(Manager, x)
    BY <2>3, OnlyKnown, AreUsers
  <2> HIDE DEF r, x
  <2>5. NextRows(calls[c].by, [calls[c].rows EXCEPT !.leases = x])
    BY <1>0, <2>2, <2>4, ListKnown
  <2>6. NextCall(r)
    BY <2>1, <2>2, <2>5 DEF NextCall
  <2> QED
    BY <2>2, <2>6, ReplyPages
<1>11. ASSUME NEW l \in Leases, NEW s, leases'[l].status = s,
              calls[c].by \in Tenants => leases'[l].tenant = calls[c].by,
              Reply(c, [Ok(c) EXCEPT !.rows.leases = Only(l, s)]), UNCHANGED client
       PROVE Pages'
  <2> DEFINE x == Only(l, s)
             r == [Ok(c) EXCEPT !.rows.leases = x]
  <2>1. /\ r.kind = calls[c].kind /\ r.by = calls[c].by /\ r.lease = calls[c].lease
        /\ r.rows = [calls[c].rows EXCEPT !.leases = x]
    BY <1>0 DEF Ok, Call
  <2>2. UNCHANGED <<seen, pay>> /\ Reply(c, r)
    BY <1>11
  <2>3. NextLeases(calls[c].by, x)
    BY <1>11, OnlyKnown
  <2> HIDE DEF r, x
  <2>4. NextRows(calls[c].by, [calls[c].rows EXCEPT !.leases = x])
    BY <1>0, <2>3, ListKnown
  <2> QED
    BY <1>1, <2>1, <2>2, <2>4, ReplyPages
<1>12. CASE ManagerSigns(c)
  <2>1. calls[c].lease \in Leases /\ calls[c].by = Manager
    BY <1>0, <1>12 DEF ManagerSigns, Awaiting, SoundCall
  <2>2. leases'[calls[c].lease].status = "pending_tenant"
    BY <1>12, <2>1 DEF ManagerSigns, Shape, TypeOK, LeaseRow
  <2> QED
    BY <1>11, <1>12, <2>1, <2>2, AreUsers DEF ManagerSigns
<1>13. CASE TenantSigns(c)
  <2>1. calls[c].lease \in Leases /\ calls[c].by = leases[calls[c].lease].tenant
    BY <1>0, <1>13 DEF TenantSigns, Awaiting, SoundCall
  <2>2. /\ leases'[calls[c].lease].status = "active"
        /\ leases'[calls[c].lease].tenant = leases[calls[c].lease].tenant
    BY <1>13, <2>1 DEF TenantSigns, Shape, TypeOK, LeaseRow
  <2> QED
    BY <1>11, <1>13, <2>1, <2>2 DEF TenantSigns
<1>14. ASSUME NEW decline \in BOOLEAN, SettlePay(c, decline) PROVE Pages'
  <2>1. CASE decline
    <3> DEFINE r == [calls[c] EXCEPT !.reply = "declined"]
    <3>1. /\ r.kind = calls[c].kind /\ r.by = calls[c].by /\ r.lease = calls[c].lease
          /\ r.rows = calls[c].rows
      BY <1>0 DEF Call
    <3>2. Reply(c, r) /\ UNCHANGED client
      BY <1>14, <2>1 DEF SettlePay
    <3> HIDE DEF r
    <3> QED
      BY <1>4, <3>1, <3>2
  <2>2. CASE ~decline
    <3> DEFINE l == calls[c].lease
               x == Only(l, "paid")
               r == [Ok(c) EXCEPT !.rows.payments = x]
    <3>1. /\ r.kind = calls[c].kind /\ r.by = calls[c].by /\ r.lease = calls[c].lease
          /\ r.rows = [calls[c].rows EXCEPT !.payments = x]
      BY <1>0 DEF Ok, Call
    <3>2. UNCHANGED <<seen, pay>> /\ Reply(c, r)
      BY <1>14, <2>2 DEF SettlePay
    <3>3. l \in Leases /\ leases'[l].status = "active"
      BY <1>0, <1>14 DEF SettlePay, NextCall, SoundCall
    <3>4. payments'[l].receipt
      BY <1>14, <2>2, <3>3 DEF SettlePay, Shape, TypeOK
    <3>5. \A k \in Leases : x[k] = IF k = l THEN "paid" ELSE "none"
      BY DEF Only
    <3> HIDE DEF r, x, l
    <3>6. NextPayments(x)
      BY <3>3, <3>4, <3>5 DEF NextPayments
    <3>7. NextRows(calls[c].by, [calls[c].rows EXCEPT !.payments = x])
      BY <1>0, <3>6, ListKnown
    <3> QED
      BY <1>1, <3>1, <3>2, <3>7, ReplyPages
  <2> QED
    BY <2>1, <2>2
<1> QED
  BY <1>2, <1>3, <1>5, <1>6, <1>7, <1>8, <1>9, <1>10, <1>12, <1>13, <1>14 DEF Handle

\* A page that takes what is known, and sends on what is known, stays behind.
LEMMA GotPages ==
    ASSUME Shape, Shape', Grows, Pages, NEW c \in Calls, NEW r, NextCall(r), Then(c, r),
           NEW u \in Users, NEW x, NextRows(u, x),
           seen' = seen \/ seen' = [seen EXCEPT ![u] = x],
           \A t \in Tenants : pay'[t].open => pay[t].open /\ pay'[t].lease = pay[t].lease
    PROVE  Pages'
<1>1. \A d \in Calls : NextCall(calls'[d])
  BY PlaceKnown
<1>2. \A v \in Users : seen'[v] = seen[v] \/ NextRows(v, seen'[v])
  BY DEF Shape, TypeOK
<1> QED
  BY <1>1, <1>2, PagesNext

\* What a page gets was known when it was sent.
LEMMA GetPages ==
    ASSUME Shape, Shape', Grows, Pages, NEW c \in Calls, NEW ok \in BOOLEAN, Get(c, ok)
    PROVE  Pages'
<1>0. /\ NextCall(calls[c]) /\ NextRows(calls[c].by, calls[c].rows)
      /\ calls[c] \in Call /\ calls[c] \in SoundCall /\ calls[c].rows \in Rows
  BY HeldKnown DEF Shape
<1>1. \A u \in Users : seen[u] \in Rows /\ NextRows(u, seen[u])
  BY Persists DEF Pages, Shape, TypeOK
<1>2. NextCall(Idle) /\ NextRows(Manager, NoRows) /\ Manager \in Users
  BY AskKnown, NothingKnown, AreUsers DEF Idle
<1>3. ASSUME NEW r, NextCall(r), Then(c, r), UNCHANGED <<seen, pay>> PROVE Pages'
  BY <1>3, ReplyPages
<1>4. CASE GotLoad(c, ok)
  <2> DEFINE u == calls[c].by
             x == [calls[c].rows EXCEPT !.leases = Lease(@)]
  <2>1. u \in Users
    BY <1>0, <1>4 DEF GotLoad, Answered, SoundCall
  <2>2. NextRows(u, x)
    <3>1. \A l \in Leases : Lease(calls[c].rows.leases)[l] \in {calls[c].rows.leases[l], "none"}
      BY DEF Lease
    <3>2. \A l \in Leases : leases'[l].status \in LeaseStatus
      BY DEF Shape, TypeOK, LeaseRow
    <3>3. \A l \in Leases : Rank["none"] <= Rank[leases'[l].status]
      BY <3>2, RankType
    <3>4. NextLeases(u, Lease(calls[c].rows.leases))
      BY <1>0, <3>1, <3>3 DEF NextRows, NextLeases
    <3>5. x = [calls[c].rows EXCEPT !.leases = Lease(calls[c].rows.leases)]
      OBVIOUS
    <3> QED
      BY <1>0, <3>4, <3>5, ListKnown
  <2>3. \/ seen' = seen
        \/ seen' = [seen EXCEPT ![u] = calls[c].rows]
        \/ seen' = [seen EXCEPT ![u] = x]
    BY <1>4 DEF GotLoad
  <2>4. Then(c, Idle) /\ UNCHANGED pay
    BY <1>4 DEF GotLoad
  <2> HIDE DEF u, x
  <2>5. NextRows(u, calls[c].rows)
    BY <1>0 DEF u
  <2> QED
    BY <1>2, <2>1, <2>2, <2>3, <2>4, <2>5, GotPages
<1>5. CASE GotVacant(c, ok) \/ GotReceipts(c, ok)
  BY <1>2, <1>3, <1>5 DEF GotVacant, GotReceipts, client
<1>6. CASE GotInvited(c, ok)
  <2> DEFINE y == seen[Manager].tenants \cup calls[c].rows.tenants
             x == [seen[Manager] EXCEPT !.tenants = y]
  <2>1. y \subseteq accounts'
    BY <1>0, <1>1, <1>2 DEF NextRows
  <2>2. seen' = seen \/ seen' = [seen EXCEPT ![Manager] = x]
    BY <1>6 DEF GotInvited
  <2>3. Then(c, Idle) /\ UNCHANGED pay
    BY <1>6 DEF GotInvited
  <2> HIDE DEF y
  <2>4. NextRows(Manager, x)
    BY <1>1, <1>2, <2>1, ListKnown
  <2> HIDE DEF x
  <2> QED
    BY <1>2, <2>2, <2>3, <2>4, GotPages
<1>7. CASE GotUnit(c, ok)
  <2> DEFINE y == [h \in Units |-> IF calls[c].rows.units[h] # "none"
                                   THEN calls[c].rows.units[h] ELSE seen[Manager].units[h]]
             x == [seen[Manager] EXCEPT !.units = y]
  <2>1. NextUnits(y)
    <3>1. NextUnits(calls[c].rows.units) /\ NextUnits(seen[Manager].units)
      BY <1>0, <1>1, <1>2 DEF NextRows
    <3>2. \A h \in Units : y[h] \in {calls[c].rows.units[h], seen[Manager].units[h]}
      OBVIOUS
    <3> HIDE DEF y
    <3> QED
      BY <3>1, <3>2 DEF NextUnits
  <2>2. seen' = seen \/ seen' = [seen EXCEPT ![Manager] = x]
    BY <1>7 DEF GotUnit
  <2>3. Then(c, Idle) /\ UNCHANGED pay
    BY <1>7 DEF GotUnit
  <2> HIDE DEF y
  <2>4. NextRows(Manager, x)
    BY <1>1, <1>2, <2>1, ListKnown
  <2> HIDE DEF x
  <2> QED
    BY <1>2, <2>2, <2>3, <2>4, GotPages
<1>8. ASSUME Drafted(c, ok), UNCHANGED pay PROVE Pages'
  <2> DEFINE l == calls[c].lease
             y == [seen[Manager].leases EXCEPT ![l] = calls[c].rows.leases[l]]
             x == [seen[Manager] EXCEPT !.leases = y]
  <2>1. NextLeases(Manager, y)
    <3>1. NextLeases(calls[c].by, calls[c].rows.leases)
      BY <1>0 DEF NextRows
    <3>2. NextLeases(Manager, seen[Manager].leases)
      BY <1>1, <1>2 DEF NextRows
    <3>3. \A k \in Leases : y[k] \in {calls[c].rows.leases[k], seen[Manager].leases[k]}
      BY <1>1, <1>2 DEF Rows
    <3> HIDE DEF y
    <3> QED
      BY <3>1, <3>2, <3>3, AreUsers DEF NextLeases
  <2>2. seen' = seen \/ seen' = [seen EXCEPT ![Manager] = x]
    BY <1>8 DEF Drafted
  <2>3. Then(c, Idle)
    BY <1>8 DEF Drafted
  <2> HIDE DEF y
  <2>4. NextRows(Manager, x)
    BY <1>1, <1>2, <2>1, ListKnown
  <2> HIDE DEF x
  <2> QED
    BY <1>2, <1>8, <2>2, <2>3, <2>4, GotPages
<1>9. ASSUME NEW sign \in BOOLEAN, GotCreated(c, ok, sign) PROVE Pages'
  <2>1. CASE ok /\ sign
    <3> DEFINE r == [Ask("sign", Manager) EXCEPT !.lease = calls[c].lease,
                        !.chained = TRUE, !.mounted = calls[c].mounted]
    <3>1. r.rows = NoRows /\ r.kind # "pay"
      BY DEF Ask, Idle
    <3>2. Then(c, r) /\ UNCHANGED <<seen, pay>>
      BY <1>9, <2>1 DEF GotCreated
    <3> HIDE DEF r
    <3>3. NextCall(r)
      BY <3>1, AskKnown
    <3> QED
      BY <1>3, <3>2, <3>3
  <2>2. CASE ~(ok /\ sign)
    BY <1>2, <1>3, <1>8, <1>9, <2>2 DEF GotCreated
  <2> QED
    BY <2>1, <2>2
<1>10. CASE GotSigned(c, ok)
  <2>1. CASE calls[c].chained
    BY <1>8, <1>10, <2>1 DEF GotSigned
  <2>2. CASE ~calls[c].chained
    <3> DEFINE u == calls[c].by
               x == [seen[u] EXCEPT !.leases = calls[c].rows.leases]
               r == IF ok /\ u # Manager THEN Ask("receipts", u) ELSE Idle
    <3>1. u \in Users
      BY <1>0, <1>10 DEF GotSigned, Answered, SoundCall
    <3>2. NextRows(u, x)
      BY <1>0, <1>1, <3>1, ListKnown DEF NextRows
    <3>3. r.rows = NoRows /\ r.kind # "pay"
      BY DEF Ask, Idle
    <3>4. Then(c, r) /\ UNCHANGED pay
      BY <1>10, <2>2 DEF GotSigned
    <3>5. seen' = seen \/ seen' = [seen EXCEPT ![u] = x]
      BY <1>10, <2>2 DEF GotSigned
    <3> HIDE DEF u, x, r
    <3>6. NextCall(r)
      BY <3>3, AskKnown
    <3> QED
      BY <3>1, <3>2, <3>4, <3>5, <3>6, GotPages
  <2> QED
    BY <2>1, <2>2
<1>11. CASE GotPaid(c, ok)
  <2> DEFINE t == calls[c].by
             l == calls[c].lease
             y == [seen[t].payments EXCEPT ![l] = calls[c].rows.payments[l]]
             x == [seen[t] EXCEPT !.payments = y]
  <2>1. t \in Users
    BY <1>0, <1>11 DEF GotPaid, Answered, SoundCall
  <2>2. NextPayments(y)
    <3>1. NextPayments(calls[c].rows.payments)
      BY <1>0 DEF NextRows
    <3>2. NextPayments(seen[t].payments)
      BY <1>1, <2>1 DEF NextRows
    <3>3. \A k \in Leases : y[k] \in {calls[c].rows.payments[k], seen[t].payments[k]}
      BY <1>1, <2>1 DEF Rows
    <3> HIDE DEF y
    <3> QED
      BY <3>1, <3>2, <3>3 DEF NextPayments
  <2>3. seen' = seen \/ seen' = [seen EXCEPT ![t] = x]
    BY <1>11 DEF GotPaid
  <2>4. Then(c, Idle)
    BY <1>11 DEF GotPaid
  <2>5. \A v \in Tenants : pay'[v].open => pay[v].open /\ pay'[v].lease = pay[v].lease
    BY <1>11 DEF GotPaid, Shape, SoundPay, Pay
  <2> HIDE DEF y
  <2>6. NextRows(t, x)
    BY <1>1, <2>1, <2>2, ListKnown
  <2> HIDE DEF x, t
  <2> QED
    BY <1>2, <2>1, <2>3, <2>4, <2>5, <2>6, GotPages
<1> QED
  BY <1>4, <1>5, <1>6, <1>7, <1>9, <1>10, <1>11 DEF Get

(***************************************************************************)
(* The invariant, and what it says.                                        *)
(***************************************************************************)
Tenure == Shape /\ Complete /\ Pages

\* It holds of empty tables and pages.
LEMMA TenureInit == Init => Tenure
<1> SUFFICES ASSUME Init PROVE Tenure
  OBVIOUS
<1>1. Shape
  BY ShapeInit
<1>2. /\ \A l \in Leases : /\ leases[l].status = "none" /\ leases[l].signed = {}
                           /\ payments[l].status = "none" /\ ~payments[l].receipt
      /\ \A h \in Units : units[h] # "occupied"
  BY DEF Init, NoLease
<1>3. Complete
  BY <1>2 DEF Complete, LeasesAreComplete
<1>4. \A u : KnownRows(u, NoRows)
  BY <1>2, Ranks DEF KnownRows, KnownLeases, KnownPayments, KnownUnits, NoRows
<1>5. /\ \A c \in Calls : calls[c].rows = NoRows /\ calls[c].kind # "pay"
      /\ \A u \in Users : seen[u] = NoRows
      /\ \A t \in Tenants : ~pay[t].open
  BY DEF Init, Idle, NoPay
<1>6. Pages
  BY <1>4, <1>5 DEF Pages, PaysInvoices
<1> QED
  BY <1>1, <1>3, <1>6 DEF Tenure

\* Every step keeps it.
LEMMA TenureStep == Tenure /\ [Next]_vars => Tenure' /\ Grows
<1> SUFFICES ASSUME Tenure, [Next]_vars PROVE Tenure' /\ Grows
  OBVIOUS
<1>1. Shape /\ Complete /\ Pages /\ PaysInvoices
  BY DEF Tenure, Pages
<1>2. Shape' /\ Grows /\ Complete'
  BY <1>1, ShapeStep, GrowsStep
<1>3. Pages'
  <2>1. CASE UNCHANGED vars
    BY <1>1, <1>2, <2>1, PagesNext DEF vars, client
  <2>2. ASSUME NEW c \in Calls, Handle(c) PROVE Pages'
    BY <1>1, <1>2, <2>2, HandlePages
  <2>3. ASSUME NEW c \in Calls, NEW ok \in BOOLEAN, Get(c, ok) PROVE Pages'
    BY <1>1, <1>2, <2>3, GetPages
  <2>4. CASE Next
    BY <1>1, <1>2, <2>2, <2>3, <2>4, PagesPages DEF Next
  <2> QED
    BY <2>1, <2>4
<1> QED
  BY <1>2, <1>3 DEF Tenure

\* A lease in force has both signatures and an invoice, and its unit is
\* occupied, whatever is sent twice, late or in vain.
THEOREM CompleteCorrect == Spec => []LeasesAreComplete
<1>1. Spec => []Tenure
  BY TenureInit, TenureStep, PTL DEF Spec
<1>2. Tenure => LeasesAreComplete
  BY DEF Tenure, Complete
<1> QED
  BY <1>1, <1>2, PTL

\* What was signed stays signed, for the same tenant and unit, and what was
\* paid keeps its receipt.
THEOREM StandsCorrect == Spec => SignaturesStand
<1> DEFINE Stands ==
        \A l \in Leases :
          /\ leases[l].status # "none" =>
                /\ leases'[l].tenant = leases[l].tenant
                /\ leases'[l].unit = leases[l].unit
                /\ leases[l].signed \subseteq leases'[l].signed
                /\ leases[l].status = "active" => leases'[l].status = "active"
          /\ payments[l].receipt => payments'[l].receipt
<1>1. Grows => [Stands]_api
  BY DEF Grows
<1>2. Tenure /\ [Next]_vars => [Stands]_api
  BY <1>1, TenureStep
<1> HIDE DEF Stands
<1>3. Spec => [][Stands]_api
  BY <1>2, TenureInit, TenureStep, PTL DEF Spec
<1> QED
  BY <1>3 DEF SignaturesStand, Stands

\* No page, and nothing on its way to one, is ahead of the API.
THEOREM LagCorrect == Spec => []PagesLag
<1>1. Spec => []Tenure
  BY TenureInit, TenureStep, PTL DEF Spec
<1>2. Tenure => PagesLag
  <2> SUFFICES ASSUME Tenure PROVE PagesLag
    OBVIOUS
  <2>1. \A u, r : KnownRows(u, r) => Reached(r)
    BY DEF KnownRows, KnownLeases, KnownPayments, KnownUnits, Reached
  <2>2. /\ \A u \in Users : KnownRows(u, seen[u])
        /\ \A c \in Calls : KnownRows(calls[c].by, calls[c].rows)
    BY DEF Tenure, Pages
  <2>3. \A t \in Tenants, l \in Leases : seen[t].leases[l] # "none" => leases[l].tenant = t
    BY <2>2, AreUsers DEF KnownRows, KnownLeases
  <2> QED
    BY <2>1, <2>2, <2>3 DEF PagesLag
<1> QED
  BY <1>1, <1>2, PTL
=============================================================================
