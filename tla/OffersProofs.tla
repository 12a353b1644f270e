---------------------------- MODULE OffersProofs ----------------------------
(***************************************************************************)
(* Proofs, for any sets of managers, properties, offers and calls, that a  *)
(* property is managed by whoever accepted its offer, that answers stand   *)
(* and that no page is ahead of the API.                                   *)
(***************************************************************************)
EXTENDS Offers, FiniteSetTheorems, TLAPS

(***************************************************************************)
(* Shape: the types, and what a call or a dialog of some kind is about. An *)
(* answer names an offer, a listing its manager, and its second half the   *)
(* property the first half made. The handlers need it: what they write is  *)
(* well typed only because they are asked about rows that exist.           *)
(***************************************************************************)
Carries(r) ==
    \/ r.kind = "property" /\ r.reply = "ok"
    \/ r.kind = "offer" /\ r.reply = "awaited"

SoundCall ==
    {r \in Call : /\ r.kind \in Writes => r.offer \in Offers
                  /\ r.kind \in Listing => r.manager \in Managers
                  /\ Carries(r) => r.property \in Properties}

SoundDialog == {d \in Dialog : d.is # "closed" => d.of \in Offers}

Shape ==
    /\ TypeOK
    /\ calls \in [Calls -> SoundCall]
    /\ dialog \in [Managers -> SoundDialog]

\* The owner and the managers are users.
LEMMA AreUsers == Owner \in Users /\ Managers \subseteq Users
BY DEF Users

\* A place among Calls that no call has taken is sound.
LEMMA IdleSound == Idle \in SoundCall
BY DEF Idle, SoundCall, Call, Carries, Kinds, Writes, Listing, NoOffers, OfferRows,
       NoHomes, Home, Status

\* So is each call that a page sends: loads, listings and answers.
LEMMA AskSound ==
    ASSUME NEW u \in Users
    PROVE  /\ \A kind \in {"offers", "properties", "reload"} : Ask(kind, u) \in SoundCall
           /\ \A m \in Managers : [Ask("property", u) EXCEPT !.manager = m] \in SoundCall
           /\ \A kind \in Writes, f \in Offers : [Ask(kind, u) EXCEPT !.offer = f] \in SoundCall
<1> USE DEF Ask, Idle, SoundCall, Call, Carries, Kinds, Writes, Listing
<1>1. NoOffers \in OfferRows /\ NoHomes \in [Properties -> Home]
  BY DEF NoOffers, OfferRows, NoHomes, Home
<1>2. \A kind \in {"offers", "properties", "reload"} : Ask(kind, u) \in SoundCall
  BY <1>1
<1>3. \A m \in Managers : [Ask("property", u) EXCEPT !.manager = m] \in SoundCall
  BY <1>1
<1>4. \A kind \in Writes, f \in Offers : [Ask(kind, u) EXCEPT !.offer = f] \in SoundCall
  BY <1>1
<1> QED
  BY <1>2, <1>3, <1>4

\* A sound call may be answered, with rows if it asked for them.
LEMMA OkSound ==
    ASSUME calls \in [Calls -> SoundCall], NEW c \in Calls, calls[c].kind # "property"
    PROVE  /\ Ok(c) \in SoundCall
           /\ \A f, s : s \in Status => [Ok(c) EXCEPT !.rows[f] = s] \in SoundCall
           /\ \A rs \in OfferRows : [Ok(c) EXCEPT !.rows = rs] \in SoundCall
           /\ \A hs \in [Properties -> Home] : [Ok(c) EXCEPT !.homes = hs] \in SoundCall
<1> USE DEF SoundCall, Carries
<1>1. Ok(c) \in SoundCall
  BY DEF Ok, Call
<1>2. ASSUME NEW rs \in OfferRows PROVE [Ok(c) EXCEPT !.rows = rs] \in SoundCall
  BY <1>1 DEF Call
<1>3. ASSUME NEW f, NEW s \in Status PROVE [Ok(c) EXCEPT !.rows[f] = s] \in SoundCall
  <2>1. [Ok(c).rows EXCEPT ![f] = s] \in OfferRows
    BY <1>1 DEF Call, OfferRows
  <2> QED
    BY <1>2, <2>1
<1>4. ASSUME NEW hs \in [Properties -> Home] PROVE [Ok(c) EXCEPT !.homes = hs] \in SoundCall
  BY <1>1 DEF Call
<1> QED
  BY <1>1, <1>2, <1>3, <1>4

\* The first half of a listing is answered with the property it made.
LEMMA ListedSound ==
    ASSUME calls \in [Calls -> SoundCall], NEW c \in Calls, NEW p \in Properties,
           calls[c].kind = "property"
    PROVE  [Ok(c) EXCEPT !.property = p] \in SoundCall
BY DEF Ok, SoundCall, Call, Carries, Writes, Listing

\* A sound call may fail.
LEMMA FailSound ==
    ASSUME calls \in [Calls -> SoundCall], NEW c \in Calls
    PROVE  [calls[c] EXCEPT !.reply = "failed", !.rows = NoOffers, !.homes = NoHomes,
                            !.property = None] \in SoundCall
<1>1. NoOffers \in OfferRows /\ NoHomes \in [Properties -> Home]
  BY DEF NoOffers, OfferRows, NoHomes, Home
<1> QED
  BY <1>1 DEF SoundCall, Call, Carries

\* Leaving a page keeps the calls sound.
LEMMA AbandonSound ==
    ASSUME calls \in [Calls -> SoundCall], NEW u PROVE Abandon(u) \in [Calls -> SoundCall]
<1>1. \A c \in Calls : [calls[c] EXCEPT !.mounted = FALSE] \in SoundCall
  BY DEF SoundCall, Call, Carries
<1> QED
  BY <1>1, IdleSound DEF Abandon

\* What is sent, answered or left behind takes one place among Calls.
LEMMA PlaceSound ==
    ASSUME calls \in [Calls -> SoundCall], NEW c \in Calls, NEW r \in SoundCall,
           Sends(c, r) \/ Reply(c, r) \/ Then(c, r)
    PROVE  calls' \in [Calls -> SoundCall]
BY IdleSound DEF Sends, Reply, Then

\* The owner's page without a row and the dialog closed are well typed.
LEMMA FreshPage == NoHomes \in [Properties -> Home] /\ [open |-> FALSE, submitting |-> FALSE] \in Add
BY DEF NoHomes, Home, Add

\* A sound call is a call.
LEMMA SoundIsCall == SoundCall \subseteq Call /\ SoundDialog \subseteq Dialog
BY DEF SoundCall, SoundDialog

\* The empty tables and the closed dialogs have the shape.
LEMMA ShapeInit == Init => Shape
<1> SUFFICES ASSUME Init PROVE Shape
  OBVIOUS
<1>1. calls \in [Calls -> SoundCall]
  BY IdleSound DEF Init
<1>2. dialog \in [Managers -> SoundDialog]
  BY DEF Init, SoundDialog, Dialog, Closed
<1>3. /\ properties \in [Properties -> PropertyRow]
      /\ offers \in [Offers -> OfferRow]
  BY DEF Init, PropertyRow, OfferRow, Status
<1>4. /\ rows \in [Users -> OfferRows]
      /\ homes \in [Properties -> Home]
      /\ add \in Add
  BY DEF Init, OfferRows, NoOffers, NoHomes, Home, Add
<1>5. /\ page \in [Users -> {"away", "offers", "properties"}]
      /\ withdrawing \in Offers \cup {None}
      /\ failures \in Nat
  BY DEF Init
<1> QED
  BY <1>1, <1>2, <1>3, <1>4, <1>5, SoundIsCall DEF Shape, TypeOK

\* What the owner and the managers do on their pages keeps the shape.
LEMMA ShapePages ==
    ASSUME Shape,
           \/ OpenAdd \/ CloseAdd
           \/ \E m \in Managers : ManagerStep(m)
           \/ \E c \in Calls : \/ \E u \in Users, view \in {"offers", "properties"} :
                                      OpenPage(u, view, c)
                               \/ OwnerStep(c)
    PROVE  Shape'
<1> USE DEF Shape, TypeOK, api
<1>0. /\ calls \in [Calls -> SoundCall] => calls \in [Calls -> Call]
      /\ (calls \in [Calls -> SoundCall])' => (calls \in [Calls -> Call])'
      /\ (dialog \in [Managers -> SoundDialog])' => (dialog \in [Managers -> Dialog])'
  BY SoundIsCall
<1>1. CASE OpenAdd
  BY <1>1 DEF OpenAdd, Add
<1>2. CASE CloseAdd
  BY <1>2 DEF CloseAdd, Add
<1>3. ASSUME NEW m \in Managers, NEW f \in Offers, NEW is \in {"accept", "decline"},
             OpenDialog(m, f, is)
      PROVE Shape'
  <2>1. [is |-> is, of |-> f, submitting |-> FALSE] \in SoundDialog
    BY DEF SoundDialog, Dialog
  <2>2. dialog' \in [Managers -> SoundDialog]
    BY <1>3, <2>1 DEF OpenDialog
  <2> QED
    BY <1>0, <1>3, <2>2 DEF OpenDialog
<1>4. ASSUME NEW m \in Managers, CloseDialog(m) PROVE Shape'
  <2>1. Closed \in SoundDialog
    BY DEF SoundDialog, Dialog, Closed
  <2>2. dialog' \in [Managers -> SoundDialog]
    BY <1>4, <2>1 DEF CloseDialog
  <2> QED
    BY <1>0, <1>4, <2>2 DEF CloseDialog
<1>5. ASSUME NEW m \in Managers, NEW c \in Calls, SubmitAnswer(m, c) PROVE Shape'
  <2>1. dialog[m].is \in Writes /\ dialog[m].of \in Offers
    BY <1>5 DEF SubmitAnswer, SoundDialog, Dialog, Writes
  <2>2. calls' \in [Calls -> SoundCall]
    BY <1>5, <2>1, AskSound, AreUsers, PlaceSound DEF SubmitAnswer
  <2>3. dialog' \in [Managers -> SoundDialog]
    BY <1>5 DEF SubmitAnswer, SoundDialog, Dialog
  <2> QED
    BY <1>0, <1>5, <2>2, <2>3 DEF SubmitAnswer
<1>6. ASSUME NEW c \in Calls, NEW u \in Users, NEW view \in {"offers", "properties"},
             OpenPage(u, view, c)
      PROVE Shape'
  <2>1. calls' \in [Calls -> SoundCall]
    BY <1>6, AskSound, AbandonSound DEF OpenPage
  <2>2. /\ page' \in [Users -> {"away", "offers", "properties"}]
        /\ rows' \in [Users -> OfferRows]
    BY <1>6 DEF OpenPage, NoOffers, OfferRows
  <2>3. CASE u = Owner
    <3>1. homes' \in [Properties -> Home] /\ add' \in Add
      BY <1>6, <2>3, FreshPage DEF OpenPage
    <3>2. withdrawing' = None /\ dialog' = dialog /\ UNCHANGED <<properties, offers, failures>>
      BY <1>6, <2>3 DEF OpenPage
    <3>3. (dialog \in [Managers -> SoundDialog])'
      BY <3>2
    <3> QED
      BY <1>0, <2>1, <2>2, <3>1, <3>2, <3>3
  <2>4. CASE u # Owner
    <3>1. Closed \in SoundDialog
      BY DEF SoundDialog, Dialog, Closed
    <3>2. dialog' \in [Managers -> SoundDialog]
      BY <1>6, <2>4, <3>1 DEF OpenPage
    <3> QED
      BY <1>0, <1>6, <2>1, <2>2, <2>4, <3>2 DEF OpenPage
  <2> QED
    BY <2>3, <2>4
<1>7. ASSUME NEW c \in Calls, NEW m \in Managers, SubmitListing(m, c) PROVE Shape'
  <2>1. calls' \in [Calls -> SoundCall]
    BY <1>7, AskSound, AreUsers, PlaceSound DEF SubmitListing
  <2>2. add' \in Add
    BY <1>7 DEF SubmitListing, Add
  <2> QED
    BY <1>0, <1>7, <2>1, <2>2 DEF SubmitListing
<1>8. ASSUME NEW c \in Calls, NEW f \in Offers, ClickWithdraw(f, c) PROVE Shape'
  <2>1. calls' \in [Calls -> SoundCall]
    <3>1. [Ask("withdraw", Owner) EXCEPT !.offer = f] \in SoundCall
      BY AskSound, AreUsers DEF Writes
    <3> QED
      BY <1>8, <3>1, PlaceSound DEF ClickWithdraw
  <2> QED
    BY <1>0, <1>8, <2>1 DEF ClickWithdraw
<1> QED
  BY <1>1, <1>2, <1>3, <1>4, <1>5, <1>6, <1>7, <1>8 DEF ManagerStep, OwnerStep

\* The handlers keep the shape.
LEMMA ShapeHandle == ASSUME Shape, NEW c \in Calls, Handle(c) PROVE Shape'
<1> USE DEF Shape, TypeOK
<1>0. /\ calls[c] \in SoundCall /\ calls[c] \in Call
      /\ (calls \in [Calls -> SoundCall])' => (calls \in [Calls -> Call])'
  BY SoundIsCall
<1>1. ASSUME NEW p \in Properties, HandleProperty(c, p) PROVE Shape'
  <2>1. calls' \in [Calls -> SoundCall]
    BY <1>1, ListedSound, PlaceSound DEF HandleProperty
  <2>2. properties' \in [Properties -> PropertyRow]
    BY <1>1 DEF HandleProperty, PropertyRow
  <2> QED
    BY <1>0, <1>1, <2>1, <2>2 DEF HandleProperty, client
<1>2. ASSUME NEW f \in Offers, HandleOffer(c, f) PROVE Shape'
  <2>1. calls' \in [Calls -> SoundCall]
    BY <1>2, OkSound, PlaceSound DEF HandleOffer
  <2>2. calls[c].property \in Properties /\ calls[c].manager \in Managers
    BY <1>0, <1>2 DEF HandleOffer, Awaiting, SoundCall, Carries, Listing
  <2>3. offers' \in [Offers -> OfferRow]
    BY <1>2, <2>2 DEF HandleOffer, OfferRow, Status
  <2> QED
    BY <1>0, <1>2, <2>1, <2>3 DEF HandleOffer, client
<1>3. \A s : s \in Status =>
         [offers EXCEPT ![calls[c].offer].status = s] \in [Offers -> OfferRow]
  BY DEF OfferRow
<1>4. CASE HandleAccept(c)
  <2> DEFINE f == calls[c].offer
  <2>0. f \in Offers /\ "accepted" \in Status
    BY <1>0, <1>4 DEF HandleAccept, Awaiting, SoundCall, Writes, Status
  <2>1. calls' \in [Calls -> SoundCall]
    BY <1>4, <2>0, OkSound, PlaceSound DEF HandleAccept, Awaiting
  <2>2. offers' \in [Offers -> OfferRow]
    BY <1>3, <1>4, <2>0 DEF HandleAccept
  <2>3. offers[f].manager \in Managers \cup {None}
    BY <2>0 DEF OfferRow
  <2>4. properties' \in [Properties -> PropertyRow]
    BY <1>4, <2>3 DEF HandleAccept, PropertyRow
  <2> QED
    BY <1>0, <1>4, <2>1, <2>2, <2>4 DEF HandleAccept, client
<1>5. CASE HandleDecline(c)
  <2>0. "declined" \in Status
    BY DEF Status
  <2>1. calls' \in [Calls -> SoundCall]
    BY <1>5, <2>0, OkSound, PlaceSound DEF HandleDecline, Awaiting
  <2>2. offers' \in [Offers -> OfferRow]
    BY <1>3, <1>5, <2>0 DEF HandleDecline
  <2> QED
    BY <1>0, <1>5, <2>1, <2>2 DEF HandleDecline, client
<1>6. CASE HandleWithdraw(c)
  <2>0. "withdrawn" \in Status
    BY DEF Status
  <2>1. calls' \in [Calls -> SoundCall]
    BY <1>6, OkSound, PlaceSound DEF HandleWithdraw, Awaiting
  <2>2. offers' \in [Offers -> OfferRow]
    BY <1>3, <1>6, <2>0 DEF HandleWithdraw
  <2> QED
    BY <1>0, <1>6, <2>1, <2>2 DEF HandleWithdraw, client
<1>7. CASE HandleOffers(c)
  <2> DEFINE rs == [f \in Offers |-> IF calls[c].by = Owner \/ offers[f].manager = calls[c].by
                                    THEN offers[f].status ELSE "none"]
  <2>1. rs \in OfferRows
    BY DEF OfferRows, OfferRow
  <2>2. [Ok(c) EXCEPT !.rows = rs] \in SoundCall
    BY <1>7, <2>1, OkSound DEF HandleOffers
  <2>3. calls' \in [Calls -> SoundCall]
    BY <1>7, <2>2, PlaceSound DEF HandleOffers
  <2> QED
    BY <1>0, <1>7, <2>3 DEF HandleOffers, api, client
<1>8. CASE HandleProperties(c)
  <2> DEFINE hs == [p \in Properties |-> IF ~properties[p].listed THEN "absent"
                       ELSE IF properties[p].manager = None THEN "unmanaged" ELSE "managed"]
  <2>1. hs \in [Properties -> Home]
    BY DEF Home
  <2>2. [Ok(c) EXCEPT !.homes = hs] \in SoundCall
    BY <1>8, <2>1, OkSound DEF HandleProperties
  <2>3. calls' \in [Calls -> SoundCall]
    BY <1>8, <2>2, PlaceSound DEF HandleProperties
  <2> QED
    BY <1>0, <1>8, <2>3 DEF HandleProperties, api, client
<1>9. CASE Fail(c)
  <2>1. calls' \in [Calls -> SoundCall]
    BY <1>9, FailSound, PlaceSound DEF Fail
  <2> QED
    BY <1>0, <1>9, <2>1 DEF Fail, api, client
<1> QED
  BY <1>1, <1>2, <1>4, <1>5, <1>6, <1>7, <1>8, <1>9 DEF Handle

\* The continuations keep the shape.
LEMMA ShapeGet == ASSUME Shape, NEW c \in Calls, Get(c) PROVE Shape'
<1> USE DEF Shape, TypeOK, api
<1>0. /\ calls[c] \in SoundCall /\ calls[c] \in Call
      /\ (calls \in [Calls -> SoundCall])' => (calls \in [Calls -> Call])'
      /\ (dialog \in [Managers -> SoundDialog])' => (dialog \in [Managers -> Dialog])'
  BY SoundIsCall
<1>1. \A r \in SoundCall : Then(c, r) => calls' \in [Calls -> SoundCall]
  BY PlaceSound
<1>2. \A kind \in {"properties", "reload"} : Ask(kind, Owner) \in SoundCall
  BY AskSound, AreUsers
<1>3. CASE GotPage(c)
  <2>1. calls[c].rows \in OfferRows /\ calls[c].homes \in [Properties -> Home]
    BY <1>0 DEF Call
  <2>2. rows' \in [Users -> OfferRows] /\ homes' \in [Properties -> Home]
    BY <1>3, <2>1 DEF GotPage
  <2>3. withdrawing' \in Offers \cup {None}
    BY <1>3 DEF GotPage
  <2>4. calls' \in [Calls -> SoundCall]
    BY <1>1, <1>3, IdleSound DEF GotPage
  <2> QED
    BY <1>0, <1>3, <2>2, <2>3, <2>4 DEF GotPage
<1>4. ASSUME ListingFailed(c)
      PROVE  add' \in Add /\ failures' \in Nat /\ calls' \in [Calls -> SoundCall]
  <2>1. calls' \in [Calls -> SoundCall]
    BY <1>1, <1>4, IdleSound DEF ListingFailed
  <2>2. [add EXCEPT !.submitting = FALSE] \in Add
    BY DEF Add
  <2>3. failures + 1 \in Nat
    OBVIOUS
  <2> QED
    BY <1>4, <2>1, <2>2, <2>3 DEF ListingFailed
<1>5. CASE GotProperty(c)
  <2>1. CASE IsOk(c)
    <3>1. [calls[c] EXCEPT !.kind = "offer", !.reply = "awaited"] \in SoundCall
      BY <1>0, <1>5, <2>1 DEF GotProperty, Answered, IsOk, SoundCall, Call, Carries,
                              Kinds, Writes, Listing
    <3> QED
      BY <1>0, <1>1, <1>5, <2>1, <3>1 DEF GotProperty
  <2> QED
    BY <1>0, <1>4, <1>5, <2>1 DEF GotProperty
<1>6. CASE GotOffer(c)
  <2>1. CASE IsOk(c)
    <3>1. calls' \in [Calls -> SoundCall]
      BY <1>1, <1>2, <1>6, <2>1, IdleSound DEF GotOffer
    <3>2. add' \in Add
      BY <1>6, <2>1, FreshPage DEF GotOffer
    <3> QED
      BY <1>0, <1>6, <2>1, <3>1, <3>2 DEF GotOffer
  <2> QED
    BY <1>0, <1>4, <1>6, <2>1 DEF GotOffer
<1>7. CASE GotAnswer(c)
  <2> DEFINE m == calls[c].by  f == calls[c].offer
  <2>1. f \in Offers /\ calls[c].rows[f] \in Status \cup {"none"}
    BY <1>0, <1>7 DEF GotAnswer, Answered, SoundCall, Call, OfferRows, Writes
  <2>2. rows' \in [Users -> OfferRows]
    BY <1>7, <2>1 DEF GotAnswer, OfferRows
  <2>3. Closed \in SoundDialog /\ \A d \in SoundDialog : [d EXCEPT !.submitting = FALSE] \in SoundDialog
    BY DEF SoundDialog, Dialog, Closed
  <2>4. dialog' \in [Managers -> SoundDialog]
    BY <1>7, <2>3 DEF GotAnswer
  <2>5. calls' \in [Calls -> SoundCall]
    BY <1>1, <1>7, IdleSound DEF GotAnswer
  <2> QED
    BY <1>0, <1>7, <2>2, <2>4, <2>5 DEF GotAnswer
<1>8. CASE GotWithdrawn(c)
  <2>1. calls' \in [Calls -> SoundCall]
    BY <1>1, <1>2, <1>8, IdleSound DEF GotWithdrawn
  <2> QED
    BY <1>0, <1>8, <2>1 DEF GotWithdrawn
<1> QED
  BY <1>3, <1>5, <1>6, <1>7, <1>8 DEF Get

\* So the shape is kept by every step.
LEMMA ShapeStep == Shape /\ [Next]_vars => Shape'
<1>1. Shape /\ Next => Shape'
  BY ShapePages, ShapeHandle, ShapeGet DEF Next
<1>2. Shape /\ UNCHANGED vars => Shape'
  BY DEF Shape, TypeOK, vars, api, client
<1> QED
  BY <1>1, <1>2

\* The tables, pages, dialogs and calls keep their types, however the calls of
\* owner and managers overlap, fail or arrive late.
THEOREM ShapeCorrect == Spec => []TypeOK
<1>1. Spec => []Shape
  BY ShapeInit, ShapeStep, PTL DEF Spec
<1>2. Shape => TypeOK
  BY DEF Shape
<1> QED
  BY <1>1, <1>2, PTL

(***************************************************************************)
(* What a step does to the tables, and to the listings that are half done. *)
(***************************************************************************)
\* No call carries a property that it did not carry before.
NoNewCarrier ==
    \A d \in Calls : Carries(calls'[d]) =>
        Carries(calls[d]) /\ calls'[d].property = calls[d].property

\* A pending offer is answered, and its property gets a manager or not.
Answers(f, s) ==
    /\ offers[f].status = "pending"
    /\ offers' = [offers EXCEPT ![f].status = s]
    /\ IF s = "accepted"
       THEN properties' = [properties EXCEPT ![offers[f].property].manager = offers[f].manager]
       ELSE UNCHANGED properties
    /\ NoNewCarrier

\* A call that carries nothing, or what the call in its place carried, is no
\* new carrier.
LEMMA PlaceCarries ==
    ASSUME calls \in [Calls -> SoundCall], NEW c \in Calls, NEW r,
           Carries(r) => Carries(calls[c]) /\ r.property = calls[c].property,
           Sends(c, r) \/ Reply(c, r) \/ Then(c, r)
    PROVE  NoNewCarrier
BY DEF NoNewCarrier, Sends, Reply, Then, Carries, Idle

\* What users do on pages touches no table and carries nothing.
LEMMA PagesEffect ==
    ASSUME Shape,
           \/ OpenAdd \/ CloseAdd
           \/ \E m \in Managers : ManagerStep(m)
           \/ \E c \in Calls : \/ \E u \in Users, view \in {"offers", "properties"} :
                                      OpenPage(u, view, c)
                               \/ OwnerStep(c)
    PROVE  UNCHANGED api /\ NoNewCarrier
<1> USE DEF Shape, api
<1>0. calls' = calls => NoNewCarrier
  BY DEF NoNewCarrier
<1>1. CASE OpenAdd \/ CloseAdd
  <2>1. UNCHANGED <<properties, offers, calls>>
    BY <1>1 DEF OpenAdd, CloseAdd
  <2> QED
    BY <1>0, <2>1
<1>2. ASSUME NEW m \in Managers, NEW f \in Offers, NEW is \in {"accept", "decline"},
             OpenDialog(m, f, is)
      PROVE UNCHANGED api /\ NoNewCarrier
  BY <1>0, <1>2 DEF OpenDialog
<1>3. ASSUME NEW m \in Managers, CloseDialog(m) PROVE UNCHANGED api /\ NoNewCarrier
  BY <1>0, <1>3 DEF CloseDialog
<1>4. ASSUME NEW m \in Managers, NEW c \in Calls, SubmitAnswer(m, c)
      PROVE UNCHANGED api /\ NoNewCarrier
  <2>1. dialog[m].is \notin Listing
    BY <1>4 DEF SubmitAnswer, SoundDialog, Dialog, Listing
  <2>2. ~Carries([Ask(dialog[m].is, m) EXCEPT !.offer = dialog[m].of])
    BY <2>1 DEF Ask, Idle, Carries, Listing
  <2> QED
    BY <1>4, <2>2, PlaceCarries DEF SubmitAnswer
<1>5. ASSUME NEW c \in Calls, NEW u \in Users, NEW view \in {"offers", "properties"},
             OpenPage(u, view, c)
      PROVE UNCHANGED api /\ NoNewCarrier
  <2>1. ~Carries(Ask(view, u))
    BY DEF Ask, Idle, Carries
  <2>2. \A d \in Calls : Carries(Abandon(u)[d]) =>
                           Carries(calls[d]) /\ Abandon(u)[d].property = calls[d].property
    BY DEF Abandon, Idle, Carries, SoundCall, Call
  <2>3. \A d \in Calls : calls'[d] = IF d = c THEN Ask(view, u) ELSE Abandon(u)[d]
    BY <1>5 DEF OpenPage, Abandon
  <2> QED
    BY <1>5, <2>1, <2>2, <2>3 DEF OpenPage, NoNewCarrier
<1>6. ASSUME NEW c \in Calls, NEW m \in Managers, SubmitListing(m, c)
      PROVE UNCHANGED api /\ NoNewCarrier
  <2>1. ~Carries([Ask("property", Owner) EXCEPT !.manager = m])
    BY DEF Ask, Idle, Carries
  <2> QED
    BY <1>6, <2>1, PlaceCarries DEF SubmitListing
<1>7. ASSUME NEW c \in Calls, NEW f \in Offers, ClickWithdraw(f, c)
      PROVE UNCHANGED api /\ NoNewCarrier
  <2>1. ~Carries([Ask("withdraw", Owner) EXCEPT !.offer = f])
    BY DEF Ask, Idle, Carries
  <2> QED
    BY <1>7, <2>1, PlaceCarries DEF ClickWithdraw
<1>8. ASSUME NEW m \in Managers, ManagerStep(m) PROVE UNCHANGED api /\ NoNewCarrier
  BY <1>2, <1>4, <1>8, <1>3 DEF ManagerStep
<1>9. ASSUME NEW c \in Calls, OwnerStep(c) PROVE UNCHANGED api /\ NoNewCarrier
  BY <1>6, <1>7, <1>9 DEF OwnerStep
<1> QED
  BY <1>1, <1>5, <1>8, <1>9

\* Nor do the continuations: a listing goes on with the property it made.
LEMMA GetEffect == ASSUME Shape, NEW c \in Calls, Get(c) PROVE UNCHANGED api /\ NoNewCarrier
<1> USE DEF Shape, api
<1>0. ~Carries(Idle) /\ ~Carries(Ask("properties", Owner)) /\ ~Carries(Ask("reload", Owner))
  BY DEF Idle, Ask, Carries
<1>1. Then(c, Idle) => NoNewCarrier
  BY <1>0, PlaceCarries
<1>2. CASE GotPage(c) \/ GotAnswer(c)
  BY <1>1, <1>2 DEF GotPage, GotAnswer
<1>3. CASE GotProperty(c)
  <2>1. CASE IsOk(c)
    <3> DEFINE r == [calls[c] EXCEPT !.kind = "offer", !.reply = "awaited"]
    <3>1. Carries(calls[c]) /\ r.property = calls[c].property
      BY <1>3, <2>1 DEF GotProperty, Answered, IsOk, Carries, SoundCall, Call
    <3> QED
      BY <1>3, <2>1, <3>1, PlaceCarries DEF GotProperty
  <2> QED
    BY <1>1, <1>3, <2>1 DEF GotProperty, ListingFailed
<1>4. CASE GotOffer(c)
  <2>1. Then(c, Ask("properties", Owner)) => NoNewCarrier
    BY <1>0, PlaceCarries
  <2> QED
    BY <1>1, <1>4, <2>1 DEF GotOffer, ListingFailed
<1>5. CASE GotWithdrawn(c)
  <2>1. Then(c, Ask("reload", Owner)) => NoNewCarrier
    BY <1>0, PlaceCarries
  <2> QED
    BY <1>1, <1>5, <2>1 DEF GotWithdrawn
<1> QED
  BY <1>2, <1>3, <1>4, <1>5 DEF Get

\* Of the handlers, three answer a pending offer and three change no table.
LEMMA HandleEffect ==
    ASSUME Shape, NEW c \in Calls, Handle(c)
    PROVE  \/ UNCHANGED api /\ NoNewCarrier
           \/ \E f \in Offers : \E s \in {"accepted", "declined", "withdrawn"} : Answers(f, s)
           \/ \E p \in Properties : HandleProperty(c, p)
           \/ \E f \in Offers : HandleOffer(c, f)
<1> USE DEF Shape, api
<1>0. calls[c] \in SoundCall /\ calls[c] \in Call
  BY SoundIsCall
<1>1. \A r : /\ r.kind = calls[c].kind /\ calls[c].kind \notin Listing
             /\ Reply(c, r)
             => NoNewCarrier
  BY PlaceCarries DEF Carries, Listing
<1>2. /\ Ok(c).kind = calls[c].kind
      /\ \A rs : [Ok(c) EXCEPT !.rows = rs].kind = calls[c].kind
      /\ \A hs : [Ok(c) EXCEPT !.homes = hs].kind = calls[c].kind
  BY <1>0 DEF Ok, Call
<1>3. CASE HandleAccept(c)
  <2>1. calls[c].offer \in Offers /\ calls[c].kind \notin Listing
    BY <1>0, <1>3 DEF HandleAccept, Awaiting, SoundCall, Writes, Listing
  <2>2. NoNewCarrier
    BY <1>1, <1>2, <1>3, <2>1 DEF HandleAccept
  <2> QED
    BY <1>3, <2>1, <2>2 DEF HandleAccept, Answerable, Answers
<1>4. CASE HandleDecline(c)
  <2>1. calls[c].offer \in Offers /\ calls[c].kind \notin Listing
    BY <1>0, <1>4 DEF HandleDecline, Awaiting, SoundCall, Writes, Listing
  <2>2. NoNewCarrier
    BY <1>1, <1>2, <1>4, <2>1 DEF HandleDecline
  <2> QED
    BY <1>4, <2>1, <2>2 DEF HandleDecline, Answerable, Answers
<1>5. CASE HandleWithdraw(c)
  <2>1. calls[c].offer \in Offers /\ calls[c].kind \notin Listing
    BY <1>0, <1>5 DEF HandleWithdraw, Awaiting, SoundCall, Writes, Listing
  <2>2. NoNewCarrier
    BY <1>1, <1>2, <1>5, <2>1 DEF HandleWithdraw
  <2> QED
    BY <1>5, <2>1, <2>2 DEF HandleWithdraw, Answerable, Answers
<1>6. CASE HandleOffers(c)
  BY <1>1, <1>2, <1>6 DEF HandleOffers, Awaiting, Listing
<1>7. CASE HandleProperties(c)
  BY <1>1, <1>2, <1>7 DEF HandleProperties, Awaiting, Listing
<1>8. CASE Fail(c)
  <2> DEFINE r == [calls[c] EXCEPT !.reply = "failed", !.rows = NoOffers, !.homes = NoHomes,
                                   !.property = None]
  <2>1. ~Carries(r)
    BY <1>0 DEF Carries, Call
  <2> QED
    BY <1>8, <2>1, PlaceCarries DEF Fail
<1> QED
  BY <1>3, <1>4, <1>5, <1>6, <1>7, <1>8 DEF Handle

\* So a step changes no table, or lists a property, offers it, or answers.
LEMMA Effect ==
    ASSUME Shape, [Next]_vars
    PROVE  \/ UNCHANGED api /\ NoNewCarrier
           \/ \E f \in Offers : \E s \in {"accepted", "declined", "withdrawn"} : Answers(f, s)
           \/ \E c \in Calls : \/ \E p \in Properties : HandleProperty(c, p)
                               \/ \E f \in Offers : HandleOffer(c, f)
<1>1. CASE UNCHANGED vars
  BY <1>1 DEF vars, NoNewCarrier
<1>2. CASE Next
  BY <1>2, PagesEffect, GetEffect, HandleEffect DEF Next
<1> QED
  BY <1>1, <1>2

(***************************************************************************)
(* Managers come from offers. ManagedByOffer is not inductive: a second    *)
(* offer for a property that has a manager could be accepted as well. The  *)
(* code has no test against it; it holds because each property is made by  *)
(* one call, which offers it once.                                         *)
(***************************************************************************)
Live(f) == offers[f].status # "none"

\* What is on offer, or about to be, has been listed.
Listed ==
    /\ \A f \in Offers : Live(f) =>
          /\ offers[f].property \in Properties /\ offers[f].manager \in Managers
          /\ properties[offers[f].property].listed
    /\ \A c \in Calls : Carries(calls[c]) => properties[calls[c].property].listed

\* And it is or will be on offer once.
OfferedOnce ==
    /\ \A f, g \in Offers :
          Live(f) /\ Live(g) /\ offers[f].property = offers[g].property => f = g
    /\ \A c, d \in Calls :
          Carries(calls[c]) /\ Carries(calls[d]) /\ calls[c].property = calls[d].property
              => c = d
    /\ \A f \in Offers, c \in Calls :
          ~(Live(f) /\ Carries(calls[c]) /\ offers[f].property = calls[c].property)

Market == Listed /\ OfferedOnce /\ ManagedByOffer

\* An answer to a pending offer keeps it so.
LEMMA MarketAnswers ==
    ASSUME Shape, Market, NEW f \in Offers, NEW s \in {"accepted", "declined", "withdrawn"},
           Answers(f, s)
    PROVE  Market'
<1> USE DEF Shape, TypeOK, Live
<1>1. \A g \in Offers : /\ offers'[g].property = offers[g].property
                        /\ offers'[g].manager = offers[g].manager
                        /\ Live(g)' <=> Live(g)
                        /\ offers'[g].status = IF g = f THEN s ELSE offers[g].status
  BY DEF Answers, OfferRow
<1>2. \A p \in Properties :
         /\ properties'[p].listed = properties[p].listed
         /\ properties'[p].manager = IF s = "accepted" /\ p = offers[f].property
                                     THEN offers[f].manager ELSE properties[p].manager
  BY DEF Answers, PropertyRow
<1>3. \A d \in Calls : Carries(calls'[d]) =>
         Carries(calls[d]) /\ calls'[d].property = calls[d].property
  BY DEF Answers, NoNewCarrier
<1>4. \A d \in Calls : Carries(calls[d]) => calls[d].property \in Properties
  BY DEF SoundCall
<1>5. Listed'
  BY <1>1, <1>2, <1>3, <1>4 DEF Market, Listed
<1>6. OfferedOnce'
  BY <1>1, <1>3 DEF Market, OfferedOnce
<1>7. ASSUME NEW p \in Properties
      PROVE  /\ properties'[p].manager = None => AcceptedFor(p)' = {}
             /\ properties'[p].manager # None =>
                   \E g \in Offers : /\ AcceptedFor(p)' = {g}
                                     /\ offers'[g].manager = properties'[p].manager
  <2>1. Live(f) /\ offers[f].status = "pending"
    BY DEF Answers
  <2>2. offers[f].manager \in Managers /\ None \notin Managers
    BY <2>1, UsersAssumption DEF Market, Listed
  <2>3. CASE p = offers[f].property
    <3>1. \A g \in Offers : g # f => g \notin AcceptedFor(p)
      BY <2>1, <2>3 DEF AcceptedFor, Market, OfferedOnce
    <3>2. AcceptedFor(p) = {}
      BY <2>1, <3>1 DEF AcceptedFor
    <3>3. properties[p].manager = None
      BY <3>2 DEF Market, ManagedByOffer
    <3>4. AcceptedFor(p)' = IF s = "accepted" THEN {f} ELSE {}
      BY <1>1, <2>3, <3>1 DEF AcceptedFor
    <3> QED
      BY <1>1, <1>2, <2>2, <2>3, <3>3, <3>4
  <2>4. CASE p # offers[f].property
    <3>1. AcceptedFor(p)' = AcceptedFor(p)
      BY <1>1, <2>4 DEF AcceptedFor
    <3>2. properties'[p].manager = properties[p].manager
      BY <1>2, <2>4
    <3> QED
      BY <1>1, <3>1, <3>2 DEF Market, ManagedByOffer
  <2> QED
    BY <2>3, <2>4
<1>8. ManagedByOffer'
  BY <1>7 DEF ManagedByOffer
<1> QED
  BY <1>5, <1>6, <1>8 DEF Market

\* A new property is carried by the call that made it and by no other.
LEMMA MarketProperty ==
    ASSUME Shape, Market, NEW c \in Calls, NEW p \in Properties, HandleProperty(c, p)
    PROVE  Market'
<1> USE DEF Shape, TypeOK, Live
<1>1. offers' = offers /\ ~properties[p].listed
  BY DEF HandleProperty
<1>2. \A q \in Properties :
         /\ properties'[q].manager = properties[q].manager
         /\ properties'[q].listed = (q = p \/ properties[q].listed)
  BY DEF HandleProperty, PropertyRow
<1>3. \A d \in Calls : Carries(calls'[d]) =>
         \/ d # c /\ Carries(calls[d]) /\ calls'[d] = calls[d]
         \/ d = c /\ calls'[d].property = p
  BY DEF HandleProperty, Reply, Ok, Idle, Carries, SoundCall, Call
<1>4. \A d \in Calls : Carries(calls[d]) => calls[d].property \in Properties \ {p}
  BY <1>1 DEF SoundCall, Market, Listed
<1>5. \A f \in Offers : Live(f) => offers[f].property \in Properties \ {p}
  BY <1>1 DEF Market, Listed
<1>6. Listed'
  BY <1>1, <1>2, <1>3, <1>4, <1>5 DEF Market, Listed
<1>7. OfferedOnce'
  <2>1. ASSUME NEW d \in Calls, NEW e \in Calls, Carries(calls'[d]), Carries(calls'[e]),
               calls'[d].property = calls'[e].property
        PROVE  d = e
    BY <1>3, <1>4, <2>1 DEF Market, OfferedOnce
  <2>2. ASSUME NEW f \in Offers, NEW d \in Calls, Live(f), Carries(calls'[d])
        PROVE  offers[f].property # calls'[d].property
    BY <1>3, <1>5, <2>2 DEF Market, OfferedOnce
  <2> QED
    BY <1>1, <2>1, <2>2 DEF Market, OfferedOnce
<1>8. ManagedByOffer'
  BY <1>1, <1>2 DEF Market, ManagedByOffer, AcceptedFor
<1> QED
  BY <1>6, <1>7, <1>8 DEF Market

\* The second call of a listing puts on offer what the first one made.
LEMMA MarketOffer ==
    ASSUME Shape, Market, NEW c \in Calls, NEW f \in Offers, HandleOffer(c, f)
    PROVE  Market'
<1> USE DEF Shape, TypeOK, Live
<1> DEFINE p == calls[c].property
<1>0. /\ properties' = properties
      /\ Carries(calls[c]) /\ p \in Properties /\ calls[c].manager \in Managers
      /\ properties[p].listed
  BY DEF HandleOffer, Awaiting, SoundCall, Carries, Listing
<1>1. /\ ~Live(f)
      /\ \A g \in Offers : offers'[g] = IF g = f THEN [status |-> "pending", property |-> p,
                                                     manager |-> calls[c].manager]
                             ELSE offers[g]
  BY DEF HandleOffer
<1>2. \A d \in Calls : Carries(calls'[d]) =>
         d # c /\ Carries(calls[d]) /\ calls'[d] = calls[d]
  BY DEF HandleOffer, Awaiting, Reply, Ok, Idle, Carries, SoundCall, Call
<1>3. \A d \in Calls : Carries(calls[d]) => calls[d].property \in Properties
  BY DEF SoundCall
<1>4. Listed'
  BY <1>0, <1>1, <1>2, <1>3 DEF Market, Listed
<1>5. OfferedOnce'
  <2>1. ASSUME NEW g \in Offers, Live(g) PROVE offers[g].property # p
    BY <1>0, <2>1 DEF Market, OfferedOnce
  <2>2. ASSUME NEW d \in Calls, Carries(calls'[d]) PROVE calls'[d].property # p
    BY <1>0, <1>2, <2>2 DEF Market, OfferedOnce
  <2>3. \A g, h \in Offers :
           Live(g)' /\ Live(h)' /\ offers'[g].property = offers'[h].property => g = h
    BY <1>1, <2>1 DEF Market, OfferedOnce
  <2>4. \A d, e \in Calls :
           Carries(calls'[d]) /\ Carries(calls'[e]) /\ calls'[d].property = calls'[e].property
               => d = e
    BY <1>2 DEF Market, OfferedOnce
  <2>5. \A g \in Offers, d \in Calls :
           ~(Live(g)' /\ Carries(calls'[d]) /\ offers'[g].property = calls'[d].property)
    BY <1>1, <1>2, <2>2 DEF Market, OfferedOnce
  <2> QED
    BY <2>3, <2>4, <2>5 DEF OfferedOnce
<1>6. \A q \in Properties : AcceptedFor(q)' = AcceptedFor(q)
  BY <1>1 DEF AcceptedFor
<1>7. ManagedByOffer'
  <2>1. \A q \in Properties, g \in Offers : AcceptedFor(q) = {g} => offers'[g] = offers[g]
    BY <1>1 DEF AcceptedFor
  <2> QED
    BY <1>0, <1>6, <2>1 DEF Market, ManagedByOffer
<1> QED
  BY <1>4, <1>5, <1>7 DEF Market

\* So every step keeps it.
LEMMA MarketStep == Shape /\ Market /\ [Next]_vars => Market'
<1> SUFFICES ASSUME Shape, Market, [Next]_vars PROVE Market'
  OBVIOUS
<1>1. CASE UNCHANGED api /\ NoNewCarrier
  <2>1. properties' = properties /\ offers' = offers
    BY <1>1 DEF api
  <2>2. Listed'
    BY <1>1, <2>1 DEF Market, Listed, Live, NoNewCarrier
  <2>3. OfferedOnce'
    BY <1>1, <2>1 DEF Market, OfferedOnce, Live, NoNewCarrier
  <2>4. ManagedByOffer'
    BY <2>1 DEF Market, ManagedByOffer, AcceptedFor
  <2> QED
    BY <2>2, <2>3, <2>4 DEF Market
<1> QED
  BY <1>1, Effect, MarketAnswers, MarketProperty, MarketOffer

\* Nothing is listed, offered or managed at first.
LEMMA MarketInit == Init => Market
BY DEF Init, Market, Listed, OfferedOnce, ManagedByOffer, AcceptedFor, Live, Carries, Idle

\* Whatever order owner and managers act in, a property is managed by the
\* manager who accepted the one offer made for it, and by nobody else.
THEOREM ManagedCorrect == Spec => []ManagedByOffer
<1>1. Spec => [](Shape /\ Market)
  <2>1. Init => Shape /\ Market
    BY ShapeInit, MarketInit
  <2>2. Shape /\ Market /\ [Next]_vars => (Shape /\ Market)'
    BY ShapeStep, MarketStep
  <2> QED
    BY <2>1, <2>2, PTL DEF Spec
<1>2. Market => ManagedByOffer
  BY DEF Market
<1> QED
  BY <1>1, <1>2, PTL

(***************************************************************************)
(* Answers stand, and pages lag.                                           *)
(***************************************************************************)
\* One step leaves an answered offer alone, and a managed property.
Stands ==
    /\ \A f \in Offers : offers[f].status \notin {"none", "pending"} =>
          offers'[f] = offers[f]
    /\ \A p \in Properties : properties[p].manager # None => properties'[p] = properties[p]

\* A property that has a manager has no offer pending: its one offer was
\* accepted.
LEMMA ManagedIsAnswered ==
    ASSUME Shape, Market, NEW f \in Offers, offers[f].status = "pending"
    PROVE  properties[offers[f].property].manager = None
<1> DEFINE p == offers[f].property
<1>1. p \in Properties
  BY DEF Market, Listed, Live
<1>2. ASSUME NEW g \in Offers, AcceptedFor(p) = {g} PROVE FALSE
  <2>1. g \in AcceptedFor(p)
    BY <1>2
  <2> QED
    BY <2>1 DEF AcceptedFor, Market, OfferedOnce, Live
<1> QED
  BY <1>1, <1>2 DEF Market, ManagedByOffer

\* With the market in order, every step leaves answers alone.
LEMMA StandsStep == Shape /\ Market /\ [Next]_vars => Stands
<1> SUFFICES ASSUME Shape, Market, [Next]_vars PROVE Stands
  OBVIOUS
<1> USE DEF Shape, TypeOK, Stands
<1>1. CASE UNCHANGED api
  BY <1>1 DEF api
<1>2. ASSUME NEW f \in Offers, NEW s \in {"accepted", "declined", "withdrawn"}, Answers(f, s)
      PROVE  Stands
  <2>1. properties[offers[f].property].manager = None
    BY <1>2, ManagedIsAnswered DEF Answers
  <2>2. \A g \in Offers : g # f => offers'[g] = offers[g]
    BY <1>2 DEF Answers
  <2>3. \A p \in Properties : p # offers[f].property => properties'[p] = properties[p]
    BY <1>2 DEF Answers
  <2> QED
    BY <1>2, <2>1, <2>2, <2>3 DEF Answers
<1>3. ASSUME NEW c \in Calls, NEW p \in Properties, HandleProperty(c, p) PROVE Stands
  <2>1. properties[p].manager = None
    <3>1. AcceptedFor(p) = {}
      BY <1>3 DEF HandleProperty, AcceptedFor, Market, Listed, Live
    <3> QED
      BY <3>1 DEF Market, ManagedByOffer
  <2> QED
    BY <1>3, <2>1 DEF HandleProperty
<1>4. ASSUME NEW c \in Calls, NEW f \in Offers, HandleOffer(c, f) PROVE Stands
  BY <1>4 DEF HandleOffer
<1> QED
  BY <1>1, <1>2, <1>3, <1>4, Effect

\* No offer is answered twice and no property changes hands, from whatever row
\* an answer was sent and however late it arrives.
THEOREM AnswersCorrect == Spec => AnswersStand
<1>1. Spec => [](Shape /\ Market)
  <2>1. Init => Shape /\ Market
    BY ShapeInit, MarketInit
  <2>2. Shape /\ Market /\ [Next]_vars => (Shape /\ Market)'
    BY ShapeStep, MarketStep
  <2> QED
    BY <2>1, <2>2, PTL DEF Spec
<1>2. Shape /\ Market /\ [Next]_vars => [Stands]_api
  BY StandsStep
<1> QED
  BY <1>1, <1>2, PTL DEF Spec, AnswersStand, Stands

(***************************************************************************)
(* PagesLag needs what is on its way to a page to lag as well: Known.      *)
(***************************************************************************)
Known ==
    /\ PagesLag
    /\ \A c \in Calls, p \in Properties :
          calls[c].homes[p] = "managed" => properties[p].manager # None

\* Where the rows and homes of a page and of a call come from in one step.
Sources ==
    /\ \A u \in Users, f \in Offers :
          \/ rows'[u][f] \in {"none", rows[u][f]}
          \/ \E c \in Calls : rows'[u][f] = calls[c].rows[f]
    /\ \A d \in Calls, f \in Offers :
          calls'[d].rows[f] \in {"none", calls[d].rows[f], offers'[f].status}
    /\ \A p \in Properties :
          \/ homes'[p] \in {"absent", homes[p]}
          \/ \E c \in Calls : homes'[p] = calls[c].homes[p]
    /\ \A d \in Calls, p \in Properties : calls'[d].homes[p] = "managed" =>
          calls[d].homes[p] = "managed" \/ properties'[p].manager # None

\* With such sources, and answers that stand, pages go on lagging.
LEMMA KnownStands == Known /\ Sources /\ Stands => Known'
<1> SUFFICES ASSUME Known, Sources, Stands PROVE Known'
  OBVIOUS
<1>1. ASSUME NEW u \in Users, NEW f \in Offers, rows'[u][f] \notin {"none", "pending"}
      PROVE  offers'[f].status = rows'[u][f]
  <2>1. CASE rows'[u][f] = rows[u][f]
    BY <1>1, <2>1 DEF Known, PagesLag, Stands
  <2>2. ASSUME NEW c \in Calls, rows'[u][f] = calls[c].rows[f]
        PROVE  offers'[f].status = rows'[u][f]
    BY <1>1, <2>2 DEF Known, PagesLag, Stands
  <2> QED
    BY <1>1, <2>1, <2>2 DEF Sources
<1>2. ASSUME NEW c \in Calls, NEW f \in Offers, calls'[c].rows[f] \notin {"none", "pending"}
      PROVE  offers'[f].status = calls'[c].rows[f]
  <2>1. CASE calls'[c].rows[f] = calls[c].rows[f]
    BY <1>2, <2>1 DEF Known, PagesLag, Stands
  <2> QED
    BY <1>2, <2>1 DEF Sources
<1>3. ASSUME NEW p \in Properties, homes'[p] = "managed" PROVE properties'[p].manager # None
  BY <1>3 DEF Known, PagesLag, Sources, Stands
<1>4. ASSUME NEW c \in Calls, NEW p \in Properties, calls'[c].homes[p] = "managed"
      PROVE  properties'[p].manager # None
  BY <1>4 DEF Known, Sources, Stands
<1> QED
  BY <1>1, <1>2, <1>3, <1>4 DEF Known, PagesLag

\* What users do on pages clears rows or leaves them, and asks without any.
LEMMA PagesSources ==
    ASSUME Shape,
           \/ OpenAdd \/ CloseAdd
           \/ \E m \in Managers : ManagerStep(m)
           \/ \E c \in Calls : \/ \E u \in Users, view \in {"offers", "properties"} :
                                      OpenPage(u, view, c)
                               \/ OwnerStep(c)
    PROVE  Sources
<1> USE DEF Shape, TypeOK, api
<1>0. (UNCHANGED <<rows, homes, calls>>) => Sources
  BY DEF Sources
<1>1. ASSUME NEW c \in Calls, NEW r, Sends(c, r), UNCHANGED <<rows, homes>>,
             r.rows = NoOffers, r.homes = NoHomes
      PROVE Sources
  BY <1>1 DEF Sources, Sends, NoOffers, NoHomes
<1>2. CASE OpenAdd \/ CloseAdd
  <2>1. UNCHANGED <<rows, homes, calls>>
    BY <1>2 DEF OpenAdd, CloseAdd
  <2> QED
    BY <1>0, <2>1
<1>3. ASSUME NEW m \in Managers, NEW f \in Offers, NEW is \in {"accept", "decline"},
             OpenDialog(m, f, is)
      PROVE Sources
  BY <1>0, <1>3 DEF OpenDialog
<1>4. ASSUME NEW m \in Managers, CloseDialog(m) PROVE Sources
  BY <1>0, <1>4 DEF CloseDialog
<1>5. ASSUME NEW m \in Managers, NEW c \in Calls, SubmitAnswer(m, c) PROVE Sources
  <2> DEFINE r == [Ask(dialog[m].is, m) EXCEPT !.offer = dialog[m].of]
  <2>1. r.rows = NoOffers /\ r.homes = NoHomes
    BY DEF Ask, Idle
  <2> QED
    BY <1>1, <1>5, <2>1 DEF SubmitAnswer
<1>6. ASSUME NEW c \in Calls, NEW m \in Managers, SubmitListing(m, c) PROVE Sources
  <2> DEFINE r == [Ask("property", Owner) EXCEPT !.manager = m]
  <2>1. r.rows = NoOffers /\ r.homes = NoHomes
    BY DEF Ask, Idle
  <2> QED
    BY <1>1, <1>6, <2>1 DEF SubmitListing
<1>7. ASSUME NEW c \in Calls, NEW f \in Offers, ClickWithdraw(f, c) PROVE Sources
  <2> DEFINE r == [Ask("withdraw", Owner) EXCEPT !.offer = f]
  <2>1. r.rows = NoOffers /\ r.homes = NoHomes
    BY DEF Ask, Idle
  <2> QED
    BY <1>1, <1>7, <2>1 DEF ClickWithdraw
<1>8. ASSUME NEW c \in Calls, NEW u \in Users, NEW view \in {"offers", "properties"},
             OpenPage(u, view, c)
      PROVE Sources
  <2>1. Ask(view, u).rows = NoOffers /\ Ask(view, u).homes = NoHomes
    BY DEF Ask, Idle
  <2>2. \A d \in Calls :
           \/ Abandon(u)[d].rows = NoOffers /\ Abandon(u)[d].homes = NoHomes
           \/ Abandon(u)[d].rows = calls[d].rows /\ Abandon(u)[d].homes = calls[d].homes
    BY DEF Abandon, Idle, SoundCall, Call
  <2>3. \A d \in Calls : calls'[d] = IF d = c THEN Ask(view, u) ELSE Abandon(u)[d]
    BY <1>8 DEF OpenPage, Abandon
  <2>4. \A v \in Users, f \in Offers : rows'[v][f] \in {"none", rows[v][f]}
    BY <1>8 DEF OpenPage, NoOffers
  <2>5. \A p \in Properties : homes'[p] \in {"absent", homes[p]}
    BY <1>8 DEF OpenPage, NoHomes
  <2>6. \A d \in Calls, f \in Offers : calls'[d].rows[f] \in {"none", calls[d].rows[f]}
    BY <2>1, <2>2, <2>3 DEF NoOffers
  <2>7. \A d \in Calls, p \in Properties :
           calls'[d].homes[p] \in {"absent", calls[d].homes[p]}
    BY <2>1, <2>2, <2>3 DEF NoHomes
  <2> QED
    BY <2>4, <2>5, <2>6, <2>7 DEF Sources
<1>9. ASSUME NEW m \in Managers, ManagerStep(m) PROVE Sources
  BY <1>3, <1>4, <1>5, <1>9 DEF ManagerStep
<1>10. ASSUME NEW c \in Calls, OwnerStep(c) PROVE Sources
  BY <1>6, <1>7, <1>10 DEF OwnerStep
<1> QED
  BY <1>2, <1>8, <1>9, <1>10

\* The handlers answer with the rows as they are after the step.
LEMMA HandleSources == ASSUME Shape, NEW c \in Calls, Handle(c) PROVE Sources
<1> USE DEF Shape, TypeOK, api, client
<1>0. calls[c] \in SoundCall /\ calls[c] \in Call
  BY SoundIsCall
<1>1. ASSUME NEW r, Reply(c, r), UNCHANGED <<rows, homes>>,
             \A f \in Offers : r.rows[f] \in {"none", calls[c].rows[f], offers'[f].status},
             \A p \in Properties : r.homes[p] = "managed" =>
                calls[c].homes[p] = "managed" \/ properties'[p].manager # None
      PROVE Sources
  <2>1. \A d \in Calls : \/ d # c /\ calls'[d] = calls[d]
                         \/ d = c /\ calls'[d] \in {r, Idle}
    BY <1>1 DEF Reply
  <2>2. Idle.rows = NoOffers /\ Idle.homes = NoHomes
    BY DEF Idle
  <2>3. \A d \in Calls, f \in Offers :
           calls'[d].rows[f] \in {"none", calls[d].rows[f], offers'[f].status}
    BY <1>1, <2>1, <2>2 DEF NoOffers
  <2>4. \A d \in Calls, p \in Properties : calls'[d].homes[p] = "managed" =>
           calls[d].homes[p] = "managed" \/ properties'[p].manager # None
    BY <1>1, <2>1, <2>2 DEF NoHomes
  <2> QED
    BY <1>1, <2>3, <2>4 DEF Sources
<1>2. /\ Ok(c).rows = calls[c].rows /\ Ok(c).homes = calls[c].homes
      /\ Ok(c).rows \in OfferRows
      /\ \A p : /\ [Ok(c) EXCEPT !.property = p].rows = calls[c].rows
                /\ [Ok(c) EXCEPT !.property = p].homes = calls[c].homes
      /\ \A rs : /\ [Ok(c) EXCEPT !.rows = rs].rows = rs
                 /\ [Ok(c) EXCEPT !.rows = rs].homes = calls[c].homes
      /\ \A hs : /\ [Ok(c) EXCEPT !.homes = hs].rows = calls[c].rows
                 /\ [Ok(c) EXCEPT !.homes = hs].homes = hs
  BY <1>0 DEF Ok, Call
<1>3. ASSUME NEW p \in Properties, HandleProperty(c, p) PROVE Sources
  <2> DEFINE r == [Ok(c) EXCEPT !.property = p]
  <2>1. Reply(c, r) /\ UNCHANGED <<rows, homes>>
    BY <1>3 DEF HandleProperty
  <2>2. r.rows = calls[c].rows /\ r.homes = calls[c].homes
    BY <1>2
  <2> HIDE DEF r
  <2> QED
    BY <1>1, <2>1, <2>2
<1>4. ASSUME NEW f \in Offers, HandleOffer(c, f) PROVE Sources
  BY <1>1, <1>2, <1>4 DEF HandleOffer
<1>5. ASSUME NEW s, offers' = [offers EXCEPT ![calls[c].offer].status = s],
             Reply(c, [Ok(c) EXCEPT !.rows[calls[c].offer] = s]), UNCHANGED <<rows, homes>>
      PROVE Sources
  <2> DEFINE rs == [Ok(c).rows EXCEPT ![calls[c].offer] = s]
             r == [Ok(c) EXCEPT !.rows = rs]
  <2>1. \A f \in Offers : rs[f] \in {"none", calls[c].rows[f], offers'[f].status}
    BY <1>2, <1>5 DEF OfferRows, OfferRow
  <2>2. Reply(c, r)
    BY <1>5
  <2>3. r.rows = rs /\ r.homes = calls[c].homes
    BY <1>2
  <2> HIDE DEF r, rs
  <2> QED
    BY <1>1, <1>5, <2>1, <2>2, <2>3
<1>6. CASE HandleAccept(c)
  BY <1>5, <1>6 DEF HandleAccept
<1>7. CASE HandleDecline(c)
  BY <1>5, <1>7 DEF HandleDecline
<1>8. CASE HandleWithdraw(c)
  BY <1>1, <1>2, <1>8 DEF HandleWithdraw
<1>9. CASE HandleOffers(c)
  <2> DEFINE rs == [f \in Offers |-> IF calls[c].by = Owner \/ offers[f].manager = calls[c].by
                                    THEN offers[f].status ELSE "none"]
             r == [Ok(c) EXCEPT !.rows = rs]
  <2>1. \A f \in Offers : rs[f] \in {"none", offers'[f].status}
    BY <1>9 DEF HandleOffers
  <2>2. Reply(c, r) /\ UNCHANGED <<rows, homes>>
    BY <1>9 DEF HandleOffers
  <2>3. r.rows = rs /\ r.homes = calls[c].homes
    BY <1>2
  <2> HIDE DEF r, rs
  <2> QED
    BY <1>1, <2>1, <2>2, <2>3
<1>10. CASE HandleProperties(c)
  <2> DEFINE hs == [p \in Properties |-> IF ~properties[p].listed THEN "absent"
                       ELSE IF properties[p].manager = None THEN "unmanaged" ELSE "managed"]
             r == [Ok(c) EXCEPT !.homes = hs]
  <2>1. \A p \in Properties : hs[p] = "managed" => properties'[p].manager # None
    BY <1>10 DEF HandleProperties
  <2>2. Reply(c, r) /\ UNCHANGED <<rows, homes>>
    BY <1>10 DEF HandleProperties
  <2>3. r.rows = calls[c].rows /\ r.homes = hs
    BY <1>2
  <2> HIDE DEF r, hs
  <2> QED
    BY <1>1, <2>1, <2>2, <2>3
<1>11. CASE Fail(c)
  <2> DEFINE r == [calls[c] EXCEPT !.reply = "failed", !.rows = NoOffers, !.homes = NoHomes,
                                   !.property = None]
  <2>1. r.rows = NoOffers /\ r.homes = NoHomes
    BY <1>0 DEF Call
  <2>2. Reply(c, r) /\ UNCHANGED <<rows, homes>>
    BY <1>11 DEF Fail
  <2> HIDE DEF r
  <2> QED
    BY <1>1, <2>1, <2>2 DEF NoOffers, NoHomes
<1> QED
  BY <1>3, <1>4, <1>6, <1>7, <1>8, <1>9, <1>10, <1>11 DEF Handle

\* The continuations put on a page what their call has brought.
LEMMA GetSources == ASSUME Shape, NEW c \in Calls, Get(c) PROVE Sources
<1> USE DEF Shape, TypeOK, api
<1>0. calls[c] \in SoundCall /\ calls[c] \in Call
  BY SoundIsCall
<1>1. \A r : Then(c, r) /\ r.rows \in {NoOffers, calls[c].rows}
                       /\ r.homes \in {NoHomes, calls[c].homes}
         => \A d \in Calls :
              /\ \A f \in Offers : calls'[d].rows[f] \in {"none", calls[d].rows[f]}
              /\ \A p \in Properties : calls'[d].homes[p] \in {"absent", calls[d].homes[p]}
  BY DEF Then, NoOffers, NoHomes
<1>2. \A r : Then(c, r) /\ r.rows \in {NoOffers, calls[c].rows}
                       /\ r.homes \in {NoHomes, calls[c].homes}
                       /\ UNCHANGED <<rows, homes>>
         => Sources
  BY <1>1 DEF Sources
<1>3. /\ Idle.rows = NoOffers /\ Idle.homes = NoHomes
      /\ \A kind, u : Ask(kind, u).rows = NoOffers /\ Ask(kind, u).homes = NoHomes
  BY DEF Idle, Ask
<1>4. CASE GotPage(c)
  <2>1. \A u \in Users, f \in Offers : rows'[u][f] \in {rows[u][f], calls[c].rows[f]}
    BY <1>4 DEF GotPage
  <2>2. \A p \in Properties : homes'[p] \in {homes[p], calls[c].homes[p]}
    BY <1>4 DEF GotPage
  <2> QED
    BY <1>1, <1>3, <1>4, <2>1, <2>2 DEF GotPage, Sources
<1>5. CASE GotProperty(c)
  <2> DEFINE r == [calls[c] EXCEPT !.kind = "offer", !.reply = "awaited"]
  <2>1. r.rows = calls[c].rows /\ r.homes = calls[c].homes
    BY <1>0 DEF Call
  <2> QED
    BY <1>2, <1>3, <1>5, <2>1 DEF GotProperty, ListingFailed
<1>6. CASE GotOffer(c)
  BY <1>2, <1>3, <1>6 DEF GotOffer, ListingFailed
<1>7. CASE GotAnswer(c)
  <2>1. \A u \in Users, f \in Offers : rows'[u][f] \in {rows[u][f], calls[c].rows[f]}
    BY <1>7 DEF GotAnswer, OfferRows
  <2> QED
    BY <1>1, <1>3, <1>7, <2>1 DEF GotAnswer, Sources
<1>8. CASE GotWithdrawn(c)
  BY <1>2, <1>3, <1>8 DEF GotWithdrawn
<1> QED
  BY <1>4, <1>5, <1>6, <1>7, <1>8 DEF Get

\* Pages never run ahead of the API: what they show as answered, or managed, is,
\* however their loads and answers overtake one another.
THEOREM LagCorrect == Spec => []PagesLag
<1> DEFINE I == Shape /\ Market /\ Known
<1>1. Init => I
  <2>1. Init => Known
    BY DEF Init, Known, PagesLag, NoOffers, NoHomes, Idle
  <2> QED
    BY <2>1, ShapeInit, MarketInit
<1>2. I /\ [Next]_vars => I'
  <2>1. I /\ UNCHANGED vars => Sources
    BY DEF Sources, vars, api, client
  <2>2. I /\ Next => Sources
    BY PagesSources, HandleSources, GetSources DEF Next
  <2> QED
    BY <2>1, <2>2, ShapeStep, MarketStep, StandsStep, KnownStands
<1>3. I => PagesLag
  BY DEF Known
<1> QED
  BY <1>1, <1>2, <1>3, PTL DEF Spec

(***************************************************************************)
(* Listing is two calls. The bound of UnofferedAreReported counts every    *)
(* listing in flight, also those that have made no property yet; what is   *)
(* inductive counts only those that stand for a property without an offer: *)
(* the carriers, and the failed ones whose toast is still to come.         *)
(***************************************************************************)
Unsettled(r) == Carries(r) \/ (r.kind \in Listing /\ r.reply = "failed")

Waiting == {c \in Calls : Unsettled(calls[c])}

Reported == Cardinality(Unoffered) <= failures + Cardinality(Waiting)

\* An offer that was not made names no property.
Blank == \A f \in Offers : ~Live(f) => offers[f].property = None

\* The sets counted are finite.
LEMMA FiniteCounts ==
    /\ \A S : S \subseteq Properties => IsFiniteSet(S) /\ Cardinality(S) \in Nat
    /\ \A S : S \subseteq Calls => IsFiniteSet(S) /\ Cardinality(S) \in Nat
BY KeysAssumption, FS_Subset, FS_CardinalityType

\* One element more or less is at most one more or less to count.
LEMMA OneMore ==
    ASSUME NEW S, NEW T, NEW x, IsFiniteSet(S), IsFiniteSet(T)
    PROVE  /\ x \notin S /\ S \cup {x} \subseteq T => Cardinality(S) + 1 <= Cardinality(T)
           /\ T \subseteq S \cup {x} => Cardinality(T) <= Cardinality(S) + 1
           /\ S \ {x} \subseteq T => Cardinality(S) - 1 <= Cardinality(T)
           /\ x \in S /\ T \subseteq S \ {x} => Cardinality(T) <= Cardinality(S) - 1
<1>1. Cardinality(S) \in Nat /\ Cardinality(T) \in Nat
  BY FS_CardinalityType
<1>2. /\ IsFiniteSet(S \cup {x}) /\ IsFiniteSet(S \ {x})
      /\ Cardinality(S \cup {x}) = IF x \in S THEN Cardinality(S) ELSE Cardinality(S) + 1
      /\ Cardinality(S \ {x}) = IF x \in S THEN Cardinality(S) - 1 ELSE Cardinality(S)
  BY FS_AddElement, FS_RemoveElement
<1>3. S \cup {x} \subseteq T => Cardinality(S \cup {x}) <= Cardinality(T)
  BY FS_Subset
<1>4. T \subseteq S \cup {x} => Cardinality(T) <= Cardinality(S \cup {x})
  BY <1>2, FS_Subset
<1>5. S \ {x} \subseteq T => Cardinality(S \ {x}) <= Cardinality(T)
  BY FS_Subset
<1>6. T \subseteq S \ {x} => Cardinality(T) <= Cardinality(S \ {x})
  BY <1>2, FS_Subset
<1> QED
  BY <1>1, <1>2, <1>3, <1>4, <1>5, <1>6

\* No listing is settled and no property comes to lack an offer.
Calm ==
    /\ Waiting \subseteq Waiting' /\ Unoffered' \subseteq Unoffered
    /\ failures' = failures

\* A listing that failed is settled by a toast.
Toast(c) ==
    /\ Waiting \ {c} \subseteq Waiting' /\ Unoffered' \subseteq Unoffered
    /\ failures' = failures + 1

\* If only one place among Calls changes, and no listing waits there, none is
\* settled.
LEMMA OtherPlaces ==
    ASSUME Shape, NEW c \in Calls, NEW r, c \notin Waiting \/ Unsettled(r),
           Sends(c, r) \/ Reply(c, r) \/ Then(c, r)
    PROVE  Waiting \subseteq Waiting'
<1>1. \A d \in Calls : d # c => calls'[d] = calls[d]
  BY DEF Shape, Sends, Reply, Then
<1>2. CASE c \notin Waiting
  BY <1>1, <1>2 DEF Waiting
<1>3. CASE Unsettled(r)
  <2>1. calls'[c] = r
    BY <1>3 DEF Shape, Sends, Reply, Then, Unsettled, Carries, Listing
  <2> QED
    BY <1>1, <1>3, <2>1 DEF Waiting
<1> QED
  BY <1>2, <1>3

\* What users do on pages settles no listing.
LEMMA PagesCalm ==
    ASSUME Shape,
           \/ OpenAdd \/ CloseAdd
           \/ \E m \in Managers : ManagerStep(m)
           \/ \E c \in Calls : \/ \E u \in Users, view \in {"offers", "properties"} :
                                      OpenPage(u, view, c)
                               \/ OwnerStep(c)
    PROVE  Calm
<1> USE DEF Shape
<1>1. Unoffered' = Unoffered
  BY PagesEffect DEF api, Unoffered
<1>2. failures' = failures
  BY DEF OpenAdd, CloseAdd, ManagerStep, OpenDialog, CloseDialog, SubmitAnswer, OpenPage,
         OwnerStep, SubmitListing, ClickWithdraw
<1>3. ~Unsettled(Idle)
  BY DEF Unsettled, Carries, Idle, Listing
<1>4. ASSUME NEW c \in Calls, NEW r, Sends(c, r) PROVE Waiting \subseteq Waiting'
  <2>1. c \notin Waiting
    BY <1>3, <1>4 DEF Sends, Waiting
  <2> QED
    BY <1>4, <2>1, OtherPlaces
<1>5. ASSUME UNCHANGED calls PROVE Waiting \subseteq Waiting'
  BY <1>5 DEF Waiting
<1>6. ASSUME NEW c \in Calls, NEW u \in Users, NEW view \in {"offers", "properties"},
             OpenPage(u, view, c)
      PROVE Waiting \subseteq Waiting'
  <2>1. c \notin Waiting
    BY <1>3, <1>6 DEF OpenPage, Waiting
  <2>2. ASSUME NEW d \in Waiting PROVE Unsettled(Abandon(u)[d])
    BY <2>2 DEF Waiting, Unsettled, Carries, Listing, Abandon, SoundCall, Call
  <2>3. \A d \in Calls : d # c => calls'[d] = Abandon(u)[d]
    BY <1>6 DEF OpenPage, Abandon
  <2> QED
    BY <2>1, <2>2, <2>3 DEF Waiting
<1>7. ASSUME OpenAdd \/ CloseAdd PROVE Waiting \subseteq Waiting'
  <2>1. UNCHANGED calls
    BY <1>7 DEF OpenAdd, CloseAdd
  <2> QED
    BY <1>5, <2>1
<1>8. ASSUME NEW m \in Managers, ManagerStep(m) PROVE Waiting \subseteq Waiting'
  BY <1>4, <1>5, <1>8 DEF ManagerStep, OpenDialog, CloseDialog, SubmitAnswer
<1>9. ASSUME NEW c \in Calls, OwnerStep(c) PROVE Waiting \subseteq Waiting'
  BY <1>4, <1>9 DEF OwnerStep, SubmitListing, ClickWithdraw
<1> QED
  BY <1>1, <1>2, <1>6, <1>7, <1>8, <1>9 DEF Calm

\* A continuation settles a listing by a toast, or because its offer is made.
LEMMA GetCalm == ASSUME Shape, NEW c \in Calls, Get(c) PROVE Calm \/ Toast(c)
<1> USE DEF Shape
<1>0. calls[c] \in SoundCall /\ calls[c] \in Call
  BY SoundIsCall
<1>1. Unoffered' = Unoffered
  BY GetEffect DEF api, Unoffered
<1>2. ASSUME NEW r, Then(c, r), c \notin Waiting \/ Unsettled(r), failures' = failures
      PROVE Calm
  BY <1>1, <1>2, OtherPlaces DEF Calm
<1>3. ASSUME ListingFailed(c) PROVE Toast(c)
  <2>1. \A d \in Calls : d # c => calls'[d] = calls[d]
    BY <1>3 DEF ListingFailed, Then
  <2> QED
    BY <1>1, <1>3, <2>1 DEF ListingFailed, Toast, Waiting
<1>4. calls[c].kind \notin Listing => c \notin Waiting
  BY DEF Waiting, Unsettled, Carries, Listing
<1>5. CASE GotPage(c) \/ GotAnswer(c)
  BY <1>2, <1>4, <1>5 DEF GotPage, GotAnswer, Answered, Listing
<1>6. CASE GotProperty(c)
  <2>1. CASE IsOk(c)
    <3> DEFINE r == [calls[c] EXCEPT !.kind = "offer", !.reply = "awaited"]
    <3>1. Unsettled(r)
      BY <1>0 DEF Unsettled, Carries, Call
    <3> QED
      BY <1>2, <1>6, <2>1, <3>1 DEF GotProperty
  <2> QED
    BY <1>3, <1>6, <2>1 DEF GotProperty
<1>7. CASE GotOffer(c)
  <2>1. IsOk(c) => c \notin Waiting
    BY <1>7 DEF GotOffer, Answered, IsOk, Waiting, Unsettled, Carries
  <2> QED
    BY <1>2, <1>3, <1>7, <2>1 DEF GotOffer
<1>8. CASE GotWithdrawn(c)
  BY <1>2, <1>4, <1>8 DEF GotWithdrawn, Answered, Listing
<1> QED
  BY <1>5, <1>6, <1>7, <1>8 DEF Get

\* The handlers settle a listing only by making its offer.
LEMMA HandleCalm ==
    ASSUME Shape, NEW c \in Calls, Handle(c)
    PROVE  Calm \/ (\E p \in Properties : HandleProperty(c, p))
                \/ (\E f \in Offers : HandleOffer(c, f))
<1> USE DEF Shape, TypeOK
<1>0. calls[c] \in SoundCall /\ calls[c] \in Call
  BY SoundIsCall
<1>1. calls[c].kind \notin Listing => c \notin Waiting
  BY DEF Waiting, Unsettled, Carries, Listing
<1>2. ASSUME NEW r, Reply(c, r), c \notin Waiting \/ Unsettled(r), UNCHANGED <<api, failures>>
      PROVE Calm
  <2>1. Unoffered' = Unoffered
    BY <1>2 DEF api, Unoffered
  <2> QED
    BY <1>2, <2>1, OtherPlaces DEF Calm
<1>3. ASSUME NEW f \in Offers, NEW s \in {"accepted", "declined", "withdrawn"}, Answers(f, s)
      PROVE Unoffered' = Unoffered
  <2>1. \A g \in Offers : offers'[g].property = offers[g].property
    BY <1>3 DEF Answers, OfferRow
  <2>2. \A p \in Properties : properties'[p].listed = properties[p].listed
    BY <1>3 DEF Answers, PropertyRow
  <2> QED
    BY <2>1, <2>2 DEF Unoffered
<1>4. CASE HandleAccept(c) \/ HandleDecline(c) \/ HandleWithdraw(c)
  <2>1. c \notin Waiting
    BY <1>1, <1>4 DEF HandleAccept, HandleDecline, HandleWithdraw, Awaiting, Listing
  <2>2. Unoffered' = Unoffered
    <3>1. \A g \in Offers : offers'[g].property = offers[g].property
      BY <1>4 DEF HandleAccept, HandleDecline, HandleWithdraw, OfferRow
    <3>2. \A p \in Properties : properties'[p].listed = properties[p].listed
      BY <1>4 DEF HandleAccept, HandleDecline, HandleWithdraw, PropertyRow
    <3> QED
      BY <3>1, <3>2 DEF Unoffered
  <2>3. Waiting \subseteq Waiting'
    BY <1>4, <2>1, OtherPlaces DEF HandleAccept, HandleDecline, HandleWithdraw
  <2> QED
    BY <1>4, <2>2, <2>3 DEF HandleAccept, HandleDecline, HandleWithdraw, client, Calm
<1>5. CASE HandleOffers(c)
  BY <1>1, <1>2, <1>5 DEF HandleOffers, Awaiting, Listing, client
<1>6. CASE HandleProperties(c)
  BY <1>1, <1>2, <1>6 DEF HandleProperties, Awaiting, Listing, client
<1>7. CASE Fail(c)
  <2> DEFINE r == [calls[c] EXCEPT !.reply = "failed", !.rows = NoOffers, !.homes = NoHomes,
                                   !.property = None]
  <2>1. r.kind = calls[c].kind /\ r.reply = "failed"
    BY <1>0 DEF Call
  <2>2. c \notin Waiting \/ Unsettled(r)
    BY <1>1, <2>1 DEF Unsettled
  <2>3. Reply(c, r) /\ UNCHANGED <<api, failures>>
    BY <1>7 DEF Fail, client
  <2> HIDE DEF r
  <2> QED
    BY <1>2, <2>2, <2>3
<1> QED
  BY <1>4, <1>5, <1>6, <1>7 DEF Handle

\* A call of its first half that was handled waits from then on.
LEMMA ReportedProperty ==
    ASSUME Shape, Reported, NEW c \in Calls, NEW p \in Properties, HandleProperty(c, p)
    PROVE  Reported'
<1> USE DEF Shape, TypeOK
<1>1. calls[c] \in SoundCall /\ calls[c] \in Call
  BY SoundIsCall
<1>2. c \notin Waiting
  BY DEF HandleProperty, Awaiting, Waiting, Unsettled, Carries
<1>3. Waiting \cup {c} \subseteq Waiting'
  <2>1. \A d \in Calls : d # c => calls'[d] = calls[d]
    BY DEF HandleProperty, Reply
  <2>2. Unsettled(calls'[c])
    BY <1>1 DEF HandleProperty, Reply, Ok, Awaiting, Unsettled, Carries, Listing, Call
  <2> QED
    BY <2>1, <2>2 DEF Waiting
<1>4. Unoffered' \subseteq Unoffered \cup {p}
  BY DEF HandleProperty, PropertyRow, Unoffered
<1>5. /\ IsFiniteSet(Waiting) /\ IsFiniteSet(Waiting')
      /\ IsFiniteSet(Unoffered) /\ IsFiniteSet(Unoffered')
      /\ Cardinality(Waiting) \in Nat /\ Cardinality(Waiting') \in Nat
      /\ Cardinality(Unoffered) \in Nat /\ Cardinality(Unoffered') \in Nat
  BY FiniteCounts DEF Waiting, Unoffered
<1>6. Cardinality(Waiting) + 1 <= Cardinality(Waiting')
  BY <1>2, <1>3, <1>5, OneMore
<1>7. Cardinality(Unoffered') <= Cardinality(Unoffered) + 1
  BY <1>4, <1>5, OneMore
<1>8. failures' = failures
  BY DEF HandleProperty, client
<1> QED
  BY <1>5, <1>6, <1>7, <1>8 DEF Reported

\* The second half takes its property, and itself, out of both counts.
LEMMA ReportedOffer ==
    ASSUME Shape, Market, Blank, Reported, NEW c \in Calls, NEW f \in Offers, HandleOffer(c, f)
    PROVE  Reported'
<1> USE DEF Shape, TypeOK
<1> DEFINE p == calls[c].property
<1>1. Carries(calls[c]) /\ p \in Properties /\ properties[p].listed
  BY DEF HandleOffer, Awaiting, SoundCall, Carries
<1>2. p \in Unoffered
  BY <1>1, KeysAssumption DEF Unoffered, Market, OfferedOnce, Blank
<1>3. Unoffered' \subseteq Unoffered \ {p}
  <2>1. ~Live(f) /\ properties' = properties
    BY DEF HandleOffer, Live
  <2>2. \A g \in Offers : offers'[g].property = IF g = f THEN p ELSE offers[g].property
    BY DEF HandleOffer
  <2>3. ASSUME NEW q \in Unoffered' PROVE q \in Unoffered \ {p}
    <3>1. q \in Properties /\ properties[q].listed /\ \A g \in Offers : offers'[g].property # q
      BY <2>1, <2>3 DEF Unoffered
    <3>2. q # p
      BY <2>2, <3>1
    <3>3. \A g \in Offers : offers[g].property # q
      BY <2>1, <2>2, <3>1, KeysAssumption DEF Blank
    <3> QED
      BY <3>1, <3>2, <3>3 DEF Unoffered
  <2> QED
    BY <2>3
<1>4. Waiting \ {c} \subseteq Waiting' /\ c \in Waiting
  <2>1. \A d \in Calls : d # c => calls'[d] = calls[d]
    BY DEF HandleOffer, Reply
  <2> QED
    BY <1>1, <2>1 DEF Waiting, Unsettled
<1>5. /\ IsFiniteSet(Waiting) /\ IsFiniteSet(Waiting')
      /\ IsFiniteSet(Unoffered) /\ IsFiniteSet(Unoffered')
      /\ Cardinality(Waiting) \in Nat /\ Cardinality(Waiting') \in Nat
      /\ Cardinality(Unoffered) \in Nat /\ Cardinality(Unoffered') \in Nat
  BY FiniteCounts DEF Waiting, Unoffered
<1>6. Cardinality(Waiting) - 1 <= Cardinality(Waiting')
  BY <1>4, <1>5, OneMore
<1>7. Cardinality(Unoffered') <= Cardinality(Unoffered) - 1
  BY <1>2, <1>3, <1>5, OneMore
<1>8. failures' = failures
  BY DEF HandleOffer, client
<1> QED
  BY <1>5, <1>6, <1>7, <1>8 DEF Reported

\* Every other step keeps the balance, or pays with a toast.
LEMMA ReportedCalm ==
    ASSUME Shape, Reported, Calm \/ (\E c \in Calls : Toast(c)) PROVE Reported'
<1> USE DEF Shape, TypeOK
<1>1. /\ IsFiniteSet(Waiting) /\ IsFiniteSet(Waiting')
      /\ IsFiniteSet(Unoffered) /\ IsFiniteSet(Unoffered')
      /\ Cardinality(Waiting) \in Nat /\ Cardinality(Waiting') \in Nat
      /\ Cardinality(Unoffered) \in Nat /\ Cardinality(Unoffered') \in Nat
  BY FiniteCounts DEF Waiting, Unoffered
<1>2. Cardinality(Unoffered') <= Cardinality(Unoffered)
  <2>1. Unoffered' \subseteq Unoffered
    BY DEF Calm, Toast
  <2> QED
    BY <1>1, <2>1, FS_Subset
<1>3. CASE Calm
  <2>1. Cardinality(Waiting) <= Cardinality(Waiting')
    BY <1>1, <1>3, FS_Subset DEF Calm
  <2> QED
    BY <1>1, <1>2, <1>3, <2>1 DEF Calm, Reported
<1>4. ASSUME NEW c \in Calls, Toast(c) PROVE Reported'
  <2>1. Cardinality(Waiting) - 1 <= Cardinality(Waiting')
    BY <1>1, <1>4, OneMore DEF Toast
  <2> QED
    BY <1>1, <1>2, <1>4, <2>1 DEF Toast, Reported
<1> QED
  BY <1>3, <1>4

\* No property that the owner's dialog listed is left without an offer unless
\* the owner has been told that a listing failed, or one is still under way.
THEOREM ReportedCorrect == Spec => []UnofferedAreReported
<1> DEFINE I == Shape /\ Market /\ Blank /\ Reported
<1>1. Init => I
  <2>1. Init => Blank
    BY DEF Init, Blank
  <2>2. Init => Unoffered = {} /\ Waiting = {} /\ failures = 0
    BY DEF Init, Unoffered, Waiting, Unsettled, Carries, Idle, Listing
  <2>3. Init => Reported
    BY <2>2, FS_EmptySet DEF Reported
  <2> QED
    BY <2>1, <2>3, ShapeInit, MarketInit
<1>2. Shape /\ Blank /\ [Next]_vars => Blank'
  <2> SUFFICES ASSUME Shape, Blank, [Next]_vars PROVE Blank'
    OBVIOUS
  <2> USE DEF Shape, TypeOK, Blank, Live
  <2>1. CASE UNCHANGED api
    BY <2>1 DEF api
  <2>2. ASSUME NEW f \in Offers, NEW s \in {"accepted", "declined", "withdrawn"}, Answers(f, s)
        PROVE  Blank'
    BY <2>2 DEF Answers, OfferRow
  <2>3. ASSUME NEW c \in Calls, NEW p \in Properties, HandleProperty(c, p) PROVE Blank'
    BY <2>3 DEF HandleProperty
  <2>4. ASSUME NEW c \in Calls, NEW f \in Offers, HandleOffer(c, f) PROVE Blank'
    BY <2>4 DEF HandleOffer
  <2> QED
    BY <2>1, <2>2, <2>3, <2>4, Effect
<1>3. I /\ [Next]_vars => Reported'
  <2> SUFFICES ASSUME I, [Next]_vars PROVE Reported'
    OBVIOUS
  <2>1. CASE UNCHANGED vars
    <3>1. Unoffered' = Unoffered /\ Waiting' = Waiting /\ failures' = failures
      BY <2>1 DEF vars, api, client, Unoffered, Waiting
    <3> QED
      BY <3>1 DEF Reported
  <2>2. ASSUME Calm PROVE Reported'
    BY <2>2, ReportedCalm
  <2>3. ASSUME NEW c \in Calls, Handle(c) PROVE Reported'
    BY <2>2, <2>3, HandleCalm, ReportedProperty, ReportedOffer
  <2>4. ASSUME NEW c \in Calls, Get(c) PROVE Reported'
    BY <2>4, GetCalm, ReportedCalm
  <2>5. CASE Next
    BY <2>2, <2>3, <2>4, <2>5, PagesCalm DEF Next
  <2> QED
    BY <2>1, <2>5
<1>4. I /\ [Next]_vars => I'
  BY <1>2, <1>3, ShapeStep, MarketStep
<1>5. I => UnofferedAreReported
  <2> SUFFICES ASSUME I PROVE UnofferedAreReported
    OBVIOUS
  <2> DEFINE Under == {c \in Calls : calls[c].kind \in Listing}
  <2>1. Waiting \subseteq Under /\ Under \subseteq Calls
    BY DEF Waiting, Unsettled, Carries, Listing
  <2>2. IsFiniteSet(Under) /\ Cardinality(Waiting) <= Cardinality(Under)
    BY <2>1, FiniteCounts, FS_Subset
  <2>3. /\ Cardinality(Under) \in Nat /\ Cardinality(Waiting) \in Nat
        /\ Cardinality(Unoffered) \in Nat /\ failures \in Nat
    BY <2>1, FiniteCounts DEF Waiting, Unoffered, Shape, TypeOK
  <2> QED
    BY <2>2, <2>3 DEF Reported, UnofferedAreReported
<1> QED
  BY <1>1, <1>4, <1>5, PTL DEF Spec
=============================================================================
