------------------------------- MODULE Offers -------------------------------
(***************************************************************************)
(* How a property gets its manager: an owner lists a property and offers   *)
(* it to a manager, in two calls of one dialog; the manager accepts or     *)
(* declines the offer, or the owner withdraws it. The API's handlers are   *)
(* those of frontend/src/mocks/handlers.js; the owner and every manager    *)
(* have a browser of their own, whose pages show rows fetched earlier.     *)
(*                                                                         *)
(* One owner; addresses, messages, fees and signatures (which the dialogs  *)
(* do not send without), notifications, searches and tabs are left out.    *)
(* So is the manager's NewPropertyDialog, which sends the same POST        *)
(* /properties and never an offer: OwnerAddPropertyDialog is the only one  *)
(* that sends createOffer, so such a property gets no offer and no manager.*)
(* It is in module Dashboards.                                             *)
(***************************************************************************)
EXTENDS Naturals, FiniteSets

CONSTANTS Owner, Managers,  \* the users
          Properties,       \* property_id values
          Offers,           \* offer_id values
          Calls,            \* fetch() calls that may be in flight together
          MaxFailures,      \* bound: toasts after which nothing more is listed
          None

ASSUME UsersAssumption == Owner \notin Managers /\ None \notin Managers \cup {Owner}
ASSUME KeysAssumption == /\ IsFiniteSet(Properties) /\ IsFiniteSet(Calls)
                         /\ None \notin Properties

Users == Managers \cup {Owner}

VARIABLES
    properties,   \* db.properties
    offers,       \* db.management_offers
    page,         \* page[u]: the page u is on
    rows,         \* rows[u][f]: the status of f on u's page
    homes,        \* the properties on the owner's page
    add,          \* OwnerAddPropertyDialog
    dialog,       \* dialog[m]: AcceptOfferDialog or DeclineOfferDialog
    withdrawing,  \* OwnerOffers' offer with a spinner
    failures,     \* toasts "Couldn't send offer" the owner has seen
    calls         \* the calls in flight

api == <<properties, offers>>
client == <<page, rows, homes, add, dialog, withdrawing, failures>>
vars == <<api, client, calls>>

-----------------------------------------------------------------------------
Status == {"pending", "accepted", "declined", "withdrawn"}

PropertyRow == [listed : BOOLEAN, manager : Managers \cup {None}]

OfferRow == [status : Status \cup {"none"}, property : Properties \cup {None},
             manager : Managers \cup {None}]

OfferRows == [Offers -> Status \cup {"none"}]

NoOffers == [f \in Offers |-> "none"]

\* What a property's card says of its manager.
Home == {"absent", "unmanaged", "managed"}

NoHomes == [p \in Properties |-> "absent"]

Add == [open : BOOLEAN, submitting : BOOLEAN]

Dialog == [is : {"closed", "accept", "decline"}, of : Offers \cup {None},
           submitting : BOOLEAN]

Closed == [is |-> "closed", of |-> None, submitting |-> FALSE]

\* Listing a property is the calls "property" and "offer", one after the
\* other; withdrawing is "withdraw" and "reload". mounted: the page that
\* sent the call is still there.
Kinds == {"idle", "offers", "properties", "property", "offer", "accept", "decline",
          "withdraw", "reload"}

Call == [kind : Kinds, by : Users \cup {None}, manager : Managers \cup {None},
         property : Properties \cup {None}, offer : Offers \cup {None},
         mounted : BOOLEAN, reply : {"awaited", "ok", "failed"},
         rows : OfferRows, homes : [Properties -> Home]]

Idle == [kind |-> "idle", by |-> None, manager |-> None, property |-> None,
         offer |-> None, mounted |-> FALSE, reply |-> "awaited", rows |-> NoOffers,
         homes |-> NoHomes]

Ask(kind, u) == [Idle EXCEPT !.kind = kind, !.by = u, !.mounted = TRUE]

Sends(c, call) == calls[c] = Idle /\ calls' = [calls EXCEPT ![c] = call]

Writes == {"accept", "decline", "withdraw"}

Listing == {"property", "offer"}

-----------------------------------------------------------------------------
Init ==
    /\ properties = [p \in Properties |-> [listed |-> FALSE, manager |-> None]]
    /\ offers = [f \in Offers |-> [status |-> "none", property |-> None, manager |-> None]]
    /\ page = [u \in Users |-> "away"]
    /\ rows = [u \in Users |-> NoOffers]
    /\ homes = NoHomes
    /\ add = [open |-> FALSE, submitting |-> FALSE]
    /\ dialog = [m \in Managers |-> Closed]
    /\ withdrawing = None /\ failures = 0
    /\ calls = [c \in Calls |-> Idle]

\* Leaving a page: its reads are forgotten, a write may still arrive, and a
\* listing goes on to its second call.
Abandon(u) ==
    [c \in Calls |->
        IF calls[c].by # u THEN calls[c]
        ELSE IF calls[c].kind \in Listing
                \/ (calls[c].kind \in Writes /\ calls[c].reply = "awaited")
        THEN [calls[c] EXCEPT !.mounted = FALSE] ELSE Idle]

\* ManagerOffers and OwnerOffers ("offers"), OwnerProperties ("properties").
OpenPage(u, view, c) ==
    /\ view \in {"offers"} \cup (IF u = Owner THEN {"properties"} ELSE {})
    /\ calls[c] = Idle
    /\ calls' = [Abandon(u) EXCEPT ![c] = Ask(view, u)]
    /\ page' = [page EXCEPT ![u] = view]
    /\ rows' = [rows EXCEPT ![u] = NoOffers]
    /\ IF u = Owner
       THEN /\ homes' = NoHomes /\ withdrawing' = None
            /\ add' = [open |-> FALSE, submitting |-> FALSE]
            /\ UNCHANGED dialog
       ELSE /\ dialog' = [dialog EXCEPT ![u] = Closed]
            /\ UNCHANGED <<homes, withdrawing, add>>
    /\ UNCHANGED <<api, failures>>

\* The dialog starts over each time it opens, whatever is still in flight.
OpenAdd ==
    /\ page[Owner] = "properties" /\ ~add.open
    /\ add' = [open |-> TRUE, submitting |-> FALSE]
    /\ UNCHANGED <<api, page, rows, homes, dialog, withdrawing, failures, calls>>

\* Cancel is disabled while submitting; Escape and the overlay are not.
CloseAdd ==
    /\ add.open
    /\ add' = [open |-> FALSE, submitting |-> add.submitting]
    /\ UNCHANGED <<api, page, rows, homes, dialog, withdrawing, failures, calls>>

\* OwnerAddPropertyDialog.handleSubmit, its details valid and m selected.
SubmitListing(m, c) ==
    /\ add.open /\ ~add.submitting
    /\ failures < MaxFailures
    /\ Sends(c, [Ask("property", Owner) EXCEPT !.manager = m])
    /\ add' = [add EXCEPT !.submitting = TRUE]
    /\ UNCHANGED <<api, page, rows, homes, dialog, withdrawing, failures>>

\* The buttons of a pending offer's card.
OpenDialog(m, f, is) ==
    /\ rows[m][f] = "pending" /\ dialog[m].is = "closed"
    /\ dialog' = [dialog EXCEPT ![m] = [is |-> is, of |-> f, submitting |-> FALSE]]
    /\ UNCHANGED <<api, page, rows, homes, add, withdrawing, failures, calls>>

CloseDialog(m) ==
    /\ dialog[m].is # "closed"
    /\ dialog' = [dialog EXCEPT ![m] = Closed]
    /\ UNCHANGED <<api, page, rows, homes, add, withdrawing, failures, calls>>

\* handleAccept, handleDecline
SubmitAnswer(m, c) ==
    /\ dialog[m].is # "closed" /\ ~dialog[m].submitting
    /\ Sends(c, [Ask(dialog[m].is, m) EXCEPT !.offer = dialog[m].of])
    /\ dialog' = [dialog EXCEPT ![m].submitting = TRUE]
    /\ UNCHANGED <<api, page, rows, homes, add, withdrawing, failures>>

\* OwnerOffers.handleWithdraw
ClickWithdraw(f, c) ==
    /\ rows[Owner][f] = "pending" /\ withdrawing # f
    /\ Sends(c, [Ask("withdraw", Owner) EXCEPT !.offer = f])
    /\ withdrawing' = f
    /\ UNCHANGED <<api, page, rows, homes, add, dialog, failures>>

-----------------------------------------------------------------------------
(* The API *)

Awaiting(c) == calls[c].kind # "idle" /\ calls[c].reply = "awaited"

Reply(c, call) ==
    calls' = [calls EXCEPT ![c] =
        IF call.mounted \/ call.kind \in Listing THEN call ELSE Idle]

Ok(c) == [calls[c] EXCEPT !.reply = "ok"]

HandleProperty(c, p) ==
    /\ Awaiting(c) /\ calls[c].kind = "property"
    /\ ~properties[p].listed
    /\ properties' = [properties EXCEPT ![p].listed = TRUE]
    /\ Reply(c, [Ok(c) EXCEPT !.property = p])
    /\ UNCHANGED <<offers, client>>

HandleOffer(c, f) ==
    LET p == calls[c].property IN
    /\ Awaiting(c) /\ calls[c].kind = "offer"
    /\ properties[p].listed
    /\ ~\E g \in Offers : offers[g].property = p /\ offers[g].status = "pending"
    /\ offers[f].status = "none"
    /\ offers' = [offers EXCEPT ![f] =
          [status |-> "pending", property |-> p, manager |-> calls[c].manager]]
    /\ Reply(c, Ok(c))
    /\ UNCHANGED <<properties, client>>

\* Fault: an answered offer can be answered again.
AnswerableAgain(f) == offers[f].status # "none"

\* Only a pending offer can be answered.
Answerable(f) == offers[f].status = "pending"

HandleAccept(c) ==
    LET f == calls[c].offer IN
    /\ Awaiting(c) /\ calls[c].kind = "accept" /\ Answerable(f)
    /\ calls[c].by = offers[f].manager
    /\ offers' = [offers EXCEPT ![f].status = "accepted"]
    /\ properties' = [properties EXCEPT ![offers[f].property].manager = offers[f].manager]
    /\ Reply(c, [Ok(c) EXCEPT !.rows[f] = "accepted"])
    /\ UNCHANGED client

\* Fault: a status no page knows.
HandleReject(c) ==
    LET f == calls[c].offer IN
    /\ Awaiting(c) /\ calls[c].kind = "decline" /\ Answerable(f)
    /\ calls[c].by = offers[f].manager
    /\ offers' = [offers EXCEPT ![f].status = "rejected"]
    /\ Reply(c, [Ok(c) EXCEPT !.rows[f] = "declined"])
    /\ UNCHANGED <<properties, client>>

HandleDecline(c) ==
    LET f == calls[c].offer IN
    /\ Awaiting(c) /\ calls[c].kind = "decline" /\ Answerable(f)
    /\ calls[c].by = offers[f].manager
    /\ offers' = [offers EXCEPT ![f].status = "declined"]
    /\ Reply(c, [Ok(c) EXCEPT !.rows[f] = "declined"])
    /\ UNCHANGED <<properties, client>>

\* Fault: the owner may withdraw what was answered.
WithdrawAny(c) ==
    LET f == calls[c].offer IN
    /\ Awaiting(c) /\ calls[c].kind = "withdraw"
    /\ offers' = [offers EXCEPT ![f].status = "withdrawn"]
    /\ Reply(c, Ok(c))
    /\ UNCHANGED <<properties, client>>

HandleWithdraw(c) ==
    LET f == calls[c].offer IN
    /\ Awaiting(c) /\ calls[c].kind = "withdraw" /\ Answerable(f)
    /\ offers' = [offers EXCEPT ![f].status = "withdrawn"]
    /\ Reply(c, Ok(c))
    /\ UNCHANGED <<properties, client>>

HandleOffers(c) ==
    LET u == calls[c].by IN
    /\ Awaiting(c) /\ calls[c].kind \in {"offers", "reload"}
    /\ Reply(c, [Ok(c) EXCEPT !.rows = [f \in Offers |->
                    IF u = Owner \/ offers[f].manager = u THEN offers[f].status ELSE "none"]])
    /\ UNCHANGED <<api, client>>

\* Fault: a property that is on offer counts as managed.
PropertiesOnOffer(c) ==
    /\ Awaiting(c) /\ calls[c].kind = "properties"
    /\ Reply(c, [Ok(c) EXCEPT !.homes = [p \in Properties |->
                    IF ~properties[p].listed THEN "absent"
                    ELSE IF \E f \in Offers : offers[f].property = p
                    THEN "managed" ELSE "unmanaged"]])
    /\ UNCHANGED <<api, client>>

HandleProperties(c) ==
    /\ Awaiting(c) /\ calls[c].kind = "properties"
    /\ Reply(c, [Ok(c) EXCEPT !.homes = [p \in Properties |->
                    IF ~properties[p].listed THEN "absent"
                    ELSE IF properties[p].manager = None THEN "unmanaged" ELSE "managed"]])
    /\ UNCHANGED <<api, client>>

\* The network fails before or after the call was handled, or it is refused
\* (409 for an offer that is not pending any more).
Fail(c) ==
    /\ calls[c].kind # "idle" /\ calls[c].reply # "failed"
    /\ Reply(c, [calls[c] EXCEPT !.reply = "failed", !.rows = NoOffers, !.homes = NoHomes,
                                 !.property = None])
    /\ UNCHANGED <<api, client>>

-----------------------------------------------------------------------------
(* A page gets an answer *)

Answered(c, kinds) == calls[c].kind \in kinds /\ calls[c].reply # "awaited"

IsOk(c) == calls[c].reply = "ok"

Then(c, call) == calls' = [calls EXCEPT ![c] = call]

GotPage(c) ==
    /\ Answered(c, {"offers", "properties", "reload"})
    /\ rows' = IF IsOk(c) /\ calls[c].kind # "properties"
               THEN [rows EXCEPT ![calls[c].by] = calls[c].rows] ELSE rows
    /\ homes' = IF IsOk(c) /\ calls[c].kind = "properties" THEN calls[c].homes ELSE homes
    /\ withdrawing' = IF calls[c].kind = "reload" THEN None ELSE withdrawing
    /\ Then(c, Idle)
    /\ UNCHANGED <<api, page, add, dialog, failures>>

\* Fault: the error is swallowed.
ListingFailedQuietly(c) ==
    /\ add' = IF calls[c].mounted THEN [add EXCEPT !.submitting = FALSE] ELSE add
    /\ Then(c, Idle)
    /\ UNCHANGED failures

\* One toast says that the offer was not sent; of the property it says nothing.
ListingFailed(c) ==
    /\ failures' = failures + 1
    /\ add' = IF calls[c].mounted THEN [add EXCEPT !.submitting = FALSE] ELSE add
    /\ Then(c, Idle)

GotProperty(c) ==
    /\ Answered(c, {"property"})
    /\ IF IsOk(c)
       THEN /\ Then(c, [calls[c] EXCEPT !.kind = "offer", !.reply = "awaited"])
            /\ UNCHANGED <<add, failures>>
       ELSE ListingFailed(c)
    /\ UNCHANGED <<api, page, rows, homes, dialog, withdrawing>>

\* The dialog closes, whichever listing it is open for by now, and
\* OwnerProperties loads again.
GotOffer(c) ==
    /\ Answered(c, {"offer"})
    /\ IF IsOk(c)
       THEN /\ add' = IF calls[c].mounted THEN [open |-> FALSE, submitting |-> FALSE] ELSE add
            /\ Then(c, IF calls[c].mounted THEN Ask("properties", Owner) ELSE Idle)
            /\ UNCHANGED failures
       ELSE ListingFailed(c)
    /\ UNCHANGED <<api, page, rows, homes, dialog, withdrawing>>

\* The dialog of that kind closes, whichever offer it is open for by now.
GotAnswer(c) ==
    LET m == calls[c].by  f == calls[c].offer IN
    /\ Answered(c, {"accept", "decline"})
    /\ rows' = IF IsOk(c) /\ rows[m][f] # "none"
               THEN [rows EXCEPT ![m][f] = calls[c].rows[f]] ELSE rows
    /\ dialog' = [dialog EXCEPT ![m] =
          IF @.is # calls[c].kind THEN @
          ELSE IF IsOk(c) THEN Closed ELSE [@ EXCEPT !.submitting = FALSE]]
    /\ Then(c, Idle)
    /\ UNCHANGED <<api, page, homes, add, withdrawing, failures>>

\* The list is loaded again before the spinner goes.
GotWithdrawn(c) ==
    /\ Answered(c, {"withdraw"})
    /\ IF IsOk(c)
       THEN Then(c, Ask("reload", Owner)) /\ UNCHANGED withdrawing
       ELSE Then(c, Idle) /\ withdrawing' = None
    /\ UNCHANGED <<api, page, rows, homes, add, dialog, failures>>

-----------------------------------------------------------------------------
OwnerStep(c) ==
    \/ \E m \in Managers : SubmitListing(m, c)
    \/ \E f \in Offers : ClickWithdraw(f, c)

ManagerStep(m) ==
    \/ \E f \in Offers, is \in {"accept", "decline"} : OpenDialog(m, f, is)
    \/ CloseDialog(m)
    \/ \E c \in Calls : SubmitAnswer(m, c)

Handle(c) ==
    \/ \E p \in Properties : HandleProperty(c, p)
    \/ \E f \in Offers : HandleOffer(c, f)
    \/ HandleAccept(c) \/ HandleDecline(c) \/ HandleWithdraw(c)
    \/ HandleOffers(c) \/ HandleProperties(c) \/ Fail(c)

Get(c) == \/ GotPage(c) \/ GotProperty(c) \/ GotOffer(c) \/ GotAnswer(c)
          \/ GotWithdrawn(c)

Next ==
    \/ OpenAdd \/ CloseAdd
    \/ \E m \in Managers : ManagerStep(m)
    \/ \E c \in Calls :
          \/ \E u \in Users, view \in {"offers", "properties"} : OpenPage(u, view, c)
          \/ OwnerStep(c) \/ Handle(c) \/ Get(c)

Spec == Init /\ [][Next]_vars

-----------------------------------------------------------------------------
TypeOK ==
    /\ properties \in [Properties -> PropertyRow]
    /\ offers \in [Offers -> OfferRow]
    /\ page \in [Users -> {"away", "offers", "properties"}]
    /\ rows \in [Users -> OfferRows]
    /\ homes \in [Properties -> Home]
    /\ add \in Add
    /\ dialog \in [Managers -> Dialog]
    /\ withdrawing \in Offers \cup {None}
    /\ failures \in Nat
    /\ calls \in [Calls -> Call]

(***************************************************************************)
(* A property is managed by the manager who accepted an offer for it, and  *)
(* by nobody else: one accepted offer if it has a manager, none if not,    *)
(* whatever the order in which owner and manager answer it.                *)
(***************************************************************************)
AcceptedFor(p) == {f \in Offers : offers[f].status = "accepted" /\ offers[f].property = p}

ManagedByOffer ==
    \A p \in Properties :
        /\ properties[p].manager = None => AcceptedFor(p) = {}
        /\ properties[p].manager # None =>
              \E f \in Offers : /\ AcceptedFor(p) = {f}
                                /\ offers[f].manager = properties[p].manager

(***************************************************************************)
(* An answer stands: pending -> accepted | declined | withdrawn            *)
(* (api/offers.js:7) and no further, though the pages of both sides act    *)
(* on rows that may long be answered.                                      *)
(***************************************************************************)
AnswersStand ==
    [][/\ \A f \in Offers : offers[f].status \notin {"none", "pending"} =>
             offers'[f] = offers[f]
       /\ \A p \in Properties : properties[p].manager # None =>
             properties'[p] = properties[p]]_api

(***************************************************************************)
(* What a page shows as answered has been answered that way, and a         *)
(* property it shows as managed is: pages lag behind the API but are never *)
(* ahead of it, however their loads and answers overtake one another.      *)
(***************************************************************************)
PagesLag ==
    /\ \A u \in Users, f \in Offers :
          rows[u][f] \notin {"none", "pending"} => offers[f].status = rows[u][f]
    /\ \A c \in Calls, f \in Offers :
          calls[c].rows[f] \notin {"none", "pending"} =>
             offers[f].status = calls[c].rows[f]
    /\ \A p \in Properties :
          homes[p] = "managed" => properties[p].manager # None

(***************************************************************************)
(* Listing is two calls of the owner's dialog (OwnerAddPropertyDialog.jsx: *)
(* 137-144), and the first may succeed alone, more than once if the owner  *)
(* tries again. No property the owner listed is left without an offer in   *)
(* silence: there is a toast, or a listing under way, for each of them. A  *)
(* first call that is refused has the same toast, so there may be more     *)
(* toasts than such properties, never fewer. A property from the manager's *)
(* NewPropertyDialog has neither offer nor toast and is not meant.         *)
(***************************************************************************)
Unoffered ==
    {p \in Properties : properties[p].listed /\ \A f \in Offers : offers[f].property # p}

UnofferedAreReported ==
    Cardinality(Unoffered) <=
        failures + Cardinality({c \in Calls : calls[c].kind \in Listing})
=============================================================================
