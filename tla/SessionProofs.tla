--------------------------- MODULE SessionProofs ---------------------------
(***************************************************************************)
(* Proofs about Session, for any sets of accounts, tokens and operations   *)
(* in flight and any roles: the types, that whoever is signed in is known  *)
(* and on a page that is open to them, and that no link leads to           *)
(* /forbidden.                                                             *)
(***************************************************************************)
EXTENDS Session, TLAPS

-----------------------------------------------------------------------------
(* Routes *)

Statuses == {"loading", "authenticated", "unauthenticated"}

LEMMA AllowedIs ==
    /\ Shell = {"profile", "tenant", "manager", "owner"}
    /\ allowedRoles["profile"] = Roles /\ allowedRoles["tenant"] = {"tenant"}
    /\ allowedRoles["manager"] = {"manager", "admin"}
    /\ allowedRoles["owner"] = {"owner", "admin"}
BY DEF Shell, allowedRoles

\* Everybody's landing page is open to them.
LEMMA LandingOpen ==
    ASSUME NEW u \in Accounts
    PROVE  landingPathFor(u) \in Shell /\ Role[u] \in allowedRoles[landingPathFor(u)]
<1>1. Role[u] \in Roles
  BY ConstantsAssumption
<1> QED
  BY <1>1, AllowedIs DEF landingPathFor, Roles

\* Where the route guards let a page end is a page that is open.
LEMMA SettleOpen ==
    ASSUME NEW l \in Location, NEW s \in Statuses, NEW u \in Accounts \cup {None},
           s = "authenticated" => u \in Accounts
    PROVE  LET there == Settle(l, s, u) IN
           /\ there \in Location
           /\ there.at \in Shell /\ s # "loading" =>
                 s = "authenticated" /\ Role[u] \in allowedRoles[there.at]
<1>1. /\ l.at \in Areas /\ l.from \in Shell \cup {"none"}
      /\ \A area \in Areas : At(area) \in Location /\ At(area).at = area
  BY DEF Location, At
<1>2. CASE s = "loading"
  BY <1>2 DEF Settle
<1>3. CASE s = "unauthenticated"
  <2>1. CASE l.at = "root"
    BY <1>1, <1>3, <2>1, AllowedIs DEF Settle, Areas
  <2>2. CASE l.at \in Shell
    <3>1. Settle(l, s, u) = [at |-> "login", from |-> l.at]
      BY <1>3, <2>2, AllowedIs DEF Settle
    <3> QED
      BY <2>2, <3>1, AllowedIs DEF Location, Areas
  <2>3. CASE l.at # "root" /\ l.at \notin Shell
    BY <1>1, <1>3, <2>3 DEF Settle
  <2> QED
    BY <2>1, <2>2, <2>3
<1>4. CASE s = "authenticated"
  <2>1. CASE l.at \in {"root", "login", "register"}
    <3>1. Settle(l, s, u) = At(landingPathFor(u))
      BY <1>4, <2>1 DEF Settle
    <3>2. landingPathFor(u) \in Areas
      BY <1>4, LandingOpen, AllowedIs DEF Areas
    <3> QED
      BY <1>1, <1>4, <3>1, <3>2, LandingOpen
  <2>2. CASE l.at \notin {"root", "login", "register"}
    BY <1>1, <1>4, <2>2, AllowedIs DEF Settle, Areas
  <2> QED
    BY <2>1, <2>2
<1> QED
  BY <1>2, <1>3, <1>4 DEF Statuses

-----------------------------------------------------------------------------
(* Operations in flight. A token that the tab or a call holds was issued   *)
(* to an account, so an answer of /me names one.                           *)

Fit(op) ==
    /\ op \in Op
    /\ op.at = "register" => op.who \in Accounts
    /\ op.at = "login" /\ op.reply = "ok" => op.given \in Tokens
    /\ op.at = "me" /\ op.reply = "ok" => op.shows \in Accounts

Owned == \A k \in Tokens : k \in Held => owner[k] \in Accounts

Shape ==
    /\ accounts \subseteq Accounts
    /\ owner \in [Tokens -> Accounts \cup {None}] /\ dead \subseteq Tokens
    /\ token \in Tokens \cup {None} /\ user \in Accounts \cup {None}
    /\ status \in Statuses /\ loc \in Location /\ ops \in [Ops -> Op]
    /\ \A o \in Ops : Fit(ops[o])
    /\ Owned
    /\ SignedInHasUser

LEMMA IdleFit ==
    Fit(Idle) /\ Idle.kind = "idle" /\ Idle.bearer = None /\ Idle.given = None
BY DEF Idle, Fit, Op

LEMMA FetchFit ==
    ASSUME NEW op \in Op, NEW at \in {"none", "register", "login", "me", "logout", "put"},
           NEW bearer \in Tokens \cup {None},
           at = "register" => op.who \in Accounts
    PROVE  LET sent == Fetch(op, at, bearer) IN
           /\ Fit(sent) /\ sent.kind = op.kind /\ sent.at = at
           /\ sent.bearer = bearer /\ sent.given = None
<1> DEFINE sent == Fetch(op, at, bearer)
           who == IF at = "me" THEN None ELSE op.who
<1>1. who \in Accounts \cup {None}
  BY DEF Op
<1>2. sent = [op EXCEPT !.at = at, !.bearer = bearer, !.reply = "awaited",
                        !.given = None, !.shows = None, !.who = who]
  BY DEF Fetch
<1> HIDE DEF sent, who
<1>3. sent \in Op
  BY <1>1, <1>2 DEF Op
<1>4. /\ sent.kind = op.kind /\ sent.at = at /\ sent.who = who
      /\ sent.bearer = bearer /\ sent.given = None /\ sent.reply = "awaited"
  BY <1>2 DEF Op
<1>5. Fit(sent)
  BY <1>3, <1>4 DEF Fit, who
<1> QED
  BY <1>4, <1>5 DEF sent

\* What an answer makes of an operation.
LEMMA ReplyFit ==
    ASSUME NEW op, Fit(op), NEW reply \in {"ok", "failed"},
           reply = "ok" => /\ op.at = "login" => op.given \in Tokens
                           /\ op.at = "me" => op.shows \in Accounts
    PROVE  LET answered == [op EXCEPT !.reply = reply] IN
           /\ Fit(answered) /\ answered.kind = op.kind
           /\ answered.bearer = op.bearer /\ answered.given = op.given
<1>1. op \in Op
  BY DEF Fit
<1>2. [op EXCEPT !.reply = reply] \in Op
  BY <1>1 DEF Op
<1>3. op = [kind |-> op.kind, at |-> op.at, who |-> op.who, bearer |-> op.bearer,
            given |-> op.given, shows |-> op.shows, to |-> op.to, mounted |-> op.mounted,
            reply |-> op.reply]
  BY <1>1 DEF Op
<1>4. /\ [op EXCEPT !.reply = reply].reply = reply
      /\ [op EXCEPT !.reply = reply].kind = op.kind
      /\ [op EXCEPT !.reply = reply].at = op.at
      /\ [op EXCEPT !.reply = reply].who = op.who
      /\ [op EXCEPT !.reply = reply].given = op.given
      /\ [op EXCEPT !.reply = reply].bearer = op.bearer
      /\ [op EXCEPT !.reply = reply].shows = op.shows
  BY <1>1 DEF Op
<1> QED
  BY <1>2, <1>4 DEF Fit

\* A page that changes tells the forms only.
LEMMA MovedFit ==
    ASSUME NEW os \in [Ops -> Op], \A o \in Ops : Fit(os[o]), NEW area
    PROVE  /\ Moved(os, area) \in [Ops -> Op]
           /\ \A o \in Ops : /\ Fit(Moved(os, area)[o])
                             /\ Moved(os, area)[o].kind = os[o].kind
                             /\ Moved(os, area)[o].bearer = os[o].bearer
                             /\ Moved(os, area)[o].given = os[o].given
<1>1. ASSUME NEW o \in Ops
      PROVE  /\ Moved(os, area)[o] \in Op /\ Fit(Moved(os, area)[o])
             /\ Moved(os, area)[o].kind = os[o].kind
             /\ Moved(os, area)[o].bearer = os[o].bearer
             /\ Moved(os, area)[o].given = os[o].given
  <2> DEFINE op == os[o]  still == op.mounted /\ area \in PageOf(op)
             left == [op EXCEPT !.mounted = still]
  <2>1. op \in Op /\ Fit(op) /\ still \in BOOLEAN
    BY DEF Op
  <2>2. Moved(os, area)[o] = left
    BY DEF Moved
  <2> HIDE DEF op, still
  <2>3. left \in Op
    BY <2>1 DEF Op
  <2>4. /\ left.kind = op.kind /\ left.at = op.at /\ left.who = op.who
        /\ left.bearer = op.bearer /\ left.given = op.given /\ left.shows = op.shows
        /\ left.reply = op.reply
    BY <2>1 DEF Op
  <2>5. Fit(left)
    <3> HIDE DEF left
    <3> QED
      BY <2>1, <2>3, <2>4 DEF Fit
  <2> QED
    BY <2>2, <2>3, <2>4, <2>5 DEF op
<1>2. Moved(os, area) = [o \in Ops |-> Moved(os, area)[o]]
  BY DEF Moved
<1> QED
  BY <1>1, <1>2

-----------------------------------------------------------------------------
(* Steps *)

\* One operation goes on; the page may change with it.
LEMMA OneGoes ==
    ASSUME Shape, NEW o \in Ops, NEW op, Fit(op),
           op.bearer \in {None, token, ops[o].bearer, ops[o].given},
           op.given \in {None, ops[o].given},
           ops' = Then(o, op) \/ \E area \in Areas : ops' = Moved(Then(o, op), area),
           token' \in {None, token, ops[o].given}
    PROVE  /\ ops' \in [Ops -> Op] /\ \A p \in Ops : Fit(ops'[p])
           /\ token' \in Tokens \cup {None}
           /\ \A k \in Tokens : k \in Held' => k \in Held
           /\ ops'[o].kind = op.kind
           /\ \A p \in Ops : p # o => ops'[p].kind = ops[p].kind
<1> DEFINE os == Then(o, op)
<1>1. /\ os \in [Ops -> Op] /\ os[o] = op /\ \A p \in Ops : p # o => os[p] = ops[p]
  BY DEF Shape, Then, Fit
<1>2. \A p \in Ops : Fit(os[p])
  BY <1>1 DEF Shape
<1> HIDE DEF os
<1>3. /\ ops' \in [Ops -> Op]
      /\ \A p \in Ops : /\ Fit(ops'[p]) /\ ops'[p].kind = os[p].kind
                        /\ ops'[p].bearer = os[p].bearer /\ ops'[p].given = os[p].given
  <2>1. CASE ops' = os
    BY <1>1, <1>2, <2>1
  <2>2. ASSUME NEW area \in Areas, ops' = Moved(os, area)
        PROVE  /\ ops' \in [Ops -> Op]
               /\ \A p \in Ops : /\ Fit(ops'[p]) /\ ops'[p].kind = os[p].kind
                                 /\ ops'[p].bearer = os[p].bearer /\ ops'[p].given = os[p].given
    BY <1>1, <1>2, <2>2, MovedFit
  <2> QED
    BY <2>1, <2>2 DEF os
<1>4. token' \in Tokens \cup {None}
  <2>1. ops[o].given \in Tokens \cup {None} /\ token \in Tokens \cup {None}
    BY DEF Shape, Op
  <2> QED
    BY <2>1
<1>5. ASSUME NEW k \in Tokens, k \in Held' PROVE k \in Held
  <2>1. k # None
    BY ConstantsAssumption
  <2>2. k = token' \/ \E p \in Ops : k = os[p].bearer \/ k = os[p].given
    BY <1>3, <1>5 DEF Held
  <2>3. k = token \/ \E p \in Ops : k = ops[p].bearer \/ k = ops[p].given
    BY <1>1, <2>1, <2>2
  <2> QED
    BY <2>3 DEF Held
<1> QED
  BY <1>1, <1>3, <1>4, <1>5

LEMMA OwnedKept ==
    ASSUME Owned, owner \in [Tokens -> Accounts \cup {None}], dead \subseteq Tokens,
           \A k \in Tokens : k \in Held' => k \in Held,
           (owner' = owner /\ dead' \subseteq Tokens) \/ Forget
    PROVE  /\ Owned' /\ owner' \in [Tokens -> Accounts \cup {None}] /\ dead' \subseteq Tokens
BY DEF Owned, Forget

\* Nothing that is shown changes.
LEMMA PlacedStays ==
    ASSUME Shape, user' = user, status' = status, loc' = loc,
           \A p \in Ops : status = "loading" => ops'[p].kind = ops[p].kind
    PROVE  SignedInHasUser'
BY DEF Shape, SignedInHasUser

\* AuthProvider or the route changes, and the route guards have their say.
LEMMA PlacedAnew ==
    ASSUME NEW l \in Location, loc' = Settle(l, status', user'),
           status' \in {"authenticated", "unauthenticated"}, user' \in Accounts \cup {None},
           status' = "authenticated" => user' \in Accounts
    PROVE  SignedInHasUser' /\ loc' \in Location
<1>1. /\ loc' \in Location
      /\ loc'.at \in Shell => status' = "authenticated" /\ Role[user'] \in allowedRoles[loc'.at]
  BY SettleOpen DEF Statuses
<1> QED
  BY <1>1, ConstantsAssumption DEF SignedInHasUser

\* An operation starts, is answered, or goes on behind the page.
LEMMA ShapeBehind ==
    ASSUME Shape, NEW o \in Ops, NEW op, Fit(op), ops' = Then(o, op),
           op.bearer \in {None, token, ops[o].bearer, ops[o].given},
           op.given \in {None, ops[o].given},
           status # "loading" \/ op.kind = ops[o].kind,
           token' \in {None, token, ops[o].given}, accounts' \subseteq Accounts,
           (owner' = owner /\ dead' \subseteq Tokens) \/ Forget,
           UNCHANGED <<user, status, loc>>
    PROVE  Shape'
<1>1. /\ ops' \in [Ops -> Op] /\ \A p \in Ops : Fit(ops'[p])
      /\ token' \in Tokens \cup {None}
      /\ \A k \in Tokens : k \in Held' => k \in Held
      /\ ops'[o].kind = op.kind /\ \A p \in Ops : p # o => ops'[p].kind = ops[p].kind
  BY OneGoes
<1>2. Owned' /\ owner' \in [Tokens -> Accounts \cup {None}] /\ dead' \subseteq Tokens
  BY <1>1, OwnedKept DEF Shape
<1>3. SignedInHasUser'
  BY <1>1, PlacedStays
<1> QED
  BY <1>1, <1>2, <1>3 DEF Shape

\* An operation ends and AuthProvider has another user.
LEMMA ShapeBecomes ==
    ASSUME Shape, NEW o \in Ops, NEW u \in Accounts \cup {None}, NEW l \in Location,
           NEW s \in {"authenticated", "unauthenticated"}, s = "authenticated" => u \in Accounts,
           Become(Then(o, Idle), u, s, l), Forget,
           token' \in {None, token}, accounts' = accounts
    PROVE  Shape'
<1>1. user' = u /\ status' = s /\ loc' = Settle(l, s, u) /\ ops' = Moved(Then(o, Idle), loc'.at)
  BY DEF Become
<1>2. SignedInHasUser' /\ loc' \in Location
  BY <1>1, PlacedAnew
<1>3. \E area \in Areas : ops' = Moved(Then(o, Idle), area)
  BY <1>1, <1>2 DEF Location
<1>4. /\ ops' \in [Ops -> Op] /\ \A p \in Ops : Fit(ops'[p])
      /\ token' \in Tokens \cup {None}
      /\ \A k \in Tokens : k \in Held' => k \in Held
  <2>1. Fit(Idle) /\ Idle.bearer = None /\ Idle.given = None
    BY IdleFit
  <2>2. token' \in {None, token, ops[o].given}
    OBVIOUS
  <2> HIDE DEF Idle
  <2> QED
    BY <1>3, <2>1, <2>2, OneGoes
<1>5. Owned' /\ owner' \in [Tokens -> Accounts \cup {None}] /\ dead' \subseteq Tokens
  BY <1>4, OwnedKept DEF Shape
<1> QED
  BY <1>1, <1>2, <1>4, <1>5 DEF Shape, Statuses

LEMMA ShapeInit == Init => Shape
<1> SUFFICES ASSUME Init PROVE Shape
  OBVIOUS
<1> DEFINE first == CHOOSE o \in Ops : TRUE
           op == [Idle EXCEPT !.kind = "hydrate", !.mounted = TRUE]
           sent == Fetch(op, "me", token)
<1>1. first \in Ops
  BY ConstantsAssumption
<1>2. /\ accounts = Registered /\ token \in Tokens \cup {None} /\ user = None
      /\ owner \in [Tokens -> Registered \cup {None}]
      /\ \A k \in Tokens : owner[k] # None <=> k = token
      /\ dead \subseteq Tokens
      /\ status = IF token = None THEN "unauthenticated" ELSE "loading"
  BY DEF Init
<1>3. PICK area \in Typed : loc = Settle(At(area), status, user)
  BY DEF Init
<1>4. ops = [p \in Ops |-> IF p = first /\ token # None THEN sent ELSE Idle]
  BY DEF Init
<1>5. Fit(sent) /\ sent.kind = "hydrate" /\ sent.bearer = token /\ sent.given = None
  <2>1. op \in Op /\ op.kind = "hydrate"
    BY DEF Idle, Op
  <2> HIDE DEF op
  <2> QED
    BY <1>2, <2>1, FetchFit
<1> HIDE DEF first, op, sent
<1>6. ops \in [Ops -> Op] /\ \A p \in Ops : Fit(ops[p])
  BY <1>4, <1>5, IdleFit DEF Fit
<1>7. Owned
  <2>1. ASSUME NEW k \in Tokens, k \in Held PROVE k = token
    BY <1>4, <1>5, <2>1, IdleFit, ConstantsAssumption DEF Held
  <2> QED
    BY <1>2, <2>1, ConstantsAssumption DEF Owned
<1>8. At(area) \in Location
  BY ConstantsAssumption DEF At, Location
<1>9. /\ loc \in Location
      /\ loc.at \in Shell => status = "loading"
  BY <1>2, <1>3, <1>8, SettleOpen DEF Statuses
<1>10. SignedInHasUser
  BY <1>1, <1>2, <1>4, <1>5, <1>9, IdleFit DEF SignedInHasUser
<1> QED
  BY <1>2, <1>6, <1>7, <1>9, <1>10, ConstantsAssumption DEF Shape, Statuses

LEMMA ShapeFollow ==
    ASSUME Shape, NEW area \in Areas, FollowLink(area)
    PROVE  Shape'
<1>1. /\ status \in {"authenticated", "unauthenticated"}
      /\ loc' = Settle(At(area), status, user) /\ ops' = Moved(ops, loc'.at)
      /\ UNCHANGED <<accounts, owner, dead, token, user, status>>
  BY DEF FollowLink, Links, Shape, Statuses
<1>2. At(area) \in Location
  BY DEF At, Location
<1>3. SignedInHasUser' /\ loc' \in Location
  <2>1. status' = "authenticated" => user' \in Accounts
    BY <1>1 DEF Shape, SignedInHasUser
  <2> QED
    BY <1>1, <1>2, <2>1, PlacedAnew DEF Shape
<1>4. /\ ops' \in [Ops -> Op]
      /\ \A o \in Ops : /\ Fit(ops'[o]) /\ ops'[o].bearer = ops[o].bearer
                        /\ ops'[o].given = ops[o].given
  BY <1>1, MovedFit DEF Shape
<1>5. Owned'
  BY <1>1, <1>4 DEF Shape, Owned, Held
<1> QED
  BY <1>1, <1>3, <1>4, <1>5 DEF Shape

\* A form or a button sends its first call.
LEMMA ShapeStarts ==
    ASSUME Shape, NEW o \in Ops, NEW kind \in {"login", "register", "logout", "save"},
           NEW at \in {"register", "login", "logout", "put"}, NEW who \in Accounts \cup {None},
           NEW bearer \in {None, token}, NEW to \in Shell \cup {"none"},
           at = "register" => who \in Accounts, status # "loading",
           Starts(o, kind, at, who, bearer, to),
           UNCHANGED <<accounts, owner, dead, token, user, status, loc>>
    PROVE  Shape'
<1> DEFINE op == [Idle EXCEPT !.kind = kind, !.who = who, !.to = to, !.mounted = TRUE]
           sent == Fetch(op, at, bearer)
<1>1. op \in Op /\ op.who = who
  BY DEF Idle, Op
<1>2. ops' = Then(o, sent)
  BY DEF Starts, Then
<1>3. bearer \in Tokens \cup {None}
  BY DEF Shape
<1> HIDE DEF op
<1>4. Fit(sent) /\ sent.bearer = bearer /\ sent.given = None
  BY <1>1, <1>3, FetchFit
<1> HIDE DEF sent
<1> QED
  BY <1>2, <1>4, ShapeBehind DEF Shape

LEMMA ShapeUser == Shape /\ UserStep => Shape'
<1>1. ASSUME Shape PROVE loc.from \in Shell \cup {"none"} /\ token \in {None, token}
  BY <1>1 DEF Shape, Location
<1>2. ASSUME Shape, NEW o \in Ops, NEW a \in Accounts, SubmitRegister(o, a) PROVE Shape'
  BY <1>2, ShapeStarts DEF SubmitRegister
<1>3. ASSUME Shape, NEW o \in Ops, NEW a \in Accounts, SubmitLogin(o, a) PROVE Shape'
  BY <1>1, <1>3, ShapeStarts DEF SubmitLogin
<1>4. ASSUME Shape, NEW o \in Ops, ClickSignOut(o) PROVE Shape'
  BY <1>4, ShapeStarts DEF ClickSignOut
<1>5. ASSUME Shape, NEW o \in Ops, SubmitProfile(o) PROVE Shape'
  <2>1. user \in Accounts \cup {None}
    BY <1>5 DEF Shape
  <2> QED
    BY <1>5, <2>1, ShapeStarts DEF SubmitProfile
<1> QED
  BY <1>2, <1>3, <1>4, <1>5, ShapeFollow DEF UserStep

\* The API's answer, unless it is a new token; a refusal or a lost call.
LEMMA ShapeReplies ==
    ASSUME Shape, NEW o \in Ops, accounts' \subseteq Accounts, dead' \subseteq Tokens,
           UNCHANGED <<owner, token, user, status, loc>>,
           \/ Fails(o)
           \/ Replies(o, ops[o], "ok") /\ ops[o].at \notin {"login", "me"}
           \/ \E a \in Accounts : Replies(o, [ops[o] EXCEPT !.shows = a], "ok") /\ ops[o].at = "me"
    PROVE  Shape'
<1>1. /\ Fit(ops[o]) /\ ops[o] \in Op
      /\ ops[o].at \in {"none", "register", "login", "me", "logout", "put"}
  BY DEF Shape, Fit, Op
<1>2. CASE Fails(o)
  <2> DEFINE sent == Fetch(ops[o], ops[o].at, None)  op == [sent EXCEPT !.reply = "failed"]
  <2>1. ops' = Then(o, op)
    BY <1>2 DEF Fails, Replies, Then
  <2>2. Fit(sent) /\ sent.kind = ops[o].kind /\ sent.bearer = None /\ sent.given = None
    BY <1>1, FetchFit DEF Fit
  <2> HIDE DEF sent
  <2>3. Fit(op) /\ op.kind = ops[o].kind /\ op.bearer = None /\ op.given = None
    BY <2>2, ReplyFit
  <2> HIDE DEF op
  <2> QED
    BY <2>1, <2>3, ShapeBehind
<1>3. CASE Replies(o, ops[o], "ok") /\ ops[o].at \notin {"login", "me"}
  <2> DEFINE op == [ops[o] EXCEPT !.reply = "ok"]
  <2>1. ops' = Then(o, op)
    BY <1>3 DEF Replies, Then
  <2>2. /\ Fit(op) /\ op.kind = ops[o].kind /\ op.bearer = ops[o].bearer
        /\ op.given = ops[o].given
    BY <1>1, <1>3, ReplyFit
  <2> HIDE DEF op
  <2> QED
    BY <2>1, <2>2, ShapeBehind
<1>4. ASSUME NEW a \in Accounts, Replies(o, [ops[o] EXCEPT !.shows = a], "ok"), ops[o].at = "me"
      PROVE  Shape'
  <2> DEFINE shown == [ops[o] EXCEPT !.shows = a]  op == [shown EXCEPT !.reply = "ok"]
  <2>1. ops' = Then(o, op)
    BY <1>4 DEF Replies, Then
  <2>2. /\ shown \in Op /\ shown.at = "me" /\ shown.shows = a /\ shown.kind = ops[o].kind
        /\ shown.bearer = ops[o].bearer /\ shown.given = ops[o].given
    BY <1>1, <1>4 DEF Op
  <2> HIDE DEF shown
  <2>3. Fit(shown)
    BY <2>2 DEF Fit
  <2>4. /\ Fit(op) /\ op.kind = ops[o].kind /\ op.bearer = ops[o].bearer
        /\ op.given = ops[o].given
    BY <2>2, <2>3, ReplyFit
  <2> HIDE DEF op
  <2> QED
    BY <2>1, <2>4, ShapeBehind
<1> QED
  BY <1>2, <1>3, <1>4

\* A new token is one that nobody holds.
LEMMA ShapeIssues ==
    ASSUME Shape, NEW o \in Ops, NEW k \in Unused, ops[o].at = "login", ops[o].who \in accounts,
           owner' = [owner EXCEPT ![k] = ops[o].who], dead' = dead \ {k},
           Replies(o, [ops[o] EXCEPT !.given = k], "ok"),
           UNCHANGED <<accounts, token, user, status, loc>>
    PROVE  Shape'
<1> DEFINE issued == [ops[o] EXCEPT !.given = k]  op == [issued EXCEPT !.reply = "ok"]
<1>1. /\ ops' = [ops EXCEPT ![o] = op] /\ ops \in [Ops -> Op] /\ Fit(ops[o])
      /\ k \in Tokens /\ k \notin Held /\ ops[o].who \in Accounts
  BY DEF Replies, Shape, Unused
<1>2. /\ issued \in Op /\ issued.at = "login" /\ issued.given = k
      /\ issued.kind = ops[o].kind /\ issued.bearer = ops[o].bearer
  BY <1>1 DEF Op
<1> HIDE DEF issued
<1>3. Fit(issued)
  BY <1>1, <1>2 DEF Fit
<1>4. Fit(op) /\ op.kind = ops[o].kind /\ op.bearer = ops[o].bearer /\ op.given = k
  BY <1>1, <1>2, <1>3, ReplyFit
<1> HIDE DEF op
<1>5. ops' \in [Ops -> Op] /\ \A p \in Ops : Fit(ops'[p]) /\ ops'[p].kind = ops[p].kind
  BY <1>1, <1>4 DEF Shape, Fit
<1>6. ASSUME NEW j \in Tokens, j \in Held' PROVE owner'[j] \in Accounts
  <2>1. CASE j = k
    BY <1>1, <2>1 DEF Shape
  <2>2. CASE j # k
    <3>1. j = token \/ \E p \in Ops : j = ops[p].bearer \/ j = ops[p].given
      BY <1>1, <1>4, <1>6, <2>2 DEF Held
    <3>2. j \in Held
      BY <3>1 DEF Held
    <3> QED
      BY <2>2, <3>2 DEF Shape, Owned
  <2> QED
    BY <2>1, <2>2
<1>7. SignedInHasUser'
  BY <1>5, PlacedStays
<1>8. owner' \in [Tokens -> Accounts \cup {None}]
  BY <1>1 DEF Shape
<1> QED
  BY <1>5, <1>6, <1>7, <1>8 DEF Shape, Owned

LEMMA ShapeHandle ==
    ASSUME Shape, NEW o \in Ops, Handle(o) \/ LoseCall(o)
    PROVE  Shape'
<1>1. /\ Fit(ops[o]) /\ ops[o].bearer \in Tokens \cup {None} /\ accounts \subseteq Accounts
      /\ dead \subseteq Tokens
  BY DEF Shape, Fit, Op
<1>2. CASE HandleRegister(o)
  <2>1. ops[o].at = "register" /\ ops[o].who \in Accounts
    BY <1>1, <1>2 DEF HandleRegister, Fit
  <2>2. /\ accounts' \subseteq Accounts /\ UNCHANGED <<owner, dead, token, user, status, loc>>
        /\ Fails(o) \/ Replies(o, ops[o], "ok")
    BY <1>1, <1>2, <2>1 DEF HandleRegister
  <2> QED
    BY <1>1, <2>1, <2>2, ShapeReplies
<1>3. CASE HandleLogin(o)
  <2>1. /\ ops[o].at = "login" /\ UNCHANGED <<accounts, token, user, status, loc>>
    BY <1>3 DEF HandleLogin
  <2>2. CASE Fails(o) /\ UNCHANGED <<owner, dead>>
    BY <1>1, <2>1, <2>2, ShapeReplies
  <2>3. ASSUME ~(Fails(o) /\ UNCHANGED <<owner, dead>>) PROVE Shape'
    <3>1. PICK k \in Unused : /\ owner' = [owner EXCEPT ![k] = ops[o].who]
                              /\ dead' = dead \ {k}
                              /\ Replies(o, [ops[o] EXCEPT !.given = k], "ok")
      BY <1>3, <2>3 DEF HandleLogin
    <3>2. ops[o].who \in accounts
      BY <1>3, <2>3 DEF HandleLogin
    <3> QED
      BY <2>1, <3>1, <3>2, ShapeIssues
  <2> QED
    BY <2>2, <2>3
<1>4. CASE HandleMe(o)
  <2>1. ops[o].at = "me" /\ UNCHANGED <<accounts, owner, dead, token, user, status, loc>>
    BY <1>4 DEF HandleMe
  <2>2. CASE Live(ops[o].bearer)
    <3>1. owner[ops[o].bearer] \in Accounts
      BY <1>1, <2>2 DEF Live, Shape, Owned, Held
    <3>2. Replies(o, [ops[o] EXCEPT !.shows = owner[ops[o].bearer]], "ok")
      BY <1>4, <2>2 DEF HandleMe
    <3> QED
      BY <1>1, <2>1, <3>1, <3>2, ShapeReplies
  <2>3. CASE ~Live(ops[o].bearer)
    BY <1>1, <1>4, <2>1, <2>3, ShapeReplies DEF HandleMe
  <2> QED
    BY <2>2, <2>3
<1>5. CASE HandlePut(o)
  <2>1. /\ ops[o].at = "put" /\ UNCHANGED <<accounts, owner, dead, token, user, status, loc>>
        /\ Fails(o) \/ Replies(o, ops[o], "ok")
    BY <1>5 DEF HandlePut
  <2> QED
    BY <1>1, <2>1, ShapeReplies
<1>6. CASE HandleLogout(o)
  <2>1. /\ ops[o].at = "logout" /\ UNCHANGED <<accounts, owner, token, user, status, loc>>
        /\ Fails(o) \/ Replies(o, ops[o], "ok")
        /\ dead' = dead \/ (Live(ops[o].bearer) /\ dead' = dead \cup {ops[o].bearer})
    BY <1>6 DEF HandleLogout
  <2>2. dead' \subseteq Tokens
    BY <1>1, <2>1 DEF Live
  <2> QED
    BY <1>1, <2>1, <2>2, ShapeReplies
<1>7. CASE LoseCall(o)
  BY <1>1, <1>7, ShapeReplies DEF LoseCall
<1> QED
  BY <1>2, <1>3, <1>4, <1>5, <1>6, <1>7 DEF Handle

\* The browser gets an answer.
LEMMA ShapeGet ==
    ASSUME Shape, NEW o \in Ops, Get(o)
    PROVE  Shape'
<1>1. /\ Fit(ops[o]) /\ ops[o] \in Op /\ ops[o].given \in Tokens \cup {None}
      /\ ops[o].to \in Shell \cup {"none"} /\ accounts \subseteq Accounts /\ Forget /\ Gets(o)
  BY DEF Shape, Fit, Op, Get
<1>2. /\ Fit(Idle) /\ Idle.kind = "idle" /\ Idle.bearer = None /\ Idle.given = None
  BY IdleFit
\* While the page loads, nothing else is in flight.
<1>3. ops[o].kind \in {"login", "register", "logout", "save"} => status # "loading"
  BY DEF Shape, SignedInHasUser
\* The call it was the last of.
<1>4. ASSUME ops' = Then(o, Idle), ops[o].kind \in {"login", "register", "logout", "save"},
             token' \in {None, token}, UNCHANGED <<accounts, user, status, loc>>
      PROVE  Shape'
  <2> HIDE DEF Idle
  <2> QED
    BY <1>1, <1>2, <1>3, <1>4, ShapeBehind
\* The call another one follows on.
<1>5. ASSUME NEW at \in {"login", "me"}, NEW bearer \in {None, token, ops[o].given},
             ops' = Then(o, Fetch(ops[o], at, bearer)),
             ops[o].kind \in {"login", "register", "logout", "save"},
             token' \in {token, ops[o].given}, UNCHANGED <<accounts, user, status, loc>>
      PROVE  Shape'
  <2> DEFINE sent == Fetch(ops[o], at, bearer)
  <2>1. bearer \in Tokens \cup {None}
    BY <1>1 DEF Shape
  <2>2. Fit(sent) /\ sent.bearer = bearer /\ sent.given = None
    BY <1>1, <2>1, FetchFit
  <2> HIDE DEF sent
  <2> QED
    BY <1>1, <1>3, <1>5, <2>2, ShapeBehind DEF sent
<1>6. CASE Hydrated(o)
  <2>1. CASE Ok(o)
    <3>1. ops[o].shows \in Accounts
      BY <1>1, <1>6, <2>1 DEF Hydrated, Answered, Ok, Fit
    <3>2. /\ Become(Then(o, Idle), ops[o].shows, "authenticated", loc)
          /\ token' = token /\ accounts' = accounts /\ loc \in Location
      BY <1>6, <2>1 DEF Hydrated, Shape
    <3> QED
      BY <1>1, <3>1, <3>2, ShapeBecomes
  <2>2. CASE ~Ok(o)
    <3>1. /\ Become(Then(o, Idle), None, "unauthenticated", loc)
          /\ token' = None /\ accounts' = accounts /\ loc \in Location
      BY <1>6, <2>2 DEF Hydrated, Shape
    <3> QED
      BY <1>1, <3>1, ShapeBecomes
  <2> QED
    BY <2>1, <2>2
<1>7. CASE RegisterAnswered(o)
  <2>1. ops[o].kind = "register" /\ token' \in {None, token}
        /\ UNCHANGED <<accounts, token, user, status, loc>>
    BY <1>7 DEF RegisterAnswered, Answered
  <2>2. CASE Ok(o)
    BY <1>5, <1>7, <2>1, <2>2 DEF RegisterAnswered
  <2>3. CASE ~Ok(o)
    BY <1>4, <1>7, <2>1, <2>3 DEF RegisterAnswered
  <2> QED
    BY <2>2, <2>3
<1>8. CASE LoginAnswered(o)
  <2>1. ops[o].kind \in {"login", "register"} /\ UNCHANGED <<accounts, user, status, loc>>
    BY <1>8 DEF LoginAnswered, Answered
  <2>2. CASE Ok(o)
    BY <1>5, <1>8, <2>1, <2>2 DEF LoginAnswered
  <2>3. CASE ~Ok(o)
    BY <1>4, <1>8, <2>1, <2>3 DEF LoginAnswered
  <2> QED
    BY <2>2, <2>3
<1>9. CASE SignedIn(o)
  <2>1. /\ ops[o].kind \in {"login", "register"} /\ ops[o].at = "me"
        /\ UNCHANGED <<accounts, token>>
    BY <1>9 DEF SignedIn, Answered
  <2>2. CASE Ok(o)
    <3>1. ops[o].shows \in Accounts
      BY <1>1, <2>1, <2>2 DEF Ok, Fit
    <3>2. PICK area \in {ops[o].to, landingPathFor(ops[o].shows)} \ {"none"} :
             Become(Then(o, Idle), ops[o].shows, "authenticated", At(area))
      BY <1>9, <2>2 DEF SignedIn
    <3>3. At(area) \in Location
      BY <1>1, <3>1, LandingOpen, AllowedIs DEF At, Location, Areas
    <3> QED
      BY <1>1, <2>1, <3>1, <3>2, <3>3, ShapeBecomes
  <2>3. CASE ~Ok(o)
    BY <1>4, <1>9, <2>1, <2>3 DEF SignedIn
  <2> QED
    BY <2>2, <2>3
<1>10. CASE SignedOut(o)
  <2>1. ops[o].kind = "logout" /\ token' = None /\ accounts' = accounts
    BY <1>10 DEF SignedOut, Answered
  <2>2. CASE Ok(o)
    <3>1. PICK l \in {At("login"), loc} : Become(Then(o, Idle), None, "unauthenticated", l)
      BY <1>10, <2>2 DEF SignedOut
    <3>2. l \in Location
      BY DEF At, Location, Areas, Shape
    <3> QED
      BY <1>1, <2>1, <3>1, <3>2, ShapeBecomes
  <2>3. CASE ~Ok(o)
    BY <1>4, <1>10, <2>1, <2>3 DEF SignedOut
  <2> QED
    BY <2>2, <2>3
<1>11. CASE ProfileAnswered(o)
  <2>1. ops[o].kind = "save" /\ UNCHANGED <<accounts, token, user, status, loc>>
    BY <1>11 DEF ProfileAnswered, Answered
  <2>2. CASE Ok(o)
    BY <1>5, <1>11, <2>1, <2>2 DEF ProfileAnswered
  <2>3. CASE ~Ok(o)
    BY <1>4, <1>11, <2>1, <2>3 DEF ProfileAnswered
  <2> QED
    BY <2>2, <2>3
<1>12. CASE Refreshed(o)
  <2>1. ops[o].kind = "save" /\ ops[o].at = "me" /\ UNCHANGED <<accounts, token>>
    BY <1>12 DEF Refreshed, Answered
  <2>2. CASE Ok(o)
    <3>1. ops[o].shows \in Accounts
      BY <1>1, <2>1, <2>2 DEF Ok, Fit
    <3>2. /\ Become(Then(o, Idle), ops[o].shows, status, loc)
          /\ status \in {"authenticated", "unauthenticated"} /\ loc \in Location
      BY <1>3, <1>12, <2>1, <2>2 DEF Refreshed, Shape, Statuses
    <3> QED
      BY <1>1, <2>1, <3>1, <3>2, ShapeBecomes
  <2>3. CASE ~Ok(o)
    BY <1>4, <1>12, <2>1, <2>3 DEF Refreshed
  <2> QED
    BY <2>2, <2>3
<1> QED
  BY <1>1, <1>6, <1>7, <1>8, <1>9, <1>10, <1>11, <1>12 DEF Gets

LEMMA ShapeStep == Shape /\ [Next]_vars => Shape'
<1>1. Shape /\ UNCHANGED vars => Shape'
  BY DEF Shape, Owned, Held, SignedInHasUser, vars
<1> QED
  BY <1>1, ShapeUser, ShapeHandle, ShapeGet DEF Next

\* No order of answers, refusals and losses leaves a variable of the tab, of
\* the API or of a call without its type.
THEOREM ShapeCorrect == Spec => []TypeOK
<1>1. Shape => TypeOK
  BY DEF Shape, TypeOK, Statuses
<1> QED
  BY <1>1, ShapeInit, ShapeStep, PTL DEF Spec

\* Whoever is signed in is known, only the hydration keeps the page loading,
\* and a page behind a route guard is open to the user it is shown to.
THEOREM SignedInCorrect == Spec => []SignedInHasUser
<1>1. Shape => SignedInHasUser
  BY DEF Shape
<1> QED
  BY <1>1, ShapeInit, ShapeStep, PTL DEF Spec

-----------------------------------------------------------------------------
(* Links *)

\* The navigation of a role holds pages that are open to it.
LEMMA NavOpen ==
    ASSUME NEW r \in Roles, NEW area \in NAV_BY_ROLE[r]
    PROVE  area \in Shell /\ r \in allowedRoles[area]
BY AllowedIs DEF Roles, NAV_BY_ROLE

LEMMA FollowOpen ==
    ASSUME Shape, NEW area \in Areas, FollowLink(area)
    PROVE  loc'.at # "forbidden"
<1>1. /\ area \in Links /\ loc' = Settle(At(area), status, user) /\ At(area).at = area
      /\ loc.at \in Areas /\ status \in {"authenticated", "unauthenticated"}
      /\ status = "authenticated" => user \in Accounts
      /\ loc.at \in Shell => user \in Accounts
  BY DEF FollowLink, Links, At, Shape, Statuses, SignedInHasUser, Location
<1>2. \/ loc.at \in Shell /\ area \in NAV_BY_ROLE[Role[user]] \cup {"profile", "root"}
      \/ area \in {"register", "login", "root"}
  BY <1>1 DEF Links
<1>3. area # "forbidden"
  BY <1>1, <1>2, NavOpen, AllowedIs, ConstantsAssumption
<1>4. CASE status = "unauthenticated"
  BY <1>1, <1>3, <1>4 DEF Settle, At
<1>5. CASE status = "authenticated"
  <2>1. CASE area \in {"root", "login", "register"}
    <3>1. loc'.at = landingPathFor(user)
      BY <1>1, <1>5, <2>1 DEF Settle, At
    <3> QED
      BY <1>1, <1>5, <3>1, LandingOpen, AllowedIs
  <2>2. CASE area \notin {"root", "login", "register"}
    <3>1. Role[user] \in Roles
      BY <1>1, <1>5, ConstantsAssumption
    <3>2. area \in Shell /\ Role[user] \in allowedRoles[area]
      BY <1>2, <2>2, <3>1, NavOpen, AllowedIs
    <3>3. loc' = At(area)
      BY <1>1, <1>5, <2>2, <3>2 DEF Settle
    <3> QED
      BY <1>1, <1>3, <3>3
  <2> QED
    BY <2>1, <2>2
<1> QED
  BY <1>1, <1>4, <1>5

\* No link leads to /forbidden, whatever late answer has changed the user
\* since the page was opened.
THEOREM LinksCorrect == Spec => LinksOpen
<1>1. Shape => ((\E area \in Areas : FollowLink(area)) => loc'.at # "forbidden")
  BY FollowOpen
<1> QED
  BY <1>1, ShapeInit, ShapeStep, PTL DEF Spec, LinksOpen
=============================================================================
