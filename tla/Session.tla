------------------------------ MODULE Session ------------------------------
(***************************************************************************)
(* Who is signed in, in one browser tab: AuthProvider (user, status), the  *)
(* token in sessionStorage, the route, and the operations that await an    *)
(* answer of the API: the hydration of a page load, signing in,            *)
(* registering, signing out and saving the profile. They are chains of     *)
(* calls, and nothing keeps two of them from being in flight together; an  *)
(* answer may be late, a refusal, or lost.                                 *)
(*                                                                         *)
(* The API is the backend's (services/user_service, gateway/auth). Names,  *)
(* phone numbers and the text of the forms are left out, and so are the    *)
(* browser's back button and a second page load: Init is a page load with  *)
(* whatever an earlier one left in sessionStorage.                         *)
(***************************************************************************)
EXTENDS FiniteSets

CONSTANTS Accounts,    \* email addresses, each with its password
          Role,        \* the role each account has or registers with
          Registered,  \* the accounts that exist at the start
          Tokens,      \* JWTs; one is used again when nobody holds it
          Typed,       \* the areas the page may be loaded at
          Ops,         \* operations that may be in flight together
          None

VARIABLES
    accounts,  \* the users table
    owner,     \* owner[k]: the account a token was issued to
    dead,      \* the tokens that are revoked (at the start: or expired)
    token,     \* sessionStorage["eazy.token"]
    user,      \* AuthProvider's user
    status,    \* AuthProvider's status
    loc,       \* the route, and the one /login is to return to
    ops        \* what each operation in flight is doing

vars == <<accounts, owner, dead, token, user, status, loc, ops>>

Roles == {"tenant", "manager", "owner", "admin"}

-----------------------------------------------------------------------------
(* Routes, by the first part of the path; "profile" is also /notifications *)

Areas == {"root", "login", "register", "forbidden", "profile", "tenant",
          "manager", "owner"}

ASSUME ConstantsAssumption ==
    /\ Registered \subseteq Accounts /\ Role \in [Accounts -> Roles]
    /\ None \notin Accounts \cup Tokens /\ Typed \subseteq Areas /\ Ops # {}

\* The areas a ProtectedRoute guards, and whom it lets in.
allowedRoles ==
    [profile |-> Roles, tenant |-> {"tenant"},
     manager |-> {"manager", "admin"}, owner |-> {"owner", "admin"}]

Shell == DOMAIN allowedRoles

\* Fault: managers are shown the owners' pages.
NavForAll ==
    [tenant |-> {"tenant", "profile"},
     manager |-> {"manager", "owner", "profile"},
     owner |-> {"owner", "profile"},
     admin |-> {"manager", "profile"}]

NAV_BY_ROLE ==
    [tenant |-> {"tenant", "profile"},
     manager |-> {"manager", "profile"},
     owner |-> {"owner", "profile"},
     admin |-> {"manager", "profile"}]

\* Fault: a path no route has.
LandsOnDashboard(u) == IF Role[u] = "tenant" THEN "tenant" ELSE "dashboard"

landingPathFor(u) ==
    CASE Role[u] = "tenant" -> "tenant"
      [] Role[u] \in {"manager", "admin"} -> "manager"
      [] Role[u] = "owner" -> "owner"

Location == [at : Areas, from : Shell \cup {"none"}]

At(area) == [at |-> area, from |-> "none"]

\* Fault: ProtectedRoute does not compare roles.
SettleAnyRole(l, s, u) ==
    CASE s = "loading" -> l
      [] s = "unauthenticated" ->
            IF l.at = "root" THEN At("login")
            ELSE IF l.at \in Shell THEN [at |-> "login", from |-> l.at] ELSE l
      [] s = "authenticated" ->
            IF l.at \in {"root", "login", "register"} THEN At(landingPathFor(u)) ELSE l

\* Where ProtectedRoute, PublicOnlyRoute and RootRedirect let l end.
Settle(l, s, u) ==
    CASE s = "loading" -> l
      [] s = "unauthenticated" ->
            IF l.at = "root" THEN At("login")
            ELSE IF l.at \in Shell THEN [at |-> "login", from |-> l.at] ELSE l
      [] s = "authenticated" ->
            IF l.at \in {"root", "login", "register"} THEN At(landingPathFor(u))
            ELSE IF l.at \in Shell /\ Role[u] \notin allowedRoles[l.at]
                 THEN At("forbidden") ELSE l

\* The links of a page: the navigation, the user menu, the brand, the forms.
Links ==
    IF status = "loading" THEN {}
    ELSE CASE loc.at \in Shell -> NAV_BY_ROLE[Role[user]] \cup {"profile", "root"}
           [] loc.at = "login" -> {"register"}
           [] loc.at = "register" -> {"login"}
           [] OTHER -> {"root"}

-----------------------------------------------------------------------------
(* Operations. at: the endpoint whose answer is awaited. who: the account  *)
(* typed in or saved. bearer: the token sent, where the endpoint reads it.  *)
(* given, shows: the token or the account in the answer. to: where to go   *)
(* afterwards. mounted: the form that waits is still there.                *)

Op == [kind : {"idle", "hydrate", "login", "register", "logout", "save"},
       at : {"none", "register", "login", "me", "logout", "put"},
       who : Accounts \cup {None},
       bearer : Tokens \cup {None}, given : Tokens \cup {None},
       shows : Accounts \cup {None}, to : Shell \cup {"none"}, mounted : BOOLEAN,
       reply : {"awaited", "ok", "failed"}]

Idle == [kind |-> "idle", at |-> "none", who |-> None,
         bearer |-> None, given |-> None, shows |-> None, to |-> "none",
         mounted |-> FALSE, reply |-> "awaited"]

\* apiFetch: the token is read when the call is sent.
Fetch(op, at, bearer) ==
    [op EXCEPT !.at = at, !.bearer = bearer, !.reply = "awaited",
               !.given = None, !.shows = None,
               !.who = IF at = "me" THEN None ELSE @]

Starts(o, kind, at, who, bearer, to) ==
    /\ ops[o] = Idle
    /\ ops' = [ops EXCEPT ![o] =
          Fetch([Idle EXCEPT !.kind = kind, !.who = who, !.to = to, !.mounted = TRUE],
                at, bearer)]

Submitting(kind) == \E o \in Ops : ops[o].kind = kind /\ ops[o].mounted

PageOf(op) == CASE op.kind = "login" -> {"login"}
                [] op.kind = "register" -> {"register"}
                [] op.kind = "save" -> {"profile"}
                [] OTHER -> Areas

\* A form that leaves the screen forgets that it was submitting.
Moved(os, area) ==
    [o \in Ops |-> [os[o] EXCEPT !.mounted = @ /\ area \in PageOf(os[o])]]

-----------------------------------------------------------------------------
\* AuthProvider's effect: hydrate a session from the token that is stored.
Init ==
    /\ accounts = Registered
    /\ token \in Tokens \cup {None}
    /\ owner \in [Tokens -> Registered \cup {None}]
    /\ \A k \in Tokens : owner[k] # None <=> k = token
    /\ dead \in SUBSET ({token} \cap Tokens)
    /\ user = None
    /\ status = IF token = None THEN "unauthenticated" ELSE "loading"
    /\ \E area \in Typed : loc = Settle(At(area), status, user)
    /\ LET o == CHOOSE o \in Ops : TRUE IN
          ops = [p \in Ops |->
                    IF p = o /\ token # None
                    THEN Fetch([Idle EXCEPT !.kind = "hydrate", !.mounted = TRUE],
                               "me", token)
                    ELSE Idle]

FollowLink(area) ==
    /\ area \in Links
    /\ area # loc.at
    /\ loc' = Settle(At(area), status, user)
    /\ ops' = Moved(ops, loc'.at)
    /\ UNCHANGED <<accounts, owner, dead, token, user, status>>

\* LoginPage.handleSubmit
SubmitLogin(o, a) ==
    /\ loc.at = "login" /\ status = "unauthenticated" /\ ~Submitting("login")
    /\ Starts(o, "login", "login", a, None, loc.from)
    /\ UNCHANGED <<accounts, owner, dead, token, user, status, loc>>

\* RegisterPage.handleSubmit, the two passwords being alike and long enough.
SubmitRegister(o, a) ==
    /\ loc.at = "register" /\ status = "unauthenticated" /\ ~Submitting("register")
    /\ Starts(o, "register", "register", a, None, "none")
    /\ UNCHANGED <<accounts, owner, dead, token, user, status, loc>>

\* UserMenu.handleSignOut, which may be chosen again while it waits; the
\* profile page's button does the same.
ClickSignOut(o) ==
    /\ loc.at \in Shell /\ status = "authenticated"
    /\ Starts(o, "logout", "logout", None, token, "none")
    /\ UNCHANGED <<accounts, owner, dead, token, user, status, loc>>

\* ProfilePage.handleSubmit
SubmitProfile(o) ==
    /\ loc.at = "profile" /\ status = "authenticated" /\ ~Submitting("save")
    /\ Starts(o, "save", "put", user, token, "none")
    /\ UNCHANGED <<accounts, owner, dead, token, user, status, loc>>

-----------------------------------------------------------------------------
(* The API *)

Live(k) == k # None /\ k \notin dead

Held == {token} \cup {ops[o].bearer : o \in Ops} \cup {ops[o].given : o \in Ops}

Unused == Tokens \ Held

Replies(o, op, reply) == ops' = [ops EXCEPT ![o] = [op EXCEPT !.reply = reply]]

\* A refusal and a failure of the network are one to the browser: apiFetch or
\* fetch throws.
Fails(o) == Replies(o, Fetch(ops[o], ops[o].at, None), "failed")

HandleRegister(o) ==
    /\ ops[o].at = "register" /\ ops[o].reply = "awaited"
    /\ IF ops[o].who \in accounts
       THEN Fails(o) /\ UNCHANGED accounts
       ELSE Replies(o, ops[o], "ok") /\ accounts' = accounts \cup {ops[o].who}
    /\ UNCHANGED <<owner, dead, token, user, status, loc>>

\* The password may be wrong, except where register has just set it.
HandleLogin(o) ==
    /\ ops[o].at = "login" /\ ops[o].reply = "awaited"
    /\ \/ /\ ops[o].who \in accounts
          /\ Unused # {}
          /\ LET k == CHOOSE k \in Unused : TRUE IN
             /\ owner' = [owner EXCEPT ![k] = ops[o].who]
             /\ dead' = dead \ {k}
             /\ Replies(o, [ops[o] EXCEPT !.given = k], "ok")
       \/ /\ ops[o].kind = "login" \/ ops[o].who \notin accounts
          /\ Fails(o)
          /\ UNCHANGED <<owner, dead>>
    /\ UNCHANGED <<accounts, token, user, status, loc>>

HandleMe(o) ==
    /\ ops[o].at = "me" /\ ops[o].reply = "awaited"
    /\ IF Live(ops[o].bearer)
       THEN Replies(o, [ops[o] EXCEPT !.shows = owner[ops[o].bearer]], "ok")
       ELSE Fails(o)
    /\ UNCHANGED <<accounts, owner, dead, token, user, status, loc>>

\* A profile may be changed by its owner, or by an administrator.
HandlePut(o) ==
    LET k == ops[o].bearer IN
    /\ ops[o].at = "put" /\ ops[o].reply = "awaited"
    /\ IF Live(k) /\ (owner[k] = ops[o].who \/ Role[owner[k]] = "admin")
       THEN Replies(o, ops[o], "ok") ELSE Fails(o)
    /\ UNCHANGED <<accounts, owner, dead, token, user, status, loc>>

HandleLogout(o) ==
    /\ ops[o].at = "logout" /\ ops[o].reply = "awaited"
    /\ IF Live(ops[o].bearer)
       THEN Replies(o, ops[o], "ok") /\ dead' = dead \cup {ops[o].bearer}
       ELSE Fails(o) /\ UNCHANGED dead
    /\ UNCHANGED <<accounts, owner, token, user, status, loc>>

\* The network fails before or after the call is handled, or the token has
\* expired: to the browser the same.
LoseCall(o) ==
    /\ ops[o].kind # "idle" /\ ops[o].reply # "failed"
    /\ Fails(o)
    /\ UNCHANGED <<accounts, owner, dead, token, user, status, loc>>

-----------------------------------------------------------------------------
(* The browser gets an answer *)

Answered(o, kind, at) ==
    ops[o].kind = kind /\ ops[o].at = at /\ ops[o].reply # "awaited"

Ok(o) == ops[o].reply = "ok"

Then(o, op) == [ops EXCEPT ![o] = op]

\* setUser and setStatus, and the page that is then shown.
Become(os, u, s, l) ==
    /\ user' = u /\ status' = s /\ loc' = Settle(l, s, u)
    /\ ops' = Moved(os, loc'.at)

Hydrated(o) ==
    /\ Answered(o, "hydrate", "me")
    /\ IF Ok(o)
       THEN /\ Become(Then(o, Idle), ops[o].shows, "authenticated", loc)
            /\ UNCHANGED token
       ELSE /\ Become(Then(o, Idle), None, "unauthenticated", loc)
            /\ token' = None
    /\ UNCHANGED accounts

RegisterAnswered(o) ==
    /\ Answered(o, "register", "register")
    /\ ops' = Then(o, IF Ok(o) THEN Fetch(ops[o], "login", None) ELSE Idle)
    /\ UNCHANGED <<accounts, token, user, status, loc>>

\* Fault: no finally; a refused login keeps its spinner.
LoginOnlyOk(o) ==
    /\ \E kind \in {"login", "register"} : Answered(o, kind, "login")
    /\ Ok(o)
    /\ token' = ops[o].given
    /\ ops' = Then(o, Fetch(ops[o], "me", ops[o].given))
    /\ UNCHANGED <<accounts, user, status, loc>>

LoginAnswered(o) ==
    /\ \E kind \in {"login", "register"} : Answered(o, kind, "login")
    /\ IF Ok(o)
       THEN /\ token' = ops[o].given
            /\ ops' = Then(o, Fetch(ops[o], "me", ops[o].given))
       ELSE ops' = Then(o, Idle) /\ UNCHANGED token
    /\ UNCHANGED <<accounts, user, status, loc>>

\* Two navigations follow, the form's and PublicOnlyRoute's: either may be last.
SignedIn(o) ==
    /\ \E kind \in {"login", "register"} : Answered(o, kind, "me")
    /\ IF Ok(o)
       THEN \E area \in {ops[o].to, landingPathFor(ops[o].shows)} \ {"none"} :
               Become(Then(o, Idle), ops[o].shows, "authenticated", At(area))
       ELSE ops' = Then(o, Idle) /\ UNCHANGED <<user, status, loc>>
    /\ UNCHANGED <<accounts, token>>

\* Again two navigations: the button's, and ProtectedRoute's, which remembers
\* the page. When the call fails the token goes, the user stays.
SignedOut(o) ==
    /\ Answered(o, "logout", "logout")
    /\ token' = None
    /\ IF Ok(o)
       THEN \E l \in {At("login"), loc} :
               /\ l.at \in Shell \cup {"login"}
               /\ Become(Then(o, Idle), None, "unauthenticated", l)
       ELSE ops' = Then(o, Idle) /\ UNCHANGED <<user, status, loc>>
    /\ UNCHANGED accounts

ProfileAnswered(o) ==
    /\ Answered(o, "save", "put")
    /\ ops' = Then(o, IF Ok(o) THEN Fetch(ops[o], "me", token) ELSE Idle)
    /\ UNCHANGED <<accounts, token, user, status, loc>>

\* refreshUser sets the user and leaves the status as it is.
Refreshed(o) ==
    /\ Answered(o, "save", "me")
    /\ IF Ok(o)
       THEN Become(Then(o, Idle), ops[o].shows, status, loc)
       ELSE ops' = Then(o, Idle) /\ UNCHANGED <<user, status, loc>>
    /\ UNCHANGED <<accounts, token>>

-----------------------------------------------------------------------------
UserStep ==
    \/ \E area \in Areas : FollowLink(area)
    \/ \E o \in Ops :
          \/ \E a \in Accounts :
                SubmitRegister(o, a) \/ SubmitLogin(o, a)
          \/ ClickSignOut(o) \/ SubmitProfile(o)

Handle(o) == \/ HandleRegister(o) \/ HandleLogin(o) \/ HandleMe(o)
             \/ HandlePut(o) \/ HandleLogout(o)

\* A token that neither the tab nor a call holds any more plays no part.
Forget ==
    /\ owner' = [k \in Tokens |-> IF k \in Held' THEN owner[k] ELSE None]
    /\ dead' = dead \cap Held'

Gets(o) == \/ Hydrated(o) \/ RegisterAnswered(o) \/ LoginAnswered(o) \/ SignedIn(o)
           \/ SignedOut(o) \/ ProfileAnswered(o) \/ Refreshed(o)

Get(o) == Gets(o) /\ Forget

Next == \/ UserStep
        \/ \E o \in Ops : Handle(o) \/ LoseCall(o) \/ Get(o)

\* A call is handled or fails, and its continuation runs.
Fairness == \A o \in Ops : WF_vars(Handle(o) \/ LoseCall(o)) /\ WF_vars(Get(o))

Spec == Init /\ [][Next]_vars /\ Fairness

-----------------------------------------------------------------------------
TypeOK ==
    /\ accounts \subseteq Accounts
    /\ owner \in [Tokens -> Accounts \cup {None}] /\ dead \subseteq Tokens
    /\ token \in Tokens \cup {None}
    /\ user \in Accounts \cup {None}
    /\ status \in {"loading", "authenticated", "unauthenticated"}
    /\ loc \in Location
    /\ ops \in [Ops -> Op]

(***************************************************************************)
(* status and user are set by separate calls of separate operations, but   *)
(* no order of their answers leaves the app authenticated without a user,  *)
(* whose role ProtectedRoute reads without asking; and the session is      *)
(* loading only while the hydration, and nothing else, is on its way.      *)
(***************************************************************************)
SignedInHasUser ==
    /\ status = "authenticated" => user # None
    /\ status = "loading" =>
          /\ user = None
          /\ \A o \in Ops : ops[o].kind \in {"idle", "hydrate"}
          /\ \E o \in Ops : ops[o].kind = "hydrate"
    /\ loc.at \in Shell /\ status # "loading" =>
          user # None /\ Role[user] \in allowedRoles[loc.at]

(***************************************************************************)
(* No link the app shows leads to /forbidden, whoever the user has become  *)
(* by a late answer since the page was opened.                             *)
(***************************************************************************)
LinksOpen ==
    [][(\E area \in Areas : FollowLink(area)) => loc'.at # "forbidden"]_loc

(***************************************************************************)
(* Every form's spinner ends, and with SignedInHasUser the page's: each    *)
(* operation comes to an end, whatever is refused or lost on its way.      *)
(***************************************************************************)
SessionSettles == \A o \in Ops : ops[o].kind # "idle" ~> ops[o].kind = "idle"

Quiet == \A o \in Ops : ops[o].kind = "idle"

(***************************************************************************)
(* AuthProvider is "the single source of truth for who is logged in"       *)
(* (AuthContext.jsx:15): the user it shows is the one calls are made as.   *)
(***************************************************************************)
OneIdentity ==
    Quiet /\ status = "authenticated" /\ token # None => owner[token] = user

(***************************************************************************)
(* Signing out "ends your current session and clears your access token"    *)
(* (ProfilePage.jsx): nobody is left signed in without a token.            *)
(***************************************************************************)
SignOutEndsSession ==
    Quiet /\ token = None => status # "authenticated"
=============================================================================
