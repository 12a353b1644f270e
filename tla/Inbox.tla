------------------------------- MODULE Inbox -------------------------------
(***************************************************************************)
(* The notifications of one signed-in user: the API's rows, and the        *)
(* useNotifications hook, of which the bell in the top bar and the         *)
(* notifications page each have an instance. Both poll, both flip rows to  *)
(* read before the API has been asked, and nothing orders the answers.     *)
(*                                                                         *)
(* Messages, dates, icons, skeletons and the page's tabs are left out. The *)
(* shell, and with it the bell, stays mounted; the page comes and goes.    *)
(***************************************************************************)
EXTENDS Naturals, FiniteSets

CONSTANTS Notes,   \* notifications that may come, notification_id values
          Calls,   \* fetch() calls that may be in flight together
          None

Hooks == {"bell", "page"}

VARIABLES
    rows,     \* db.notifications: "none", "unread" or "read"
    list,     \* list[h]: the notifications a hook holds, in the same terms
    mounted,  \* the hooks that are on screen
    error,    \* those whose last fetch failed
    calls     \* the calls in flight

vars == <<rows, list, mounted, error, calls>>

Rows == [Notes -> {"none", "unread", "read"}]

NoRows == [n \in Notes |-> "none"]

-----------------------------------------------------------------------------
(* A call's reply carries the rows when a list was asked for. heard: the   *)
(* hook that sent it is still mounted.                                     *)

Call == [kind : {"idle", "list", "read", "read-all"}, by : Hooks \cup {"none"},
         note : Notes \cup {None}, heard : BOOLEAN,
         reply : {"awaited", "ok", "failed"}, rows : Rows]

Idle == [kind |-> "idle", by |-> "none", note |-> None, heard |-> FALSE,
         reply |-> "awaited", rows |-> NoRows]

Ask(kind, h, n) ==
    [Idle EXCEPT !.kind = kind, !.by = h, !.note = n, !.heard = TRUE]

Sends(c, kind, h, n) ==
    calls[c] = Idle /\ calls' = [calls EXCEPT ![c] = Ask(kind, h, n)]

unreadCount(h) == Cardinality({n \in Notes : list[h][n] = "unread"})

-----------------------------------------------------------------------------
\* The shell is mounted and its effect has asked for the list.
Init ==
    /\ rows \in Rows
    /\ list = [h \in Hooks |-> NoRows]
    /\ mounted = {"bell"} /\ error = {}
    /\ LET c == CHOOSE c \in Calls : TRUE IN
       calls = [d \in Calls |-> IF d = c THEN Ask("list", "bell", None) ELSE Idle]

\* What the other handlers do: db.notifications.unshift.
Notify(n) ==
    /\ rows[n] = "none"
    /\ rows' = [rows EXCEPT ![n] = "unread"]
    /\ UNCHANGED <<list, mounted, error, calls>>

\* The page's hook: mount and fetch.
OpenPage(c) ==
    /\ "page" \notin mounted
    /\ Sends(c, "list", "page", None)
    /\ list' = [list EXCEPT !["page"] = NoRows]
    /\ mounted' = mounted \cup {"page"}
    /\ error' = error \ {"page"}
    /\ UNCHANGED rows

\* Fault: the error outlives the page.
LeaveWithError ==
    /\ "page" \in mounted
    /\ mounted' = mounted \ {"page"}
    /\ list' = [list EXCEPT !["page"] = NoRows]
    /\ calls' = [c \in Calls |-> IF calls[c].by = "page" THEN Idle ELSE calls[c]]
    /\ UNCHANGED <<rows, error>>

\* Nobody hears the answers to the page's calls; its writes still arrive.
LeavePage ==
    /\ "page" \in mounted
    /\ mounted' = mounted \ {"page"}
    /\ error' = error \ {"page"}
    /\ list' = [list EXCEPT !["page"] = NoRows]
    /\ calls' = [c \in Calls |->
          IF calls[c].by # "page" THEN calls[c]
          ELSE IF calls[c].kind = "list" \/ calls[c].reply # "awaited" THEN Idle
          ELSE [calls[c] EXCEPT !.heard = FALSE]]
    /\ UNCHANGED rows

\* setInterval, the page's Refresh button, or the effect run again by a
\* refreshUser that has set a new user object.
Refresh(h, c) ==
    /\ h \in mounted
    /\ Sends(c, "list", h, None)
    /\ UNCHANGED <<rows, list, mounted, error>>

\* "Mark read" of a row of the page: flip the row, then ask.
MarkRead(n, c) ==
    /\ "page" \in mounted
    /\ list["page"][n] = "unread"
    /\ list' = [list EXCEPT !["page"][n] = "read"]
    /\ Sends(c, "read", "page", n)
    /\ UNCHANGED <<rows, mounted, error>>

Flipped(l) == [n \in Notes |-> IF l[n] = "none" THEN "none" ELSE "read"]

MarkAllRead(h, c) ==
    /\ h \in mounted /\ unreadCount(h) > 0
    /\ list' = [list EXCEPT ![h] = Flipped(@)]
    /\ Sends(c, "read-all", h, None)
    /\ UNCHANGED <<rows, mounted, error>>

-----------------------------------------------------------------------------
(* The API *)

Awaiting(c, kind) == calls[c].kind = kind /\ calls[c].reply = "awaited"

\* Nothing is done with an answer nobody waits for, or with a write's success.
Reply(c, reply, rs) ==
    calls' = [calls EXCEPT ![c] =
                IF @.heard /\ (@.kind = "list" \/ reply = "failed")
                THEN [@ EXCEPT !.reply = reply, !.rows = rs] ELSE Idle]

\* What was handled may be answered, or the answer may be lost.
ReplyOrLose(c) == Reply(c, "ok", NoRows) \/ Reply(c, "failed", NoRows)

HandleList(c) ==
    /\ Awaiting(c, "list")
    /\ Reply(c, "ok", rows)
    /\ UNCHANGED <<rows, list, mounted, error>>

HandleRead(c) ==
    /\ Awaiting(c, "read")
    /\ rows' = [rows EXCEPT ![calls[c].note] = "read"]
    /\ ReplyOrLose(c)
    /\ UNCHANGED <<list, mounted, error>>

HandleReadAll(c) ==
    /\ Awaiting(c, "read-all")
    /\ rows' = Flipped(rows)
    /\ ReplyOrLose(c)
    /\ UNCHANGED <<list, mounted, error>>

\* The network fails before the call is handled, or it is refused.
LoseCall(c) ==
    /\ calls[c].kind # "idle" /\ calls[c].reply = "awaited"
    /\ Reply(c, "failed", NoRows)
    /\ UNCHANGED <<rows, list, mounted, error>>

-----------------------------------------------------------------------------
(* The hook gets an answer *)

Answered(c) == calls[c].heard /\ calls[c].reply # "awaited"

\* Fault: a load that fails goes unsaid.
GotListQuietly(c) ==
    LET h == calls[c].by IN
    /\ Answered(c) /\ calls[c].kind = "list"
    /\ list' = IF calls[c].reply = "ok" THEN [list EXCEPT ![h] = calls[c].rows] ELSE list
    /\ calls' = [calls EXCEPT ![c] = Idle]
    /\ UNCHANGED <<rows, mounted, error>>

\* Fault: only rows the hook does not hold yet are taken from the answer.
GotListNewOnly(c) ==
    LET h == calls[c].by
        merged == [n \in Notes |-> IF list[h][n] = "none" THEN calls[c].rows[n]
                                   ELSE list[h][n]]
    IN  /\ Answered(c) /\ calls[c].kind = "list"
        /\ IF calls[c].reply = "ok"
           THEN list' = [list EXCEPT ![h] = merged] /\ error' = error \ {h}
           ELSE error' = error \cup {h} /\ UNCHANGED list
        /\ calls' = [calls EXCEPT ![c] = Idle]
        /\ UNCHANGED <<rows, mounted>>

\* refresh: the list is replaced, however old the answer is.
GotList(c) ==
    LET h == calls[c].by IN
    /\ Answered(c) /\ calls[c].kind = "list"
    /\ IF calls[c].reply = "ok"
       THEN list' = [list EXCEPT ![h] = calls[c].rows] /\ error' = error \ {h}
       ELSE error' = error \cup {h} /\ UNCHANGED list
    /\ calls' = [calls EXCEPT ![c] = Idle]
    /\ UNCHANGED <<rows, mounted>>

\* Fault: a failed write is ignored.
MarkForgotten(c) ==
    /\ Answered(c) /\ calls[c].kind \in {"read", "read-all"}
    /\ calls' = [calls EXCEPT ![c] = Idle]
    /\ UNCHANGED <<rows, list, mounted, error>>

\* markRead and markAllRead: a failed write is followed by a refresh.
MarkFailed(c) ==
    /\ Answered(c) /\ calls[c].kind \in {"read", "read-all"}
    /\ calls' = [calls EXCEPT ![c] = Ask("list", calls[c].by, None)]
    /\ UNCHANGED <<rows, list, mounted, error>>

-----------------------------------------------------------------------------
Handle(c) == HandleList(c) \/ HandleRead(c) \/ HandleReadAll(c) \/ LoseCall(c)

Get(c) == GotList(c) \/ MarkFailed(c)

Next ==
    \/ \E n \in Notes : Notify(n)
    \/ LeavePage
    \/ \E c \in Calls :
          \/ OpenPage(c)
          \/ \E h \in Hooks : Refresh(h, c) \/ MarkAllRead(h, c)
          \/ \E n \in Notes : MarkRead(n, c)
          \/ Handle(c) \/ Get(c)

(***************************************************************************)
(* A call is handled or fails and its continuation runs. The interval      *)
(* fires again and again whatever else goes on, so a poll that waits for a *)
(* place among Calls, which the browser does not bound, gets one.          *)
(***************************************************************************)
Fairness ==
    /\ \A c \in Calls : WF_vars(Handle(c)) /\ WF_vars(Get(c))
    /\ SF_vars(\E c \in Calls : Refresh("bell", c))

Spec == Init /\ [][Next]_vars /\ Fairness

-----------------------------------------------------------------------------
TypeOK ==
    /\ rows \in Rows
    /\ list \in [Hooks -> Rows]
    /\ mounted \subseteq Hooks /\ error \subseteq mounted
    /\ calls \in [Calls -> Call]

Asked(h) == \E c \in Calls : calls[c].by = h /\ calls[c].heard

(***************************************************************************)
(* A flip the API has not made is never left standing: while a hook shows  *)
(* as read what is unread, the write or the refresh that repairs it is on  *)
(* its way, or the hook says that it could not load.                       *)
(***************************************************************************)
FlipsAreAccounted ==
    \A h \in mounted, n \in Notes :
        list[h][n] = "read" /\ rows[n] = "unread" => Asked(h) \/ h \in error

(***************************************************************************)
(* What has been notified reaches the bell, or the bell knows that it      *)
(* could not ask: late lists may hide it again but not for good.           *)
(***************************************************************************)
NewsArrive ==
    \A n \in Notes :
        rows[n] # "none" ~> list["bell"][n] # "none" \/ "bell" \in error

(***************************************************************************)
(* Read is for good: once a notification stays read, the bell stops        *)
(* showing it as unread, though a list asked for before and answered after *)
(* may bring the mark back for a while. (Unless its polls keep failing.)   *)
(***************************************************************************)
ReadSticks ==
    \A n \in Notes :
        <>[](rows[n] = "read" /\ "bell" \notin error)
            => <>[](list["bell"][n] # "unread")
=============================================================================
