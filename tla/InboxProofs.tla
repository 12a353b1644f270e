----------------------------- MODULE InboxProofs -----------------------------
(***************************************************************************)
(* Proofs about Inbox, for any sets of notifications and calls: the types, *)
(* and that no flip the API has not made is left standing.                 *)
(***************************************************************************)
EXTENDS Inbox, TLAPS

\* A call that somebody hears was sent by a hook that is still mounted.
Shape == TypeOK /\ \A c \in Calls : calls[c].heard => calls[c].by \in mounted

\* A place among Calls that no call has taken is a call, and so is what a
\* hook sends.
LEMMA AskTyped ==
    /\ Idle \in Call
    /\ \A kind \in {"list", "read", "read-all"}, h \in Hooks, n \in Notes \cup {None} :
          Ask(kind, h, n) \in Call
BY DEF Idle, Ask, Call, Rows, NoRows, Hooks

\* Sending keeps the shape.
LEMMA SendShape ==
    ASSUME Shape, NEW c \in Calls, NEW h \in Hooks, h \in mounted',
           NEW kind \in {"list", "read", "read-all"}, NEW n \in Notes \cup {None},
           Sends(c, kind, h, n), mounted \subseteq mounted'
    PROVE  /\ calls' \in [Calls -> Call]
           /\ \A d \in Calls : calls'[d].heard => calls'[d].by \in mounted'
<1>1. calls' \in [Calls -> Call]
  BY AskTyped DEF Sends, Shape, TypeOK
<1>2. \A d \in Calls : calls'[d] = calls[d] \/ calls'[d] = Ask(kind, h, n)
  BY DEF Sends, Shape, TypeOK
<1>3. Ask(kind, h, n).by = h
  BY DEF Ask, Idle
<1> QED
  BY <1>1, <1>2, <1>3 DEF Shape

\* So does every reply of the API.
LEMMA ReplyShape ==
    ASSUME Shape, NEW c \in Calls, NEW reply \in {"ok", "failed"}, NEW rs \in Rows,
           Reply(c, reply, rs), mounted' = mounted
    PROVE  /\ calls' \in [Calls -> Call]
           /\ \A d \in Calls : calls'[d].heard => calls'[d].by \in mounted'
<1>1. [calls[c] EXCEPT !.reply = reply, !.rows = rs] \in Call
  BY DEF Shape, TypeOK, Call
<1>2. \A d \in Calls : \/ calls'[d] = calls[d] \/ calls'[d] = Idle
                       \/ d = c /\ calls'[d] = [calls[c] EXCEPT !.reply = reply, !.rows = rs]
  BY DEF Reply, Shape, TypeOK
<1>3. calls' \in [Calls -> Call]
  BY <1>1, <1>2, AskTyped DEF Reply, Shape, TypeOK
<1>4. ~Idle.heard
  BY DEF Idle
<1>5. /\ [calls[c] EXCEPT !.reply = reply, !.rows = rs].heard = calls[c].heard
      /\ [calls[c] EXCEPT !.reply = reply, !.rows = rs].by = calls[c].by
  BY DEF Shape, TypeOK, Call
<1> QED
  BY <1>2, <1>3, <1>4, <1>5 DEF Shape

\* The first fetch has the shape.
LEMMA ShapeInit == Init => Shape
<1> SUFFICES ASSUME Init PROVE Shape
  OBVIOUS
<1>1. "bell" \in Hooks /\ NoRows \in Rows
  BY DEF Hooks, Rows, NoRows
<1>2. \A d \in Calls : calls[d] \in {Ask("list", "bell", None), Idle}
  BY DEF Init
<1>3. Ask("list", "bell", None).by = "bell" /\ ~Idle.heard
  BY DEF Ask, Idle
<1>4. calls \in [Calls -> Call]
  BY <1>1, <1>2, AskTyped DEF Init
<1> QED
  BY <1>1, <1>2, <1>3, <1>4 DEF Init, Shape, TypeOK

\* What the hooks and the other handlers do keeps it.
LEMMA ShapeHooks ==
    ASSUME Shape,
           \/ \E n \in Notes : Notify(n)
           \/ LeavePage
           \/ \E c \in Calls :
                 \/ OpenPage(c)
                 \/ \E h \in Hooks : Refresh(h, c) \/ MarkAllRead(h, c)
                 \/ \E n \in Notes : MarkRead(n, c)
    PROVE  Shape'
<1>0. "page" \in Hooks /\ NoRows \in Rows /\ mounted \subseteq Hooks
  BY DEF Shape, TypeOK, Hooks, Rows, NoRows
<1>1. ASSUME NEW n \in Notes, Notify(n) PROVE Shape'
  BY <1>1 DEF Notify, Shape, TypeOK, Rows
<1>2. CASE LeavePage
  <2>1. \A c \in Calls : [calls[c] EXCEPT !.heard = FALSE] \in Call
    BY DEF Shape, TypeOK, Call
  <2>2. calls' \in [Calls -> Call]
    BY <1>2, <2>1, AskTyped DEF LeavePage, Shape, TypeOK
  <2>3. \A c \in Calls : calls'[c].heard => calls'[c] = calls[c] /\ calls[c].by # "page"
    <3>1. \A c \in Calls : ~[calls[c] EXCEPT !.heard = FALSE].heard
      BY DEF Shape, TypeOK, Call
    <3> QED
      BY <1>2, <3>1 DEF LeavePage, Idle
  <2>4. list' \in [Hooks -> Rows] /\ rows' \in Rows
    BY <1>0, <1>2 DEF LeavePage, Shape, TypeOK
  <2>5. mounted' \subseteq Hooks /\ error' \subseteq mounted'
    BY <1>2 DEF LeavePage, Shape, TypeOK
  <2> QED
    BY <1>2, <2>2, <2>3, <2>4, <2>5 DEF LeavePage, Shape, TypeOK
<1>3. ASSUME NEW c \in Calls, OpenPage(c) PROVE Shape'
  <2>1. "page" \in mounted' /\ mounted \subseteq mounted' /\ mounted' \subseteq Hooks
    BY <1>0, <1>3 DEF OpenPage
  <2>2. list' \in [Hooks -> Rows] /\ rows' \in Rows /\ error' \subseteq mounted'
    BY <1>0, <1>3 DEF OpenPage, Shape, TypeOK
  <2> QED
    BY <1>0, <1>3, <2>1, <2>2, SendShape DEF OpenPage, Shape, TypeOK
<1>4. ASSUME NEW c \in Calls, NEW h \in Hooks, Refresh(h, c) PROVE Shape'
  BY <1>4, SendShape DEF Refresh, Shape, TypeOK
<1>5. ASSUME NEW c \in Calls, NEW h \in Hooks, MarkAllRead(h, c) PROVE Shape'
  <2>1. list' \in [Hooks -> Rows]
    BY <1>5 DEF MarkAllRead, Flipped, Shape, TypeOK, Rows
  <2> QED
    BY <1>5, <2>1, SendShape DEF MarkAllRead, Shape, TypeOK
<1>6. ASSUME NEW c \in Calls, NEW n \in Notes, MarkRead(n, c) PROVE Shape'
  <2>1. list' \in [Hooks -> Rows]
    BY <1>6 DEF MarkRead, Shape, TypeOK, Rows
  <2> QED
    BY <1>0, <1>6, <2>1, SendShape DEF MarkRead, Shape, TypeOK
<1> QED
  BY <1>1, <1>2, <1>3, <1>4, <1>5, <1>6

\* So does the API, and so do its answers.
LEMMA ShapeCalls == ASSUME Shape, NEW c \in Calls, Handle(c) \/ Get(c) PROVE Shape'
<1>0. NoRows \in Rows /\ rows \in Rows
  BY DEF Shape, TypeOK, NoRows, Rows
<1>1. CASE HandleList(c)
  BY <1>0, <1>1, ReplyShape DEF HandleList, Shape, TypeOK
<1>2. CASE HandleRead(c)
  <2>1. rows' \in Rows
    BY <1>0, <1>2 DEF HandleRead, Rows
  <2> QED
    BY <1>0, <1>2, <2>1, ReplyShape DEF HandleRead, ReplyOrLose, Shape, TypeOK
<1>3. CASE HandleReadAll(c)
  <2>1. rows' \in Rows
    BY <1>0, <1>3 DEF HandleReadAll, Flipped, Rows
  <2> QED
    BY <1>0, <1>3, <2>1, ReplyShape DEF HandleReadAll, ReplyOrLose, Shape, TypeOK
<1>4. CASE LoseCall(c)
  BY <1>0, <1>4, ReplyShape DEF LoseCall, Shape, TypeOK
<1>5. ASSUME Answered(c) PROVE calls[c].by \in mounted /\ calls[c].by \in Hooks
  BY <1>5 DEF Answered, Shape, TypeOK
<1>6. CASE GotList(c)
  <2>1. calls[c].by \in mounted /\ calls[c].by \in Hooks
    BY <1>5, <1>6 DEF GotList
  <2>2. list' \in [Hooks -> Rows] /\ error' \subseteq mounted
    BY <1>6, <2>1 DEF GotList, Shape, TypeOK, Call
  <2>3. calls' \in [Calls -> Call] /\ \A d \in Calls : calls'[d] \in {calls[d], Idle}
    BY <1>6, AskTyped DEF GotList, Shape, TypeOK
  <2>4. ~Idle.heard
    BY DEF Idle
  <2> QED
    BY <1>6, <2>2, <2>3, <2>4 DEF GotList, Shape, TypeOK
<1>7. CASE MarkFailed(c)
  <2> DEFINE again == Ask("list", calls[c].by, None)
  <2>1. calls[c].by \in mounted /\ calls[c].by \in Hooks
    BY <1>5, <1>7 DEF MarkFailed
  <2>2. again \in Call /\ again.by = calls[c].by
    BY <2>1, AskTyped DEF Ask, Idle
  <2>3. calls' \in [Calls -> Call] /\ \A d \in Calls : calls'[d] = calls[d] \/ calls'[d] = again
    BY <1>7, <2>2 DEF MarkFailed, Shape, TypeOK
  <2>4. \A d \in Calls : calls'[d].heard => calls'[d].by \in mounted
    BY <2>1, <2>2, <2>3 DEF Shape
  <2> QED
    BY <1>7, <2>3, <2>4 DEF MarkFailed, Shape, TypeOK
<1> QED
  BY <1>1, <1>2, <1>3, <1>4, <1>6, <1>7 DEF Handle, Get

LEMMA ShapeStep == Shape /\ [Next]_vars => Shape'
<1>1. Shape /\ UNCHANGED vars => Shape'
  BY DEF Shape, TypeOK, vars
<1>2. Shape /\ Next => Shape'
  <2> SUFFICES ASSUME Shape, Next PROVE Shape'
    OBVIOUS
  <2>1. CASE \E c \in Calls : Handle(c) \/ Get(c)
    BY <2>1, ShapeCalls
  <2> QED
    BY <2>1, ShapeHooks DEF Next
<1> QED
  BY <1>1, <1>2

\* Rows, lists, hooks and calls keep their types, and only a hook that is
\* mounted shows an error.
THEOREM ShapeCorrect == Spec => []TypeOK
<1>1. Spec => []Shape
  BY ShapeInit, ShapeStep, PTL DEF Spec
<1>2. Shape => TypeOK
  BY DEF Shape
<1> QED
  BY <1>1, <1>2, PTL

(***************************************************************************)
(* FlipsAreAccounted is not inductive: of two flips that are on their way, *)
(* one may be made and the other fail. Each flip has a call of its own, or *)
(* a list that will show the row as it is; and what has been listed exists,*)
(* so that a row cannot arrive unread under a flip.                        *)
(***************************************************************************)
Repairs(call, h, n) ==
    /\ call.by = h /\ call.heard
    /\ call.kind \in {"list", "read-all"} \/ (call.kind = "read" /\ call.note = n)

Accounted ==
    \A h \in mounted, n \in Notes :
        list[h][n] = "read" /\ rows[n] = "unread" =>
            (\E c \in Calls : Repairs(calls[c], h, n)) \/ h \in error

Listed ==
    \A n \in Notes :
        /\ \A h \in Hooks : list[h][n] # "none" => rows[n] # "none"
        /\ \A c \in Calls : /\ calls[c].rows[n] # "none" => rows[n] # "none"
                            /\ calls[c].rows[n] = "read" => rows[n] = "read"

Flips == Shape /\ Accounted /\ Listed

\* What no step does to a notification.
Onward ==
    \A n \in Notes : /\ rows[n] # "none" => rows'[n] # "none"
                     /\ rows[n] = "read" => rows'[n] = "read"

\* A step that keeps the hooks' lists, or empties one, and takes no call
\* away that repairs what is still unread keeps all flips accounted for.
LEMMA Kept ==
    ASSUME Flips, Onward, \A n \in Notes : rows'[n] = "unread" => rows[n] \in {"none", "unread"},
           error \cap mounted' \subseteq error',
           \A h \in mounted', n \in Notes : list'[h][n] = "read" => h \in mounted /\ list'[h] = list[h],
           \A h \in mounted', n \in Notes, c \in Calls :
              Repairs(calls[c], h, n) /\ rows'[n] = "unread" =>
                  \E d \in Calls : Repairs(calls'[d], h, n)
    PROVE  Accounted'
<1> SUFFICES ASSUME NEW h \in mounted', NEW n \in Notes, list'[h][n] = "read", rows'[n] = "unread",
                    h \notin error'
             PROVE  \E c \in Calls : Repairs(calls'[c], h, n)
  BY DEF Accounted
<1>1. h \in mounted /\ list[h][n] = "read" /\ h \in Hooks
  BY DEF Flips, Shape, TypeOK
<1>2. rows[n] = "unread"
  BY <1>1 DEF Flips, Listed
<1>3. PICK c \in Calls : Repairs(calls[c], h, n)
  BY <1>1, <1>2 DEF Flips, Accounted
<1> QED
  BY <1>3

\* Sending takes no call away.
LEMMA SendKeeps ==
    ASSUME Shape, NEW c \in Calls, NEW kind, NEW h, NEW n, Sends(c, kind, h, n)
    PROVE  /\ \A d \in Calls : \A g, m : Repairs(calls[d], g, m) => Repairs(calls'[d], g, m)
           /\ \A d \in Calls : calls'[d].rows = calls[d].rows \/ calls'[d].rows = NoRows
           /\ calls'[c] = Ask(kind, h, n)
<1>1. /\ \A d \in Calls : d # c => calls'[d] = calls[d]
      /\ calls[c] = Idle /\ calls'[c] = Ask(kind, h, n)
  BY DEF Sends, Shape, TypeOK
<1>2. ~Idle.heard /\ Ask(kind, h, n).rows = NoRows
  BY DEF Idle, Ask
<1> QED
  BY <1>1, <1>2 DEF Repairs

\* A call that sends for the list, or marks all, repairs every row of its hook.
LEMMA AskRepairs ==
    /\ \A h, m, n : Repairs(Ask("list", h, m), h, n) /\ Repairs(Ask("read-all", h, m), h, n)
    /\ \A h, n : Repairs(Ask("read", h, n), h, n)
    /\ \A h, m, kind : Ask(kind, h, m).rows = NoRows
BY DEF Repairs, Ask, Idle

LEMMA FlipsInit == Init => Flips
<1> SUFFICES ASSUME Init PROVE Flips
  OBVIOUS
<1>1. \A d \in Calls : calls[d].rows = NoRows
  <2>1. \A d \in Calls : calls[d] \in {Ask("list", "bell", None), Idle}
    BY DEF Init
  <2> QED
    BY <2>1, AskRepairs DEF Idle
<1>2. Accounted /\ Listed
  BY <1>1 DEF Init, Accounted, Listed, NoRows, Hooks
<1> QED
  BY <1>2, ShapeInit DEF Flips

\* The hooks and the other handlers.
LEMMA FlipsHooks ==
    ASSUME Flips,
           \/ \E n \in Notes : Notify(n)
           \/ LeavePage
           \/ \E c \in Calls :
                 \/ OpenPage(c)
                 \/ \E h \in Hooks : Refresh(h, c) \/ MarkAllRead(h, c)
                 \/ \E n \in Notes : MarkRead(n, c)
    PROVE  Accounted' /\ Listed'
<1> USE DEF Flips
<1>0. /\ "page" \in Hooks /\ NoRows \in Rows /\ mounted \subseteq Hooks /\ list \in [Hooks -> Rows]
      /\ rows \in Rows /\ error \subseteq mounted /\ \A n \in Notes : NoRows[n] = "none"
  BY DEF Shape, TypeOK, Hooks, Rows, NoRows
<1>1. ASSUME NEW n \in Notes, Notify(n) PROVE Accounted' /\ Listed'
  <2>1. Onward /\ \A m \in Notes : rows'[m] = "unread" => rows[m] \in {"none", "unread"}
    BY <1>0, <1>1 DEF Notify, Onward, Rows
  <2>2. list' = list /\ mounted' = mounted /\ error' = error /\ calls' = calls
    BY <1>1 DEF Notify
  <2>3. Accounted'
    BY <2>1, <2>2, Kept
  <2>4. Listed'
    BY <2>1, <2>2 DEF Onward, Listed
  <2> QED
    BY <2>3, <2>4
<1>2. CASE LeavePage
  <2>1. Onward /\ rows' = rows /\ mounted' = mounted \ {"page"} /\ error' = error \ {"page"}
    BY <1>2 DEF LeavePage, Onward
  <2>2. list'["page"] = NoRows /\ \A h \in Hooks : h # "page" => list'[h] = list[h]
    BY <1>0, <1>2 DEF LeavePage
  <2>3. \A c \in Calls : /\ calls[c].by # "page" => calls'[c] = calls[c]
                         /\ calls'[c].rows = calls[c].rows \/ calls'[c].rows = NoRows
    <3>1. \A c \in Calls : [calls[c] EXCEPT !.heard = FALSE].rows = calls[c].rows
      BY DEF Shape, TypeOK, Call
    <3> QED
      BY <1>2, <3>1 DEF LeavePage, Idle
  <2>4. \A h \in mounted', n \in Notes, c \in Calls :
           Repairs(calls[c], h, n) => Repairs(calls'[c], h, n)
    BY <2>1, <2>3 DEF Repairs
  <2>5. \A h \in mounted' : h \in mounted /\ list'[h] = list[h]
    BY <1>0, <2>1, <2>2
  <2>6. Accounted'
    BY <2>1, <2>4, <2>5, Kept
  <2>7. Listed'
    BY <1>0, <2>1, <2>2, <2>3 DEF Listed
  <2> QED
    BY <2>6, <2>7
<1>3. ASSUME NEW c \in Calls, OpenPage(c) PROVE Accounted' /\ Listed'
  <2>1. Onward /\ rows' = rows /\ mounted' = mounted \cup {"page"}
    BY <1>3 DEF OpenPage, Onward
  <2>2. list'["page"] = NoRows /\ \A h \in Hooks : h # "page" => list'[h] = list[h]
    BY <1>0, <1>3 DEF OpenPage
  <2>3. Sends(c, "list", "page", None) /\ error' = error \ {"page"} /\ "page" \notin mounted
    BY <1>3 DEF OpenPage
  <2>4. error \cap mounted' \subseteq error'
    BY <1>0, <2>3
  <2>5. \A h \in mounted', n \in Notes : list'[h][n] = "read" => h \in mounted /\ list'[h] = list[h]
    BY <1>0, <2>1, <2>2
  <2>6. Accounted'
    BY <2>1, <2>3, <2>4, <2>5, SendKeeps, Kept
  <2>7. Listed'
    BY <1>0, <2>1, <2>2, <2>3, SendKeeps DEF Listed
  <2> QED
    BY <2>6, <2>7
<1>4. ASSUME NEW c \in Calls, NEW h \in Hooks, Refresh(h, c) PROVE Accounted' /\ Listed'
  <2>1. /\ Onward /\ rows' = rows /\ mounted' = mounted /\ list' = list /\ error' = error
        /\ Sends(c, "list", h, None)
    BY <1>4 DEF Refresh, Onward
  <2>2. Accounted'
    BY <2>1, SendKeeps, Kept
  <2>3. Listed'
    BY <1>0, <2>1, SendKeeps DEF Listed
  <2> QED
    BY <2>2, <2>3
<1>5. ASSUME NEW c \in Calls, NEW h \in Hooks, NEW m \in Notes \cup {None},
             NEW kind \in {"read", "read-all"}, Sends(c, kind, h, m),
             rows' = rows, mounted' = mounted, error' = error, list' \in [Hooks -> Rows],
             \A g \in Hooks : g # h => list'[g] = list[g],
             \A n \in Notes : /\ list'[h][n] # "none" => list[h][n] # "none"
                              /\ list'[h][n] = list[h][n] \/ kind = "read-all" \/ n = m
      PROVE  Accounted' /\ Listed'
  <2>1. Listed'
    BY <1>0, <1>5, SendKeeps DEF Listed
  <2>2. ASSUME NEW g \in mounted, NEW n \in Notes, list'[g][n] = "read", rows[n] = "unread",
               g \notin error
        PROVE  \E d \in Calls : Repairs(calls'[d], g, n)
    <3>1. CASE list'[g][n] = list[g][n]
      <4>1. PICK d \in Calls : Repairs(calls[d], g, n)
        BY <2>2, <3>1 DEF Accounted
      <4> QED
        BY <1>5, <4>1, SendKeeps
    <3>2. CASE g = h /\ (kind = "read-all" \/ n = m)
      BY <1>5, <3>2, SendKeeps, AskRepairs
    <3> QED
      BY <1>0, <1>5, <3>1, <3>2
  <2>3. Accounted'
    BY <1>5, <2>2 DEF Accounted
  <2> QED
    BY <2>1, <2>3
<1>6. ASSUME NEW c \in Calls, NEW h \in Hooks, MarkAllRead(h, c) PROVE Accounted' /\ Listed'
  <2>1. /\ list' \in [Hooks -> Rows] /\ \A g \in Hooks : g # h => list'[g] = list[g]
        /\ \A n \in Notes : list'[h][n] # "none" => list[h][n] # "none"
    BY <1>0, <1>6 DEF MarkAllRead, Flipped, Rows
  <2>2. /\ Sends(c, "read-all", h, None) /\ rows' = rows /\ mounted' = mounted /\ error' = error
    BY <1>6 DEF MarkAllRead
  <2> QED
    BY <1>5, <2>1, <2>2
<1>7. ASSUME NEW c \in Calls, NEW m \in Notes, MarkRead(m, c) PROVE Accounted' /\ Listed'
  <2>1. /\ list' \in [Hooks -> Rows] /\ \A g \in Hooks : g # "page" => list'[g] = list[g]
        /\ \A n \in Notes : /\ list'["page"][n] # "none" => list["page"][n] # "none"
                            /\ n # m => list'["page"][n] = list["page"][n]
    BY <1>0, <1>7 DEF MarkRead, Rows
  <2>2. /\ Sends(c, "read", "page", m) /\ rows' = rows /\ mounted' = mounted /\ error' = error
    BY <1>7 DEF MarkRead
  <2> QED
    BY <1>0, <1>5, <2>1, <2>2
<1> QED
  BY <1>1, <1>2, <1>3, <1>4, <1>6, <1>7

\* The API: a reply takes a call away only when what it was to repair is
\* read, or somebody is told that it failed.
LEMMA FlipsHandle == ASSUME Flips, NEW c \in Calls, Handle(c) PROVE Accounted' /\ Listed'
<1> USE DEF Flips
<1>0. /\ NoRows \in Rows /\ rows \in Rows /\ calls[c] \in Call
      /\ \A n \in Notes : NoRows[n] = "none"
  BY DEF Shape, TypeOK, NoRows, Rows
<1>1. ASSUME NEW reply \in {"ok", "failed"}, NEW rs \in Rows, Reply(c, reply, rs), Onward,
             \A n \in Notes : rows'[n] = "unread" => rows[n] \in {"none", "unread"},
             UNCHANGED <<list, mounted, error>>,
             \A n \in Notes : (rs[n] # "none" => rs[n] = rows[n]),
             reply = "ok" /\ calls[c].kind # "list" =>
                \A n \in Notes : /\ calls[c].kind = "read-all" => rows'[n] # "unread"
                                 /\ calls[c].note = n => rows'[n] # "unread"
      PROVE  Accounted' /\ Listed'
  <2> DEFINE answered == [calls[c] EXCEPT !.reply = reply, !.rows = rs]
  <2>1. /\ answered.kind = calls[c].kind /\ answered.by = calls[c].by
        /\ answered.note = calls[c].note /\ answered.heard = calls[c].heard /\ answered.rows = rs
    BY <1>0 DEF Call
  <2>2. /\ \A d \in Calls : d # c => calls'[d] = calls[d]
        /\ calls[c].heard /\ (calls[c].kind = "list" \/ reply = "failed") => calls'[c] = answered
        /\ calls'[c] = answered \/ calls'[c] = Idle
    BY <1>1 DEF Reply, Shape, TypeOK
  <2>3. Idle.rows = NoRows
    BY DEF Idle
  <2>4. ASSUME NEW h, NEW n \in Notes, NEW d \in Calls, Repairs(calls[d], h, n), rows'[n] = "unread"
        PROVE  Repairs(calls'[d], h, n)
    <3>1. CASE d # c
      BY <2>2, <2>4, <3>1
    <3>2. CASE d = c
      <4>1. calls[c].kind = "list" \/ reply = "failed"
        BY <1>1, <2>4, <3>2 DEF Repairs
      <4> QED
        BY <2>1, <2>2, <2>4, <3>2, <4>1 DEF Repairs
    <3> QED
      BY <3>1, <3>2
  <2> HIDE DEF answered
  <2>5. Accounted'
    BY <1>1, <2>4, Kept
  <2>6. Listed'
    BY <1>0, <1>1, <2>1, <2>2, <2>3 DEF Listed, Onward
  <2> QED
    BY <2>5, <2>6
<1>2. UNCHANGED rows => Onward /\ \A n \in Notes : rows'[n] = "unread" => rows[n] \in {"none", "unread"}
  BY DEF Onward
<1>3. CASE HandleList(c)
  BY <1>0, <1>1, <1>2, <1>3 DEF HandleList, Awaiting
<1>4. CASE HandleRead(c)
  <2>1. Onward /\ \A n \in Notes : rows'[n] = "unread" => rows[n] \in {"none", "unread"}
    BY <1>0, <1>4 DEF HandleRead, Onward, Rows
  <2>2. \A n \in Notes : calls[c].note = n => rows'[n] # "unread"
    BY <1>0, <1>4 DEF HandleRead, Rows
  <2> QED
    BY <1>0, <1>1, <1>4, <2>1, <2>2 DEF HandleRead, Awaiting, ReplyOrLose
<1>5. CASE HandleReadAll(c)
  <2>1. \A n \in Notes : rows'[n] # "unread"
    BY <1>5 DEF HandleReadAll, Flipped
  <2>2. Onward
    BY <1>5 DEF HandleReadAll, Flipped, Onward
  <2> QED
    BY <1>0, <1>1, <1>5, <2>1, <2>2 DEF HandleReadAll, ReplyOrLose
<1>6. CASE LoseCall(c)
  BY <1>0, <1>1, <1>2, <1>6 DEF LoseCall
<1> QED
  BY <1>3, <1>4, <1>5, <1>6 DEF Handle

\* The hooks' answers: a list shows what is read and nothing else, a failed
\* write asks for one.
LEMMA FlipsGet == ASSUME Flips, NEW c \in Calls, Get(c) PROVE Accounted' /\ Listed'
<1> USE DEF Flips
<1> DEFINE h == calls[c].by
<1>0. /\ calls[c] \in Call /\ rows' = rows /\ mounted' = mounted /\ Answered(c)
      /\ h \in mounted /\ h \in Hooks
  BY DEF Get, GotList, MarkFailed, Answered, Shape, TypeOK
<1>1. \A n \in Notes : NoRows[n] = "none"
  BY DEF NoRows
<1>2. CASE GotList(c)
  <2>1. /\ \A d \in Calls : d # c => calls'[d] = calls[d]
        /\ calls'[c] = Idle /\ calls[c].kind = "list"
    BY <1>2 DEF GotList, Shape, TypeOK
  <2>2. /\ \A g \in Hooks : g # h => list'[g] = list[g]
        /\ \A g \in Hooks : g # h /\ g \in error => g \in error'
        /\ \/ list'[h] = calls[c].rows
           \/ list'[h] = list[h] /\ h \in error'
    BY <1>0, <1>2 DEF GotList, Shape, TypeOK
  <2>3. Listed'
    BY <1>0, <1>1, <2>1, <2>2 DEF Listed, Idle
  <2>4. ASSUME NEW g \in mounted, NEW n \in Notes, list'[g][n] = "read", rows[n] = "unread",
               g \notin error'
        PROVE  \E d \in Calls : Repairs(calls'[d], g, n)
    <3>1. g \in Hooks
      BY <2>4 DEF Shape, TypeOK
    <3>2. g # h
      BY <2>2, <2>4 DEF Listed
    <3>3. PICK d \in Calls : Repairs(calls[d], g, n)
      BY <2>2, <2>4, <3>1, <3>2 DEF Accounted
    <3> QED
      BY <2>1, <3>2, <3>3 DEF Repairs
  <2>5. Accounted'
    BY <1>0, <2>4 DEF Accounted
  <2> QED
    BY <2>3, <2>5
<1>3. CASE MarkFailed(c)
  <2>1. /\ \A d \in Calls : d # c => calls'[d] = calls[d]
        /\ calls'[c] = Ask("list", h, None) /\ list' = list /\ error' = error
    BY <1>3 DEF MarkFailed, Shape, TypeOK
  <2>2. \A d \in Calls : \A g, n : Repairs(calls[d], g, n) => Repairs(calls'[d], g, n)
    <3>1. \A g, n : Repairs(calls[c], g, n) => g = h
      BY DEF Repairs
    <3> QED
      BY <2>1, <3>1, AskRepairs
  <2>3. Listed'
    BY <1>0, <1>1, <2>1, AskRepairs DEF Listed
  <2>4. rows' = rows /\ mounted' = mounted
    BY <1>0
  <2>5. Accounted'
    BY <2>1, <2>2, <2>4, Kept DEF Onward
  <2> QED
    BY <2>3, <2>5
<1> QED
  BY <1>2, <1>3 DEF Get

LEMMA FlipsStep == Flips /\ [Next]_vars => Flips'
<1> SUFFICES ASSUME Flips, [Next]_vars PROVE Accounted' /\ Listed'
  BY ShapeStep DEF Flips
<1>1. CASE UNCHANGED vars
  BY <1>1 DEF vars, Flips, Accounted, Listed
<1>2. CASE \E c \in Calls : Handle(c) \/ Get(c)
  BY <1>2, FlipsHandle, FlipsGet
<1> QED
  BY <1>1, <1>2, FlipsHooks DEF Next

\* A flip the API has not made is repaired, or the hook says that it could
\* not load, for any number of notifications and calls in any order.
THEOREM FlipsCorrect == Spec => []FlipsAreAccounted
<1>1. Spec => []Flips
  BY FlipsInit, FlipsStep, PTL DEF Spec
<1>2. Flips => FlipsAreAccounted
  BY DEF Flips, Accounted, FlipsAreAccounted, Repairs, Asked
<1> QED
  BY <1>1, <1>2, PTL
=============================================================================
