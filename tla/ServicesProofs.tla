--------------------------- MODULE ServicesProofs ---------------------------
(***************************************************************************)
(* Proofs about Services, for any sets of sessions, bills, tickets and     *)
(* users and any size of the pool: the types and the pool's limit, what    *)
(* commits keep, and when notifications tell the truth.                    *)
(***************************************************************************)
EXTENDS Services, FiniteSetTheorems, TLAPS

-----------------------------------------------------------------------------
(* Calls and rows *)

LEMMA CallIs ==
    ASSUME NEW c \in Call
    PROVE  /\ c.key \in Keys /\ c.key # Null /\ c # NoCall /\ c.op # "none"
           /\ \/ c.key \in Bills /\ c.key \notin Tickets /\ c.op \in BillOps
              \/ c.key \in Tickets /\ c.key \notin Bills /\ c.op \in TicketOps
           /\ c.op = "mark_overdue" => c.arg \in Fees
           /\ c.op = "assign" => c.arg \in Users
BY KeysAssumption DEF Call, Keys, BillOps, TicketOps, NoCall

\* Bills and tickets do not mix.
LEMMA RowIs ==
    ASSUME NEW k \in Keys, NEW row \in RowOf(k), row # Null
    PROVE  /\ k \in Bills => row \in Bill
           /\ k \notin Bills => row \in Ticket
           /\ row \in Bill \cup Ticket
BY DEF RowOf

LEMMA FinalIs ==
    /\ DOMAIN Final = {"paid", "completed"}
    /\ Final["paid"] = {"PAID"} /\ Final["completed"] = {"COMPLETED", "CLOSED"}
BY DEF Final

LEMMA NewTyped ==
    ASSUME NEW c \in Call, c.op \in {"bill", "request"}
    PROVE  /\ New(c) \in RowOf(c.key) /\ New(c) # Null /\ New(c) \in Bill \cup Ticket
           /\ \A e \in DOMAIN Final : New(c).status \notin Final[e]
<1>1. CASE c.op = "bill"
  <2>1. New(c) = [status |-> "PENDING", dated |-> FALSE, fee |-> 0] /\ c.key \in Bills
    BY <1>1, CallIs DEF New, TicketOps
  <2>2. New(c) \in Bill
    BY <2>1, BoundsAssumption DEF Bill, PaymentStatus
  <2>3. New(c) \in RowOf(c.key) /\ New(c) # Null
    BY <2>1, <2>2, KeysAssumption DEF RowOf
  <2> QED
    BY <2>1, <2>2, <2>3, FinalIs
<1>2. CASE c.op = "request"
  <2>1. /\ New(c) = [status |-> "SUBMITTED", assignee |-> Null, escalated |-> FALSE]
        /\ c.key \notin Bills
    BY <1>2, CallIs DEF New, BillOps
  <2>2. New(c) \in Ticket
    BY <2>1 DEF Ticket, MaintenanceStatus
  <2>3. New(c) \in RowOf(c.key) /\ New(c) # Null
    BY <2>1, <2>2, KeysAssumption DEF RowOf
  <2> QED
    BY <2>1, <2>2, <2>3, FinalIs
<1> QED
  BY <1>1, <1>2

\* The ORM's UPDATE column by column.
LEMMA Merged ==
    ASSUME NEW k \in Keys, NEW new \in RowOf(k), NEW old \in RowOf(k), NEW current \in RowOf(k),
           new # Null, old # Null, current # Null
    PROVE  LET row == Changed(new, old, current) IN
           /\ row \in RowOf(k) /\ row # Null
           /\ row.status = IF new.status # old.status THEN new.status ELSE current.status
           /\ k \in Bills =>
                 row.dated = IF new.dated # old.dated THEN new.dated ELSE current.dated
           /\ k \notin Bills =>
                 /\ row.assignee = IF new.assignee # old.assignee THEN new.assignee
                                                                 ELSE current.assignee
                 /\ row.escalated = IF new.escalated # old.escalated THEN new.escalated
                                                                    ELSE current.escalated
<1> DEFINE row == Changed(new, old, current)
<1>1. CASE k \in Bills
  <2>1. new \in Bill /\ old \in Bill /\ current \in Bill
    BY <1>1, RowIs
  <2>2. row = [status |-> IF new.status # old.status THEN new.status ELSE current.status,
               dated |-> IF new.dated # old.dated THEN new.dated ELSE current.dated,
               fee |-> IF new.fee # old.fee THEN new.fee ELSE current.fee]
    BY <2>1 DEF Changed, Bill
  <2>3. row \in Bill
    BY <2>1, <2>2 DEF Bill
  <2> QED
    BY <1>1, <2>2, <2>3, KeysAssumption DEF RowOf
<1>2. CASE k \notin Bills
  <2>1. new \in Ticket /\ old \in Ticket /\ current \in Ticket
    BY <1>2, RowIs
  <2>2. row = [status |-> IF new.status # old.status THEN new.status ELSE current.status,
               assignee |-> IF new.assignee # old.assignee THEN new.assignee
                                                           ELSE current.assignee,
               escalated |-> IF new.escalated # old.escalated THEN new.escalated
                                                              ELSE current.escalated]
    BY <2>1 DEF Changed, Ticket
  <2>3. row \in Ticket
    BY <2>1, <2>2 DEF Ticket
  <2> QED
    BY <1>2, <2>2, <2>3, KeysAssumption DEF RowOf
<1> QED
  BY <1>1, <1>2

\* What the tests have established of the row a call read.
Ready(c, row) ==
    /\ c.op \in {"process", "mark_paid", "mark_partial", "mark_overdue"} => row.status # "PAID"
    /\ c.op \in {"assign", "escalate", "cancel"} => row.status \notin Terminal
    /\ c.op = "start" => row.status = "ASSIGNED"
    /\ c.op = "complete" => row.status = "IN_PROGRESS"
    /\ c.op = "close" => row.status = "COMPLETED"

\* What a service assigns: it dates, holds and escalates and never undoes
\* that; the status moves as the tests allow.
LEMMA Effect ==
    ASSUME NEW c \in Call, c.op \notin {"bill", "request"},
           NEW row \in RowOf(c.key), row # Null
    PROVE  LET new == Assigned(c, row) IN
           /\ new \in RowOf(c.key) /\ new # Null
           /\ c.key \in Bills => new.dated = row.dated \/ new.dated
           /\ c.key \notin Bills => /\ new.assignee = row.assignee \/ new.assignee # Null
                                    /\ new.escalated = row.escalated \/ new.escalated
           /\ Ready(c, row) => \/ new.status = row.status
                               \/ <<row.status, new.status>> \in Moves
<1> DEFINE new == Assigned(c, row)
<1>1. CASE c.key \in Bills
  <2>1. /\ row \in Bill /\ c.op \in {"process", "mark_paid", "mark_partial", "mark_overdue"}
        /\ c.op = "mark_overdue" => c.arg \in Fees
    BY <1>1, RowIs, CallIs DEF BillOps
  <2>2. CASE c.op \in {"process", "mark_paid"}
    <3>1. new = [row EXCEPT !.status = "PAID", !.dated = TRUE]
      BY <2>2 DEF Assigned
    <3>2. new \in Bill /\ new.status = "PAID" /\ new.dated
      BY <2>1, <3>1 DEF Bill, PaymentStatus
    <3>3. Ready(c, row) => row.status \in PaymentStatus \ {"PAID"}
      BY <2>1, <2>2 DEF Ready, Bill
    <3> QED
      BY <1>1, <3>2, <3>3, KeysAssumption DEF RowOf, Moves, PaymentStatus
  <2>3. CASE c.op = "mark_partial"
    <3>1. new = [row EXCEPT !.status = "PARTIAL", !.dated = TRUE]
      BY <2>3 DEF Assigned
    <3>2. new \in Bill /\ new.status = "PARTIAL" /\ new.dated
      BY <2>1, <3>1 DEF Bill, PaymentStatus
    <3>3. Ready(c, row) => row.status \in PaymentStatus \ {"PAID"}
      BY <2>1, <2>3 DEF Ready, Bill
    <3> QED
      BY <1>1, <3>2, <3>3, KeysAssumption DEF RowOf, Moves, PaymentStatus
  <2>4. CASE c.op = "mark_overdue"
    <3>1. new = [row EXCEPT !.status = "OVERDUE", !.fee = c.arg]
      BY <2>4 DEF Assigned
    <3>2. new \in Bill /\ new.status = "OVERDUE" /\ new.dated = row.dated
      BY <2>1, <2>4, <3>1 DEF Bill, PaymentStatus
    <3>3. Ready(c, row) => row.status \in PaymentStatus \ {"PAID"}
      BY <2>1, <2>4 DEF Ready, Bill
    <3> QED
      BY <1>1, <3>2, <3>3, KeysAssumption DEF RowOf, Moves, PaymentStatus
  <2> QED
    BY <2>1, <2>2, <2>3, <2>4
<1>2. CASE c.key \notin Bills
  <2>1. /\ row \in Ticket
        /\ c.op \in {"assign", "start", "complete", "close", "cancel", "escalate"}
        /\ c.op = "assign" => c.arg \in Users
    BY <1>2, RowIs, CallIs DEF TicketOps
  <2>2. ASSUME new \in Ticket,
               new.assignee = row.assignee \/ new.assignee # Null,
               new.escalated = row.escalated \/ new.escalated,
               Ready(c, row) => new.status = row.status \/ <<row.status, new.status>> \in Moves
        PROVE  /\ new \in RowOf(c.key) /\ new # Null
               /\ c.key \in Bills => new.dated = row.dated \/ new.dated
               /\ c.key \notin Bills => /\ new.assignee = row.assignee \/ new.assignee # Null
                                        /\ new.escalated = row.escalated \/ new.escalated
               /\ Ready(c, row) => \/ new.status = row.status
                                   \/ <<row.status, new.status>> \in Moves
    <3> QED
      BY <1>2, <2>2, KeysAssumption DEF RowOf
  <2>3. CASE c.op = "assign"
    <3>1. new = [row EXCEPT !.status = "ASSIGNED", !.assignee = c.arg]
      BY <2>3 DEF Assigned
    <3>2. /\ new \in Ticket /\ new.status = "ASSIGNED" /\ new.assignee # Null
          /\ new.escalated = row.escalated
      BY <2>1, <2>3, <3>1, KeysAssumption DEF Ticket, MaintenanceStatus
    <3>3. Ready(c, row) => row.status \in MaintenanceStatus \ Terminal
      BY <2>1, <2>3 DEF Ready, Ticket
    <3>4. Ready(c, row) => <<row.status, new.status>> \in Moves
      BY <3>2, <3>3 DEF Moves
    <3> QED
      BY <2>2, <3>2, <3>4
  <2>4. CASE c.op \in {"start", "complete", "close", "cancel"}
    <3> DEFINE to == IF c.op = "start" THEN "IN_PROGRESS" ELSE IF c.op = "complete" THEN "COMPLETED"
                     ELSE IF c.op = "close" THEN "CLOSED" ELSE "CANCELLED"
    <3>1. new = [row EXCEPT !.status = to]
      BY <2>4 DEF Assigned
    <3>2. /\ new \in Ticket /\ new.status = to /\ new.assignee = row.assignee
          /\ new.escalated = row.escalated
      BY <2>1, <3>1 DEF Ticket, MaintenanceStatus
    <3>3. Ready(c, row) => <<row.status, to>> \in Moves
      BY <2>1, <2>4 DEF Ready, Ticket, Moves
    <3> QED
      BY <2>2, <3>2, <3>3
  <2>5. CASE c.op = "escalate"
    <3>1. new = [row EXCEPT !.escalated = TRUE]
      BY <2>5 DEF Assigned
    <3>2. /\ new \in Ticket /\ new.status = row.status /\ new.assignee = row.assignee
          /\ new.escalated
      BY <2>1, <3>1 DEF Ticket
    <3> QED
      BY <2>2, <3>2
  <2> QED
    BY <2>1, <2>3, <2>4, <2>5
<1> QED
  BY <1>1, <1>2

-----------------------------------------------------------------------------
(* Types. A session that writes has read a row that its tests let through; *)
(* what it is about to commit is the row as it was at its UPDATE, with the *)
(* columns it assigned, and it is still the only writer of the row.        *)

Inserted(s) ==
    /\ call[s].op \in {"bill", "request"} /\ pc[s] # "flush" /\ ~overtaken[s]
    /\ wr[s] = New(call[s]) /\ rows[call[s].key] = Null
    /\ \A o \in Sessions : o # s => call[o].key # call[s].key

Updating(s) ==
    /\ call[s].op \notin {"bill", "request"} /\ Ready(call[s], copy[s])
    /\ rows[call[s].key] # Null
    /\ ~overtaken[s] => rows[call[s].key] = copy[s]
    /\ pc[s] = "flush" => wr[s] = Null
    /\ wr[s] # Null =>
          wr[s] = Changed(Assigned(call[s], copy[s]), copy[s], rows[call[s].key])
    /\ pc[s] # "flush" /\ wr[s] = Null => call[s].op = "mark_overdue"

\* What a session knows at each statement.
Waits(s) == pc[s] \in {"idle", "connect", "read"} /\ call[s] = NoCall
                /\ copy[s] = Null /\ wr[s] = Null /\ ~overtaken[s]

Serves(s) ==
    /\ pc[s] \in {"flush", "publish", "await", "save", "commit"} /\ call[s] \in Call
    /\ copy[s] # Null /\ copy[s] \in RowOf(call[s].key)
    /\ pc[s] \in {"await", "save"} => call[s].op \in DOMAIN Event
    /\ Inserted(s) \/ Updating(s)

\* The row lock.
OneWriter ==
    \A s, o \in Sessions : s # o /\ call[s].key = call[o].key /\ wr[s] # Null => wr[o] = Null

Shape ==
    /\ rows \in [Keys -> Bill \cup Ticket \cup {Null}] /\ \A k \in Keys : rows[k] \in RowOf(k)
    /\ notes \in [Keys -> [Events -> Nat]]
    /\ pc \in [Sessions -> Connected \cup {"idle", "connect"}]
    /\ call \in [Sessions -> Call \cup {NoCall}]
    /\ copy \in [Sessions -> Bill \cup Ticket \cup {Null}]
    /\ wr \in [Sessions -> Bill \cup Ticket \cup {Null}]
    /\ calls \in 0 .. MaxCalls /\ faults \in 0 .. MaxFaults
    /\ overtaken \in [Sessions -> BOOLEAN] /\ doubted \subseteq Keys /\ lost \subseteq Keys
    /\ \A s \in Sessions : Waits(s) \/ Serves(s)
    /\ OneWriter

LEMMA EventIs ==
    /\ DOMAIN Event = {"bill", "request", "process", "mark_paid", "mark_partial",
                       "mark_overdue", "assign", "complete"}
    /\ \A op \in DOMAIN Event : Event[op] \in Events
    /\ DOMAIN Final \subseteq Events
    /\ \A op \in DOMAIN Event :
          /\ Event[op] = "paid" <=> op \in {"process", "mark_paid"}
          /\ Event[op] = "completed" <=> op = "complete"
<1>1. DOMAIN Event = {"bill", "request", "process", "mark_paid", "mark_partial",
                      "mark_overdue", "assign", "complete"}
  BY DEF Event
<1>2. /\ Event["bill"] = "created" /\ Event["request"] = "created"
      /\ Event["process"] = "paid" /\ Event["mark_paid"] = "paid"
      /\ Event["mark_partial"] = "partial" /\ Event["mark_overdue"] = "overdue"
      /\ Event["assign"] = "assigned" /\ Event["complete"] = "completed"
  BY DEF Event
<1>3. \A op \in DOMAIN Event : Event[op] \in Events
  BY DEF Events
<1>4. "paid" \in Events /\ "completed" \in Events
  BY <1>1, <1>2, <1>3
<1> QED
  BY <1>1, <1>2, <1>3, <1>4, FinalIs

\* What a session holds is typed.
LEMMA ServesTyped ==
    ASSUME Shape, NEW s \in Sessions, Serves(s)
    PROVE  /\ call[s].key \in Keys
           /\ wr[s] # Null => wr[s] \in RowOf(call[s].key) /\ wr[s] \in Bill \cup Ticket
           /\ Updating(s) => /\ Assigned(call[s], copy[s]) \in RowOf(call[s].key)
                             /\ Assigned(call[s], copy[s]) # Null
<1>1. call[s] \in Call /\ call[s].key \in Keys /\ copy[s] # Null /\ copy[s] \in RowOf(call[s].key)
  BY CallIs DEF Serves
<1>2. CASE Inserted(s)
  BY <1>1, <1>2, NewTyped DEF Inserted, Updating
<1>3. CASE Updating(s)
  <2>1. rows[call[s].key] \in RowOf(call[s].key) /\ rows[call[s].key] # Null
    BY <1>1, <1>3 DEF Shape, Updating
  <2>2. Assigned(call[s], copy[s]) \in RowOf(call[s].key) /\ Assigned(call[s], copy[s]) # Null
    BY <1>1, <1>3, Effect DEF Updating
  <2>3. /\ Changed(Assigned(call[s], copy[s]), copy[s], rows[call[s].key]) \in RowOf(call[s].key)
        /\ Changed(Assigned(call[s], copy[s]), copy[s], rows[call[s].key]) # Null
    BY <1>1, <2>1, <2>2, Merged
  <2> QED
    BY <1>1, <1>3, <2>2, <2>3, RowIs DEF Updating
<1> QED
  BY <1>2, <1>3 DEF Serves

\* A session with a key serves a call.
LEMMA KeyServes ==
    ASSUME Shape, NEW s \in Sessions, call[s].key \in Keys \/ wr[s] # Null \/ copy[s] # Null
    PROVE  Serves(s)
BY KeysAssumption DEF Shape, Waits, NoCall

\* A step of s that writes nothing to the tables leaves the other sessions
\* as they were, unless it takes the key one of them inserts.
LEMMA OthersStand ==
    ASSUME Shape, NEW s \in Sessions, NEW o \in Sessions \ {s},
           rows' = rows, pc'[o] = pc[o], overtaken'[o] = overtaken[o],
           call'[o] = call[o], copy'[o] = copy[o], wr'[o] = wr[o],
           \A x \in Sessions : x # s => call'[x] = call[x],
           Inserted(o) => call'[s].key = call[s].key \/ call'[s].key # call[o].key
    PROVE  Waits(o)' \/ Serves(o)'
<1>1. CASE Waits(o)
  BY <1>1 DEF Waits
<1>2. CASE Serves(o)
  <2>1. Inserted(o) => Inserted(o)'
    BY DEF Inserted
  <2>2. Updating(o) => Updating(o)'
    BY DEF Updating
  <2> QED
    BY <1>2, <2>1, <2>2 DEF Serves
<1> QED
  BY <1>1, <1>2 DEF Shape

LEMMA EndsTyped ==
    ASSUME Shape, NEW s \in Sessions, Ends(s)
    PROVE  /\ pc' \in [Sessions -> Connected \cup {"idle", "connect"}]
           /\ call' \in [Sessions -> Call \cup {NoCall}]
           /\ copy' \in [Sessions -> Bill \cup Ticket \cup {Null}]
           /\ wr' \in [Sessions -> Bill \cup Ticket \cup {Null}]
           /\ pc'[s] = "idle" /\ call'[s] = NoCall /\ copy'[s] = Null /\ wr'[s] = Null
           /\ \A o \in Sessions : o # s => /\ pc'[o] = pc[o] /\ call'[o] = call[o]
                                           /\ copy'[o] = copy[o] /\ wr'[o] = wr[o]
BY DEF Shape, Ends

\* A step to the next statement.
LEMMA ShapeGoes ==
    ASSUME Shape, NEW s \in Sessions, NEW x \in Connected \cup {"idle", "connect"}, Goes(s, x),
           rows' = rows, overtaken' = overtaken,
           notes' \in [Keys -> [Events -> Nat]], calls' \in 0 .. MaxCalls,
           faults' \in 0 .. MaxFaults, doubted' \subseteq Keys, lost' \subseteq Keys,
           \/ Waits(s) /\ x \in {"idle", "connect", "read"}
           \/ /\ Serves(s) /\ pc[s] # "flush" /\ x \in {"publish", "await", "save", "commit"}
              /\ x \in {"await", "save"} => call[s].op \in DOMAIN Event
    PROVE  Shape'
<1>1. /\ pc' \in [Sessions -> Connected \cup {"idle", "connect"}]
      /\ pc'[s] = x /\ \A o \in Sessions : o # s => pc'[o] = pc[o]
      /\ call' = call /\ copy' = copy /\ wr' = wr
  BY DEF Goes, Shape
<1>2. ASSUME NEW o \in Sessions, o # s PROVE Waits(o)' \/ Serves(o)'
  BY <1>1, <1>2, OthersStand
<1>3. Waits(s)' \/ Serves(s)'
  <2>1. CASE Waits(s) /\ x \in {"idle", "connect", "read"}
    BY <1>1, <2>1 DEF Waits
  <2>2. CASE /\ Serves(s) /\ pc[s] # "flush" /\ x \in {"publish", "await", "save", "commit"}
             /\ x \in {"await", "save"} => call[s].op \in DOMAIN Event
    <3>1. Inserted(s) => Inserted(s)'
      BY <1>1, <2>2 DEF Inserted
    <3>2. Updating(s) => Updating(s)'
      BY <1>1, <2>2 DEF Updating
    <3> QED
      BY <1>1, <2>2, <3>1, <3>2 DEF Serves
  <2> QED
    BY <2>1, <2>2
<1>4. OneWriter'
  BY <1>1 DEF Shape, OneWriter
<1>5. \A o \in Sessions : Waits(o)' \/ Serves(o)'
  BY <1>2, <1>3
<1> QED
  BY <1>1, <1>4, <1>5 DEF Shape

\* A step that ends s and writes nothing.
LEMMA ShapeEnds ==
    ASSUME Shape, NEW s \in Sessions, Ends(s), rows' = rows, notes' = notes,
           calls' \in 0 .. MaxCalls, faults' \in 0 .. MaxFaults,
           overtaken' = [overtaken EXCEPT ![s] = FALSE],
           doubted' \subseteq Keys, lost' \subseteq Keys
    PROVE  Shape'
<1>1. /\ overtaken' \in [Sessions -> BOOLEAN] /\ ~overtaken'[s]
      /\ \A o \in Sessions : o # s => overtaken'[o] = overtaken[o]
  BY DEF Shape
<1>2. Waits(s)'
  BY <1>1, EndsTyped DEF Waits
<1>3. ASSUME NEW o \in Sessions, o # s PROVE Waits(o)' \/ Serves(o)'
  <2>1. Inserted(o) => call'[s].key # call[o].key
    <3>1. Inserted(o) => call[o].key \in Keys
      BY CallIs DEF Inserted, Shape, NoCall
    <3> QED
      BY <3>1, EndsTyped, KeysAssumption DEF NoCall
  <2> QED
    BY <1>1, <1>3, <2>1, EndsTyped, OthersStand
<1>4. OneWriter'
  BY EndsTyped DEF Shape, OneWriter
<1>5. \A o \in Sessions : Waits(o)' \/ Serves(o)'
  BY <1>2, <1>3
<1> QED
  BY <1>1, <1>4, <1>5, EndsTyped DEF Shape

\* What Allowed tells of the row, whoever asks.
LEMMA AllowedReady ==
    ASSUME NEW c, NEW user, NEW row, Allowed(c, user, row)
    PROVE  row # Null /\ c.op \notin {"bill", "request"} /\ Ready(c, row)
BY DEF Allowed, Ready, Unpaid

LEMMA ShapeRead ==
    ASSUME Shape, NEW s \in Sessions, NEW c \in Call, NEW user \in Users, Read(s, c, user)
    PROVE  Shape'
<1>1. /\ Waits(s) /\ c.key \in Keys /\ rows[c.key] # Null /\ rows[c.key] \in RowOf(c.key)
      /\ rows[c.key] \in Bill \cup Ticket
      /\ c.op \notin {"bill", "request"} /\ Ready(c, rows[c.key])
  <2>1. Waits(s)
    BY DEF Shape, Serves, Read
  <2> QED
    BY <2>1, CallIs, AllowedReady, RowIs DEF Read, Shape
<1>2. /\ pc' = [pc EXCEPT ![s] = "flush"] /\ call' = [call EXCEPT ![s] = c]
      /\ copy' = [copy EXCEPT ![s] = rows[c.key]]
      /\ UNCHANGED <<rows, notes, wr, calls, faults, overtaken, doubted, lost>>
  BY DEF Read
<1>3. /\ pc' \in [Sessions -> Connected \cup {"idle", "connect"}]
      /\ call' \in [Sessions -> Call \cup {NoCall}]
      /\ copy' \in [Sessions -> Bill \cup Ticket \cup {Null}]
      /\ pc'[s] = "flush" /\ call'[s] = c /\ copy'[s] = rows[c.key]
      /\ \A o \in Sessions : o # s =>
            pc'[o] = pc[o] /\ call'[o] = call[o] /\ copy'[o] = copy[o]
  BY <1>1, <1>2 DEF Shape, Connected
<1>4. ASSUME NEW o \in Sessions, o # s PROVE Waits(o)' \/ Serves(o)'
  <2>1. Inserted(o) => call[o].key # c.key
    BY <1>1 DEF Inserted
  <2> QED
    BY <1>2, <1>3, <1>4, <2>1, OthersStand
<1>5. Serves(s)'
  <2>1. wr'[s] = Null /\ ~overtaken'[s]
    BY <1>1, <1>2 DEF Waits
  <2>2. Updating(s)'
    BY <1>1, <1>2, <1>3, <2>1 DEF Updating
  <2> QED
    BY <1>1, <1>2, <1>3, <2>2 DEF Serves
<1>6. OneWriter'
  BY <1>1, <1>2, <1>3 DEF Shape, OneWriter, Waits
<1>7. \A o \in Sessions : Waits(o)' \/ Serves(o)'
  BY <1>4, <1>5
<1> QED
  BY <1>2, <1>3, <1>6, <1>7 DEF Shape

LEMMA ShapeInsert ==
    ASSUME Shape, NEW s \in Sessions, NEW c \in Call, NEW user \in Users, Insert(s, c, user)
    PROVE  Shape'
<1>1. /\ Waits(s) /\ c.key \in Keys /\ rows[c.key] = Null
      /\ \A o \in Sessions : call[o].key # c.key
      /\ c.op \in {"bill", "request"}
      /\ New(c) \in RowOf(c.key) /\ New(c) # Null /\ New(c) \in Bill \cup Ticket
  <2>1. Waits(s)
    BY DEF Shape, Serves, Insert
  <2> QED
    BY <2>1, CallIs, NewTyped DEF Insert, Inserts
<1>2. /\ pc' = [pc EXCEPT ![s] = "publish"] /\ call' = [call EXCEPT ![s] = c]
      /\ copy' = [copy EXCEPT ![s] = New(c)] /\ wr' = [wr EXCEPT ![s] = New(c)]
      /\ UNCHANGED <<rows, notes, calls, faults, overtaken, doubted, lost>>
  BY DEF Insert
<1>3. /\ pc' \in [Sessions -> Connected \cup {"idle", "connect"}]
      /\ call' \in [Sessions -> Call \cup {NoCall}]
      /\ copy' \in [Sessions -> Bill \cup Ticket \cup {Null}]
      /\ wr' \in [Sessions -> Bill \cup Ticket \cup {Null}]
      /\ pc'[s] = "publish" /\ call'[s] = c /\ copy'[s] = New(c) /\ wr'[s] = New(c)
      /\ \A o \in Sessions : o # s => /\ pc'[o] = pc[o] /\ call'[o] = call[o]
                                      /\ copy'[o] = copy[o] /\ wr'[o] = wr[o]
  BY <1>1, <1>2 DEF Shape, Connected
<1>4. ASSUME NEW o \in Sessions, o # s PROVE Waits(o)' \/ Serves(o)'
  BY <1>1, <1>2, <1>3, <1>4, OthersStand
<1>5. Serves(s)'
  <2>1. ~overtaken'[s]
    BY <1>1, <1>2 DEF Waits
  <2>2. Inserted(s)'
    BY <1>1, <1>2, <1>3, <2>1 DEF Inserted
  <2> QED
    BY <1>1, <1>2, <1>3, <2>2 DEF Serves
<1>6. OneWriter'
  BY <1>1, <1>3 DEF Shape, OneWriter
<1>7. \A o \in Sessions : Waits(o)' \/ Serves(o)'
  BY <1>4, <1>5
<1> QED
  BY <1>2, <1>3, <1>6, <1>7 DEF Shape

\* The UPDATE waits for every other writer of the row.
LEMMA ShapeFlush ==
    ASSUME Shape, NEW s \in Sessions, Flush(s) PROVE Shape'
<1> DEFINE k == call[s].key
           row == Changed(Assigned(call[s], copy[s]), copy[s], rows[k])
<1>1. /\ Serves(s) /\ Updating(s) /\ pc[s] = "flush" /\ wr[s] = Null /\ k \in Keys
  <2>1. Serves(s) /\ pc[s] = "flush"
    BY DEF Shape, Waits, Flush
  <2> QED
    BY <2>1, ServesTyped DEF Serves, Inserted, Updating
<1>2. row \in RowOf(k) /\ row # Null /\ row \in Bill \cup Ticket
  <2>1. rows[k] \in RowOf(k) /\ rows[k] # Null
    BY <1>1 DEF Shape, Updating
  <2>2. copy[s] \in RowOf(k) /\ copy[s] # Null
    BY <1>1 DEF Serves
  <2> QED
    BY <1>1, <2>1, <2>2, ServesTyped, Merged, RowIs
<1>3. /\ pc' = [pc EXCEPT ![s] = "publish"]
      /\ UNCHANGED <<rows, notes, call, copy, calls, faults, overtaken, doubted, lost>>
      /\ \/ /\ \A o \in OnRow(s) : wr[o] = Null
            /\ wr' = [wr EXCEPT ![s] = row]
         \/ call[s].op = "mark_overdue" /\ wr' = wr
  BY DEF Flush, Writes
<1> HIDE DEF row
<1>4. /\ pc' \in [Sessions -> Connected \cup {"idle", "connect"}]
      /\ wr' \in [Sessions -> Bill \cup Ticket \cup {Null}]
      /\ pc'[s] = "publish"
      /\ wr'[s] = row \/ (wr'[s] = Null /\ call[s].op = "mark_overdue")
      /\ \A o \in Sessions : o # s => pc'[o] = pc[o] /\ wr'[o] = wr[o]
  BY <1>1, <1>2, <1>3 DEF Shape, Connected
<1>5. ASSUME NEW o \in Sessions, o # s PROVE Waits(o)' \/ Serves(o)'
  BY <1>3, <1>4, <1>5, OthersStand
<1>6. Serves(s)'
  <2>1. Updating(s)'
    BY <1>1, <1>2, <1>3, <1>4 DEF Updating, row
  <2> QED
    BY <1>1, <1>3, <1>4, <2>1 DEF Serves
<1>7. OneWriter'
  <2>1. ASSUME NEW o \in Sessions, o # s, call[o].key = k, wr'[s] # Null PROVE wr[o] = Null
    <3>1. copy[o] # Null
      BY <1>1, <2>1, KeyServes DEF Serves
    <3> QED
      BY <1>1, <1>3, <2>1, <3>1 DEF OnRow
  <2> QED
    BY <1>3, <1>4, <2>1 DEF Shape, OneWriter
<1>8. \A o \in Sessions : Waits(o)' \/ Serves(o)'
  BY <1>5, <1>6
<1> QED
  BY <1>3, <1>4, <1>7, <1>8 DEF Shape

\* COMMIT: whoever else has read the row is overtaken, and has not written it.
LEMMA ShapeCommit ==
    ASSUME Shape, NEW s \in Sessions, Commit(s) PROVE Shape'
<1> DEFINE k == call[s].key
<1>1. Serves(s) /\ k \in Keys /\ call[s] \in Call /\ (wr[s] # Null => wr[s] \in RowOf(k))
  <2>1. Serves(s)
    BY DEF Shape, Waits, Commit
  <2> QED
    BY <2>1, ServesTyped DEF Serves
<1>2. /\ Ends(s) /\ UNCHANGED <<notes, calls, faults, lost>>
      /\ rows' = [rows EXCEPT ![k] = IF wr[s] = Null THEN @ ELSE wr[s]]
      /\ overtaken' = [o \in Sessions |->
            IF o = s THEN FALSE ELSE overtaken[o] \/ (o \in OnRow(s) /\ wr[s] # Null)]
      /\ doubted' \subseteq Keys
  BY <1>1 DEF Commit, Shape
<1> HIDE DEF k
<1>3. /\ rows' \in [Keys -> Bill \cup Ticket \cup {Null}] /\ \A j \in Keys : rows'[j] \in RowOf(j)
      /\ \A j \in Keys : j # k => rows'[j] = rows[j]
      /\ rows'[k] = IF wr[s] = Null THEN rows[k] ELSE wr[s]
  BY <1>1, <1>2 DEF Shape
<1>4. /\ overtaken' \in [Sessions -> BOOLEAN] /\ ~overtaken'[s]
      /\ \A o \in Sessions : o # s =>
            overtaken'[o] = (overtaken[o] \/ (o \in OnRow(s) /\ wr[s] # Null))
  BY <1>2 DEF Shape
<1>5. Waits(s)'
  BY <1>2, <1>4, EndsTyped DEF Waits
<1>6. ASSUME NEW o \in Sessions, o # s PROVE Waits(o)' \/ Serves(o)'
  <2>1. pc'[o] = pc[o] /\ call'[o] = call[o] /\ copy'[o] = copy[o] /\ wr'[o] = wr[o]
    BY <1>2, <1>6, EndsTyped
  <2>2. CASE Waits(o)
    <3>1. o \notin OnRow(s)
      BY <1>1, <2>2 DEF OnRow, Waits
    <3>2. ~overtaken'[o]
      BY <1>4, <1>6, <2>2, <3>1 DEF Waits
    <3> QED
      BY <2>1, <2>2, <3>2 DEF Waits
  <2>3. CASE Serves(o) /\ call[o].key # k
    <3>1. call[o].key \in Keys /\ o \notin OnRow(s)
      BY <2>3, ServesTyped DEF OnRow, k
    <3>2. rows'[call'[o].key] = rows[call[o].key] /\ overtaken'[o] = overtaken[o]
      BY <1>3, <1>4, <1>6, <2>1, <2>3, <3>1 DEF Shape
    <3>3. Inserted(o) => Inserted(o)'
      <4>1. call'[s].key = Null
        BY <1>2, EndsTyped DEF NoCall
      <4>2. call[o].key # Null
        BY <3>1, KeysAssumption
      <4>3. \A x \in Sessions : x # s => call'[x] = call[x]
        BY <1>2, EndsTyped
      <4> QED
        BY <2>1, <3>2, <4>1, <4>2, <4>3 DEF Inserted
    <3>4. Updating(o) => Updating(o)'
      BY <2>1, <3>2 DEF Updating
    <3> QED
      BY <2>1, <2>3, <3>3, <3>4 DEF Serves
  <2>4. CASE Serves(o) /\ call[o].key = k
    <3>1. Updating(o) /\ o \in OnRow(s) /\ (wr[s] # Null => wr[o] = Null)
      <4>1. copy[o] # Null /\ ~Inserted(o)
        BY <1>6, <2>4 DEF Serves, Inserted, k
      <4> QED
        BY <1>6, <2>4, <4>1 DEF Serves, OnRow, Shape, OneWriter, k
    <3>2. CASE wr[s] = Null
      <4>1. rows'[call'[o].key] = rows[call[o].key] /\ overtaken'[o] = overtaken[o]
        BY <1>3, <1>4, <1>6, <2>1, <2>4, <3>2 DEF Shape
      <4>2. Updating(o)'
        BY <2>1, <3>1, <4>1 DEF Updating
      <4> QED
        BY <2>1, <2>4, <4>2 DEF Serves
    <3>3. CASE wr[s] # Null
      <4>1. rows'[call'[o].key] # Null /\ overtaken'[o] /\ wr'[o] = Null
        BY <1>3, <1>4, <1>6, <2>1, <2>4, <3>1, <3>3
      <4>2. Updating(o)'
        BY <2>1, <3>1, <4>1 DEF Updating
      <4> QED
        BY <2>1, <2>4, <4>2 DEF Serves
    <3> QED
      BY <3>2, <3>3
  <2> QED
    BY <2>2, <2>3, <2>4 DEF Shape
<1>7. OneWriter'
  BY <1>2, EndsTyped DEF Shape, OneWriter
<1>8. \A o \in Sessions : Waits(o)' \/ Serves(o)'
  BY <1>5, <1>6
<1> QED
  BY <1>2, <1>3, <1>4, <1>7, <1>8, EndsTyped DEF Shape

LEMMA ShapeCrash == Shape /\ Crash => Shape'
<1> SUFFICES ASSUME Shape, Crash PROVE Shape'
  OBVIOUS
<1>1. /\ pc' = [s \in Sessions |-> "idle"] /\ call' = [s \in Sessions |-> NoCall]
      /\ copy' = [s \in Sessions |-> Null] /\ wr' = [s \in Sessions |-> Null]
      /\ overtaken' = [s \in Sessions |-> FALSE]
      /\ UNCHANGED <<rows, notes, calls, lost>> /\ faults < MaxFaults /\ faults' = faults + 1
  BY DEF Crash, Fails
<1>2. doubted' \subseteq Keys
  <2>1. \A o \in Sessions : pc[o] = "commit" => call[o].key \in Keys
    BY ServesTyped DEF Shape, Waits
  <2> QED
    BY <2>1 DEF Crash, Shape
<1>3. faults' \in 0 .. MaxFaults
  BY <1>1, BoundsAssumption DEF Shape
<1>4. \A s \in Sessions : Waits(s)'
  BY <1>1 DEF Waits
<1>5. OneWriter'
  BY <1>1 DEF OneWriter
<1> QED
  BY <1>1, <1>2, <1>3, <1>4, <1>5 DEF Shape

LEMMA ShapeInit == Init => Shape
<1> SUFFICES ASSUME Init PROVE Shape
  OBVIOUS
<1>1. rows \in [Keys -> Bill \cup Ticket \cup {Null}] /\ \A k \in Keys : rows[k] \in RowOf(k)
  BY TablesAssumption DEF Init
<1>2. \A s \in Sessions : Waits(s)
  BY DEF Init, Waits
<1>3. OneWriter
  BY DEF Init, OneWriter
<1>4. calls \in 0 .. MaxCalls /\ faults \in 0 .. MaxFaults
  BY BoundsAssumption DEF Init
<1> QED
  BY <1>1, <1>2, <1>3, <1>4 DEF Init, Shape

LEMMA ShapeStep == Shape /\ [Next]_vars => Shape'
<1>1. ASSUME Shape, NEW s \in Sessions, Arrive(s) PROVE Shape'
  <2>1. Goes(s, "connect") /\ calls' \in 0 .. MaxCalls
    BY <1>1, BoundsAssumption DEF Arrive, Shape
  <2>2. Waits(s)
    BY <1>1 DEF Shape, Serves, Arrive
  <2> QED
    BY <1>1, <2>1, <2>2, ShapeGoes DEF Arrive, Shape
<1>2. ASSUME Shape, NEW s \in Sessions, Connect(s) PROVE Shape'
  <2>1. Waits(s)
    BY <1>2 DEF Shape, Serves, Connect
  <2> QED
    BY <1>2, <2>1, ShapeGoes DEF Connect, Connected, Shape
<1>3. ASSUME Shape, NEW s \in Sessions,
             \/ ConnectTimeout(s)
             \/ \E c \in Call, user \in Users : Refuse(s, c, user)
             \/ Rollback(s)
      PROVE  Shape'
  <2>1. /\ Ends(s) /\ UNCHANGED <<rows, notes, calls, lost>>
        /\ overtaken' = [overtaken EXCEPT ![s] = FALSE]
        /\ faults' = faults \/ (faults < MaxFaults /\ faults' = faults + 1)
        /\ doubted' = doubted \/ (pc[s] = "commit" /\ doubted' = doubted \cup {call[s].key})
    <3>1. CASE Rollback(s)
      BY <3>1 DEF Rollback, Fails
    <3>2. CASE ConnectTimeout(s) \/ \E c \in Call, user \in Users : Refuse(s, c, user)
      <4>1. pc[s] \in {"connect", "read"} /\ UNCHANGED <<overtaken, faults, doubted>>
            /\ Ends(s) /\ UNCHANGED <<rows, notes, calls, lost>>
        BY <3>2 DEF ConnectTimeout, Refuse
      <4>2. ~overtaken[s] /\ overtaken \in [Sessions -> BOOLEAN]
        BY <1>3, <4>1 DEF Shape, Serves, Waits
      <4> QED
        BY <4>1, <4>2
    <3> QED
      BY <1>3, <3>1, <3>2
  <2>2. pc[s] = "commit" => call[s].key \in Keys
    BY <1>3, ServesTyped DEF Shape, Waits
  <2>3. faults' \in 0 .. MaxFaults /\ doubted' \subseteq Keys
    BY <1>3, <2>1, <2>2, BoundsAssumption DEF Shape
  <2> QED
    BY <1>3, <2>1, <2>3, ShapeEnds DEF Shape
<1>4. ASSUME Shape, NEW s \in Sessions, Publish(s) PROVE Shape'
  <2>1. Serves(s)
    BY <1>4 DEF Shape, Waits, Publish
  <2> QED
    BY <1>4, <2>1, ShapeGoes DEF Publish, Connected, Shape
<1>5. ASSUME Shape, NEW s \in Sessions, HandlerConnect(s) PROVE Shape'
  <2>1. Serves(s) /\ call[s].op \in DOMAIN Event
    BY <1>5 DEF Shape, Waits, Serves, HandlerConnect
  <2> QED
    BY <1>5, <2>1, ShapeGoes DEF HandlerConnect, Connected, Shape
<1>6. ASSUME Shape, NEW s \in Sessions, HandlerTimeout(s) \/ HandlerFails(s) PROVE Shape'
  <2>1. Serves(s) /\ call[s].key \in Keys
    BY <1>6, ServesTyped DEF Shape, Waits, HandlerTimeout, HandlerFails
  <2>2. lost' \subseteq Keys /\ faults' \in 0 .. MaxFaults
    BY <1>6, <2>1, BoundsAssumption DEF HandlerTimeout, HandlerFails, Fails, Shape
  <2> QED
    BY <1>6, <2>1, <2>2, ShapeGoes DEF HandlerTimeout, HandlerFails, Connected, Shape
<1>7. ASSUME Shape, NEW s \in Sessions, HandlerSave(s) PROVE Shape'
  <2>1. Serves(s) /\ call[s].key \in Keys /\ Event[call[s].op] \in Events
    BY <1>7, ServesTyped, EventIs DEF Shape, Waits, Serves, HandlerSave
  <2>2. notes' \in [Keys -> [Events -> Nat]]
    <3> DEFINE k == call[s].key  e == Event[call[s].op]
    <3>1. notes' = [notes EXCEPT ![k][e] = @ + 1] /\ notes \in [Keys -> [Events -> Nat]]
      BY <1>7 DEF HandlerSave, Shape
    <3>2. k \in Keys /\ e \in Events
      BY <2>1
    <3> HIDE DEF k, e
    <3>3. [notes[k] EXCEPT ![e] = @ + 1] \in [Events -> Nat]
      BY <3>1, <3>2
    <3> QED
      BY <3>1, <3>2, <3>3
  <2> QED
    BY <1>7, <2>1, <2>2, ShapeGoes DEF HandlerSave, Connected, Shape
<1>8. Shape /\ UNCHANGED vars => Shape'
  BY DEF Shape, Waits, Serves, Inserted, Updating, OneWriter, vars
<1> QED
  BY <1>1, <1>2, <1>3, <1>4, <1>5, <1>6, <1>7, <1>8, ShapeRead, ShapeInsert, ShapeFlush,
     ShapeCommit, ShapeCrash DEF Next, Step

-----------------------------------------------------------------------------
(* Commits. A commit writes the columns its call assigned over the row as  *)
(* it is by then, so what was dated, assigned or escalated meanwhile stays *)
(* so; and unless another call committed in between, the row is still the  *)
(* one the call was tested on.                                             *)

LEMMA RowsChange == [Next]_vars => rows' = rows \/ \E s \in Sessions : Commit(s)
BY DEF Next, Step, vars, Arrive, Connect, ConnectTimeout, Read, Refuse, Insert, Flush, Publish,
       HandlerConnect, HandlerTimeout, HandlerSave, HandlerFails, Rollback, Crash

\* What s commits over a row that exists.
LEMMA Overwrites ==
    ASSUME Shape, NEW s \in Sessions, Serves(s), wr[s] # Null, rows[call[s].key] # Null
    PROVE  LET k == call[s].key  old == rows[k]  new == wr[s]  aim == Assigned(call[s], copy[s]) IN
           /\ call[s] \in Call /\ k \in Keys /\ Updating(s)
           /\ k \in Bills => (old.dated => new.dated)
           /\ k \notin Bills => /\ old.assignee # Null => new.assignee # Null
                                /\ old.escalated => new.escalated
           /\ ~overtaken[s] => /\ old = copy[s] /\ new.status = aim.status
                               /\ \/ new.status = old.status
                                  \/ <<old.status, new.status>> \in Moves
<1> DEFINE k == call[s].key  old == rows[k]  new == wr[s]  aim == Assigned(call[s], copy[s])
<1>1. Updating(s) /\ call[s] \in Call /\ k \in Keys /\ copy[s] # Null /\ copy[s] \in RowOf(k)
      /\ call[s].op \notin {"bill", "request"} /\ Ready(call[s], copy[s])
  BY ServesTyped DEF Serves, Inserted, Updating
<1>2. old \in RowOf(k) /\ aim \in RowOf(k) /\ aim # Null
  BY <1>1, ServesTyped DEF Shape
<1>3. new = Changed(aim, copy[s], old)
  BY <1>1 DEF Updating
<1>4. /\ new.status = IF aim.status # copy[s].status THEN aim.status ELSE old.status
      /\ k \in Bills => new.dated = IF aim.dated # copy[s].dated THEN aim.dated ELSE old.dated
      /\ k \notin Bills =>
            /\ new.assignee = IF aim.assignee # copy[s].assignee THEN aim.assignee
                                                                ELSE old.assignee
            /\ new.escalated = IF aim.escalated # copy[s].escalated THEN aim.escalated
                                                                    ELSE old.escalated
  BY <1>1, <1>2, <1>3, Merged
<1>5. /\ k \in Bills => aim.dated = copy[s].dated \/ aim.dated
      /\ k \notin Bills => /\ aim.assignee = copy[s].assignee \/ aim.assignee # Null
                           /\ aim.escalated = copy[s].escalated \/ aim.escalated
      /\ aim.status = copy[s].status \/ <<copy[s].status, aim.status>> \in Moves
  BY <1>1, Effect
<1>6. ~overtaken[s] => old = copy[s]
  BY <1>1 DEF Updating
<1> HIDE DEF k, old, new, aim
<1>7. k \in Bills => (old.dated => new.dated)
  BY <1>4, <1>5
<1>8. k \notin Bills => /\ old.assignee # Null => new.assignee # Null
                        /\ old.escalated => new.escalated
  BY <1>4, <1>5
<1>9. ~overtaken[s] => /\ old = copy[s] /\ new.status = aim.status
                       /\ \/ new.status = old.status
                          \/ <<old.status, new.status>> \in Moves
  BY <1>4, <1>5, <1>6
<1> QED
  BY <1>1, <1>7, <1>8, <1>9 DEF k, old, new, aim

KeepsRows ==
    \A k \in Keys : rows[k] # Null /\ rows'[k] # rows[k] =>
        /\ MarksStay(k)
        /\ \/ rows'[k].status = rows[k].status
           \/ <<rows[k].status, rows'[k].status>> \in Moves
           \/ \E s \in Sessions : overtaken[s] /\ call[s].key = k /\ pc'[s] = "idle"

LEMMA KeepsStep == Shape /\ [Next]_vars => KeepsRows
<1> SUFFICES ASSUME Shape, NEW s \in Sessions, Commit(s), NEW k \in Keys,
                    rows[k] # Null, rows'[k] # rows[k]
             PROVE  /\ MarksStay(k)
                    /\ \/ rows'[k].status = rows[k].status
                       \/ <<rows[k].status, rows'[k].status>> \in Moves
                       \/ overtaken[s] /\ call[s].key = k /\ pc'[s] = "idle"
  BY RowsChange DEF KeepsRows
<1>1. /\ rows' = [rows EXCEPT ![call[s].key] = IF wr[s] = Null THEN @ ELSE wr[s]]
      /\ pc'[s] = "idle" /\ Serves(s)
  BY EndsTyped DEF Commit, Shape, Waits
<1>2. call[s].key = k /\ wr[s] # Null /\ rows'[k] = wr[s]
  BY <1>1 DEF Shape
<1>3. /\ k \in Bills => (rows[k].dated => wr[s].dated)
      /\ k \notin Bills => /\ rows[k].assignee # Null => wr[s].assignee # Null
                           /\ rows[k].escalated => wr[s].escalated
      /\ ~overtaken[s] => \/ wr[s].status = rows[k].status
                          \/ <<rows[k].status, wr[s].status>> \in Moves
  BY <1>1, <1>2, Overwrites
<1>4. MarksStay(k)
  BY <1>2, <1>3 DEF MarksStay
<1> QED
  BY <1>1, <1>2, <1>3, <1>4

\* No commit takes back a date of payment, an assignee or an escalation, and a
\* status moves only as the tests of the services admit, `assign` of a request
\* in progress included, unless the call was overtaken.
THEOREM CommitsCorrect == Spec => CommitsKeep
<1>1. Spec => [][KeepsRows]_vars
  BY ShapeInit, ShapeStep, KeepsStep, PTL DEF Spec
<1> QED
  BY <1>1 DEF CommitsKeep, KeepsRows

-----------------------------------------------------------------------------
(* Counting. A session takes a second connection only while its handler    *)
(* saves, and a call sends one notification at most, so that there are no  *)
(* more notifications than calls.                                          *)

At(f, P) == {o \in Sessions : f[o] \in P}

LEMMA Recount ==
    ASSUME NEW f, NEW g, NEW s \in Sessions, NEW P,
           \A o \in Sessions : o # s => g[o] = f[o]
    PROVE  /\ Cardinality(At(f, P)) \in Nat /\ Cardinality(At(g, P)) \in Nat
           /\ Cardinality(At(g, P)) =
                IF g[s] \in P
                THEN IF f[s] \in P THEN Cardinality(At(f, P)) ELSE Cardinality(At(f, P)) + 1
                ELSE IF f[s] \in P THEN Cardinality(At(f, P)) - 1 ELSE Cardinality(At(f, P))
<1>1. IsFiniteSet(At(f, P)) /\ IsFiniteSet(At(g, P))
  <2>1. At(f, P) \in SUBSET Sessions /\ At(g, P) \in SUBSET Sessions
    BY DEF At
  <2> QED
    BY <2>1, BoundsAssumption, FS_Subset
<1>2. Cardinality(At(f, P)) \in Nat /\ Cardinality(At(g, P)) \in Nat
  BY <1>1, FS_CardinalityType
<1>3. CASE g[s] \in P /\ f[s] \in P
  <2>1. At(g, P) = At(f, P)
    BY <1>3 DEF At
  <2> QED
    BY <1>2, <1>3, <2>1
<1>4. CASE g[s] \in P /\ f[s] \notin P
  <2>1. At(g, P) = At(f, P) \cup {s} /\ s \notin At(f, P)
    BY <1>4 DEF At
  <2> QED
    BY <1>1, <1>2, <1>4, <2>1, FS_AddElement
<1>5. CASE g[s] \notin P /\ f[s] \in P
  <2>1. At(g, P) = At(f, P) \ {s} /\ s \in At(f, P)
    BY <1>5 DEF At
  <2> QED
    BY <1>1, <1>2, <1>5, <2>1, FS_RemoveElement
<1>6. CASE g[s] \notin P /\ f[s] \notin P
  <2>1. At(g, P) = At(f, P)
    BY <1>6 DEF At
  <2> QED
    BY <1>2, <1>6, <2>1
<1> QED
  BY <1>3, <1>4, <1>5, <1>6

\* The statements before a call's notification.
Unsaid == {"connect", "read", "flush", "publish", "await", "save"}

Counts ==
    /\ Cardinality(At(pc, Connected)) + Cardinality(At(pc, {"save"})) <= Pool
    /\ \A k \in Keys, e \in Events : notes[k][e] + Cardinality(At(pc, Unsaid)) <= calls

LEMMA InUseIs == InUse = Cardinality(At(pc, Connected)) + Cardinality(At(pc, {"save"}))
<1>1. {s \in Sessions : pc[s] \in Connected} = At(pc, Connected)
  BY DEF At
<1>2. {s \in Sessions : pc[s] = "save"} = At(pc, {"save"})
  BY DEF At
<1> QED
  BY <1>1, <1>2 DEF InUse

LEMMA NobodyAt ==
    ASSUME NEW f, NEW P, \A o \in Sessions : f[o] \notin P
    PROVE  Cardinality(At(f, P)) = 0
<1>1. At(f, P) = {}
  BY DEF At
<1> QED
  BY <1>1, FS_EmptySet

LEMMA CountsInit == Init => Counts
<1> SUFFICES ASSUME Init PROVE Counts
  OBVIOUS
<1>1. /\ Cardinality(At(pc, Connected)) = 0 /\ Cardinality(At(pc, {"save"})) = 0
      /\ Cardinality(At(pc, Unsaid)) = 0
  BY NobodyAt DEF Init, Connected, Unsaid
<1>2. \A k \in Keys, e \in Events : notes[k][e] = 0
  BY DEF Init
<1> QED
  BY <1>1, <1>2, BoundsAssumption DEF Init, Counts

LEMMA CountsStep == Shape /\ Counts /\ [Next]_vars => Counts'
<1> SUFFICES ASSUME Shape, Counts, [Next]_vars PROVE Counts'
  OBVIOUS
<1> DEFINE all == Cardinality(At(pc, Connected))   saving == Cardinality(At(pc, {"save"}))
           unsaid == Cardinality(At(pc, Unsaid))
<1>0. /\ \A k \in Keys, e \in Events : notes[k][e] \in Nat
      /\ calls \in Nat /\ Pool \in Nat
  BY BoundsAssumption DEF Shape
\* s goes from one statement to another.
<1>1. ASSUME NEW s \in Sessions, pc'[s] \in Connected \cup {"idle", "connect"},
             \A o \in Sessions : o # s => pc'[o] = pc[o],
             pc'[s] \in Connected => pc[s] \in Connected \/ (pc[s] = "connect" /\ InUse < Pool),
             pc'[s] = "save" => pc[s] = "await" /\ InUse < Pool,
             \/ notes' = notes /\ calls' = calls /\ (pc'[s] \in Unsaid => pc[s] \in Unsaid)
             \/ notes' = notes /\ calls' = calls + 1
             \/ /\ pc[s] = "save" /\ pc'[s] = "commit" /\ calls' = calls
                /\ \A k \in Keys, e \in Events : notes'[k][e] <= notes[k][e] + 1
                                                  /\ notes'[k][e] \in Nat
      PROVE  Counts'
  <2> DEFINE all2 == Cardinality(At(pc', Connected))   saving2 == Cardinality(At(pc', {"save"}))
             unsaid2 == Cardinality(At(pc', Unsaid))
  <2>1. /\ all \in Nat /\ all2 \in Nat
        /\ all2 = IF pc'[s] \in Connected
                  THEN IF pc[s] \in Connected THEN all ELSE all + 1
                  ELSE IF pc[s] \in Connected THEN all - 1 ELSE all
    BY <1>1, Recount
  <2>2. /\ saving \in Nat /\ saving2 \in Nat
        /\ saving2 = IF pc'[s] \in {"save"}
                     THEN IF pc[s] \in {"save"} THEN saving ELSE saving + 1
                     ELSE IF pc[s] \in {"save"} THEN saving - 1 ELSE saving
    BY <1>1, Recount
  <2>3. /\ unsaid \in Nat /\ unsaid2 \in Nat
        /\ unsaid2 = IF pc'[s] \in Unsaid
                     THEN IF pc[s] \in Unsaid THEN unsaid ELSE unsaid + 1
                     ELSE IF pc[s] \in Unsaid THEN unsaid - 1 ELSE unsaid
    BY <1>1, Recount
  <2>4. all + saving <= Pool /\ (InUse < Pool => all + saving < Pool)
    BY InUseIs DEF Counts
  <2>5. \A k \in Keys, e \in Events : notes[k][e] + unsaid <= calls
    BY DEF Counts
  <2> HIDE DEF all, saving, unsaid, all2, saving2, unsaid2
  <2>6. all2 + saving2 <= Pool
    <3>1. CASE pc'[s] = "save"
      <4>1. pc[s] = "await" /\ InUse < Pool /\ pc[s] \in Connected
        BY <1>1, <3>1 DEF Connected
      <4> QED
        BY <1>0, <2>1, <2>2, <2>4, <3>1, <4>1 DEF Connected
    <3>2. CASE pc'[s] # "save" /\ pc'[s] \in Connected /\ pc[s] \notin Connected
      <4>1. pc[s] # "save"
        BY <3>2 DEF Connected
      <4> QED
        BY <1>0, <1>1, <2>1, <2>2, <2>4, <3>2, <4>1
    <3>3. CASE pc'[s] # "save" /\ (pc'[s] \notin Connected \/ pc[s] \in Connected)
      BY <1>0, <2>1, <2>2, <2>4, <3>3
    <3> QED
      BY <3>1, <3>2, <3>3
  <2>7. ASSUME NEW k \in Keys, NEW e \in Events PROVE notes'[k][e] + unsaid2 <= calls'
    <3>1. notes[k][e] \in Nat /\ notes[k][e] + unsaid <= calls /\ unsaid2 <= unsaid + 1
      BY <1>0, <2>3, <2>5
    <3>2. CASE notes' = notes /\ calls' = calls /\ (pc'[s] \in Unsaid => pc[s] \in Unsaid)
      BY <1>0, <2>3, <3>1, <3>2
    <3>3. CASE notes' = notes /\ calls' = calls + 1
      BY <1>0, <2>3, <3>1, <3>3
    <3>4. CASE /\ pc[s] = "save" /\ pc'[s] = "commit" /\ calls' = calls
               /\ notes'[k][e] <= notes[k][e] + 1 /\ notes'[k][e] \in Nat
      <4>1. pc[s] \in Unsaid /\ pc'[s] \notin Unsaid
        BY <3>4 DEF Unsaid
      <4> QED
        BY <1>0, <2>3, <3>1, <3>4, <4>1
    <3> QED
      BY <1>1, <3>2, <3>3, <3>4
  <2> QED
    BY <2>6, <2>7 DEF Counts, all2, saving2, unsaid2
\* The statements of s alone.
<1>2. ASSUME NEW s \in Sessions, NEW x, pc' = [pc EXCEPT ![s] = x]
      PROVE  pc'[s] = x /\ \A o \in Sessions : o # s => pc'[o] = pc[o]
  BY <1>2 DEF Shape
<1>3. ASSUME NEW s \in Sessions, Arrive(s) PROVE Counts'
  BY <1>1, <1>2, <1>3 DEF Arrive, Goes, Connected
<1>4. ASSUME NEW s \in Sessions, Connect(s) PROVE Counts'
  BY <1>1, <1>2, <1>4 DEF Connect, Goes, Connected, Unsaid
<1>5. ASSUME NEW s \in Sessions, pc' = [pc EXCEPT ![s] = "idle"], notes' = notes, calls' = calls
      PROVE  Counts'
  BY <1>1, <1>2, <1>5 DEF Connected, Unsaid
<1>6. ASSUME NEW s \in Sessions,
             \/ ConnectTimeout(s) \/ Commit(s) \/ Rollback(s)
             \/ \E c \in Call, user \in Users : Refuse(s, c, user)
      PROVE  Counts'
  BY <1>5, <1>6 DEF ConnectTimeout, Commit, Rollback, Refuse, Ends
<1>7. ASSUME NEW s \in Sessions, NEW x \in {"flush", "publish", "await", "commit"},
             pc' = [pc EXCEPT ![s] = x], pc[s] \in {"read", "flush", "publish", "await", "save"},
             notes' = notes, calls' = calls
      PROVE  Counts'
  BY <1>1, <1>2, <1>7 DEF Connected, Unsaid
<1>8. ASSUME NEW s \in Sessions,
             \/ \E c \in Call, user \in Users : Read(s, c, user) \/ Insert(s, c, user)
             \/ Flush(s) \/ Publish(s) \/ HandlerTimeout(s) \/ HandlerFails(s)
      PROVE  Counts'
  BY <1>7, <1>8 DEF Read, Insert, Flush, Publish, HandlerTimeout, HandlerFails, Goes
<1>9. ASSUME NEW s \in Sessions, HandlerConnect(s) PROVE Counts'
  <2>1. /\ pc[s] = "await" /\ InUse < Pool /\ pc' = [pc EXCEPT ![s] = "save"]
        /\ notes' = notes /\ calls' = calls
    BY <1>9 DEF HandlerConnect, Goes
  <2> QED
    BY <1>1, <1>2, <2>1 DEF Connected, Unsaid
<1>10. ASSUME NEW s \in Sessions, HandlerSave(s) PROVE Counts'
  <2> DEFINE j == call[s].key  f == Event[call[s].op]
  <2>1. /\ pc[s] = "save" /\ pc' = [pc EXCEPT ![s] = "commit"] /\ calls' = calls
        /\ notes' = [notes EXCEPT ![j][f] = @ + 1] /\ notes \in [Keys -> [Events -> Nat]]
    BY <1>10 DEF HandlerSave, Goes, Shape
  <2> HIDE DEF j, f
  <2>2. \A k \in Keys, e \in Events : /\ notes'[k][e] <= notes[k][e] + 1
                                      /\ notes'[k][e] \in Nat
    BY <2>1
  <2> QED
    BY <1>1, <1>2, <2>1, <2>2 DEF Connected
<1>11. CASE Crash
  <2>1. /\ Cardinality(At(pc', Connected)) = 0 /\ Cardinality(At(pc', {"save"})) = 0
        /\ Cardinality(At(pc', Unsaid)) = 0
    BY <1>11, NobodyAt DEF Crash, Connected, Unsaid
  <2>2. notes' = notes /\ calls' = calls
    BY <1>11 DEF Crash
  <2>3. unsaid \in Nat
    <3>1. At(pc, Unsaid) \in SUBSET Sessions
      BY DEF At
    <3> QED
      BY <3>1, BoundsAssumption, FS_Subset, FS_CardinalityType
  <2>4. \A k \in Keys, e \in Events : notes[k][e] + unsaid <= calls
    BY DEF Counts
  <2> HIDE DEF unsaid
  <2>5. \A k \in Keys, e \in Events : notes[k][e] + 0 <= calls
    BY <1>0, <2>3, <2>4
  <2> QED
    BY <1>0, <2>1, <2>2, <2>5 DEF Counts
<1>12. CASE UNCHANGED vars
  BY <1>12 DEF vars, Counts
<1> QED
  BY <1>3, <1>4, <1>6, <1>8, <1>9, <1>10, <1>11, <1>12 DEF Next, Step

\* Rows, sessions and counters keep their types, and no order of calls,
\* handlers and failures takes more connections than the pool has.
THEOREM ShapeCorrect == Spec => []TypeOK
<1>1. Shape /\ Counts => TypeOK
  <2> SUFFICES ASSUME Shape, Counts PROVE TypeOK
    OBVIOUS
  <2>1. Cardinality(At(pc, Unsaid)) \in Nat
    <3>1. At(pc, Unsaid) \in SUBSET Sessions
      BY DEF At
    <3> QED
      BY <3>1, BoundsAssumption, FS_Subset, FS_CardinalityType
  <2>2. \A k \in Keys, e \in Events : notes[k][e] \in 0 .. MaxCalls
    <3> SUFFICES ASSUME NEW k \in Keys, NEW e \in Events PROVE notes[k][e] \in 0 .. MaxCalls
      OBVIOUS
    <3>1. notes[k][e] \in Nat /\ notes[k][e] + Cardinality(At(pc, Unsaid)) <= calls
          /\ calls \in 0 .. MaxCalls
      BY DEF Shape, Counts
    <3> QED
      BY <2>1, <3>1, BoundsAssumption
  <2>3. notes \in [Keys -> [Events -> 0 .. MaxCalls]]
    BY <2>2 DEF Shape
  <2>4. InUse <= Pool
    BY InUseIs DEF Counts
  <2> QED
    BY <2>3, <2>4 DEF Shape, TypeOK
<1> QED
  BY <1>1, ShapeInit, ShapeStep, CountsInit, CountsStep, PTL DEF Spec

-----------------------------------------------------------------------------
(* Notifications. A call is overtaken as long as it is open and its row    *)
(* may have been told of by another; what counts is whether it gets to its *)
(* handlers before it ends. So the invariant is about the rows whose       *)
(* overtaken calls, if any, have not sent their notification yet.          *)

Unsure(k) ==
    k \in doubted \/ \E s \in Sessions : overtaken[s] /\ call[s].key = k /\ pc[s] = "commit"

\* The row has reached a final status, or is about to.
Settled(k, e) ==
    \/ rows[k] # Null /\ rows[k].status \in Final[e]
    \/ Committing(k, Final[e])

Told ==
    \A k \in Keys, e \in DOMAIN Final :
        ~Unsure(k) => /\ notes[k][e] <= 1
                      /\ notes[k][e] = 1 => Settled(k, e)
                      /\ Settled(k, e) /\ k \notin lost => notes[k][e] = 1

\* Only process, mark_paid and complete lead to a final status, from a row
\* that is in none; a final row may at most be closed.
LEMMA FinalOps ==
    ASSUME NEW c \in Call, c.op \notin {"bill", "request"}, NEW row \in RowOf(c.key), row # Null,
           Ready(c, row), NEW e \in DOMAIN Final
    PROVE  LET aim == Assigned(c, row) IN
           /\ row.status \in Final[e] => aim.status \in Final[e] /\ c.op \notin DOMAIN Event
           /\ aim.status \in Final[e] /\ row.status \notin Final[e] =>
                 c.op \in DOMAIN Event /\ Event[c.op] = e
           /\ c.op \in DOMAIN Event /\ Event[c.op] = e =>
                 /\ row.status \notin Final[e] /\ aim.status \in Final[e]
                 /\ c.op # "mark_overdue"
<1> DEFINE aim == Assigned(c, row)
<1>1. CASE c.key \in Bills
  <2>1. /\ row \in Bill /\ c.op \in {"process", "mark_paid", "mark_partial", "mark_overdue"}
        /\ row.status \in PaymentStatus \ {"PAID"}
    BY <1>1, RowIs, CallIs DEF BillOps, Ready, Bill
  <2>2. row.status \notin Final[e]
    BY <2>1, FinalIs DEF PaymentStatus
  <2>3. aim.status = IF c.op \in {"process", "mark_paid"} THEN "PAID"
                     ELSE IF c.op = "mark_partial" THEN "PARTIAL" ELSE "OVERDUE"
    BY <2>1 DEF Assigned, Bill
  <2> HIDE DEF aim
  <2>4. aim.status \in Final[e] <=> (e = "paid" /\ c.op \in {"process", "mark_paid"})
    BY <2>1, <2>3, FinalIs
  <2> QED
    BY <2>1, <2>2, <2>4, FinalIs, EventIs DEF aim
<1>2. CASE c.key \notin Bills
  <2>1. /\ row \in Ticket
        /\ c.op \in {"assign", "start", "complete", "close", "cancel", "escalate"}
    BY <1>2, RowIs, CallIs DEF TicketOps
  <2>2. aim.status = CASE c.op = "assign" -> "ASSIGNED" [] c.op = "start" -> "IN_PROGRESS"
                       [] c.op = "complete" -> "COMPLETED" [] c.op = "close" -> "CLOSED"
                       [] c.op = "cancel" -> "CANCELLED" [] c.op = "escalate" -> row.status
    BY <2>1 DEF Assigned, Ticket
  <2> HIDE DEF aim
  <2>3. row.status \in Final[e] <=> (e = "completed" /\ c.op = "close")
    BY <2>1, FinalIs DEF Ready, Terminal, Ticket, MaintenanceStatus
  <2>4. aim.status \in Final[e] <=> (e = "completed" /\ c.op \in {"complete", "close"})
    BY <2>1, <2>2, <2>3, FinalIs
  <2> QED
    BY <2>1, <2>3, <2>4, FinalIs, EventIs DEF aim
<1> QED
  BY <1>1, <1>2

\* What a session that was not overtaken is about to do to its row.
LEMMA Aims ==
    ASSUME Shape, NEW s \in Sessions, Serves(s), pc[s] # "flush", ~overtaken[s],
           NEW e \in DOMAIN Final
    PROVE  LET k == call[s].key
               is == rows[k] # Null /\ rows[k].status \in Final[e]
               will == wr[s] # Null /\ wr[s].status \in Final[e]
           IN  /\ is /\ wr[s] # Null => will
               /\ will => is \/ (call[s].op \in DOMAIN Event /\ Event[call[s].op] = e)
               /\ call[s].op \in DOMAIN Event /\ Event[call[s].op] = e => ~is /\ will
<1> DEFINE k == call[s].key
<1>1. call[s] \in Call /\ k \in Keys /\ copy[s] # Null /\ copy[s] \in RowOf(k)
  BY CallIs DEF Serves
<1>2. CASE Inserted(s)
  <2>1. /\ rows[k] = Null /\ wr[s] = New(call[s]) /\ call[s].op \in {"bill", "request"}
        /\ wr[s].status \notin Final[e]
    BY <1>1, <1>2, NewTyped DEF Inserted
  <2> QED
    BY <2>1, EventIs, FinalIs
<1>3. CASE Updating(s)
  <2>1. /\ rows[k] # Null /\ rows[k] = copy[s] /\ Ready(call[s], copy[s])
        /\ call[s].op \notin {"bill", "request"}
        /\ wr[s] = Null => call[s].op = "mark_overdue"
    BY <1>3 DEF Updating
  <2>2. wr[s] # Null => wr[s].status = Assigned(call[s], copy[s]).status
    BY <2>1, Overwrites
  <2> QED
    BY <1>1, <2>1, <2>2, FinalOps
<1> QED
  BY <1>2, <1>3 DEF Serves

\* One writer: whoever is about to commit a row that s writes is s.
LEMMA OneCommitter ==
    ASSUME Shape, NEW s \in Sessions, Serves(s), wr[s] # Null, NEW e \in DOMAIN Final
    PROVE  Committing(call[s].key, Final[e])
              <=> pc[s] = "commit" /\ wr[s].status \in Final[e]
BY DEF Committing, Shape, OneWriter

LEMMA ToldKept ==
    ASSUME Told,
           \A k \in Keys, e \in DOMAIN Final : ~Unsure(k)' =>
              /\ ~Unsure(k) /\ notes'[k][e] = notes[k][e]
              /\ (Settled(k, e)' <=> Settled(k, e))
              /\ k \in lost => k \in lost'
    PROVE  Told'
BY DEF Told

\* A step that commits nothing and gets nobody to the commit.
LEMMA ToldQuiet ==
    ASSUME Told, rows' = rows, notes' = notes, lost' = lost, doubted' = doubted,
           \A o \in Sessions :
              \/ pc[o] # "commit" /\ pc'[o] # "commit"
              \/ /\ pc'[o] = pc[o] /\ call'[o] = call[o] /\ wr'[o] = wr[o]
                 /\ overtaken'[o] = overtaken[o]
    PROVE  Told'
<1>1. ASSUME NEW k \in Keys PROVE Unsure(k)' <=> Unsure(k)
  BY DEF Unsure
<1>2. ASSUME NEW k \in Keys, NEW e \in DOMAIN Final PROVE Settled(k, e)' <=> Settled(k, e)
  <2>1. Committing(k, Final[e])' <=> Committing(k, Final[e])
    BY DEF Committing
  <2> QED
    BY <2>1 DEF Settled
<1>3. ASSUME NEW k \in Keys, NEW e \in DOMAIN Final, ~Unsure(k)'
      PROVE  /\ ~Unsure(k) /\ notes'[k][e] = notes[k][e] /\ (Settled(k, e)' <=> Settled(k, e))
             /\ k \in lost => k \in lost'
  BY <1>1, <1>2, <1>3
<1> QED
  BY <1>3, ToldKept

\* A call gets to its commit, its handler done or failed. An overtaken call
\* makes its row unsure; another one settles the row if and only if its
\* event says so.
LEMMA ToldReaches ==
    ASSUME Shape, Told, NEW s \in Sessions, Serves(s), pc[s] \in {"publish", "await", "save"},
           Goes(s, "commit"), rows' = rows, doubted' = doubted, overtaken' = overtaken,
           lost \subseteq lost',
           \A k \in Keys, e \in DOMAIN Final :
              IF k = call[s].key /\ call[s].op \in DOMAIN Event /\ Event[call[s].op] = e
              THEN notes'[k][e] = notes[k][e] + 1 \/ (notes'[k][e] = notes[k][e] /\ k \in lost')
              ELSE notes'[k][e] = notes[k][e]
    PROVE  Told'
<1> SUFFICES ASSUME NEW k \in Keys, NEW e \in DOMAIN Final, ~Unsure(k)'
             PROVE  /\ notes'[k][e] <= 1
                    /\ notes'[k][e] = 1 => Settled(k, e)'
                    /\ Settled(k, e)' /\ k \notin lost' => notes'[k][e] = 1
  BY DEF Told
<1>1. /\ pc'[s] = "commit" /\ call' = call /\ wr' = wr
      /\ \A o \in Sessions : o # s => pc'[o] = pc[o]
  BY DEF Goes, Shape
<1>2. ~Unsure(k) /\ (k = call[s].key => ~overtaken[s])
  BY <1>1 DEF Unsure
<1>3. /\ notes[k][e] \in Nat /\ notes[k][e] <= 1
      /\ notes[k][e] = 1 => Settled(k, e)
      /\ Settled(k, e) /\ k \notin lost => notes[k][e] = 1
  BY <1>2, EventIs DEF Told, Shape
<1>4. ASSUME notes'[k][e] = notes[k][e], Settled(k, e)' <=> Settled(k, e)
      PROVE  /\ notes'[k][e] <= 1
             /\ notes'[k][e] = 1 => Settled(k, e)'
             /\ Settled(k, e)' /\ k \notin lost' => notes'[k][e] = 1
  BY <1>3, <1>4
<1>5. CASE k # call[s].key
  <2>1. Committing(k, Final[e])' <=> Committing(k, Final[e])
    BY <1>1, <1>5 DEF Committing
  <2>2. Settled(k, e)' <=> Settled(k, e)
    BY <2>1 DEF Settled
  <2>3. notes'[k][e] = notes[k][e]
    BY <1>5
  <2> QED
    BY <1>4, <2>2, <2>3
<1>6. CASE k = call[s].key
  <2> DEFINE is == rows[k] # Null /\ rows[k].status \in Final[e]
             will == wr[s] # Null /\ wr[s].status \in Final[e]
             own == call[s].op \in DOMAIN Event /\ Event[call[s].op] = e
  <2>1. (will => is \/ own) /\ (own => ~is /\ will)
    BY <1>2, <1>6, Aims
  <2>2. CASE wr[s] = Null
    <3>1. ~own
      BY <2>1, <2>2
    <3>2. Committing(k, Final[e])' <=> Committing(k, Final[e])
      BY <1>1, <2>2 DEF Committing
    <3>3. Settled(k, e)' <=> Settled(k, e)
      BY <3>2 DEF Settled
    <3>4. notes'[k][e] = notes[k][e]
      BY <3>1
    <3> QED
      BY <1>4, <3>3, <3>4
  <2>3. CASE wr[s] # Null
    <3>1. ~Committing(k, Final[e])
      BY <1>6, <2>3, OneCommitter
    <3>2. \A o \in Sessions : o # s /\ call[o].key = k => wr[o] = Null
      BY <1>6, <2>3 DEF Shape, OneWriter
    <3>3. Committing(k, Final[e])' <=> wr[s].status \in Final[e]
      BY <1>1, <1>6, <2>3, <3>2 DEF Committing
    <3>4. (Settled(k, e) <=> is) /\ (Settled(k, e)' <=> is \/ will)
      BY <2>3, <3>1, <3>3 DEF Settled
    <3>5. CASE ~own
      <4>1. notes'[k][e] = notes[k][e]
        BY <3>5
      <4> QED
        BY <1>4, <2>1, <3>4, <3>5, <4>1
    <3>6. CASE own
      <4>1. notes'[k][e] = notes[k][e] + 1 \/ (notes'[k][e] = notes[k][e] /\ k \in lost')
        BY <1>6, <3>6
      <4>2. ~Settled(k, e) /\ Settled(k, e)'
        BY <2>1, <3>4, <3>6
      <4>3. notes[k][e] = 0
        BY <1>3, <4>2
      <4> QED
        BY <4>1, <4>2, <4>3
    <3> QED
      BY <3>5, <3>6
  <2> QED
    BY <2>2, <2>3
<1> QED
  BY <1>5, <1>6

\* A commit keeps what its notification said.
LEMMA ToldCommit ==
    ASSUME Shape, Told, NEW s \in Sessions, Commit(s)
    PROVE  Told'
<1>1. /\ pc[s] = "commit" /\ Ends(s) /\ notes' = notes /\ lost' = lost
      /\ rows' = [rows EXCEPT ![call[s].key] = IF wr[s] = Null THEN @ ELSE wr[s]]
      /\ doubted' = IF overtaken[s] THEN doubted \cup {call[s].key} ELSE doubted
      /\ \A o \in Sessions : o # s /\ overtaken[o] => overtaken'[o]
  BY DEF Commit
<1>2. Serves(s) /\ call[s].key \in Keys
  BY <1>1, ServesTyped DEF Shape, Waits
<1>3. /\ pc'[s] = "idle" /\ call'[s] = NoCall /\ wr'[s] = Null
      /\ \A o \in Sessions : o # s => pc'[o] = pc[o] /\ call'[o] = call[o] /\ wr'[o] = wr[o]
  BY <1>1, EndsTyped
<1>4. ASSUME NEW k \in Keys, ~Unsure(k)'
      PROVE  ~Unsure(k) /\ (k = call[s].key => ~overtaken[s])
  <2>1. k \notin doubted /\ (k = call[s].key => ~overtaken[s])
    BY <1>1, <1>4 DEF Unsure
  <2>2. ASSUME NEW o \in Sessions, overtaken[o], call[o].key = k, pc[o] = "commit" PROVE FALSE
    BY <1>1, <1>3, <1>4, <2>1, <2>2 DEF Unsure
  <2> QED
    BY <2>1, <2>2 DEF Unsure
<1>5. ASSUME NEW k \in Keys, NEW e \in DOMAIN Final, ~Unsure(k)'
      PROVE  Settled(k, e)' <=> Settled(k, e)
  <2>1. CASE k # call[s].key \/ wr[s] = Null
    <3>1. rows'[k] = rows[k]
      BY <1>1, <2>1 DEF Shape
    <3>2. Committing(k, Final[e])' <=> Committing(k, Final[e])
      BY <1>3, <2>1 DEF Committing
    <3> QED
      BY <3>1, <3>2 DEF Settled
  <2>2. CASE k = call[s].key /\ wr[s] # Null
    <3>1. rows'[k] = wr[s]
      BY <1>1, <2>2 DEF Shape
    <3>2. \A o \in Sessions : o # s /\ call[o].key = k => wr[o] = Null
      BY <2>2 DEF Shape, OneWriter
    <3>3. ~Committing(k, Final[e])'
      BY <1>3, <3>2 DEF Committing
    <3>4. Committing(k, Final[e]) <=> wr[s].status \in Final[e]
      BY <1>1, <1>2, <2>2, OneCommitter
    <3>5. rows[k] # Null /\ rows[k].status \in Final[e] => wr[s].status \in Final[e]
      BY <1>1, <1>2, <1>4, <1>5, <2>2, Aims
    <3> QED
      BY <2>2, <3>1, <3>3, <3>4, <3>5 DEF Settled
  <2> QED
    BY <2>1, <2>2
<1> QED
  BY <1>1, <1>4, <1>5, ToldKept

\* A call that ends without its commit, its notification sent, makes its row
\* unsure for good.
LEMMA ToldUndone ==
    ASSUME Shape, Told, rows' = rows, notes' = notes, lost' = lost, doubted \subseteq doubted',
           \A o \in Sessions :
              \/ /\ pc'[o] = pc[o] /\ call'[o] = call[o] /\ wr'[o] = wr[o]
                 /\ overtaken'[o] = overtaken[o]
              \/ pc'[o] = "idle" /\ (pc[o] = "commit" => call[o].key \in doubted')
    PROVE  Told'
<1>1. ASSUME NEW k \in Keys, ~Unsure(k)'
      PROVE  /\ ~Unsure(k)
             /\ \A o \in Sessions : call[o].key = k /\ pc[o] = "commit" =>
                   pc'[o] = pc[o] /\ call'[o] = call[o] /\ wr'[o] = wr[o]
             /\ \A o \in Sessions : pc'[o] = "commit" =>
                   pc'[o] = pc[o] /\ call'[o] = call[o] /\ wr'[o] = wr[o]
  <2>1. k \notin doubted'
    BY <1>1 DEF Unsure
  <2>2. \A o \in Sessions : call[o].key = k /\ pc[o] = "commit" =>
           /\ pc'[o] = pc[o] /\ call'[o] = call[o] /\ wr'[o] = wr[o]
           /\ overtaken'[o] = overtaken[o]
    BY <2>1
  <2> QED
    BY <1>1, <2>1, <2>2 DEF Unsure
<1>2. ASSUME NEW k \in Keys, NEW e \in DOMAIN Final, ~Unsure(k)'
      PROVE  Settled(k, e)' <=> Settled(k, e)
  <2>1. Committing(k, Final[e])' <=> Committing(k, Final[e])
    BY <1>1, <1>2 DEF Committing
  <2> QED
    BY <2>1 DEF Settled
<1> QED
  BY <1>1, <1>2, ToldKept

LEMMA ToldInit == Init => Told
<1> SUFFICES ASSUME Init, NEW k \in Keys, NEW e \in DOMAIN Final
             PROVE  notes[k][e] = 0 /\ ~Settled(k, e)
  BY DEF Told
<1>1. notes[k][e] = 0
  BY EventIs DEF Init
<1>2. ~Committing(k, Final[e])
  BY DEF Init, Committing
<1>3. ~(rows[k] # Null /\ rows[k].status \in Final[e])
  BY StartAssumption DEF Init
<1> QED
  BY <1>1, <1>2, <1>3 DEF Settled

LEMMA ToldStep == Shape /\ Told /\ [Next]_vars => Told'
<1> SUFFICES ASSUME Shape, Told, [Next]_vars PROVE Told'
  OBVIOUS
<1>1. ASSUME NEW s \in Sessions, NEW x \in Connected \cup {"idle", "connect"},
             x # "commit", pc[s] # "commit", pc' = [pc EXCEPT ![s] = x],
             \A o \in Sessions : o # s => /\ call'[o] = call[o] /\ wr'[o] = wr[o]
                                          /\ overtaken'[o] = overtaken[o],
             rows' = rows, notes' = notes, lost' = lost, doubted' = doubted
      PROVE  Told'
  <2>1. /\ pc'[s] # "commit" /\ \A o \in Sessions : o # s => pc'[o] = pc[o]
    BY <1>1 DEF Shape
  <2> QED
    BY <1>1, <2>1, ToldQuiet
<1>2. ASSUME NEW s \in Sessions, Arrive(s) \/ Connect(s) \/ HandlerConnect(s) PROVE Told'
  BY <1>1, <1>2 DEF Arrive, Connect, HandlerConnect, Goes, Connected
<1>3. ASSUME NEW s \in Sessions, NEW c \in Call, NEW user \in Users,
             Read(s, c, user) \/ Insert(s, c, user)
      PROVE  Told'
  <2>1. \A o \in Sessions : o # s => call'[o] = call[o] /\ wr'[o] = wr[o]
    BY <1>3 DEF Read, Insert, Shape
  <2> QED
    BY <1>1, <1>3, <2>1 DEF Read, Insert, Connected
<1>4. ASSUME NEW s \in Sessions, Flush(s) PROVE Told'
  <2>1. \A o \in Sessions : o # s => call'[o] = call[o] /\ wr'[o] = wr[o]
    BY <1>4 DEF Flush, Shape
  <2>2. /\ pc[s] = "flush" /\ pc' = [pc EXCEPT ![s] = "publish"]
        /\ UNCHANGED <<rows, notes, overtaken, doubted, lost>>
    BY <1>4 DEF Flush
  <2> QED
    BY <1>1, <2>1, <2>2 DEF Connected
<1>5. ASSUME NEW s \in Sessions,
             \/ ConnectTimeout(s) \/ (Rollback(s) /\ pc[s] # "commit")
             \/ \E c \in Call, user \in Users : Refuse(s, c, user)
      PROVE  Told'
  <2>1. /\ pc[s] # "commit" /\ Ends(s) /\ UNCHANGED <<rows, notes, doubted, lost>>
        /\ overtaken' = overtaken \/ overtaken' = [overtaken EXCEPT ![s] = FALSE]
    BY <1>5 DEF ConnectTimeout, Rollback, Refuse
  <2>2. /\ pc' = [pc EXCEPT ![s] = "idle"]
        /\ \A o \in Sessions : o # s => /\ call'[o] = call[o] /\ wr'[o] = wr[o]
                                        /\ overtaken'[o] = overtaken[o]
    BY <2>1, EndsTyped DEF Ends, Shape
  <2> QED
    BY <1>1, <2>1, <2>2
<1>6. ASSUME NEW s \in Sessions, Rollback(s), pc[s] = "commit" PROVE Told'
  <2>1. /\ Ends(s) /\ doubted' = doubted \cup {call[s].key} /\ UNCHANGED <<rows, notes, lost>>
        /\ \A o \in Sessions : o # s => overtaken'[o] = overtaken[o]
    BY <1>6 DEF Rollback, Shape
  <2> QED
    BY <2>1, EndsTyped, ToldUndone
<1>7. ASSUME NEW s \in Sessions, Publish(s) PROVE Told'
  <2>1. Serves(s) /\ pc[s] = "publish"
    BY <1>7 DEF Publish, Shape, Waits
  <2>2. CASE call[s].op \in DOMAIN Event
    BY <1>1, <1>7, <2>2 DEF Publish, Goes, Connected
  <2>3. CASE call[s].op \notin DOMAIN Event
    BY <1>7, <2>1, <2>3, ToldReaches DEF Publish
  <2> QED
    BY <2>2, <2>3
<1>8. ASSUME NEW s \in Sessions, HandlerTimeout(s) \/ HandlerFails(s) PROVE Told'
  <2>1. /\ Serves(s) /\ pc[s] \in {"await", "save"} /\ Goes(s, "commit")
        /\ lost' = lost \cup {call[s].key} /\ UNCHANGED <<rows, notes, overtaken, doubted>>
    BY <1>8 DEF HandlerTimeout, HandlerFails, Shape, Waits
  <2> QED
    BY <2>1, ToldReaches
<1>9. ASSUME NEW s \in Sessions, HandlerSave(s) PROVE Told'
  <2> DEFINE j == call[s].key  f == Event[call[s].op]
  <2>1. /\ Serves(s) /\ pc[s] = "save" /\ Goes(s, "commit")
        /\ UNCHANGED <<rows, overtaken, doubted, lost>>
    BY <1>9 DEF HandlerSave, Shape, Waits
  <2>2. j \in Keys /\ call[s].op \in DOMAIN Event /\ f \in Events
    BY <2>1, ServesTyped, EventIs DEF Serves
  <2>3. \A k \in Keys, e \in DOMAIN Final :
           notes'[k][e] = IF k = j /\ f = e THEN notes[k][e] + 1 ELSE notes[k][e]
    <3>1. /\ notes' = [notes EXCEPT ![j][f] = @ + 1] /\ notes \in [Keys -> [Events -> Nat]]
          /\ DOMAIN Final \subseteq Events
      BY <1>9, EventIs DEF HandlerSave, Shape
    <3> HIDE DEF j, f
    <3> QED
      BY <2>2, <3>1
  <2> QED
    BY <2>1, <2>2, <2>3, ToldReaches
<1>10. CASE Crash
  BY <1>10, ToldUndone DEF Crash
<1>11. CASE UNCHANGED vars
  BY <1>11, ToldQuiet DEF vars
<1> QED
  BY <1>2, <1>3, <1>4, <1>5, <1>6, <1>7, <1>8, <1>9, <1>10, <1>11, ToldCommit DEF Next, Step

\* Whatever the interleaving of calls and handlers, a row on which no call
\* was overtaken or undone has been told of at most once, and only when it
\* is paid or done or about to be; and unless a handler failed, always then.
THEOREM NoticesCorrect == Spec => []NoticesAreTrue
<1>1. Told => NoticesAreTrue
  <2> SUFFICES ASSUME Told, NEW k \in Keys, NEW e \in DOMAIN Final, ~Doubtful(k)
               PROVE  LET is == rows[k] # Null /\ rows[k].status \in Final[e]
                      IN  /\ notes[k][e] <= 1
                          /\ notes[k][e] = 1 => is \/ Committing(k, Final[e])
                          /\ is /\ k \notin lost => notes[k][e] = 1
    BY DEF NoticesAreTrue
  <2>1. ~Unsure(k)
    BY DEF Doubtful, Unsure
  <2> QED
    BY <2>1 DEF Told, Settled
<1> QED
  BY <1>1, ShapeInit, ShapeStep, ToldInit, ToldStep, PTL DEF Spec
=============================================================================
