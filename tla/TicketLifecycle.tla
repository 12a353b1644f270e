-------------------------- MODULE TicketLifecycle --------------------------
(***************************************************************************)
(* What the pages promise about a maintenance request                      *)
(* (frontend/src/lib/maintenance.js): it walks LIFECYCLE_STEPS in order,   *)
(* one step at a time, may be cancelled until the work is done, and the    *)
(* tenant hears of every step. Tickets implements this.                    *)
(***************************************************************************)
EXTENDS Naturals, Sequences

CONSTANT Tickets

VARIABLES
    phase,  \* phase[t]: where ticket t stands, "none" before it is submitted
    told    \* told[t]: how many status changes its tenant was notified of

vars == <<phase, told>>

LIFECYCLE_STEPS ==
    <<"submitted", "assigned", "in_progress", "completed", "closed">>

\* EVENT_TO_LABEL / STATUS_META: the lifecycle and the parallel end state.
Status == {LIFECYCLE_STEPS[i] : i \in 1..5} \cup {"cancelled"}

isTerminal(status) == status \in {"closed", "cancelled"}

isOpen(status) == ~isTerminal(status)

ACTIVE_STATUSES == {"submitted", "assigned", "in_progress"}

Init ==
    /\ phase \in [Tickets -> Status \cup {"none"}]
    /\ told = [t \in Tickets |-> 0]

Submit(t) ==
    /\ phase[t] = "none"
    /\ phase' = [phase EXCEPT ![t] = "submitted"]
    /\ UNCHANGED told

Move(t, to) ==
    /\ phase' = [phase EXCEPT ![t] = to]
    /\ told' = [told EXCEPT ![t] = @ + 1]

Advance(t) ==
    \E i \in 1..4 : phase[t] = LIFECYCLE_STEPS[i] /\ Move(t, LIFECYCLE_STEPS[i + 1])

Cancel(t) == phase[t] \in ACTIVE_STATUSES /\ Move(t, "cancelled")

Next == \E t \in Tickets : Submit(t) \/ Advance(t) \/ Cancel(t)

Spec == Init /\ [][Next]_vars
=============================================================================
