--------------------------- MODULE LeasingNotices ---------------------------
(***************************************************************************)
(* Who is told of what in leasing: the events that the services publish at *)
(* the end of a call, and the handlers that gateway/main.py subscribes to  *)
(* them. A call and its handlers are one step of module Leasing here; what *)
(* may come between them is the subject of Services. unit.occupied and     *)
(* unit.vacated have no handler.                                           *)
(***************************************************************************)
EXTENDS Leasing

VARIABLE told  \* the notifications: <<user, event, request or lease>>

noticeVars == <<vars, told>>

Tells(user, event, row) == told' = told \cup {<<user, event, row>>}

\* on_lease_request_created: a property without manager tells nobody.
TellsManager(u, r) ==
    LET manager == properties[units[u].property].manager
    IN  IF manager = Null THEN UNCHANGED told ELSE Tells(manager, "lease_request.created", r)

NoticeInit == Init /\ told = {}

\* The requests that an approval rejects in bulk have no event of their own.
Answers ==
    \E s \in Staff, r \in Requests :
        \/ RejectRequest(s, r) /\ Tells(requests[r].tenant, "lease_request.rejected", r)
        \/ \E l \in Leases :
              ApproveRequest(s, r, l) /\ Tells(requests[r].tenant, "lease_request.approved", r)

\* "lease.created" has no handler but log_event.
LeaseCalls ==
    \E s \in Staff, l \in Leases :
        \/ \E u \in Units, t \in Users : CreateLease(s, u, t, l) /\ UNCHANGED told
        \/ ActivateLease(s, l) /\ Tells(leases[l].tenant, "lease.activated", l)
        \/ TerminateLease(s, l) /\ Tells(leases[l].tenant, "lease.terminated", l)

NoticeNext ==
    \/ Portfolio /\ UNCHANGED told
    \/ \E t \in Tenants, u \in Units, r \in Requests : SubmitRequest(t, u, r) /\ TellsManager(u, r)
    \/ Answers \/ LeaseCalls

NoticeSpec == NoticeInit /\ [][NoticeNext]_noticeVars

-----------------------------------------------------------------------------
(***************************************************************************)
(* "You will receive an in-app notification when your request is approved  *)
(* or rejected." (my-docs/docs/USER_GUIDE.md:58). The bulk rejection of    *)
(* LeaseRequestService.approve (:145-151) publishes nothing.               *)
(***************************************************************************)
AnsweredAreTold ==
    \A r \in Requests :
        /\ requests[r] # Null /\ requests[r].status = "APPROVED" =>
              <<requests[r].tenant, "lease_request.approved", r>> \in told
        /\ requests[r] # Null /\ requests[r].status = "REJECTED" =>
              <<requests[r].tenant, "lease_request.rejected", r>> \in told
=============================================================================
