------------------------------ MODULE MCInbox ------------------------------
(* Inbox as it is; the configuration names its two notifications. *)
EXTENDS Inbox
=============================================================================
