----------------------------- MODULE MCSession -----------------------------
(* A tenant who has an account and a manager who has not registered yet. *)
EXTENDS Session

CONSTANTS tess, max

MCRole == [a \in {tess, max} |-> IF a = tess THEN "tenant" ELSE "manager"]
=============================================================================
