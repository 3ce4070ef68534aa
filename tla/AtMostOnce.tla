----------------------------- MODULE AtMostOnce -----------------------------
(***************************************************************************)
(* What a mutation of the BFF promises its caller, whatever RPCs it is     *)
(* made of: its effect happens at most once, "ok" means it happened, a     *)
(* definite error means it never will, and any other error ("service      *)
(* unavailable") leaves it open: the effect may still come.                *)
(***************************************************************************)
CONSTANT Requests

VARIABLES applied,   \* the requests whose effect took place
          answer     \* answer[r]: what its caller was told

vars == <<applied, answer>>

Init == /\ applied = {}
        /\ answer = [r \in Requests |-> "pending"]

Apply(r) ==
    /\ r \notin applied
    /\ answer[r] \in {"pending", "unknown"}
    /\ applied' = applied \cup {r}
    /\ UNCHANGED answer

Tell(r, a) ==
    /\ answer[r] = "pending"
    /\ a = "ok" => r \in applied
    /\ a = "no" => r \notin applied
    /\ answer' = [answer EXCEPT ![r] = a]
    /\ UNCHANGED applied

Next == \E r \in Requests : Apply(r) \/ \E a \in {"ok", "no", "unknown"} : Tell(r, a)

Spec == Init /\ [][Next]_vars
=============================================================================
