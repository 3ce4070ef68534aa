---------------------------- MODULE OpenDelivery ----------------------------
(***************************************************************************)
(* What an executeOpen subscription promises: the client receives what was *)
(* emitted, in order; the only thing the BFF adds is one connection error, *)
(* at the end and not after an outcome; and a subscription is over only    *)
(* when everything has been received or the client cancelled.              *)
(***************************************************************************)
EXTENDS Naturals, Sequences

VARIABLES emitted,    \* what there is to tell
          delivered,  \* what the client knows
          cancelled, over

vars == <<emitted, delivered, cancelled, over>>

Added(frame) == frame.number = 0
HasOutcome(s) == \E i \in DOMAIN s : s[i].status \in {"SUCCESS", "ERROR"}

Init == emitted = <<>> /\ delivered = <<>> /\ cancelled = FALSE /\ over = FALSE

EmitNext ==
    /\ over => cancelled
    /\ Len(emitted') = Len(emitted) + 1
    /\ SubSeq(emitted', 1, Len(emitted)) = emitted
    /\ \A i \in DOMAIN emitted : ~Added(emitted[i])
    /\ Added(emitted'[Len(emitted')]) => ~HasOutcome(emitted)
    /\ UNCHANGED <<delivered, cancelled, over>>

DeliverNext ==
    /\ ~over
    /\ Len(delivered) < Len(emitted)
    /\ delivered' = Append(delivered, emitted[Len(delivered) + 1])
    /\ UNCHANGED <<emitted, cancelled, over>>

CancelIt == ~cancelled /\ cancelled' = TRUE /\ UNCHANGED <<emitted, delivered, over>>

Finish ==
    /\ ~over
    /\ delivered = emitted \/ cancelled
    /\ over' = TRUE
    /\ UNCHANGED <<emitted, delivered, cancelled>>

Next == EmitNext \/ DeliverNext \/ CancelIt \/ Finish

Spec == Init /\ [][Next]_vars
=============================================================================
