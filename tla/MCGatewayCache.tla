--------------------------- MODULE MCGatewayCache ---------------------------
(* Instances of GatewayCache for TLC: one answer of each class the code      *)
(* tells apart, and the goroutines as interchangeable model values.          *)
EXTENDS GatewayCache, TLC

CONSTANTS payment, booking, c1, c2

Enabled == [status |-> 200, parses |-> TRUE, valid |-> TRUE, message |-> "wording"]
Maintenance == [status |-> 503, parses |-> TRUE, valid |-> FALSE, message |-> "wording"]

TwoAnswers == {Enabled, Maintenance}
OneService == {payment}
TwoServices == {payment, booking}
TwoCalls == {c1, c2}
SomeFaults == {"connection refused"}
NoFaults == {}
Symmetry == Permutations(TwoCalls) \cup Permutations(TwoServices)
=============================================================================
