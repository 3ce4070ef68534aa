---------------------------- MODULE MCServiceGate ----------------------------
(* Instances of ServiceGate for TLC: one configured service, two request      *)
(* goroutines, one operation behind the gate and one that is not.             *)
EXTENDS ServiceGate, TLC

CONSTANTS payment, c1, c2

Enabled == [status |-> 200, parses |-> TRUE, valid |-> TRUE, message |-> "wording"]
Maintenance == [status |-> 503, parses |-> TRUE, valid |-> FALSE, message |-> "wording"]
\* A failing gateway that names the cause in its message.
Broken == [status |-> 500, parses |-> TRUE, valid |-> FALSE, message |-> "timeout"]
\* A 200 whose body says the service is not valid, and a proxy's error page.
Denied == [status |-> 200, parses |-> TRUE, valid |-> FALSE, message |-> "wording"]
BadGateway == [status |-> 0, parses |-> FALSE, valid |-> FALSE, message |-> ""]

Services1 == {payment}
Calls2 == {c1, c2}
Calls1 == {c1}
TwoAnswers == {Enabled, Maintenance}
AllAnswers == {Enabled, Maintenance, Broken, Denied, BadGateway}
GateAnswers == {Enabled, Maintenance, Broken}
BrokenAnswers == {Enabled, Broken}
SomeFaults == {"connection refused"}
NoFaults == {}
Gated == {"getPaymentInfraByQrValue"}
Ungated == {"lockerConnectivity"}
None == {}
CallSymmetry == Permutations(Calls2)
=============================================================================
