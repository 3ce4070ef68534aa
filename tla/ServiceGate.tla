----------------------------- MODULE ServiceGate -----------------------------
(***************************************************************************)
(* ServiceValidationMiddleware over the cached gateway client: every       *)
(* PaymentInfraService operation but GetInstallationsByUserEmail asks      *)
(* whether the configured service is available and runs only if            *)
(* validateServiceAvailability returns nil.  The local-access operations   *)
(* reach their own service without passing here (config/container.go).     *)
(***************************************************************************)
EXTENDS GatewayCache

CONSTANTS GatedOps,       \* operations behind validateServiceAvailability
          UngatedOps,     \* operations that are not
          BypassOnError   \* config.ControlGateway.BypassOnError

ASSUME GateAssumption == BypassOnError \in BOOLEAN /\ GatedOps \cap UngatedOps = {}

VARIABLE task   \* task[c]: the operation request goroutine c is serving

gateVars == <<vars, task>>

NoTask == [stage |-> "none"]
Task == [stage : {"gate", "run", "refused"}, op : GatedOps \cup UngatedOps]

GateTypeOK == TypeOK /\ task \in [Calls -> {NoTask} \cup Task]

GateInit == Init /\ task = [c \in Calls |-> NoTask]

BeginGated(c, op) ==
    /\ task[c] = NoTask
    /\ Lookup(c)
    /\ task' = [task EXCEPT ![c] = [stage |-> "gate", op |-> op]]

BeginUngated(c, op) ==
    /\ task[c] = NoTask
    /\ task' = [task EXCEPT ![c] = [stage |-> "run", op |-> op]]
    /\ UNCHANGED vars

Checking(c) == Advance(c) /\ UNCHANGED task

\* validateServiceAvailability has the verdict: nil lets next.Op run.
Decide(c) ==
    /\ task[c].stage = "gate"
    /\ Return(c)
    /\ task' = [task EXCEPT ![c].stage =
                   IF Admits(call[c].verdict, BypassOnError) THEN "run" ELSE "refused"]

\* (Mutant: the request is not forgotten.)
FinishWithoutReset(c) ==
    /\ task[c].stage \in {"run", "refused"}
    /\ task' = [task EXCEPT ![c].stage = "none"]
    /\ UNCHANGED vars

\* The operation, or the error, is over.
Finish(c) ==
    /\ task[c].stage \in {"run", "refused"}
    /\ task' = [task EXCEPT ![c] = NoTask]
    /\ UNCHANGED vars

GateNext ==
    \/ \E c \in Calls :
          \/ \E op \in GatedOps : BeginGated(c, op)
          \/ \E op \in UngatedOps : BeginUngated(c, op)
          \/ Checking(c)
          \/ Decide(c)
          \/ Finish(c)
    \/ Environment /\ UNCHANGED task

GateSpec == GateInit /\ [][GateNext]_gateVars

\* http.Client.Timeout fires and memory steps finish; nothing obliges the
\* gateway to answer.  Time passes however busy the goroutines are (SF: their
\* memory steps, which a tick waits for, take no time worth a tick).
GateFairness ==
    /\ SF_gateVars(Tick /\ UNCHANGED task)
    /\ \A c \in Calls :
          /\ WF_gateVars(ClientTimeout(c) /\ UNCHANGED task)
          /\ WF_gateVars((Store(c) \/ Discard(c)) /\ UNCHANGED task)
          /\ WF_gateVars(Decide(c))
GateFairSpec == GateSpec /\ GateFairness

-----------------------------------------------------------------------------
Admitted(c) == task[c].stage = "gate" /\ task'[c].stage = "run"
Blocked(c) == task[c].stage = "gate" /\ task'[c].stage = "refused"

\* The gateway said (not: would have said) something satisfying P about the
\* service of c's check in the last Window ticks.
SaidLately(c, P(_)) ==
    \E p \in past : p[1] = call[c].service /\ now - p[2] <= Window /\ P(p[3])
Valid(a) == a.status = 200 /\ a.parses /\ a.valid
NotValid(a) == ~Valid(a)

\* Maintenance is honoured: once the gateway has been refusing a service for
\* TTL + Timeout, an operation behind the gate runs only because an error text
\* names an infrastructure problem and BypassOnError is set
\* (service_validation_middleware.go:49-84).
MaintenanceHonoured ==
    [][\A c \in Calls : Admitted(c) =>
          \/ SaidLately(c, Valid)
          \/ BypassOnError /\ MentionsInfrastructure(call[c].verdict.err.text)]_gateVars

\* And so is its end: once the gateway has been accepting a service for
\* TTL + Timeout, an operation is refused only if its own check failed.
RecoveryHonoured ==
    [][\A c \in Calls : Blocked(c) =>
          \/ SaidLately(c, NotValid)
          \/ /\ call[c].verdict.err.type = "error"
             /\ call[c].obs >= call[c].started]_gateVars

\* No operation is left hanging by its check, whatever the gateway does, as
\* long as the model has time left for http.Client.Timeout
\* (control_gateway_client.go:40-42).
EveryOperationDecided ==
    \A c \in Calls :
        (task[c].stage = "gate" /\ call[c].pc = "calling" /\ call[c].started + Timeout <= MaxTime)
            ~> task[c].stage \in {"run", "refused"}

\* "isInfrastructureError vs mensaje del gateway"
\* (service_validation_middleware.go:53-71): a message of the gateway itself
\* is never taken for an infrastructure error.
GatewayMessageBlocks ==
    [][\A c \in Calls : Admitted(c) => call[c].verdict.err.type # "GatewayValidationError"]_gateVars

\* "Los errores de infraestructura son: connection refused, timeout, etc."
\* (service_validation_middleware.go:55): with BypassOnError, a check that ran
\* into http.Client.Timeout lets the operation run.
TimeoutIsBypassed ==
    [][\A c \in Calls : Blocked(c) /\ BypassOnError =>
          call[c].verdict.err.text # "Client.Timeout"]_gateVars

=============================================================================
