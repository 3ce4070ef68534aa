-------------------------- MODULE ServiceGate_proofs --------------------------
(***************************************************************************)
(* The gate in front of the operations: what GatewayCache_proofs shows of  *)
(* the verdicts handed out, carried over to what the middleware makes of   *)
(* them, for every set of operations, services and goroutines.             *)
(***************************************************************************)
EXTENDS ServiceGate, GatewayCache_proofs

(* Every step of the gate is a step of the cached client, or leaves it alone. *)
LEMMA GateRefinesCache == GateSpec => Spec
<1>1. GateInit => Init
  BY DEF GateInit
<1>2. [GateNext]_gateVars => [Next]_vars
  <2> SUFFICES ASSUME [GateNext]_gateVars PROVE [Next]_vars
    OBVIOUS
  <2>1. ASSUME NEW c \in Calls, NEW op \in GatedOps, BeginGated(c, op) PROVE [Next]_vars
    BY <2>1 DEF BeginGated, Next
  <2>2. ASSUME NEW c \in Calls, NEW op \in UngatedOps, BeginUngated(c, op) PROVE [Next]_vars
    BY <2>2 DEF BeginUngated
  <2>3. ASSUME NEW c \in Calls, Checking(c) PROVE [Next]_vars
    BY <2>3 DEF Checking, Next
  <2>4. ASSUME NEW c \in Calls, Decide(c) PROVE [Next]_vars
    BY <2>4 DEF Decide, Next
  <2>5. ASSUME NEW c \in Calls, Finish(c) PROVE [Next]_vars
    BY <2>5 DEF Finish
  <2>6. CASE Environment
    BY <2>6 DEF Next
  <2>7. CASE UNCHANGED gateVars
    BY <2>7 DEF gateVars
  <2> QED
    BY <2>1, <2>2, <2>3, <2>4, <2>5, <2>6, <2>7 DEF GateNext
<1> QED
  BY <1>1, <1>2, PTL DEF Spec, GateSpec

\* The request's place in the middleware.
TaskOK == task \in [Calls -> {NoTask} \cup Task]

LEMMA TaskStep == TaskOK /\ [GateNext]_gateVars => TaskOK'
<1> SUFFICES ASSUME TaskOK, [GateNext]_gateVars PROVE TaskOK'
  OBVIOUS
<1>1. ASSUME NEW c \in Calls, NEW op \in GatedOps \cup UngatedOps, NEW st \in {"gate", "run"},
             task' = [task EXCEPT ![c] = [stage |-> st, op |-> op]]
      PROVE  TaskOK'
  BY <1>1 DEF TaskOK, Task
<1>2. ASSUME NEW c \in Calls, task' = [task EXCEPT ![c] = NoTask] PROVE TaskOK'
  BY <1>2 DEF TaskOK
<1>3. ASSUME NEW c \in Calls, Decide(c) PROVE TaskOK'
  <2>1. PICK st \in {"run", "refused"} : task' = [task EXCEPT ![c].stage = st]
    BY <1>3 DEF Decide
  <2>2. task[c] \in Task
    BY <1>3 DEF Decide, TaskOK, NoTask
  <2>3. [task[c] EXCEPT !.stage = st] \in Task
    BY <2>2 DEF Task
  <2> QED
    BY <2>1, <2>3 DEF TaskOK
<1>4. CASE UNCHANGED task
  BY <1>4 DEF TaskOK
<1> QED
  BY <1>1, <1>2, <1>3, <1>4
     DEF GateNext, BeginGated, BeginUngated, Checking, Finish, gateVars

(* The cached client's types and the request's place hold together.          *)
THEOREM GateTypeCorrect == GateSpec => []GateTypeOK
<1>1. GateInit => TaskOK
  BY DEF GateInit, TaskOK
<1>2. GateSpec => []TaskOK
  BY <1>1, TaskStep, PTL DEF GateSpec
<1>3. TypeOK /\ TaskOK => GateTypeOK
  BY DEF GateTypeOK, TaskOK
<1> QED
  BY <1>2, <1>3, GateRefinesCache, CacheTypeCorrect, PTL

-----------------------------------------------------------------------------
(* A gateway that accepts, and only it, gives (true, nil).                   *)
LEMMA ValidIsAvailable ==
    \A a \in Answer : Verdict(a).err = NoError /\ Verdict(a).available <=> Valid(a)
<1> SUFFICES ASSUME NEW a \in Answer
             PROVE  Verdict(a).err = NoError /\ Verdict(a).available <=> Valid(a)
  OBVIOUS
<1>1. a.status # 200 => ~Verdict(a).available
  BY DEF Verdict, Refused
<1>2. a.status = 200 /\ a.parses => Verdict(a).err = NoError /\ Verdict(a).available = a.valid
  BY DEF Verdict, Available
<1>3. a.status = 200 /\ ~a.parses => ~Verdict(a).available
  BY DEF Verdict, Refused
<1> QED
  BY <1>1, <1>2, <1>3 DEF Valid

LEMMA FailureIsPlain ==
    \A t \in Text : /\ Failure(t).err.type = "error"
                    /\ Failure(t).err # NoError
BY DEF Failure, Refused, PlainError, NoError

(* A decision is made on a verdict that was handed out.                      *)
LEMMA DecisionIsDecide ==
    ASSUME TaskOK, [GateNext]_gateVars, NEW c \in Calls,
           task[c].stage = "gate", task'[c].stage \in {"run", "refused"}
    PROVE  Decide(c)
<1>1. task[c] \in Task
  BY DEF TaskOK, NoTask
<1>2. ASSUME NEW d \in Calls, d # c, NEW z, task' = [task EXCEPT ![d] = z] PROVE FALSE
  BY <1>2 DEF TaskOK
<1>3. ~(task' = task)
  OBVIOUS
<1>4. task[c] # NoTask
  BY DEF NoTask
<1>5. ~\E op \in GatedOps : BeginGated(c, op)
  BY <1>4 DEF BeginGated
<1>6. ~\E op \in UngatedOps : BeginUngated(c, op)
  BY <1>4 DEF BeginUngated
<1>7. ~Finish(c)
  BY DEF Finish
<1>8. ASSUME NEW d \in Calls, d # c, Decide(d) PROVE FALSE
  BY <1>2, <1>8 DEF Decide
<1> QED
  BY <1>2, <1>3, <1>5, <1>6, <1>7, <1>8
     DEF GateNext, BeginGated, BeginUngated, Checking, Finish, gateVars

(* The decision in terms of what the gateway said: this is where the age of  *)
(* the verdict and the classification of its error meet.                     *)
LEMMA DecisionIsJustified ==
    ASSUME TaskOK, ServedIsRecent, NEW c \in Calls, Decide(c)
    PROVE  /\ task'[c].stage = "run" =>
                \/ SaidLately(c, Valid)
                \/ BypassOnError /\ MentionsInfrastructure(call[c].verdict.err.text)
           /\ task'[c].stage = "refused" =>
                \/ SaidLately(c, NotValid)
                \/ call[c].verdict.err.type = "error" /\ call[c].obs >= call[c].started
<1> DEFINE v == call[c].verdict
<1>1. task'[c].stage = IF Admits(v, BypassOnError) THEN "run" ELSE "refused"
  <2>1. task[c] \in Task
    BY DEF Decide, TaskOK, NoTask
  <2> QED
    BY <2>1 DEF Decide, TaskOK, Task
<1>2. \/ \E a \in Answers : /\ <<call[c].service, call[c].obs, a>> \in past
                             /\ now - call[c].obs <= Window
                             /\ v = Verdict(a)
      \/ /\ call[c].obs >= call[c].started
         /\ \E text \in Faults \cup {"Client.Timeout"} : v = Failure(text)
  BY DEF ServedIsRecent, Decide, Return
<1>3. CASE \E a \in Answers : /\ <<call[c].service, call[c].obs, a>> \in past
                              /\ now - call[c].obs <= Window
                              /\ v = Verdict(a)
  <2>1. PICK a \in Answers : /\ <<call[c].service, call[c].obs, a>> \in past
                             /\ now - call[c].obs <= Window
                             /\ v = Verdict(a)
    BY <1>3
  <2>2. v.err = NoError /\ v.available <=> Valid(a)
    BY <2>1, ValidIsAvailable, AnswersAssumption
  <2> DEFINE p == <<call[c].service, call[c].obs, a>>
  <2>3. p \in past /\ p[1] = call[c].service /\ now - p[2] <= Window /\ p[3] = a
    BY <2>1
  <2>4. SaidLately(c, Valid) <=> \E q \in past : /\ q[1] = call[c].service
                                                 /\ now - q[2] <= Window /\ Valid(q[3])
    BY DEF SaidLately
  <2>5. SaidLately(c, NotValid) <=> \E q \in past : /\ q[1] = call[c].service
                                                    /\ now - q[2] <= Window /\ NotValid(q[3])
    BY DEF SaidLately
  <2> HIDE DEF p, v
  <2>6. CASE Valid(a)
    <3>1. SaidLately(c, Valid)
      BY <2>3, <2>4, <2>6
    <3>2. task'[c].stage = "run"
      BY <1>1, <2>2, <2>6 DEF Admits
    <3> QED
      BY <3>1, <3>2
  <2>7. CASE ~Valid(a)
    <3>1. SaidLately(c, NotValid)
      BY <2>3, <2>5, <2>7 DEF NotValid
    <3>2. task'[c].stage = "run" => Bypassed(v, BypassOnError)
      BY <1>1, <2>2, <2>7 DEF Admits
    <3> QED
      BY <3>1, <3>2 DEF Bypassed, v
  <2> QED
    BY <2>6, <2>7
<1>4. CASE /\ call[c].obs >= call[c].started
           /\ \E text \in Faults \cup {"Client.Timeout"} : v = Failure(text)
  <2>1. v.err.type = "error" /\ v.err # NoError
    BY <1>4, FailureIsPlain, FaultsAssumption DEF Text
  <2>2. task'[c].stage = "run" => Bypassed(v, BypassOnError)
    BY <1>1, <2>1 DEF Admits
  <2> QED
    BY <1>4, <2>1, <2>2 DEF Bypassed
<1> QED
  BY <1>2, <1>3, <1>4

(* A request goroutine goes on to its operation only if the gateway accepted *)
(* the service in the last TTL + Timeout, or if an error text names an       *)
(* infrastructure problem and BypassOnError is set                           *)
(* (service_validation_middleware.go:49-84): the conclusion of the whole     *)
(* chain of client, cache and classification.                                *)
THEOREM HonoursMaintenance == GateSpec => MaintenanceHonoured
<1>1. ServedIsRecent /\ TaskOK /\ [GateNext]_gateVars =>
        [\A c \in Calls : Admitted(c) =>
            \/ SaidLately(c, Valid)
            \/ BypassOnError /\ MentionsInfrastructure(call[c].verdict.err.text)]_gateVars
  BY DecisionIsDecide, DecisionIsJustified DEF Admitted
<1>2. GateInit => TaskOK
  BY DEF GateInit, TaskOK
<1> QED
  BY <1>1, <1>2, TaskStep, GateRefinesCache, ServesRecent, PTL
     DEF GateSpec, MaintenanceHonoured

(* And it is refused only if the gateway refused the service in that window, *)
(* or its own call failed.                                                   *)
THEOREM HonoursRecovery == GateSpec => RecoveryHonoured
<1>1. ServedIsRecent /\ TaskOK /\ [GateNext]_gateVars =>
        [\A c \in Calls : Blocked(c) =>
            \/ SaidLately(c, NotValid)
            \/ /\ call[c].verdict.err.type = "error"
               /\ call[c].obs >= call[c].started]_gateVars
  BY DecisionIsDecide, DecisionIsJustified DEF Blocked
<1>2. GateInit => TaskOK
  BY DEF GateInit, TaskOK
<1> QED
  BY <1>1, <1>2, TaskStep, GateRefinesCache, ServesRecent, PTL
     DEF GateSpec, RecoveryHonoured
=============================================================================
