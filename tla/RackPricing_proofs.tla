-------------------------- MODULE RackPricing_proofs --------------------------
(***************************************************************************)
(* Proofs about RackPricing, for any number of requests, inputs, prices    *)
(* and templates: its type invariant, and that every mutation keeps the    *)
(* promise of AtMostOnce.                                                  *)
(***************************************************************************)
EXTENDS RackPricing, TLAPS

\* Every gRPC code becomes a domain error.
LEMMA MapsToDomain == \A code : mapGRPCError(code) \in DomainErrors
  BY DEF mapGRPCError, DomainErrors

\* What a request asks for, on the wire, is a set of prices.
LEMMA AskedType == ASSUME TypeOK, NEW r \in Requests PROVE Asked(r) \subseteq Prices
<1>1. input[r].cells \subseteq Prices
  <2>1. input[r] \in Input
    BY DEF TypeOK
  <2> QED BY <2>1 DEF Input
<1>2. \A c \in Prices : Float32[c] \in Prices
  BY PricingAssumption
<1> QED BY <1>1, <1>2 DEF Asked, cellsToDto

\* An action that executes or refuses an RPC keeps the types, as long as what
\* it writes has them.
LEMMA ReplyTypes ==
  ASSUME TypeOK, NEW r \in Requests, NEW op \in Ops, NEW x \in Answer,
         Reply(r, op, x), done' \subseteq Requests \X Ops,
         templates' \in [Ids -> Template],
         racks' \subseteq [by : Requests, template : Ids, groups : SUBSET Prices]
  PROVE  TypeOK'
<1>1. wire' \subseteq Requests \X Ops
  BY DEF TypeOK, Reply
<1>2. rpc' \in [Requests -> Answer]
  BY DEF TypeOK, Reply
<1> QED BY <1>1, <1>2 DEF TypeOK, Reply

LEMMA TypeInit == Init => TypeOK
<1> SUFFICES ASSUME Init PROVE TypeOK
  OBVIOUS
<1>1. Blank \in Input
  BY DEF Blank, Input, Ops, NilID
<1>2. templates \in [Ids -> Template]
  <2>1. PICK cells \in Stocked \cup {{}} :
          templates = [t \in Ids |-> IF t = 1 /\ cells # {}
                                     THEN [state |-> "live", cells |-> cells, by |-> NoOne]
                                     ELSE Free]
    BY DEF Init
  <2>2. cells \subseteq Prices
    BY <2>1, PricingAssumption
  <2>3. Free \in Template /\ [state |-> "live", cells |-> cells, by |-> NoOne] \in Template
    BY <2>2 DEF Free, Template
  <2> QED BY <2>1, <2>3
<1>3. Ready \in Answer
  BY DEF Ready, Answer
<1>4. input \in [Requests -> Input] /\ rpc \in [Requests -> Answer]
  BY <1>1, <1>3 DEF Init
<1>5. chosen \in [Requests -> [id : Int, groups : SUBSET Prices]]
  <2>1. [id |-> 0, groups |-> {}] \in [id : Int, groups : SUBSET Prices]
    OBVIOUS
  <2>2. chosen = [x \in Requests |-> [id |-> 0, groups |-> {}]]
    BY DEF Init
  <2> QED BY <2>1, <2>2
<1>6. /\ pc \in [Requests -> Ops \cup {"idle", "ended"}]
      /\ told \in [Requests -> Told]
      /\ over \in [Requests -> SUBSET Requests]
  BY DEF Init, Told
<1>7. wire = {} /\ racks = {} /\ done = {}
  BY DEF Init
<1> QED BY <1>2, <1>4, <1>5, <1>6, <1>7 DEF TypeOK

LEMMA BeginType ==
  ASSUME TypeOK, NEW r \in Requests, NEW i \in Inputs, Begin(r, i) PROVE TypeOK'
<1>1. i \in Input
  BY PricingAssumption
<1>2. over' \in [Requests -> SUBSET Requests]
  BY DEF TypeOK, Begin
<1>3. Ready \in Answer /\ i.op \in Ops \cup {"idle", "ended"}
  BY <1>1 DEF Ready, Answer, Input
<1>4. [id |-> i.pricingTemplateID, groups |-> i.groupProductBySize]
         \in [id : Int, groups : SUBSET Prices]
  BY <1>1 DEF Input
<1>5. pc' \in [Requests -> Ops \cup {"idle", "ended"}]
  BY <1>3 DEF TypeOK, Begin, FirstCall, GoTo, End, Ops
<1>6. rpc' \in [Requests -> Answer]
  BY <1>3 DEF TypeOK, Begin, FirstCall, GoTo, End
<1>7. told' \in [Requests -> Told]
  BY DEF TypeOK, Begin, FirstCall, GoTo, End, Told
<1>8. chosen' \in [Requests -> [id : Int, groups : SUBSET Prices]]
  BY <1>4 DEF TypeOK, Begin, FirstCall, Choose, End
<1>9. input' \in [Requests -> Input]
  BY <1>1 DEF TypeOK, Begin
<1> QED BY <1>2, <1>5, <1>6, <1>7, <1>8, <1>9 DEF TypeOK, Begin, service

LEMMA EndType ==
  ASSUME TypeOK, NEW r \in Requests, NEW e \in Told, End(r, e),
         UNCHANGED <<input, wire, service, done, over>>
  PROVE  TypeOK'
  BY DEF TypeOK, End, service

LEMMA GoToType ==
  ASSUME TypeOK, NEW r \in Requests, NEW op \in Ops, GoTo(r, op),
         chosen' \in [Requests -> [id : Int, groups : SUBSET Prices]],
         UNCHANGED <<input, wire, service, done, over>>
  PROVE  TypeOK'
<1>1. Ready \in Answer
  BY DEF Ready, Answer
<1> QED BY <1>1 DEF TypeOK, GoTo, service

LEMMA GoroutineType ==
  ASSUME TypeOK, NEW r \in Requests, Goroutine(r) \/ Fail(r) PROVE TypeOK'
<1> USE MapsToDomain DEF Told
<1>1. CASE Refused(r)
  BY <1>1, EndType DEF Refused
<1>2. CASE Invalid(r)
  BY <1>2, EndType DEF Invalid
<1>3. CASE Send(r)
  <2>1. Sent \in Answer
    BY DEF Sent, Answer
  <2>2. wire' \subseteq Requests \X Ops
    <3>1. pc[r] \in Ops /\ wire' = wire \cup {<<r, pc[r]>>}
      BY <1>3 DEF Send, AtCall
    <3>2. wire \subseteq Requests \X Ops
      BY DEF TypeOK
    <3> QED BY <3>1, <3>2
  <2>3. rpc' \in [Requests -> Answer]
    BY <1>3, <2>1 DEF Send, TypeOK
  <2>4. UNCHANGED <<input, pc, chosen, told, templates, racks, done, over>>
    BY <1>3 DEF Send, service
  <2> QED BY <2>2, <2>3, <2>4 DEF TypeOK
<1>4. CASE Fail(r)
  BY <1>4, EndType DEF Fail
<1>5. CASE Rejected(r)
  BY <1>5, EndType DEF Rejected
<1>6. CASE Succeeded(r)
  BY <1>6, EndType DEF Succeeded
<1>7. CASE Found(r) \/ Created(r)
  <2>1. rpc[r] \in Answer /\ rpc[r].at = "ok"
    BY <1>7 DEF Found, Created, TypeOK
  <2>2. [id |-> rpc[r].id, groups |-> rpc[r].groups] \in [id : Int, groups : SUBSET Prices]
    BY <2>1 DEF Answer
  <2>3. chosen' \in [Requests -> [id : Int, groups : SUBSET Prices]]
    BY <1>7, <2>2 DEF Found, Created, Choose, TypeOK
  <2> QED BY <1>7, <2>3, GoToType DEF Found, Created, Ops
<1>8. CASE NoMatch(r)
  BY <1>8, GoToType DEF NoMatch, Ops, TypeOK
<1> QED BY <1>1, <1>2, <1>3, <1>4, <1>5, <1>6, <1>7, <1>8 DEF Goroutine

LEMMA PaymentServiceType ==
  ASSUME TypeOK, NEW r \in Requests, PaymentService(r) PROVE TypeOK'
<1> DEFINE Racks == [by : Requests, template : Ids, groups : SUBSET Prices]
<1>0. /\ {"Find", "Create", "Update", "Delete", "Rack"} = Ops
      /\ Ids \subseteq Int
      /\ templates \in [Ids -> Template] /\ racks \subseteq Racks
      /\ done \subseteq Requests \X Ops
  BY PricingAssumption DEF Ops, Ids, TypeOK
<1>a. \A id \in Int : \A groups \in SUBSET Prices : OK(id, groups) \in Answer
  BY DEF OK, Answer
<1>1. CASE ServeFind(r)
  <2>1. \A t \in Ids : OK(t, templates[t].cells) \in Answer
    BY <1>0, <1>a DEF Template
  <2>2. [at |-> "none"] \in Answer
    BY DEF Answer
  <2>3. PICK x \in Answer : Execute(r, "Find", x)
    BY <1>1, <2>1, <2>2 DEF ServeFind, Matches
  <2> QED BY <1>1, <2>3, <1>0, ReplyTypes DEF ServeFind, Execute, service
<1>2. CASE ServeCreate(r)
  <2>1. PICK t \in Ids : /\ Execute(r, "Create", OK(t, Asked(r)))
                         /\ templates' = [templates EXCEPT ![t] =
                               [state |-> "live", cells |-> Asked(r), by |-> r]]
    BY <1>2 DEF ServeCreate
  <2>2. OK(t, Asked(r)) \in Answer
    BY <1>0, <1>a, AskedType
  <2>3. templates' \in [Ids -> Template]
    BY <1>0, <2>1, AskedType DEF Template
  <2> QED BY <1>2, <2>1, <2>2, <2>3, <1>0, ReplyTypes DEF ServeCreate, Execute
<1>3. CASE ServeUpdate(r)
  <2> DEFINE t == input[r].pricingTemplateID
  <2>1. t \in Ids /\ Execute(r, "Update", OK(t, {})) /\ racks' = racks
    BY <1>3 DEF ServeUpdate, Live
  <2>2. OK(t, {}) \in Answer
    BY <2>1, <1>0, <1>a
  <2>3. templates' \in [Ids -> Template]
    <3>1. CASE Asked(r) = {}
      BY <1>3, <3>1, <1>0 DEF ServeUpdate
    <3>2. CASE Asked(r) # {}
      BY <1>3, <3>2, <1>0, AskedType DEF ServeUpdate, Template
    <3> QED BY <3>1, <3>2
  <2> QED BY <2>1, <2>2, <2>3, <1>0, ReplyTypes DEF Execute
<1>4. CASE ServeDelete(r)
  <2> DEFINE t == input[r].pricingTemplateID
  <2>1. t \in Ids /\ Execute(r, "Delete", OK(t, {})) /\ racks' = racks
    BY <1>4 DEF ServeDelete, Live
  <2>2. OK(t, {}) \in Answer
    BY <2>1, <1>0, <1>a
  <2>3. templates' \in [Ids -> Template]
    BY <1>4, <1>0 DEF ServeDelete, Template
  <2> QED BY <2>1, <2>2, <2>3, <1>0, ReplyTypes DEF Execute
<1>5. CASE ServeRack(r)
  <2>1. chosen[r].id \in Ids /\ chosen[r].groups \subseteq Prices
    BY <1>5 DEF ServeRack, Live, TypeOK
  <2>2. OK(chosen[r].id, {}) \in Answer
    BY <2>1, <1>0, <1>a
  <2>3. racks' \subseteq Racks
    BY <1>5, <2>1, <1>0 DEF ServeRack
  <2> QED BY <1>5, <2>2, <2>3, <1>0, ReplyTypes DEF ServeRack, Execute
<1>6. ASSUME NEW op \in Ops, Reject(r, op) PROVE TypeOK'
  <2>1. PICK code \in Codes : Reply(r, op, [at |-> "error", code |-> code])
    BY <1>6 DEF Reject
  <2>2. [at |-> "error", code |-> code] \in Answer
    BY DEF Answer
  <2> QED BY <1>6, <2>1, <2>2, <1>0, ReplyTypes DEF Reject, service
<1>7. ASSUME NEW op \in Ops, Lose(r, op) PROVE TypeOK'
  BY <1>7 DEF Lose, TypeOK, goroutine, service
<1> QED BY <1>1, <1>2, <1>3, <1>4, <1>5, <1>6, <1>7 DEF PaymentService

LEMMA TypeStep == TypeOK /\ [Next]_vars => TypeOK'
<1> SUFFICES ASSUME TypeOK, [Next]_vars PROVE TypeOK'
  OBVIOUS
<1>1. CASE UNCHANGED vars
  BY <1>1 DEF vars, goroutine, service, TypeOK
<1>2. CASE Next
  BY <1>2, BeginType, GoroutineType, PaymentServiceType DEF Next
<1> QED BY <1>1, <1>2

\* Each variable keeps its type in every reachable state, the identifiers of
\* racks and chosen templates included.
THEOREM PricingTypeCorrect == Spec => []TypeOK
  BY TypeInit, TypeStep, PTL DEF Spec

-----------------------------------------------------------------------------
(* The promise of AtMostOnce *)

\* Of its last RPC a goroutine knows enough: it is not in the network and was
\* not executed before it was sent, nor after a definite error; it was executed
\* if the answer says so; and it is executed once.
Last(r) == <<r, input[r].op>>
Accountable(r) ==
    /\ pc[r] = "idle" => \A op \in Ops : <<r, op>> \notin wire \cup done
    /\ pc[r] = "ended" <=> told[r] # ""
    /\ pc[r] \in Ops => pc[r] = input[r].op \/ Wizard(r)
    /\ Last(r) \in wire => Last(r) \notin done
    /\ Last(r) \in wire \cup done =>
          \/ pc[r] = input[r].op /\ rpc[r].at # "ready"
          \/ told[r] \in {"ok", "ErrPaymentInfraServiceUnavailable"}
    /\ told[r] = "ok" => Last(r) \in done
    /\ pc[r] = input[r].op /\ rpc[r].at = "ok" => Last(r) \in done
    /\ pc[r] = input[r].op /\ rpc[r].at = "error" => Last(r) \notin wire \cup done

AccountableInv == TypeOK /\ \A r \in Requests : Accountable(r)

\* A code that does not become "service unavailable" comes from an answer, and a
\* deadline becomes "service unavailable".
LEMMA DeadlineIsUnavailable ==
    mapGRPCError("DeadlineExceeded") = "ErrPaymentInfraServiceUnavailable"
  BY DEF mapGRPCError

LEMMA AccountableInit == Init => AccountableInv
<1> SUFFICES ASSUME Init PROVE AccountableInv
  OBVIOUS
<1>1. ASSUME NEW r \in Requests PROVE Accountable(r)
  <2>1. /\ pc[r] = "idle" /\ told[r] = "" /\ wire = {} /\ done = {}
        /\ input[r].op = "Rack" /\ rpc[r] = Ready
    BY DEF Init, Blank
  <2> QED BY <2>1 DEF Accountable, Last, Ready, Ops
<1> QED BY <1>1, TypeInit DEF AccountableInv

\* A request is not disturbed by what changes nothing of it.
LEMMA OthersKeep ==
  ASSUME NEW q \in Requests, Accountable(q),
         input'[q] = input[q], pc'[q] = pc[q], rpc'[q] = rpc[q], told'[q] = told[q],
         \A op : (<<q, op>> \in wire' <=> <<q, op>> \in wire),
         \A op : (<<q, op>> \in done' <=> <<q, op>> \in done)
  PROVE  Accountable(q)'
<1>1. Last(q)' = Last(q) /\ (Wizard(q)' <=> Wizard(q))
  BY DEF Last, Wizard
<1>2. /\ Last(q) \in wire' <=> Last(q) \in wire
      /\ Last(q) \in done' <=> Last(q) \in done
  BY DEF Last
<1>3. pc[q] = "idle" => \A op \in Ops : <<q, op>> \notin wire' \cup done'
  BY DEF Accountable
<1> QED BY <1>1, <1>2, <1>3 DEF Accountable

\* The response of a request that is at a call.
LEMMA EndKeeps ==
  ASSUME TypeOK, NEW r \in Requests, Accountable(r), pc[r] \in Ops,
         NEW e, End(r, e), e # "", UNCHANGED <<input, wire, done>>,
         Last(r) \in wire \cup done => e \in {"ok", "ErrPaymentInfraServiceUnavailable"},
         e = "ok" => Last(r) \in done
  PROVE  Accountable(r)'
<1>1. pc'[r] = "ended" /\ told'[r] = e
  BY DEF End, TypeOK
<1>2. Last(r)' = Last(r) /\ input[r].op # "ended"
  BY DEF Last, TypeOK, Input, Ops
<1> QED BY <1>1, <1>2 DEF Accountable, Ops, Last

\* The next call of a request of several.
LEMMA GoToKeeps ==
  ASSUME TypeOK, NEW r \in Requests, Accountable(r), pc[r] \in Ops,
         pc[r] # input[r].op, NEW op \in Ops, op = input[r].op \/ Wizard(r),
         GoTo(r, op), UNCHANGED <<input, wire, done>>
  PROVE  Accountable(r)'
<1>1. pc'[r] = op /\ rpc'[r].at = "ready" /\ told' = told
  BY DEF GoTo, TypeOK, Ready
<1>2. Last(r)' = Last(r) /\ (Wizard(r)' <=> Wizard(r))
  BY DEF Last, Wizard
<1>3. told[r] = "" /\ Last(r) \notin wire \cup done
  BY DEF Accountable, Ops
<1> QED BY <1>1, <1>2, <1>3 DEF Accountable, Ops

LEMMA BeginKeeps ==
  ASSUME TypeOK, NEW r \in Requests, Accountable(r), NEW i \in Inputs, Begin(r, i)
  PROVE  Accountable(r)'
<1>1. /\ input'[r] = i /\ i.op \in Ops /\ wire' = wire /\ done' = done
      /\ told[r] = "" /\ \A op \in Ops : <<r, op>> \notin wire \cup done
  BY PricingAssumption DEF Begin, TypeOK, Accountable, Input
<1>2. Last(r)' \notin wire \cup done
  BY <1>1 DEF Last
<1>3. CASE pc'[r] = "ended" /\ told'[r] # "" /\ told'[r] # "ok"
  BY <1>1, <1>2, <1>3 DEF Accountable, Ops
<1>4. CASE /\ pc'[r] \in Ops /\ rpc'[r].at = "ready" /\ told'[r] = ""
           /\ pc'[r] = i.op \/ (i.op = "Rack" /\ i.pricingTemplateID = NilID)
  <2>1. pc'[r] = i.op \/ Wizard(r)'
    BY <1>1, <1>4 DEF Wizard
  <2> QED BY <1>1, <1>2, <1>4, <2>1 DEF Accountable, Ops
<1>5. FirstCall(r, i) /\ Ready.at = "ready"
  BY DEF Begin, Ready
<1>6. pc \in [Requests -> Ops \cup {"idle", "ended"}] /\ rpc \in [Requests -> Answer]
      /\ told \in [Requests -> Told] /\ "Rack" \in Ops /\ "Find" \in Ops
  BY DEF TypeOK, Ops
<1>7. CASE End(r, "ErrPricingCellsRequired")
  BY <1>3, <1>6, <1>7 DEF End
<1>8. CASE i.op = "Rack" /\ GoTo(r, "Rack")
  <2>1. pc'[r] = "Rack" /\ told'[r] = ""
    BY <1>1, <1>6, <1>8 DEF GoTo
  <2>2. rpc'[r] = Ready
    BY <1>6, <1>8 DEF GoTo
  <2> QED BY <1>1, <1>4, <1>5, <1>6, <1>8, <2>1, <2>2
<1>9. CASE i.op = "Rack" /\ i.pricingTemplateID = NilID /\ GoTo(r, "Find")
  <2>1. pc'[r] = "Find" /\ told'[r] = ""
    BY <1>1, <1>6, <1>9 DEF GoTo
  <2>2. rpc'[r] = Ready
    BY <1>6, <1>9 DEF GoTo
  <2> QED BY <1>1, <1>4, <1>5, <1>6, <1>9, <2>1, <2>2
<1>10. CASE GoTo(r, i.op)
  <2>1. pc'[r] = i.op /\ told'[r] = ""
    BY <1>1, <1>6, <1>10 DEF GoTo
  <2>2. rpc'[r] = Ready
    BY <1>6, <1>10 DEF GoTo
  <2> QED BY <1>1, <1>4, <1>5, <1>6, <1>10, <2>1, <2>2
<1> QED BY <1>5, <1>7, <1>8, <1>9, <1>10 DEF FirstCall

\* Before its last RPC is sent, a request has no effect to come.
LEMMA NothingSent ==
  ASSUME NEW r \in Requests, Accountable(r), AtCall(r)
  PROVE  /\ pc[r] \in Ops /\ rpc[r].at = "ready" /\ told[r] = ""
         /\ Last(r) \notin wire \cup done
<1>1. pc[r] \in Ops /\ rpc[r].at = "ready"
  BY DEF AtCall, Ready
<1>2. told[r] = ""
  BY <1>1 DEF Accountable, Ops
<1> QED BY <1>1, <1>2 DEF Accountable

LEMMA SendKeeps ==
  ASSUME TypeOK, NEW r \in Requests, Accountable(r), Send(r)
  PROVE  Accountable(r)'
<1>1. /\ UNCHANGED <<input, pc, told, done>>
      /\ wire' = wire \cup {<<r, pc[r]>>} /\ rpc' = [rpc EXCEPT ![r] = Sent]
      /\ pc[r] \in Ops /\ told[r] = "" /\ Last(r) \notin wire \cup done
  BY NothingSent DEF Send
<1>a. rpc'[r].at = "sent"
  BY <1>1 DEF TypeOK, Sent
<1>2. Last(r)' = Last(r) /\ (Wizard(r)' <=> Wizard(r))
  BY <1>1 DEF Last, Wizard
<1>3. Last(r) \in wire' => pc[r] = input[r].op
  BY <1>1, <1>2 DEF Last
<1> QED BY <1>1, <1>a, <1>2, <1>3 DEF Accountable, Ops

LEMMA GoroutineKeeps ==
  ASSUME TypeOK, NEW r \in Requests, Accountable(r), Goroutine(r) \/ Fail(r)
  PROVE  Accountable(r)'
<1>0. input[r].op \in Ops \ {"Find"}
  BY DEF TypeOK, Input
<1>a. \A e \in DomainErrors : e # "" /\ e # "ok"
  BY DEF DomainErrors
<1>1. CASE Refused(r)
  <2>1. Last(r) \notin wire \cup done
    BY <1>1, NothingSent DEF Refused
  <2> QED BY <1>1, <2>1, EndKeeps DEF Refused, AtCall
<1>2. CASE Invalid(r)
  <2>1. Last(r) \notin wire \cup done
    BY <1>2, NothingSent DEF Invalid
  <2> QED BY <1>2, <2>1, <1>a, EndKeeps DEF Invalid, AtCall
<1>3. CASE Send(r)
  BY <1>3, SendKeeps
<1>4. CASE Fail(r)
  BY <1>4, EndKeeps, DeadlineIsUnavailable DEF Fail
<1>5. CASE Rejected(r)
  <2>1. Last(r) \notin wire \cup done
    BY <1>5 DEF Rejected, Accountable, Ops
  <2> QED BY <1>5, <2>1, <1>a, MapsToDomain, EndKeeps DEF Rejected
<1>6. CASE Succeeded(r)
  <2>1. Last(r) \in done
    BY <1>6 DEF Succeeded, Accountable
  <2> QED BY <1>6, <1>0, <2>1, EndKeeps DEF Succeeded
<1>7. CASE Found(r) \/ NoMatch(r) \/ Created(r)
  <2>1. pc[r] \in Ops /\ Wizard(r) /\ pc[r] # input[r].op
    BY <1>7, <1>0 DEF Found, NoMatch, Created, Accountable, Ops, Wizard
  <2> QED BY <1>7, <2>1, GoToKeeps DEF Found, NoMatch, Created, Ops
<1> QED BY <1>1, <1>2, <1>3, <1>4, <1>5, <1>6, <1>7 DEF Goroutine

\* What the payment service and the network do with an RPC of r: execute it,
\* refuse it with no effect, or lose it.
LEMMA ReplyKeeps ==
  ASSUME TypeOK, NEW r \in Requests, Accountable(r), NEW op \in Ops, NEW x,
         Reply(r, op, x), x.at \in {"ok", "none", "error"},
         x.at = "none" => op = "Find",
         IF x.at = "error" THEN done' = done ELSE done' = done \cup {<<r, op>>}
  PROVE  Accountable(r)'
<1>1. /\ <<r, op>> \in wire /\ wire' = wire \ {<<r, op>>}
      /\ UNCHANGED <<input, pc, told>>
      /\ rpc'[r] = rpc[r] \/ (pc[r] = op /\ rpc'[r] = x)
  BY DEF Reply, TypeOK
<1>2. Last(r)' = Last(r) /\ (Wizard(r)' <=> Wizard(r)) /\ input[r].op # "Find"
  BY <1>1 DEF Last, Wizard, TypeOK, Input
<1>3. pc[r] # "idle"
  BY <1>1 DEF Accountable
<1>4. rpc'[r].at # "ready" \/ rpc'[r] = rpc[r]
  BY <1>1
<1>5. CASE op = input[r].op
  <2>1. Last(r) = <<r, op>> /\ Last(r) \notin wire' /\ x.at # "none"
    BY <1>1, <1>2, <1>5 DEF Last
  <2>2. CASE x.at = "error"
    <3>1. Last(r) \notin wire' \cup done'
      BY <1>1, <2>1, <2>2 DEF Accountable
    <3>2. told[r] # "ok"
      BY <1>1, <2>1 DEF Accountable
    <3>3. ~(pc[r] = input[r].op /\ rpc'[r].at = "ok")
      BY <1>1, <2>1, <2>2 DEF Accountable
    <3> QED BY <1>1, <1>2, <1>3, <3>1, <3>2, <3>3 DEF Accountable
  <2>3. CASE x.at = "ok"
    <3>1. Last(r) \in done'
      BY <2>1, <2>3
    <3>2. ~(pc[r] = input[r].op /\ rpc'[r].at = "error")
      BY <1>1, <2>1, <2>3 DEF Accountable
    <3> QED BY <1>1, <1>2, <1>3, <1>4, <2>1, <3>1, <3>2 DEF Accountable
  <2> QED BY <2>1, <2>2, <2>3
<1>6. CASE op # input[r].op
  <2>1. Last(r) # <<r, op>>
    BY <1>6 DEF Last
  <2>2. (Last(r) \in wire' <=> Last(r) \in wire) /\ (Last(r) \in done' <=> Last(r) \in done)
    BY <1>1, <2>1
  <2>3. pc[r] = input[r].op => rpc'[r] = rpc[r]
    BY <1>1, <1>6
  <2> QED BY <1>1, <1>2, <1>3, <2>2, <2>3 DEF Accountable
<1> QED BY <1>5, <1>6

\* Nothing moves of the other requests.
LEMMA ReplyElsewhere ==
  ASSUME TypeOK, NEW r \in Requests, NEW q \in Requests \ {r}, Accountable(q),
         NEW op \in Ops, NEW x, Reply(r, op, x),
         done' = done \/ done' = done \cup {<<r, op>>}
  PROVE  Accountable(q)'
<1>1. /\ UNCHANGED <<input, pc, told>> /\ rpc'[q] = rpc[q]
      /\ wire' = wire \ {<<r, op>>}
  BY DEF Reply, TypeOK
<1>2. \A o : <<q, o>> # <<r, op>>
  OBVIOUS
<1>3. \A o : (<<q, o>> \in wire' <=> <<q, o>> \in wire)
  BY <1>1, <1>2
<1>4. \A o : (<<q, o>> \in done' <=> <<q, o>> \in done)
  BY <1>1, <1>2
<1> QED BY <1>1, <1>3, <1>4, OthersKeep

\* A response is what AtMostOnce lets its caller be told.
LEMMA EndPromise ==
  ASSUME TypeOK, NEW r \in Requests, told[r] = "", NEW e,
         told' = [told EXCEPT ![r] = e], e # "", Applied' = Applied,
         e = "ok" => r \in Applied,
         r \in Applied => e \in {"ok", "ErrPaymentInfraServiceUnavailable"}
  PROVE  Promise!Next
<1> DEFINE a == Outcome(e)
<1>1. a \in {"ok", "no", "unknown"} /\ (a = "ok" <=> e = "ok")
      /\ (a = "no" => e \notin {"ok", "ErrPaymentInfraServiceUnavailable"})
  BY DEF Outcome
<1>2. Outcomes[r] = "pending" /\ Outcomes' = [Outcomes EXCEPT ![r] = a]
  BY DEF Outcomes, Outcome, TypeOK
<1>3. Promise!Tell(r, a)
  BY <1>1, <1>2 DEF Promise!Tell
<1> QED BY <1>1, <1>3 DEF Promise!Next

\* What a goroutine does is invisible to the promise until it responds.
LEMMA GoroutinePromise ==
  ASSUME TypeOK, NEW r \in Requests, Accountable(r), Goroutine(r) \/ Fail(r)
  PROVE  Promise!Next \/ UNCHANGED <<Applied, Outcomes>>
<1>1. UNCHANGED <<input, done>> /\ Applied' = Applied
  BY DEF Goroutine, Fail, Refused, Invalid, Send, Found, NoMatch, Created,
         Succeeded, Rejected, Applied
<1>2. r \in Applied <=> Last(r) \in done
  BY DEF Applied, Last
<1>3. ASSUME pc[r] \in Ops, NEW e, End(r, e), e # "", e = "ok" => Last(r) \in done,
             Last(r) \in done => e \in {"ok", "ErrPaymentInfraServiceUnavailable"}
      PROVE  Promise!Next
  <2>1. told[r] = "" /\ told' = [told EXCEPT ![r] = e]
    BY <1>3 DEF Accountable, End, Ops
  <2> QED BY <1>1, <1>2, <1>3, <2>1, EndPromise
<1>a. \A e \in DomainErrors : e # "" /\ e # "ok"
  BY DEF DomainErrors
<1>4. CASE Refused(r)
  BY <1>3, <1>4, NothingSent DEF Refused, AtCall
<1>5. CASE Invalid(r)
  BY <1>3, <1>5, <1>a, NothingSent DEF Invalid, AtCall
<1>6. CASE Fail(r)
  BY <1>3, <1>6, DeadlineIsUnavailable DEF Fail
<1>7. CASE Rejected(r)
  <2>1. Last(r) \notin done
    BY <1>7 DEF Rejected, Accountable, Ops
  <2> QED BY <1>3, <1>7, <1>a, <2>1, MapsToDomain DEF Rejected
<1>8. CASE Succeeded(r)
  <2>1. Last(r) \in done /\ pc[r] \in Ops
    BY <1>8 DEF Succeeded, Accountable, TypeOK, Input
  <2> QED BY <1>3, <1>8, <2>1 DEF Succeeded
<1>9. CASE Send(r) \/ Found(r) \/ NoMatch(r) \/ Created(r)
  <2>1. told' = told
    BY <1>9 DEF Send, Found, NoMatch, Created, GoTo
  <2> QED BY <1>1, <2>1 DEF Outcomes
<1> QED BY <1>4, <1>5, <1>6, <1>7, <1>8, <1>9 DEF Goroutine

LEMMA BeginPromise ==
  ASSUME AccountableInv, NEW r \in Requests, NEW i \in Inputs, Begin(r, i)
  PROVE  Promise!Next \/ UNCHANGED <<Applied, Outcomes>>
<1>1. /\ TypeOK /\ Accountable(r) /\ pc[r] = "idle" /\ told[r] = ""
      /\ done' = done /\ input' = [input EXCEPT ![r] = i]
      /\ \A op \in Ops : <<r, op>> \notin done
  BY DEF AccountableInv, Accountable, Begin
<1>2. i.op \in Ops /\ input[r].op \in Ops
  BY <1>1, PricingAssumption DEF TypeOK, Input
<1>3. \A q \in Requests : <<q, input'[q].op>> \in done' <=> <<q, input[q].op>> \in done
  <2>1. ASSUME NEW q \in Requests, q # r PROVE input'[q] = input[q]
    BY <1>1, <2>1 DEF TypeOK
  <2>2. input'[r] = i
    BY <1>1 DEF TypeOK
  <2>3. <<r, input'[r].op>> \notin done' /\ <<r, input[r].op>> \notin done
    <3>1. <<r, i.op>> \notin done /\ <<r, input[r].op>> \notin done
      BY <1>1, <1>2
    <3>2. done' = done
      BY <1>1
    <3> QED BY <2>2, <3>1, <3>2
  <2>4. ASSUME NEW q \in Requests
        PROVE  <<q, input'[q].op>> \in done' <=> <<q, input[q].op>> \in done
    <3>1. CASE q = r
      BY <2>3, <3>1
    <3>2. CASE q # r
      <4>1. done' = done /\ input'[q] = input[q]
        BY <1>1, <2>1, <3>2
      <4> QED BY <4>1
    <3> QED BY <3>1, <3>2
  <2> QED BY <2>4
<1>4. Applied' = Applied /\ r \notin Applied
  BY <1>1, <1>2, <1>3 DEF Applied
<1>5. CASE told' = [told EXCEPT ![r] = "ErrPricingCellsRequired"]
  BY <1>1, <1>4, <1>5, EndPromise
<1>6. CASE told' = told
  BY <1>4, <1>6 DEF Outcomes
<1> QED BY <1>5, <1>6 DEF Begin, FirstCall, End, GoTo

LEMMA ReplyPromise ==
  ASSUME AccountableInv, NEW r \in Requests, NEW op \in Ops, NEW x, Reply(r, op, x),
         done' = done \/ done' = done \cup {<<r, op>>}
  PROVE  Promise!Next \/ UNCHANGED <<Applied, Outcomes>>
<1>1. /\ TypeOK /\ Accountable(r) /\ <<r, op>> \in wire
      /\ input' = input /\ told' = told /\ Outcomes' = Outcomes
  BY DEF AccountableInv, Reply, Outcomes
<1>2. CASE done' = done
  BY <1>1, <1>2 DEF Applied
<1>3. CASE done' = done \cup {<<r, op>>} /\ op # input[r].op
  <2>1. \A q \in Requests : <<q, input[q].op>> \in done' <=> <<q, input[q].op>> \in done
    BY <1>3
  <2> QED BY <1>1, <2>1 DEF Applied
<1>4. CASE done' = done \cup {<<r, op>>} /\ op = input[r].op
  <2>1. Last(r) \in wire /\ Last(r) \notin done
    BY <1>1, <1>4 DEF Last, Accountable
  <2>2. Outcomes[r] \in {"pending", "unknown"}
    <3>1. told[r] \in {"", "ErrPaymentInfraServiceUnavailable"}
      BY <1>1, <2>1 DEF Accountable, TypeOK, Input, Ops
    <3>2. Outcomes[r] = Outcome(told[r])
      BY DEF Outcomes
    <3> QED BY <3>1, <3>2 DEF Outcome
  <2>3. Applied' = Applied \cup {r} /\ r \notin Applied
    <3>1. \A q \in Requests \ {r} :
             <<q, input[q].op>> \in done' <=> <<q, input[q].op>> \in done
      BY <1>4
    <3>2. <<r, input[r].op>> \in done' /\ <<r, input[r].op>> \notin done
      BY <1>4, <2>1 DEF Last
    <3> QED BY <1>1, <3>1, <3>2 DEF Applied
  <2>4. Promise!Apply(r)
    BY <1>1, <2>2, <2>3 DEF Promise!Apply
  <2> QED BY <2>4 DEF Promise!Next
<1> QED BY <1>2, <1>3, <1>4

\* What a step must do: keep the invariant, and be a step of AtMostOnce or none.
Progress == /\ \A r \in Requests : Accountable(r)'
            /\ Promise!Next \/ UNCHANGED <<Applied, Outcomes>>

LEMMA ReplyProgress ==
  ASSUME AccountableInv, NEW r \in Requests, NEW op \in Ops, NEW x,
         Reply(r, op, x), x.at \in {"ok", "none", "error"},
         x.at = "none" => op = "Find",
         IF x.at = "error" THEN done' = done ELSE done' = done \cup {<<r, op>>}
  PROVE  Progress
<1>1. done' = done \/ done' = done \cup {<<r, op>>}
  OBVIOUS
<1>2. ASSUME NEW q \in Requests PROVE Accountable(q)'
  <2>1. CASE q = r
    BY <2>1, ReplyKeeps DEF AccountableInv
  <2>2. CASE q # r
    BY <1>1, <2>2, ReplyElsewhere DEF AccountableInv
  <2> QED BY <2>1, <2>2
<1>3. Promise!Next \/ UNCHANGED <<Applied, Outcomes>>
  BY <1>1, ReplyPromise
<1> QED BY <1>2, <1>3 DEF Progress

LEMMA PaymentServiceProgress ==
  ASSUME AccountableInv, NEW r \in Requests, PaymentService(r) PROVE Progress
<1>0. {"Find", "Create", "Update", "Delete", "Rack"} = Ops
  BY DEF Ops
<1>1. CASE ServeFind(r)
  <2>1. ASSUME NEW t \in Ids, Execute(r, "Find", OK(t, templates[t].cells)) PROVE Progress
    BY <1>0, <2>1, ReplyProgress DEF Execute, OK
  <2>2. ASSUME Execute(r, "Find", [at |-> "none"]) PROVE Progress
    BY <1>0, <2>2, ReplyProgress DEF Execute
  <2> QED BY <1>1, <2>1, <2>2 DEF ServeFind, Matches
<1>2. CASE ServeCreate(r)
  <2>1. PICK t \in Ids : Execute(r, "Create", OK(t, Asked(r)))
    BY <1>2 DEF ServeCreate
  <2> QED BY <1>0, <2>1, ReplyProgress DEF Execute, OK
<1>3. CASE ServeUpdate(r)
  BY <1>0, <1>3, ReplyProgress DEF ServeUpdate, Execute, OK
<1>4. CASE ServeDelete(r)
  BY <1>0, <1>4, ReplyProgress DEF ServeDelete, Execute, OK
<1>5. CASE ServeRack(r)
  BY <1>0, <1>5, ReplyProgress DEF ServeRack, Execute, OK
<1>6. ASSUME NEW op \in Ops, Reject(r, op) PROVE Progress
  <2>1. PICK code \in Codes : Reply(r, op, [at |-> "error", code |-> code])
    BY <1>6 DEF Reject
  <2> QED BY <1>6, <2>1, ReplyProgress DEF Reject
<1>7. ASSUME NEW op \in Ops, Lose(r, op) PROVE Progress
  <2>1. /\ UNCHANGED <<input, pc, rpc, told, done>> /\ wire' \subseteq wire
    BY <1>7 DEF Lose, goroutine
  <2>2. ASSUME NEW q \in Requests PROVE Accountable(q)'
    <3>1. Last(q)' = Last(q) /\ (Wizard(q)' <=> Wizard(q)) /\ Accountable(q)
      BY <2>1 DEF Last, Wizard, AccountableInv
    <3>2. (Last(q) \in wire' => Last(q) \in wire) /\ (Last(q) \in done' <=> Last(q) \in done)
      BY <2>1
    <3>3. pc[q] = "idle" => \A o \in Ops : <<q, o>> \notin wire' \cup done'
      BY <2>1, <3>1 DEF Accountable
    <3> QED BY <2>1, <3>1, <3>2, <3>3 DEF Accountable
  <2>3. UNCHANGED <<Applied, Outcomes>>
    BY <2>1 DEF Applied, Outcomes
  <2> QED BY <2>2, <2>3 DEF Progress
<1> QED BY <1>1, <1>2, <1>3, <1>4, <1>5, <1>6, <1>7 DEF PaymentService

LEMMA RequestProgress ==
  ASSUME AccountableInv, NEW r \in Requests,
         (\E i \in Inputs : Begin(r, i)) \/ Goroutine(r) \/ Fail(r)
  PROVE  Progress
<1>0. TypeOK /\ \A q \in Requests : Accountable(q)
  BY DEF AccountableInv
<1>1. ASSUME NEW q \in Requests \ {r} PROVE Accountable(q)'
  <2>1. /\ input'[q] = input[q] /\ pc'[q] = pc[q] /\ rpc'[q] = rpc[q]
        /\ told'[q] = told[q] /\ done' = done
        /\ wire' = wire \/ wire' = wire \cup {<<r, pc[r]>>}
    BY <1>0 DEF TypeOK, Begin, FirstCall, Goroutine, Fail, Refused, Invalid, Send,
         Found, NoMatch, Created, Succeeded, Rejected, End, GoTo
  <2>2. \A op : (<<q, op>> \in wire' <=> <<q, op>> \in wire)
    BY <2>1
  <2>3. \A op : (<<q, op>> \in done' <=> <<q, op>> \in done)
    BY <2>1
  <2> QED BY <1>0, <2>1, <2>2, <2>3, OthersKeep
<1>2. CASE \E i \in Inputs : Begin(r, i)
  <2>1. PICK i \in Inputs : Begin(r, i)
    BY <1>2
  <2>2. Accountable(r)'
    BY <1>0, <2>1, BeginKeeps
  <2>3. Promise!Next \/ UNCHANGED <<Applied, Outcomes>>
    BY <2>1, BeginPromise
  <2> QED BY <1>1, <2>2, <2>3 DEF Progress
<1>3. CASE Goroutine(r) \/ Fail(r)
  <2>1. Accountable(r)'
    BY <1>0, <1>3, GoroutineKeeps
  <2>2. Promise!Next \/ UNCHANGED <<Applied, Outcomes>>
    BY <1>0, <1>3, GoroutinePromise
  <2> QED BY <1>1, <2>1, <2>2 DEF Progress
<1> QED BY <1>2, <1>3

LEMMA PricingProgress ==
  AccountableInv /\ [Next]_vars
    => AccountableInv' /\ (Promise!Next \/ UNCHANGED <<Applied, Outcomes>>)
<1> SUFFICES ASSUME AccountableInv, [Next]_vars
             PROVE  AccountableInv' /\ (Promise!Next \/ UNCHANGED <<Applied, Outcomes>>)
  OBVIOUS
<1>1. TypeOK'
  BY TypeStep DEF AccountableInv
<1>2. Progress
  <2>1. CASE Next
    BY <2>1, PaymentServiceProgress, RequestProgress DEF Next
  <2>2. CASE UNCHANGED vars
    <3>1. UNCHANGED <<input, pc, rpc, told, wire, done>>
      BY <2>2 DEF vars, goroutine
    <3>2. UNCHANGED <<Applied, Outcomes>>
      BY <3>1 DEF Applied, Outcomes
    <3>3. ASSUME NEW q \in Requests PROVE Accountable(q)'
      BY <3>1, OthersKeep DEF AccountableInv
    <3> QED BY <3>2, <3>3 DEF Progress
  <2> QED BY <2>1, <2>2
<1> QED BY <1>1, <1>2 DEF Progress, AccountableInv

\* The detailed specification implements AtMostOnce for any number of requests
\* and templates: whatever is lost, late or refused, a mutation takes effect at
\* most once, "ok" means it did, and a definite error means it never will.
THEOREM PromiseKept == Spec => KeepsPromise
<1>1. Init => Promise!Init
  <2>1. Init => Applied = {}
    BY DEF Init, Applied
  <2>2. Init => Outcomes = [r \in Requests |-> "pending"]
    BY DEF Init, Outcomes, Outcome
  <2> QED BY <2>1, <2>2 DEF Promise!Init
<1>2. AccountableInv /\ [Next]_vars => [Promise!Next]_(Promise!vars)
  BY PricingProgress DEF Promise!vars
<1>3. AccountableInv /\ [Next]_vars => AccountableInv'
  BY PricingProgress
<1> QED BY AccountableInit, <1>1, <1>2, <1>3, PTL DEF Spec, KeepsPromise, Promise!Spec
=============================================================================
