----------------------------- MODULE RackPricing -----------------------------
(***************************************************************************)
(* createRackPayment and the mutations of the pricing templates.  The      *)
(* wizard's request finds a template with exactly the cells asked for, or  *)
(* creates one, and then creates the rack: up to three RPCs, each behind   *)
(* the service gate and under a deadline of its own, with no transaction   *)
(* around them and no key by which the payment service could tell a retry. *)
(*                                                                         *)
(* The payment service is external: it is what the comments of the service *)
(* layer and the schema say of it (an exact match is found, a template     *)
(* with racks is neither edited nor deleted), and it may reject any call.  *)
(***************************************************************************)
EXTENDS Integers, FiniteSets

CONSTANTS Requests,      \* GraphQL mutations, one goroutine each
          Inputs,        \* what an admin may send
          Prices,        \* pricing cells (booking time, size, float64 price)
          Float32,       \* [Prices -> Prices]: the cell with its price narrowed
          Stocked,       \* cells of the one template there may be at the start
          MaxTemplates,  \* bound on the payment service's template ids
          Codes,         \* gRPC codes the payment service rejects a call with
          NoOne          \* the author of a template older than the requests

Ids == 1..MaxTemplates
NilID == -1              \* the nil pointer of an optional pricingTemplateId

Ops == {"Find", "Create", "Update", "Delete", "Rack"}

Input == [op : Ops \ {"Find"}, rackReference : Int, bookingTimeIds : Nat,
          pricingTemplateID : Int, groupProductBySize : SUBSET Prices,
          cells : SUBSET Prices, name : {"", "named"}]

ASSUME PricingAssumption ==
    /\ Inputs \subseteq Input
    /\ MaxTemplates \in Nat
    /\ Stocked \subseteq SUBSET Prices
    /\ Float32 \in [Prices -> Prices]
    /\ NoOne \notin Requests

VARIABLES
    input,      \* input[r]: the arguments of request r
    pc,         \* pc[r]: the service call r is at, or idle or ended
    rpc,        \* rpc[r]: that call: ready, sent, or its answer
    chosen,     \* chosen[r]: pricingTemplateID, groupProductBySize of the resolver
    told,       \* told[r]: the response of the mutation
    wire,       \* RPCs on their way to the payment service
    templates,  \* the payment service's pricing templates
    racks,      \* the payment service's racks
    done,       \* history: RPCs the payment service has executed
    over        \* history: over[r]: requests with nothing left to do when r began

goroutine == <<input, pc, rpc, chosen, told>>
service == <<templates, racks>>
vars == <<goroutine, wire, service, done, over>>

Answer == [at : {"ready", "sent", "none"}]
          \cup [at : {"ok"}, id : Int, groups : SUBSET Prices]
          \cup [at : {"error"}, code : Codes]
Ready == [at |-> "ready"]
Sent == [at |-> "sent"]

DomainErrors == {"ErrPaymentRackNotFound", "ErrInvalidPaymentRackID",
                 "ErrPaymentInfraServiceUnavailable", "ErrInvalidBookingTimeID",
                 "ErrInvalidPricingCells", "ErrInvalidPricingTemplateName",
                 "ErrInvalidPricingTemplateID"}
Told == {"", "ok", "gate", "ErrPricingCellsRequired"} \cup DomainErrors

Template == [state : {"free", "live", "deleted"}, cells : SUBSET Prices,
             by : Requests \cup {NoOne}]
Free == [state |-> "free", cells |-> {}, by |-> NoOne]

\* Every variable keeps its type.
TypeOK ==
    /\ input \in [Requests -> Input]
    /\ pc \in [Requests -> Ops \cup {"idle", "ended"}]
    /\ rpc \in [Requests -> Answer]
    /\ chosen \in [Requests -> [id : Int, groups : SUBSET Prices]]
    /\ told \in [Requests -> Told]
    /\ wire \subseteq Requests \X Ops
    /\ templates \in [Ids -> Template]
    /\ racks \subseteq [by : Requests, template : Ids, groups : SUBSET Prices]
    /\ done \subseteq Requests \X Ops
    /\ over \in [Requests -> SUBSET Requests]

\* (Mutant: a code without a case is returned as it came.)
MapGRPCErrorRaw(code) ==
    CASE code = "NotFound" -> "ErrPaymentRackNotFound"
      [] code = "InvalidArgument" -> "ErrInvalidPaymentRackID"
      [] OTHER -> code

\* (Mutant: a deadline is taken for an invalid argument.)
MapGRPCErrorTimeoutAsInvalid(code) ==
    CASE code = "NotFound" -> "ErrPaymentRackNotFound"
      [] code \in {"InvalidArgument", "DeadlineExceeded"} -> "ErrInvalidPaymentRackID"
      [] OTHER -> "ErrPaymentInfraServiceUnavailable"

\* A response whose status is ERROR is one more code, "RESPONSE_STATUS_ERROR".
mapGRPCError(code) ==
    CASE code = "NotFound" -> "ErrPaymentRackNotFound"
      [] code = "InvalidArgument" -> "ErrInvalidPaymentRackID"
      [] OTHER -> "ErrPaymentInfraServiceUnavailable"

cellsToDto(cells) == {Float32[c] : c \in cells}

\* The prices a request stands for on the wire.
Asked(r) == cellsToDto(input[r].cells)
\* The wizard's name is never blank: it falls back to "Rack <reference>".
Name(r) == IF input[r].op = "Rack" THEN "named" ELSE input[r].name
Wizard(r) == input[r].op = "Rack" /\ input[r].pricingTemplateID = NilID
Blank == [op |-> "Rack", rackReference |-> 0, bookingTimeIds |-> 0,
          pricingTemplateID |-> NilID, groupProductBySize |-> {}, cells |-> {}, name |-> ""]

Init ==
    /\ input = [r \in Requests |-> Blank]
    /\ pc = [r \in Requests |-> "idle"]
    /\ rpc = [r \in Requests |-> Ready]
    /\ chosen = [r \in Requests |-> [id |-> 0, groups |-> {}]]
    /\ told = [r \in Requests |-> ""]
    /\ wire = {}
    /\ \E cells \in Stocked \cup {{}} :
          templates = [t \in Ids |-> IF t = 1 /\ cells # {}
                                     THEN [state |-> "live", cells |-> cells, by |-> NoOne]
                                     ELSE Free]
    /\ racks = {}
    /\ done = {}
    /\ over = [r \in Requests |-> {}]

-----------------------------------------------------------------------------
(* The goroutine of a request *)

End(r, t) ==
    /\ pc' = [pc EXCEPT ![r] = "ended"]
    /\ told' = [told EXCEPT ![r] = t]
    /\ UNCHANGED <<rpc, chosen>>

GoTo(r, op) ==
    /\ pc' = [pc EXCEPT ![r] = op]
    /\ rpc' = [rpc EXCEPT ![r] = Ready]
    /\ UNCHANGED told

Choose(r, id, groups) == chosen' = [chosen EXCEPT ![r] = [id |-> id, groups |-> groups]]

\* What the resolver calls first.  A pricingTemplateId wins over pricingCells.
FirstCall(r, i) ==
    \/ /\ i.op = "Rack" /\ i.pricingTemplateID # NilID
       /\ GoTo(r, "Rack") /\ Choose(r, i.pricingTemplateID, i.groupProductBySize)
    \/ /\ i.op = "Rack" /\ i.pricingTemplateID = NilID /\ i.cells = {}
       /\ End(r, "ErrPricingCellsRequired")
    \/ /\ i.op = "Rack" /\ i.pricingTemplateID = NilID /\ i.cells # {}
       /\ GoTo(r, "Find") /\ UNCHANGED chosen
    \/ /\ i.op # "Rack"
       /\ GoTo(r, i.op) /\ UNCHANGED chosen

InFlight(r) == \E op \in Ops : <<r, op>> \in wire

Begin(r, i) ==
    /\ pc[r] = "idle"
    /\ input' = [input EXCEPT ![r] = i]
    /\ FirstCall(r, i)
    /\ over' = [over EXCEPT ![r] = {q \in Requests : pc[q] = "ended" /\ ~InFlight(q)}]
    /\ UNCHANGED <<wire, service, done>>

AtCall(r) == pc[r] \in Ops /\ rpc[r] = Ready

\* validateServiceAvailability refuses: each call asks it anew.
Refused(r) ==
    /\ AtCall(r)
    /\ End(r, "gate")
    /\ UNCHANGED <<input, wire, service, done, over>>

\* The service layer's argument checks for the call r is at, the first one that
\* fails.  For the wizard they come after the template was found or created.
InvalidArgument(r, e) ==
    \/ pc[r] = "Find" /\ input[r].cells = {} /\ e = "ErrInvalidPricingCells"
    \/ pc[r] = "Create" /\ Name(r) = "" /\ e = "ErrInvalidPricingTemplateName"
    \/ pc[r] = "Create" /\ Name(r) # "" /\ input[r].cells = {} /\ e = "ErrInvalidPricingCells"
    \/ /\ pc[r] \in {"Update", "Delete"} /\ input[r].pricingTemplateID <= 0
       /\ e = "ErrInvalidPricingTemplateID"
    \/ /\ pc[r] = "Update" /\ input[r].pricingTemplateID > 0 /\ Name(r) = ""
       /\ e = "ErrInvalidPricingTemplateName"
    \/ pc[r] = "Rack" /\ input[r].rackReference <= 0 /\ e = "ErrInvalidPaymentRackID"
    \/ /\ pc[r] = "Rack" /\ input[r].rackReference > 0
       /\ chosen[r].id <= 0 \/ input[r].bookingTimeIds = 0
       /\ e = "ErrInvalidBookingTimeID"

Invalid(r) ==
    /\ AtCall(r)
    /\ \E e \in DomainErrors : InvalidArgument(r, e) /\ End(r, e)
    /\ UNCHANGED <<input, wire, service, done, over>>

\* The client sends the RPC of the call and starts its deadline.
Send(r) ==
    /\ AtCall(r)
    /\ ~\E e \in DomainErrors : InvalidArgument(r, e)
    /\ wire' = wire \cup {<<r, pc[r]>>}
    /\ rpc' = [rpc EXCEPT ![r] = Sent]
    /\ UNCHANGED <<input, pc, chosen, told, service, done, over>>

\* (Mutant: the deadline covers the sending only, not the wait for the answer.)
FailWhenNotTaken(r) ==
    /\ pc[r] \in Ops /\ rpc[r] = Sent /\ <<r, pc[r]>> \in wire
    /\ End(r, mapGRPCError("DeadlineExceeded"))
    /\ UNCHANGED <<input, wire, service, done, over>>

\* The deadline, a broken connection, or the caller gone.  The RPC may be on
\* its way, being executed, or executed already.
Fail(r) ==
    /\ pc[r] \in Ops /\ rpc[r].at # "ready"
    /\ End(r, mapGRPCError("DeadlineExceeded"))
    /\ UNCHANGED <<input, wire, service, done, over>>

\* (Mutant: the client reads response.Found wrongly and never takes a match.)
FoundIgnored(r) ==
    /\ pc[r] = "Find" /\ rpc[r].at = "ok"
    /\ GoTo(r, "Create")
    /\ UNCHANGED <<input, chosen, wire, service, done, over>>

\* resolvePricingTemplate: a match, none, or the template just created.
Found(r) ==
    /\ pc[r] = "Find" /\ rpc[r].at = "ok"
    /\ Choose(r, rpc[r].id, rpc[r].groups)
    /\ GoTo(r, "Rack")
    /\ UNCHANGED <<input, wire, service, done, over>>

NoMatch(r) ==
    /\ pc[r] = "Find" /\ rpc[r].at = "none"
    /\ GoTo(r, "Create")
    /\ UNCHANGED <<input, chosen, wire, service, done, over>>

\* (Mutant: the group products of the input are passed on, not the answer's.)
CreatedWithInputGroups(r) ==
    /\ pc[r] = "Create" /\ Wizard(r) /\ rpc[r].at = "ok"
    /\ Choose(r, rpc[r].id, input[r].groupProductBySize)
    /\ GoTo(r, "Rack")
    /\ UNCHANGED <<input, wire, service, done, over>>

Created(r) ==
    /\ pc[r] = "Create" /\ Wizard(r) /\ rpc[r].at = "ok"
    /\ Choose(r, rpc[r].id, rpc[r].groups)
    /\ GoTo(r, "Rack")
    /\ UNCHANGED <<input, wire, service, done, over>>

Succeeded(r) ==
    /\ pc[r] = input[r].op /\ rpc[r].at = "ok"
    /\ End(r, "ok")
    /\ UNCHANGED <<input, wire, service, done, over>>

\* (Mutant: a rejected createRackPayment is reported as created.)
RejectedSwallowed(r) ==
    /\ pc[r] \in Ops /\ rpc[r].at = "error"
    /\ End(r, IF pc[r] = "Rack" THEN "ok" ELSE mapGRPCError(rpc[r].code))
    /\ UNCHANGED <<input, wire, service, done, over>>

Rejected(r) ==
    /\ pc[r] \in Ops /\ rpc[r].at = "error"
    /\ End(r, mapGRPCError(rpc[r].code))
    /\ UNCHANGED <<input, wire, service, done, over>>

-----------------------------------------------------------------------------
(* The payment service (external) and the network *)

\* The RPC is out of the network; its caller has the answer if it still waits.
Reply(r, op, a) ==
    /\ <<r, op>> \in wire
    /\ wire' = wire \ {<<r, op>>}
    /\ rpc' = IF pc[r] = op /\ rpc[r] = Sent THEN [rpc EXCEPT ![r] = a] ELSE rpc
    /\ UNCHANGED <<input, pc, chosen, told, over>>

Execute(r, op, a) == Reply(r, op, a) /\ done' = done \cup {<<r, op>>}

OK(id, groups) == [at |-> "ok", id |-> id, groups |-> groups]

Live(t) == t \in Ids /\ templates[t].state = "live"
Matches(cells) == {t \in Ids : Live(t) /\ templates[t].cells = cells}
HasRacks(t) == \E k \in racks : k.template = t
NextFree(t) == /\ templates[t].state = "free"
               /\ \A u \in Ids : u < t => templates[u].state # "free"

ServeFind(r) ==
    /\ \/ \E t \in Matches(Asked(r)) : Execute(r, "Find", OK(t, templates[t].cells))
       \/ Matches(Asked(r)) = {} /\ Execute(r, "Find", [at |-> "none"])
    /\ UNCHANGED service

ServeCreate(r) ==
    /\ \E t \in Ids :
          /\ NextFree(t)
          /\ Execute(r, "Create", OK(t, Asked(r)))
          /\ templates' = [templates EXCEPT ![t] =
                              [state |-> "live", cells |-> Asked(r), by |-> r]]
    /\ UNCHANGED racks

\* No cells: the template is only renamed.
ServeUpdate(r) ==
    LET t == input[r].pricingTemplateID IN
    /\ Live(t)
    /\ Asked(r) # {} => ~HasRacks(t)
    /\ Execute(r, "Update", OK(t, {}))
    /\ templates' = IF Asked(r) = {} THEN templates
                    ELSE [templates EXCEPT ![t].cells = Asked(r)]
    /\ UNCHANGED racks

ServeDelete(r) ==
    LET t == input[r].pricingTemplateID IN
    /\ Live(t) /\ ~HasRacks(t)
    /\ Execute(r, "Delete", OK(t, {}))
    /\ templates' = [templates EXCEPT ![t].state = "deleted"]
    /\ UNCHANGED racks

ServeRack(r) ==
    /\ Live(chosen[r].id)
    /\ Execute(r, "Rack", OK(chosen[r].id, {}))
    /\ racks' = racks \cup {[by |-> r, template |-> chosen[r].id, groups |-> chosen[r].groups]}
    /\ UNCHANGED templates

\* A definite refusal, by code or by a response with status ERROR: no effect.
Reject(r, op) ==
    /\ \E code \in Codes : Reply(r, op, [at |-> "error", code |-> code])
    /\ UNCHANGED <<service, done>>

\* The RPC never reaches the service; the caller's deadline ends the wait.
Lose(r, op) ==
    /\ <<r, op>> \in wire
    /\ wire' = wire \ {<<r, op>>}
    /\ UNCHANGED <<goroutine, service, done, over>>

-----------------------------------------------------------------------------
Goroutine(r) ==
    \/ Refused(r) \/ Invalid(r) \/ Send(r)
    \/ Found(r) \/ NoMatch(r) \/ Created(r) \/ Succeeded(r) \/ Rejected(r)

PaymentService(r) ==
    \/ ServeFind(r) \/ ServeCreate(r) \/ ServeUpdate(r) \/ ServeDelete(r) \/ ServeRack(r)
    \/ \E op \in Ops : Reject(r, op) \/ Lose(r, op)

Next == \E r \in Requests :
           \/ \E i \in Inputs : Begin(r, i)
           \/ Goroutine(r)
           \/ Fail(r)
           \/ PaymentService(r)

Spec == Init /\ [][Next]_vars

\* Goroutines run and deadlines fire; nothing obliges the payment service to
\* answer or the gate to refuse.
Fairness == \A r \in Requests :
    /\ WF_vars(Send(r) \/ Invalid(r) \/ Refused(r))
    /\ WF_vars(Fail(r) \/ Found(r) \/ NoMatch(r) \/ Created(r) \/ Succeeded(r) \/ Rejected(r))
FairSpec == Spec /\ Fairness

-----------------------------------------------------------------------------
\* Neither request had finished, with its last RPC landed or lost, when the
\* other began.
Concurrent(q, r) == q \notin over[r] /\ r \notin over[q]

\* UpdatePricingTemplate with cells took effect on t for request q.
Edited(q, t) == /\ <<q, "Update">> \in done
                /\ input[q].pricingTemplateID = t /\ input[q].cells # {}

\* A rack of the wizard is sold at the prices asked for: its group products
\* are theirs, and so are the cells of its template, unless the template was
\* edited alongside the request (pricing_template_helpers.go:29-54: what was
\* found is used in a later RPC).
RackAsAsked ==
    \A k \in racks : Wizard(k.by) =>
        /\ k.groups = Asked(k.by)
        /\ \/ templates[k.template].cells = k.groups
           \/ \E q \in Requests : Edited(q, k.template) /\ Concurrent(q, k.by)

\* "busca un pricing_template existente que calce EXACTO, o crea uno nuevo"
\* (schema.graphqls:134-136): the wizard makes a second template for the same
\* cells only alongside the request that makes the first, or if one was edited.
NoRepeatedTemplate ==
    \A t, u \in Ids :
        LET r == templates[u].by IN
        (/\ t < u /\ Live(t) /\ Live(u) /\ templates[t].cells = templates[u].cells
         /\ r # NoOne /\ Wizard(r))
        => \/ templates[t].by # NoOne /\ Concurrent(templates[t].by, r)
           \/ \E q \in Requests : Edited(q, t) \/ Edited(q, u)

\* A request makes at most one template, and a template the wizard made for a
\* rack stays without it only if the admin was not told "ok": a failure after
\* the template was created leaves it behind (pricing_template_helpers.go:50-54
\* then schema.resolvers.go:170-174).
OrphanAccounted ==
    \A t \in Ids :
        LET r == templates[t].by IN
        r # NoOne => /\ \A u \in Ids : templates[u].by = r => u = t
                     /\ \/ ~Wizard(r) \/ told[r] # "ok"
                        \/ \E k \in racks : k.by = r /\ k.template = t

\* What a response tells its caller of the effect.
Outcome(t) == IF t = "" THEN "pending"
              ELSE IF t = "ok" THEN "ok"
              ELSE IF t = "ErrPaymentInfraServiceUnavailable" THEN "unknown"
              ELSE "no"
Applied == {r \in Requests : <<r, input[r].op>> \in done}
Outcomes == [r \in Requests |-> Outcome(told[r])]
Promise == INSTANCE AtMostOnce WITH applied <- Applied, answer <- Outcomes
\* Every mutation keeps AtMostOnce's promise: "ok" only after the payment
\* service executed its last RPC, once, and an error other than "service
\* unavailable" only if it never will (payment_client.go:1113-1133).
KeepsPromise == Promise!Spec

\* Every request is answered, even if each of its RPCs is lost: each call has
\* a deadline (context.WithTimeout, payment_client.go:819 and its likes).
EveryRequestAnswered == \A r \in Requests : pc[r] # "idle" ~> pc[r] = "ended"

\* "Ignorado si viene pricingCells" (schema.graphqls:131-133): whoever sends
\* pricingCells gets a rack with their group products.
CellsDecide == \A k \in racks : input[k.by].cells # {} => k.groups = Asked(k.by)
=============================================================================
