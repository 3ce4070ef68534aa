--------------------------- MODULE RequestPipeline ---------------------------
(***************************************************************************)
(* One HTTP request from its headers to its response: the middleware       *)
(* stack HTTPStatus -> Auth -> GraphQL, the validator and the directives   *)
(* of the schema, the resolver, the service gate, the checks of the        *)
(* service layer, the calls to the peers one after another, the mappers,   *)
(* the error codes and the status of the response.  A request is one root  *)
(* field.                                                                  *)
(*                                                                         *)
(* The peers are external.  A call that was sent is executed once or       *)
(* never, and possibly after the client gave it up; its answer is a        *)
(* message, a gRPC error, or nothing before the deadline.  A peer that     *)
(* answers ERROR, NotFound, InvalidArgument or with a reason of the local  *)
(* access catalogue has not executed the call and will not; any other      *)
(* error says nothing about that.                                          *)
(***************************************************************************)
EXTENDS PaymentOperations, Claims

CONSTANTS Queries,        \* requests: [field, args, headers]
          Messages,       \* Messages[c]: the messages that may answer call c
          Bookings,       \* booking-manager's bookings
          PurchaseOrders, \* payment-manager's orders
          Administers,    \* Administers[u]: the names infra-manager has for u
          NotYet          \* no request, no response

\* The field of the schema each call answers, if it is the last one.
LastCall ==
    [getPaymentInfraByQrValue |-> "GetPaymentInfraByQrValue",
     getAvailableLockersByRackIDAndBookingTime |-> "GetAvailableLockers",
     validateDiscountCoupon |-> "ValidateDiscountCoupon",
     getPurchaseOrderByPo |-> "GetPurchaseOrderByPo",
     checkBookingStatus |-> "CheckBookingStatus",
     getBookingPayment |-> "GetBookingPayment",
     getPricingTemplates |-> "GetPricingTemplates",
     getBookingTimes |-> "GetBookingTimes",
     lockerConnectivity |-> "GetLockerConnectivity",
     generatePurchaseOrder |-> "GeneratePurchaseOrder",
     generateBooking |-> "GenerateBooking",
     generateCoupon |-> "GenerateCoupon",
     createRackPayment |-> "CreateRackPayment",
     createPricingTemplate |-> "CreatePricingTemplate",
     updatePricingTemplate |-> "UpdatePricingTemplate",
     deletePricingTemplate |-> "DeletePricingTemplate",
     requestOfflineVoucher |-> "IssueOfflineVoucher"]

\* The messages, as far as a property tells them apart: repeated fields are
\* never null, nested messages may be; the issuer's have no header, and there
\* is no RPC yet for a purchase order by its PO.
Header == {Nil} \cup [status : Int]
MessageTypes ==
    [GetPaymentInfraByQrValue |->
         [response : Header, paymentRack : {Nil} \cup [id : Int],
          installation : {Nil} \cup [id : Int], device : {Nil} \cup [name : STRING],
          bookingTimes : Seq([name : STRING, unitMeasurement : Int])],
     GetAvailableLockers |-> [response : Header, availableGroup : Seq([groupId : Int])],
     ValidateDiscountCoupon |-> [response : Header, discountType : Int, applies : BOOLEAN],
     GetPurchaseOrderByPo |-> {},
     CheckBookingStatus |-> [response : Header, booking : {Nil} \cup [currentCode : STRING]],
     GetPricingTemplates |->
         [response : Header,
          pricingTemplates : Seq([bookingGroups : Seq([products : Seq([groupId : Int])])])],
     GetBookingTimes |-> [response : Header, bookingTimes : Seq([name : STRING])],
     GenerateCoupon |-> [response : Header, couponCode : STRING],
     GeneratePurchaseOrder |-> [response : Header, url : STRING],
     GenerateBooking |-> [response : Header, code : STRING],
     CreateRackPayment |-> [response : Header, paymentRackId : Int],
     FindExactPricingTemplate |-> [response : Header, found : BOOLEAN, pricingTemplateId : Int],
     CreatePricingTemplate |-> [response : Header, pricingTemplateId : Int],
     UpdatePricingTemplate |-> [response : Header],
     DeletePricingTemplate |-> [response : Header],
     GetLockerConnectivity |-> [lastSeenAt : {Nil} \cup STRING],
     IssueOfflineVoucher |-> [wifiPassword : STRING]]

ASSUME PipelineAssumption ==
    /\ \A q \in Queries : q.field \in DOMAIN RootFields /\ q.headers \in Headers
    /\ Administers \in [Users \cup {""} -> Seq(STRING)]
    /\ NotYet \notin Queries
\* What the peers have and may say; nil is no scalar, and none of the words of
\* the mappers (that these are in STRING is beyond the provers).
ASSUME PeersAssumption ==
    /\ \A c \in DOMAIN MessageTypes : Messages[c] \subseteq MessageTypes[c]
    /\ IsFiniteSet(Bookings) /\ Bookings \subseteq [id : Int, installationName : STRING]
    /\ IsFiniteSet(PurchaseOrders)
    /\ PurchaseOrders \subseteq [bookingReference : Int, oc : STRING, couponId : {Nil} \cup Int]
    /\ Nil \notin Int /\ Nil \notin STRING /\ Nil \notin BOOLEAN
    /\ Nil \notin {"scalar", "", "PERCENTAGE", "AMOUNT", "HOUR", "DAY", "WEEK", "MONTH",
                   "UNSPECIFIED", "RESPONSE_STATUS_UNSPECIFIED", "RESPONSE_STATUS_OK",
                   "RESPONSE_STATUS_ERROR"}

VARIABLES
    useMock,   \* config.General.UseMock
    query,     \* the request
    pc,        \* where its goroutine is
    call,      \* the call it makes
    reply,     \* the DTO it got
    scope,     \* domainInput.InstallationsName
    page,      \* the bookings of the history, while their orders are looked up
    response,  \* the HTTP response: status, code of its first error, data
    wire,      \* calls that were sent
    done,      \* calls a peer has executed
    refused,   \* calls a peer has refused, and will not execute
    said       \* said[c]: the message that answered call c

goroutine == <<query, pc, call, reply, scope, page, response>>
peers == <<done, refused>>
vars == <<useMock, goroutine, wire, peers, said>>

Stages == {"idle", "received", "gate", "ready", "sent", "answered", "over"}
HTTPStatuses == {200, 400, 403, 404, 409, 422, 429, 500, 503}

\* Every variable keeps its type, and what the peers have done, refused or said
\* is about calls that were sent.
TypeOK ==
    /\ useMock \in BOOLEAN
    /\ query = NotYet \/ (query.field \in DOMAIN RootFields /\ query.headers \in Headers)
    /\ pc \in Stages
    /\ call \in Calls \cup {""}
    /\ response = NotYet \/ response.status \in HTTPStatuses
    /\ wire \subseteq Calls
    /\ done \subseteq wire
    /\ refused \subseteq wire \ done
    /\ DOMAIN said \subseteq wire \cap (done \cup refused)

Init ==
    /\ useMock \in BOOLEAN
    /\ query = NotYet
    /\ pc = "idle"
    /\ call = ""
    /\ reply = NotYet
    /\ scope = <<>>
    /\ page = <<>>
    /\ response = NotYet
    /\ wire = {}
    /\ done = {}
    /\ refused = {}
    /\ said = <<>>

-----------------------------------------------------------------------------
(* The response *)

\* (Mutant: an error without a status in its extensions has the status 0.)
finalStatusCodeOfError(written, status) == status
\* HTTPStatusMiddleware: the status of the first error's extensions, if it has
\* one, or what the handler wrote.
finalStatusCode(written, status) == IF status = 0 THEN written ELSE status

Respond(written, ext, data) ==
    /\ pc' = "over"
    /\ response' = [status |-> finalStatusCode(written, ext.status), code |-> ext.code,
                    data |-> data]
    /\ UNCHANGED <<useMock, query, call, reply, scope, page>>

\* The resolver returned an error: the root fields are not nullable, data is null.
FailWith(ext) == Respond(200, ext, Nil)
\* The resolver returned v; a null in a required place is an error without extensions.
Return(v) == Respond(200, Extensions("", 0), Complete(RootFields[query.field].type, v))

-----------------------------------------------------------------------------
(* The HTTP middlewares, the validator and the directives *)

Receive(q) ==
    /\ pc = "idle"
    /\ query' = q
    /\ pc' = "received"
    /\ UNCHANGED <<useMock, call, reply, scope, page, response, wire, peers, said>>

claims == AuthMiddleware(query.headers)
root == RootFields[query.field]
Valid == Unmarshals(root.input, query.args)

Permits(directive) ==
    CASE directive.name = "none" -> TRUE
      [] directive.name = "auth" -> Auth(claims)
      [] directive.name = "hasRole" -> HasRoleDirective(claims, directive.role)

\* A document the validator refuses is a 422 that no directive and no
\* resolver has seen.
Invalid ==
    /\ pc = "received"
    /\ ~Valid
    /\ Respond(422, Extensions("GRAPHQL_VALIDATION_FAILED", 0), Nil)
    /\ UNCHANGED <<wire, peers, said>>

Forbidden ==
    /\ pc = "received"
    /\ Valid
    /\ ~Permits(root.directive)
    /\ FailWith(ForbiddenError)
    /\ UNCHANGED <<wire, peers, said>>

-----------------------------------------------------------------------------
(* The resolvers: the first call *)

Start(c) ==
    /\ call' = c
    /\ pc' = IF c \in Gated THEN "gate" ELSE "ready"
    /\ UNCHANGED <<useMock, query, response, wire, peers, said>>

Entered == pc = "received" /\ Valid /\ Permits(root.directive)

isAdmin == HasRole(claims, "ADMIN")

\* The fields that make one call.
Resolve ==
    /\ Entered
    /\ query.field \notin {"getBookingPayment", "createRackPayment"}
    /\ Start(LastCall[query.field])
    /\ UNCHANGED <<reply, scope, page>>

\* An installation the client asks for; an empty name asks for none.
FilterIn(args) == "installationName" \in DOMAIN args /\ args["installationName"] # "blank"
Filter == query.args["installationName"]

\* GetBookingPayment of an ADMIN, a SUPER_ADMIN too or not: first, what is theirs.
ResolveHistoryOfAdmin ==
    /\ Entered
    /\ query.field = "getBookingPayment"
    /\ isAdmin
    /\ Start("GetInstallationsByUserEmail")
    /\ UNCHANGED <<reply, scope, page>>

ResolveHistory ==
    /\ Entered
    /\ query.field = "getBookingPayment"
    /\ ~isAdmin
    /\ HasRole(claims, "SUPER_ADMIN")
    /\ scope' = IF FilterIn(query.args) THEN <<Filter>> ELSE <<>>
    /\ Start("GetBookingPayment")
    /\ UNCHANGED <<reply, page>>

\* "forbidden: ..." is an error like any other: a 500.
ResolveHistoryOfNobody ==
    /\ Entered
    /\ query.field = "getBookingPayment"
    /\ ~isAdmin
    /\ ~HasRole(claims, "SUPER_ADMIN")
    /\ FailWith(New(Plain(FALSE)))
    /\ UNCHANGED <<wire, peers, said>>

Wizard(args) == "pricingTemplateId" \notin DOMAIN args

ResolveRack ==
    /\ Entered
    /\ query.field = "createRackPayment"
    /\ ~Wizard(query.args)
    /\ Start("CreateRackPayment")
    /\ UNCHANGED <<reply, scope, page>>

Cells(args) == "pricingCells" \in DOMAIN args /\ args["pricingCells"] # "blank"

ResolveWizard ==
    /\ Entered
    /\ query.field = "createRackPayment"
    /\ Wizard(query.args)
    /\ Cells(query.args)
    /\ Start("FindExactPricingTemplate")
    /\ UNCHANGED <<reply, scope, page>>

ResolveWizardNoCells ==
    /\ Entered
    /\ query.field = "createRackPayment"
    /\ Wizard(query.args)
    /\ ~Cells(query.args)
    /\ FailWith(New(Plain(FALSE)))
    /\ UNCHANGED <<wire, peers, said>>

-----------------------------------------------------------------------------
(* One call *)

\* The error of a call becomes the error of the field; the resolver of the
\* history wraps that of the installations.
ErrorOfField(err) ==
    New(IF call = "GetInstallationsByUserEmail" THEN Wrapped(err) ELSE err)

Admit ==
    /\ pc = "gate"
    /\ pc' = "ready"
    /\ UNCHANGED <<useMock, query, call, reply, scope, page, response, wire, peers, said>>

\* validateServiceAvailability's errors: the gateway's own, or its message or
\* the transport's wrapped in a text that may say "unavailable".
GateErrors == {Gateway("SERVICE_UNAVAILABLE"), Gateway("INTERNAL_ERROR")}
              \cup {Plain(unavailable) : unavailable \in BOOLEAN}

RefusedByGate(err) ==
    /\ pc = "gate"
    /\ FailWith(New(err))
    /\ UNCHANGED <<wire, peers, said>>

\* The wizard's template is the one a peer found or made, and checked like one
\* that was sent.
NoSuchTemplate ==
    {i \in DOMAIN Checks(call) :
        /\ Checks(call)[i].argument = "pricingTemplateId"
        /\ call = "CreateRackPayment" /\ Wizard(query.args) /\ reply.pricingTemplateId <= 0}
InvalidArguments == FailedChecks(call, query.args) \cup NoSuchTemplate

RefusedByService ==
    /\ pc = "ready"
    /\ InvalidArguments # {}
    /\ FailWith(New(Domain(Checks(call)[Min(InvalidArguments)].error)))
    /\ UNCHANGED <<wire, peers, said>>

IsMocked(c) == useMock \/ c \in AlwaysMock

AnsweredByMock(dto) ==
    /\ pc = "ready"
    /\ InvalidArguments = {}
    /\ IsMocked(call)
    /\ reply' = dto
    /\ pc' = "answered"
    /\ UNCHANGED <<useMock, query, call, scope, page, response, wire, peers, said>>

Send ==
    /\ pc = "ready"
    /\ InvalidArguments = {}
    /\ ~IsMocked(call)
    /\ wire' = wire \cup {call}
    /\ pc' = "sent"
    /\ UNCHANGED <<useMock, query, call, reply, scope, page, response, peers, said>>

\* An order or a booking the peer makes, soon or after the deadline.
Execute(c) ==
    /\ c \in wire \ (done \cup refused)
    /\ done' = done \cup {c}
    /\ UNCHANGED <<useMock, goroutine, wire, refused, said>>

IsError(m) == "response" \in DOMAIN m /\ m.response # Nil /\ m.response.status = 2

\* A page of booking-manager: of the installations named, of all of them if
\* none is; or no page at all.
InScope(b) == scope = <<>> \/ b.installationName \in Range(scope)
HistoryPages ==
    {[bookings |-> Nil, currentPage |-> 0]}
        \cup {[bookings |-> some, currentPage |-> 1] :
                  some \in SetToAllKPermutations({b \in Bookings : InScope(b)})}
\* The orders payment-manager has for the bookings of a page, in any order.
OrderLists ==
    LET ids == {page.bookings[i].id : i \in DOMAIN page.bookings}
    IN {[orders |-> some] :
           some \in SetToAllKPermutations({o \in PurchaseOrders : o.bookingReference \in ids})}

\* What may be said depends on what was asked.
Sayable ==
    CASE call = "GetInstallationsByUserEmail" ->
             {[installations |-> Administers[claims.email]]}
      [] call = "GetBookingPayment" -> HistoryPages
      [] call = "GetPurchaseOrdersByBookingIDs" -> OrderLists
      [] OTHER -> Messages[call]

Answer(m) ==
    /\ pc = "sent"
    /\ IF IsError(m) THEN /\ call \notin done
                          /\ refused' = refused \cup {call}
                     ELSE call \in done /\ UNCHANGED refused
    /\ said' = [c \in DOMAIN said \cup {call} |-> IF c = call THEN m ELSE said[c]]
    /\ reply' = DTO(call, m)
    /\ pc' = "answered"
    /\ UNCHANGED <<useMock, query, call, scope, page, response, wire, done>>

\* (Mutant: the history fails with the lookup of its orders.)
FailedWithOrders(code, reason) ==
    FailWith(IF call \in LocalAccess
             THEN localAccessGQLError(localAccessError(code, reason))
             ELSE ErrorOfField(Domain(mapGRPCError(code))))

\* What the client of the call makes of a gRPC error.
Failed(code, reason) ==
    IF call = "GetPurchaseOrdersByBookingIDs"
    THEN /\ reply' = [orders |-> <<>>]   \* logged, the history goes on without them
         /\ pc' = "answered"
         /\ UNCHANGED <<useMock, query, call, scope, page, response>>
    ELSE FailWith(IF call \in LocalAccess
                  THEN localAccessGQLError(localAccessError(code, reason))
                  ELSE ErrorOfField(Domain(mapGRPCError(code))))

\* The reason in the details of a status, where the peer has a catalogue.
Reasons == IF call \in LocalAccess THEN DOMAIN localAccessCatalog \cup {"OTHER"} ELSE {""}

RejectedByPeer(code, reason) ==
    /\ pc = "sent"
    /\ call \notin done
    /\ refused' = refused \cup {call}
    /\ Failed(code, reason)
    /\ UNCHANGED <<wire, done, said>>

\* (Mutant: the goroutine that looks the orders up has no deadline.)
GivenUpButOrders(code) ==
    /\ pc = "sent"
    /\ call # "GetPurchaseOrdersByBookingIDs"
    /\ Failed(code, "")
    /\ UNCHANGED <<wire, peers, said>>

\* The peer is down, fails, or the deadline of the call passes.
GivenUp(code) ==
    /\ pc = "sent"
    /\ Failed(code, "")
    /\ UNCHANGED <<wire, peers, said>>

-----------------------------------------------------------------------------
(* After the answer *)

StatusIsError == "response" \in DOMAIN reply /\ reply.response # Nil
                    /\ reply.response.status = 2 /\ ErrorOf(call) # ""

ErrorStatus ==
    /\ pc = "answered"
    /\ StatusIsError
    /\ FailWith(ErrorOfField(Domain(ErrorOf(call))))
    /\ UNCHANGED <<wire, peers, said>>

Usable == pc = "answered" /\ ~StatusIsError

Conclude ==
    /\ Usable
    /\ call = LastCall[query.field]
    /\ call # "GetBookingPayment"
    /\ Return(Returned(call, reply))
    /\ UNCHANGED <<wire, peers, said>>

OutOfScope == FilterIn(query.args) /\ ~\E i \in DOMAIN reply.installations :
                                          reply.installations[i] = Filter

\* An ADMIN who asks for an installation of somebody else gets an empty page.
HideHistory ==
    /\ Usable
    /\ call = "GetInstallationsByUserEmail"
    /\ OutOfScope
    /\ Return([bookings |-> <<>>, currentPage |-> 1])
    /\ UNCHANGED <<wire, peers, said>>

\* (Mutant: the filter of the UI is trusted.)
AskHistoryUnscoped ==
    /\ Usable
    /\ call = "GetInstallationsByUserEmail"
    /\ scope' = IF FilterIn(query.args) THEN <<Filter>> ELSE reply.installations
    /\ Start("GetBookingPayment")
    /\ UNCHANGED <<reply, page>>

AskHistory ==
    /\ Usable
    /\ call = "GetInstallationsByUserEmail"
    /\ ~OutOfScope
    /\ scope' = IF FilterIn(query.args) THEN <<Filter>> ELSE reply.installations
    /\ Start("GetBookingPayment")
    /\ UNCHANGED <<reply, page>>

\* No message of bookings, the mock's page, or a page without any: no orders.
ReturnPage ==
    /\ Usable
    /\ call = "GetBookingPayment"
    /\ reply.bookings \in {Nil, <<>>}
    /\ Return(ToBookingPaymentResponse(<<>>, IF reply.bookings = Nil THEN 0
                                             ELSE reply.currentPage))
    /\ UNCHANGED <<wire, peers, said>>

\* The orders are asked for under the deadline of the history, and behind no
\* gate of their own.
AskOrders ==
    /\ Usable
    /\ call = "GetBookingPayment"
    /\ reply.bookings \notin {Nil, <<>>}
    /\ page' = reply
    /\ Start("GetPurchaseOrdersByBookingIDs")
    /\ UNCHANGED <<reply, scope>>

ReturnHistory ==
    /\ Usable
    /\ call = "GetPurchaseOrdersByBookingIDs"
    /\ Return(ToBookingPaymentResponse(Join(page.bookings, reply.orders), page.currentPage))
    /\ UNCHANGED <<wire, peers, said>>

\* The wizard: a template with exactly these cells, or a new one, and the rack.
TemplateFound ==
    /\ Usable
    /\ call = "FindExactPricingTemplate"
    /\ reply.found
    /\ Start("CreateRackPayment")
    /\ UNCHANGED <<reply, scope, page>>

NoTemplate ==
    /\ Usable
    /\ call = "FindExactPricingTemplate"
    /\ ~reply.found
    /\ Start("CreatePricingTemplate")
    /\ UNCHANGED <<reply, scope, page>>

TemplateCreated ==
    /\ Usable
    /\ call = "CreatePricingTemplate"
    /\ query.field = "createRackPayment"
    /\ Start("CreateRackPayment")
    /\ UNCHANGED <<reply, scope, page>>

-----------------------------------------------------------------------------
Rejections == {"NotFound", "InvalidArgument"}
Failures == {"Unavailable", "DeadlineExceeded"}

Middlewares == (\E q \in Queries : Receive(q)) \/ Invalid \/ Forbidden
Resolvers == \/ Resolve \/ ResolveHistoryOfAdmin \/ ResolveHistory \/ ResolveHistoryOfNobody
             \/ ResolveRack \/ ResolveWizard \/ ResolveWizardNoCells
Call == \/ Admit \/ RefusedByService \/ Send
        \/ \E err \in GateErrors : RefusedByGate(err)
        \/ \E dto \in Mocks(call) : AnsweredByMock(dto)
Peer == \/ \E c \in wire : Execute(c)
        \/ pc = "sent" /\ \E m \in Sayable : Answer(m)
        \/ \E code \in Rejections, reason \in Reasons : RejectedByPeer(code, reason)
        \/ call \in LocalAccess /\ RejectedByPeer("Unimplemented", "")
        \/ \E code \in Failures : GivenUp(code)
Continue == \/ ErrorStatus \/ Conclude \/ HideHistory \/ AskHistory \/ ReturnPage \/ AskOrders
            \/ ReturnHistory \/ TemplateFound \/ NoTemplate \/ TemplateCreated

Next == Middlewares \/ Resolvers \/ Call \/ Peer \/ Continue
Spec == Init /\ [][Next]_vars

\* A goroutine that can go on does; the gate decides (http.Client.Timeout) and
\* a call that was sent ends, if only by its deadline (context.WithTimeout).
\* No peer is obliged to anything.
FairSpec == /\ Spec
            /\ WF_vars(Invalid \/ Forbidden \/ Resolvers)
            /\ WF_vars(Call)
            /\ WF_vars(\E code \in Failures : GivenUp(code))
            /\ WF_vars(Continue)

-----------------------------------------------------------------------------
(* Correctness *)

\* The statuses that say the request was at fault.
ClientStatuses == {400, 403, 409, 422, 429}

Over == pc = "over"
asked == query.field
Mutation == LastCall[asked] \in Effects
Shown(f) == response.data[f]

\* The identity of a request, from its headers: who they all name, if they name
\* one user, with permissions that can be read.
Identified(h) ==
    /\ h.validated
    /\ h.claims # NoClaims
    /\ h.claims.sub \in Users
    /\ h.userID \in {"", h.claims.sub}
    /\ h.userEmail \in {"", h.claims.email}
    /\ h.claims.permissions.parses
Holds(h, role) == Identified(h) /\ role \in h.claims.permissions.roles

Reserved == {"GetPricingTemplates", "GetBookingTimes", "GenerateCoupon", "CreateRackPayment",
             "FindExactPricingTemplate", "CreatePricingTemplate", "UpdatePricingTemplate",
             "DeletePricingTemplate"}

OfAdmins == {"GetInstallationsByUserEmail", "GetBookingPayment", "GetPurchaseOrdersByBookingIDs"}

\* Nothing of the back office is asked of a peer, and nothing of it answered,
\* for a request whose headers contradict each other, or whose user does not
\* hold the role: SUPER_ADMIN, and ADMIN or SUPER_ADMIN for the history
\* (auth_claims.go:48-74, auth_middleware.go:35-68, auth_directives.go,
\* schema.resolvers.go:395-414).
OnlyEntitled ==
    \A c \in wire \cup {call} :
        /\ c \in Reserved => Holds(query.headers, "SUPER_ADMIN")
        /\ c \in OfAdmins => Holds(query.headers, "ADMIN") \/ Holds(query.headers, "SUPER_ADMIN")

\* An administrator never sees a booking of an installation that is not theirs,
\* whatever other role they hold, if they have one or the request names one,
\* theirs or not.  Who has none and names none is no part of it: their empty
\* list is asked for, which restricts nothing (schema.resolvers.go:400-427).
AdminSeesOwn ==
    (/\ Over
     /\ asked = "getBookingPayment"
     /\ response.data # Nil
     /\ Holds(query.headers, "ADMIN")
     /\ Administers[query.headers.claims.email] # <<>> \/ FilterIn(query.args)) =>
        \A i \in DOMAIN Shown("bookings") :
            Shown("bookings")[i].installationName \in
                Range(Administers[query.headers.claims.email])

\* A client told that the request was at fault (400, 403, 409, 422, 429) may
\* correct it and send it again: what it asked for has not happened, and will
\* not, whatever is still on its way (gql_errors.go, mapGRPCError,
\* local_access_errors.go).  A 404 is not in the list: a deadline is one.
ClientErrorMeansNoEffect ==
    (Over /\ response.status \in ClientStatuses /\ Mutation) =>
        LastCall[asked] \notin wire \ refused

\* A mutation that is reported as done was done by the peer, with all the calls
\* before it, unless the BFF runs on mocks (the status checks of
\* payment_client.go, one per call).
SuccessWasEarned ==
    (Over /\ response.data # Nil /\ Mutation /\ ~useMock) => 
        /\ wire \subseteq done
        /\ LastCall[asked] \in done

\* One page of the history is as long as what booking-manager said, and in its
\* order, whether or not the orders were found (payment_client.go:1230-1304).
BookingsSurviveLookup ==
    (Over /\ asked = "getBookingPayment" /\ "GetBookingPayment" \in DOMAIN said) =>
        LET page1 == said["GetBookingPayment"].bookings
        IN /\ response.status = 200
           /\ response.data # Nil
           /\ page1 # Nil =>
                  /\ Len(Shown("bookings")) = Len(page1)
                  /\ \A i \in DOMAIN page1 : Shown("bookings")[i].id = page1[i].id

\* A booking is shown with its own purchase order, the last one said for it,
\* and with none only if none was said for it
\* (payment_client.go:1252-1299).
OrdersAreTheirOwn ==
    (Over /\ asked = "getBookingPayment" /\ "GetBookingPayment" \in DOMAIN said
        /\ said["GetBookingPayment"].bookings # Nil) =>
        \A i \in DOMAIN Shown("bookings") :
            LET b == Shown("bookings")[i]
                orders == IF "GetPurchaseOrdersByBookingIDs" \notin DOMAIN said THEN <<>>
                          ELSE said["GetPurchaseOrdersByBookingIDs"].orders
                about == {j \in DOMAIN orders : orders[j].bookingReference = b.id}
            IN IF about = {} THEN b.purchaseOrder = Nil
               ELSE /\ b.purchaseOrder # Nil
                    /\ b.purchaseOrder.oc = orders[Max(about)].oc
                    /\ b.purchaseOrder.couponId = orders[Max(about)].couponId

\* The word for number n of an enum.
Word(words, n, other) == IF n \in DOMAIN words THEN words[n] ELSE other
Statuses == <<"RESPONSE_STATUS_OK", "RESPONSE_STATUS_ERROR">>
UnitNames == <<"HOUR", "DAY", "WEEK", "MONTH">>
Discounts == <<"PERCENTAGE", "AMOUNT">>

\* What is shown of a message, of one that may be missing, of a list: the same
\* elements in the same order, every field of theirs as it was said.
Carries(shown, m) == \A f \in DOMAIN m : shown[f] = m[f]
CarriesPart(shown, m) == (m = Nil <=> shown = Nil) /\ (m # Nil => Carries(shown, m))
CarriesEach(shown, s) == Len(shown) = Len(s) /\ \A i \in DOMAIN s : Carries(shown[i], s[i])
CarriesGroups(shown, s) ==
    /\ Len(shown) = Len(s)
    /\ \A i \in DOMAIN s : CarriesEach(shown[i].products, s[i].products)
CarriesTemplates(shown, s) ==
    /\ Len(shown) = Len(s)
    /\ \A i \in DOMAIN s : CarriesGroups(shown[i].bookingGroups, s[i].bookingGroups)
\* The times at some positions, in their order: all but the admin's.
CarriesTimes(shown, s) ==
    \E at \in [DOMAIN shown -> DOMAIN s] :
        /\ \A i, j \in DOMAIN shown : i < j => at[i] < at[j]
        /\ {at[i] : i \in DOMAIN shown} = {k \in DOMAIN s : s[k].name # "Admin"}
        /\ \A i \in DOMAIN shown :
              /\ shown[i].name = s[at[i]].name
              /\ shown[i].unitMeasurement = Word(UnitNames, s[at[i]].unitMeasurement, "UNSPECIFIED")

\* Every message that is not an error reaches the client whole: its status, its
\* payload, its nested messages, every element of its lists and of the lists in
\* them, in order, but for the booking times a payer may not see; nothing that
\* is missing in it takes the rest of the answer with it.  Of the fields that
\* the mappers copy as they are the messages have one each (MessageTypes; both
\* payment_mapper.go, generated.go).
Payload == {"url", "code", "couponCode", "paymentRackId", "pricingTemplateId", "applies",
            "lastSeenAt"}
FaithfulAnswer ==
    (Over /\ asked # "getBookingPayment" /\ LastCall[asked] \in DOMAIN said) =>
        LET m == said[LastCall[asked]]
        IN ~(IsError(m) /\ LastCall[asked] # "ValidateDiscountCoupon") =>
            /\ response.status = 200
            /\ response.data # Nil
            /\ "response" \in DOMAIN m =>
                   Shown("status") = IF m.response = Nil THEN "RESPONSE_STATUS_UNSPECIFIED"
                                    ELSE Word(Statuses, m.response.status,
                                              "RESPONSE_STATUS_UNSPECIFIED")
            /\ \A f \in Payload \cap DOMAIN m : Shown(f) = m[f]
            /\ "discountType" \in DOMAIN m =>
                   Shown("discountType") = Word(Discounts, m.discountType, "")
            /\ "wifiPassword" \in DOMAIN m =>
                   Shown("wifiPassword") = IF m.wifiPassword = "" THEN Nil ELSE m.wifiPassword
            /\ \A f \in {"paymentRack", "installation", "device", "booking"} \cap DOMAIN m :
                   CarriesPart(Shown(f), m[f])
            /\ "availableGroup" \in DOMAIN m =>
                   CarriesEach(Shown("availableGroups"), m.availableGroup)
            /\ "pricingTemplates" \in DOMAIN m =>
                   CarriesTemplates(Shown("pricingTemplates"), m.pricingTemplates)
            /\ asked = "getBookingTimes" => CarriesEach(Shown("bookingTimes"), m.bookingTimes)
            /\ asked = "getPaymentInfraByQrValue" =>
                   CarriesTimes(Shown("bookingTimes"), m.bookingTimes)

\* What AtMostOnce calls the outcome of the mutation: an answer of the mock,
\* and an error that does not say whose fault it is, are neither yes nor no.
Outcome ==
    IF response = NotYet THEN "pending"
    ELSE IF response.data # Nil /\ ~useMock THEN "ok"
    ELSE IF response.status \in ClientStatuses THEN "no"
    ELSE "unknown"
Applied == IF query # NotYet /\ Mutation /\ LastCall[asked] \in done THEN {"it"} ELSE {}
Outcomes == [r \in {"it"} |-> IF query # NotYet /\ Mutation THEN Outcome ELSE "pending"]

Promise == INSTANCE AtMostOnce WITH Requests <- {"it"}, applied <- Applied, answer <- Outcomes
\* Every mutation of the API keeps AtMostOnce's promise, through every way its
\* request can end (payment_client.go:111-1110, gql_errors.go:37-148).
KeepsPromise == Promise!Spec

\* Every request is answered, whatever the peers do: there is no call without a
\* deadline behind a query or a mutation (payment_client.go:123 and its likes,
\* :1160 for the two of the history).
EveryRequestAnswered == query # NotYet ~> Over
=============================================================================
