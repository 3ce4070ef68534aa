------------------------ MODULE RequestPipeline_proofs ------------------------
(***************************************************************************)
(* Proofs about RequestPipeline, for any users, requests, messages and     *)
(* bookings: the types, who is entitled to what, what a client error and   *)
(* a success say of the peers, and the promise of every mutation.          *)
(***************************************************************************)
EXTENDS RequestPipeline, TLAPS

-----------------------------------------------------------------------------
(* Tables *)

\* The root fields, and the call each of them ends with.
FieldNames ==
    {"getPaymentInfraByQrValue", "getAvailableLockersByRackIDAndBookingTime",
     "validateDiscountCoupon", "getPurchaseOrderByPo", "checkBookingStatus",
     "getBookingPayment", "getPricingTemplates", "getBookingTimes", "lockerConnectivity",
     "generatePurchaseOrder", "generateBooking", "generateCoupon", "createRackPayment",
     "createPricingTemplate", "updatePricingTemplate", "deletePricingTemplate",
     "requestOfflineVoucher"}

LEMMA FieldTable ==
    /\ DOMAIN RootFields = FieldNames
    /\ \A f \in FieldNames : LastCall[f] \in Calls
    /\ LastCall["createRackPayment"] = "CreateRackPayment"
    /\ LastCall["getBookingPayment"] = "GetBookingPayment"
    /\ \A f \in FieldNames \ {"getBookingPayment"} : LastCall[f] \notin OfAdmins
<1>1. DOMAIN RootFields = FieldNames
  BY DEF RootFields, FieldNames
<1>2. \A f \in FieldNames : LastCall[f] \in Calls
  BY DEF FieldNames, LastCall, Calls, Effects, Reads
<1>3. /\ LastCall["createRackPayment"] = "CreateRackPayment"
      /\ LastCall["getBookingPayment"] = "GetBookingPayment"
  BY DEF LastCall
<1>4. \A f \in FieldNames \ {"getBookingPayment"} : LastCall[f] \notin OfAdmins
  BY DEF FieldNames, LastCall, OfAdmins
<1> QED
  BY <1>1, <1>2, <1>3, <1>4

\* What belongs to the back office has the directive that says so.
LEMMA ReservedTable ==
    ASSUME NEW f \in FieldNames
    PROVE  /\ LastCall[f] \in Reserved =>
                 /\ RootFields[f].directive.name = "hasRole"
                 /\ RootFields[f].directive.role = "SUPER_ADMIN"
           /\ f = "getBookingPayment" => RootFields[f].directive.name = "auth"
<1>1. LastCall[f] \in Reserved =>
          f \in {"getPricingTemplates", "getBookingTimes", "generateCoupon", "createRackPayment",
                 "createPricingTemplate", "updatePricingTemplate", "deletePricingTemplate"}
  BY DEF FieldNames, LastCall, Reserved
<1>2. /\ RootFields["getPricingTemplates"] = getPricingTemplates
      /\ RootFields["getBookingTimes"] = getBookingTimes
      /\ RootFields["generateCoupon"] = generateCoupon
      /\ RootFields["createRackPayment"] = createRackPayment
      /\ RootFields["createPricingTemplate"] = createPricingTemplate
      /\ RootFields["updatePricingTemplate"] = updatePricingTemplate
      /\ RootFields["deletePricingTemplate"] = deletePricingTemplate
      /\ RootFields["getBookingPayment"] = getBookingPayment
  BY DEF RootFields
<1>3. /\ getPricingTemplates.directive = hasRole("SUPER_ADMIN")
      /\ getBookingTimes.directive = hasRole("SUPER_ADMIN")
      /\ generateCoupon.directive = hasRole("SUPER_ADMIN")
      /\ createRackPayment.directive = hasRole("SUPER_ADMIN")
      /\ createPricingTemplate.directive = hasRole("SUPER_ADMIN")
      /\ updatePricingTemplate.directive = hasRole("SUPER_ADMIN")
      /\ deletePricingTemplate.directive = hasRole("SUPER_ADMIN")
      /\ getBookingPayment.directive = auth
  BY DEF getPricingTemplates, getBookingTimes, generateCoupon, createRackPayment,
         createPricingTemplate, updatePricingTemplate, deletePricingTemplate,
         getBookingPayment, Field
<1>4. /\ hasRole("SUPER_ADMIN").name = "hasRole" /\ hasRole("SUPER_ADMIN").role = "SUPER_ADMIN"
      /\ auth.name = "auth"
  BY DEF hasRole, auth
<1> QED
  BY <1>1, <1>2, <1>3, <1>4

\* The status of an error of the gate or of the domain.
LEMMA StatusOfCode ==
    ASSUME NEW code, code # "FORBIDDEN", code # "UNAUTHENTICATED"
    PROVE  resolveStatus(code) \in {400, 404, 500, 503}
  BY DEF resolveStatus

\* The errors of a call are no matter of identity.
Impersonal(err) == resolveCode(err) # "FORBIDDEN" /\ resolveCode(err) # "UNAUTHENTICATED"

LEMMA ImpersonalErrors ==
    /\ \A err \in GateErrors : Impersonal(err)
    /\ \A name : Impersonal(Domain(name)) /\ Impersonal(Wrapped(Domain(name)))
    /\ Impersonal(Plain(FALSE))
<1>1. \A name : Impersonal(Domain(name))
  BY DEF Impersonal, resolveCode, Domain
<1>2. ASSUME NEW name PROVE Impersonal(Wrapped(Domain(name)))
  <2>1. Wrapped(Domain(name)).gateway = ""
    BY DEF Wrapped, Domain
  <2> QED
    BY <2>1 DEF Impersonal, resolveCode
<1>3. Impersonal(Plain(FALSE)) /\ Impersonal(Plain(TRUE))
  <2>1. Plain(FALSE).gateway = "" /\ Plain(TRUE).gateway = ""
    BY DEF Plain
  <2> QED
    BY <2>1 DEF Impersonal, resolveCode
<1>4. Impersonal(Gateway("SERVICE_UNAVAILABLE")) /\ Impersonal(Gateway("INTERNAL_ERROR"))
  <2>1. /\ Gateway("SERVICE_UNAVAILABLE").gateway = "SERVICE_UNAVAILABLE"
        /\ Gateway("INTERNAL_ERROR").gateway = "INTERNAL_ERROR"
    BY DEF Gateway
  <2> QED
    BY <2>1 DEF Impersonal, resolveCode
<1>5. \A err \in GateErrors : Impersonal(err)
  BY <1>3, <1>4 DEF GateErrors
<1> QED
  BY <1>1, <1>2, <1>3, <1>5

LEMMA StatusOfError ==
    ASSUME NEW err, Impersonal(err)
    PROVE  New(err).status \in {400, 404, 500, 503}
<1>1. New(err).status = resolveStatus(resolveCode(err))
  BY DEF New, Extensions
<1>2. resolveStatus(resolveCode(err)) \in {400, 404, 500, 503}
  BY StatusOfCode DEF Impersonal
<1> QED
  BY <1>1, <1>2

\* An error of a domain that is no bad request, and its statuses.
EffectStatuses == {404, 500}

LEMMA StatusOfDomain ==
    ASSUME NEW name
    PROVE  /\ name \in NotFoundErrors => New(Domain(name)).status = 404
           /\ name \in InternalErrors => New(Domain(name)).status = 500
           /\ name \in UnlistedErrors => New(Domain(name)).status = 500
           /\ name \in NotFoundErrors \cup InternalErrors \cup UnlistedErrors =>
                  New(Domain(name)).status \in EffectStatuses
<1>1. Domain(name).gateway = "" /\ Domain(name).is = name
      /\ (name # "ErrPaymentInfraServiceUnavailable" => Domain(name).unavailable = FALSE)
  BY DEF Domain
<1>2. name \in NotFoundErrors => resolveCode(Domain(name)) = "NOT_FOUND"
  BY <1>1 DEF resolveCode, isAny
<1>3. name \in InternalErrors => resolveCode(Domain(name)) = "INTERNAL_SERVER_ERROR"
  BY <1>1 DEF resolveCode, isAny, NotFoundErrors, BadRequestErrors, InternalErrors
<1>4. name \in UnlistedErrors => resolveCode(Domain(name)) = "INTERNAL_SERVER_ERROR"
  BY <1>1 DEF resolveCode, isAny, NotFoundErrors, BadRequestErrors, InternalErrors, UnlistedErrors
<1>5. New(Domain(name)).status = resolveStatus(resolveCode(Domain(name)))
  BY DEF New, Extensions
<1>6. resolveStatus("NOT_FOUND") = 404 /\ resolveStatus("INTERNAL_SERVER_ERROR") = 500
  BY DEF resolveStatus
<1>7. /\ name \in NotFoundErrors => New(Domain(name)).status = 404
      /\ name \in InternalErrors => New(Domain(name)).status = 500
      /\ name \in UnlistedErrors => New(Domain(name)).status = 500
  BY <1>2, <1>3, <1>4, <1>5, <1>6
<1> QED
  BY <1>7 DEF EffectStatuses

\* An error of a call that may have an effect is no client error.
LEMMA StatusOfEffect ==
    ASSUME NEW c \in Effects, ErrorOf(c) # ""
    PROVE  New(Domain(ErrorOf(c))).status \in EffectStatuses
<1>1. ErrorOf(c) \in NotFoundErrors \cup InternalErrors \cup UnlistedErrors
  BY DEF ErrorOf, Effects, NotFoundErrors, InternalErrors, UnlistedErrors,
         GenerateCouponError, GeneratePurchaseOrderError, GenerateBookingError,
         CreateRackPaymentError, CreatePricingTemplateError,
         UpdatePricingTemplateError, DeletePricingTemplateError
<1> QED
  BY <1>1, StatusOfDomain, Zenon

\* A deadline, or a peer that is down, is no client error, either.
LEMMA StatusOfFailure ==
    ASSUME NEW code \in Failures
    PROVE  New(Domain(mapGRPCError(code))).status \in EffectStatuses
<1>1. mapGRPCError(code) = "ErrPaymentInfraServiceUnavailable"
  BY DEF Failures, mapGRPCError
<1>2. mapGRPCError(code) \in NotFoundErrors
  BY <1>1 DEF NotFoundErrors
<1> QED
  BY <1>2, StatusOfDomain, Zenon

\* The statuses of the local access catalogue.
LEMMA StatusOfLocalAccess ==
    ASSUME NEW code, NEW reason
    PROVE  localAccessGQLError(localAccessError(code, reason)).status
               \in {400, 404, 409, 429, 500, 503}
<1>0. \A e : localAccessGQLError(e) = Extensions("INTERNAL_SERVER_ERROR", 500)
             \/ localAccessGQLError(e) = e
  BY DEF localAccessGQLError
<1>1. CASE code = "Unimplemented"
  <2>1. localAccessError(code, reason) = Extensions("SERVICE_UNAVAILABLE", 503)
    BY <1>1 DEF localAccessError, ErrOfflineVoucherNotAvailable
  <2> QED
    BY <1>0, <2>1 DEF Extensions
<1>2. CASE code # "Unimplemented" /\ reason \in DOMAIN localAccessCatalog
  <2>1. localAccessError(code, reason) = Extensions(reason, localAccessCatalog[reason])
    BY <1>2 DEF localAccessError
  <2>2. localAccessCatalog[reason] \in {400, 404, 409, 429, 503}
    BY <1>2 DEF localAccessCatalog
  <2>3. localAccessError(code, reason).status \in {400, 404, 409, 429, 503}
    BY <2>1, <2>2 DEF Extensions
  <2> QED
    BY <1>0, <2>3 DEF Extensions
<1>3. CASE code # "Unimplemented" /\ reason \notin DOMAIN localAccessCatalog
  <2>1. localAccessError(code, reason) = Extensions("", 0)
    BY <1>3 DEF localAccessError
  <2>2. localAccessGQLError(Extensions("", 0)).status = 500
    BY DEF localAccessGQLError, Extensions
  <2>3. localAccessGQLError(localAccessError(code, reason)).status = 500
    BY <2>1, <2>2
  <2> QED
    BY <2>3
<1> QED
  BY <1>1, <1>2, <1>3

\* The DTO of a message with a header has the header.
LEMMA HeaderOfDTO ==
    ASSUME NEW c \in (Effects \cup {"FindExactPricingTemplate"}) \ {"IssueOfflineVoucher"}, NEW m
    PROVE  /\ "response" \in DOMAIN DTO(c, m)
           /\ DTO(c, m).response = m.response
           /\ ErrorOf(c) # ""
  BY DEF DTO, ErrorOf, Effects, FromGRPCGenerateCouponResponse,
         FromGRPCGeneratePurchaseOrderResponse, FromGRPCGenerateBookingResponse,
         FromGRPCCreateRackPaymentResponse, FromGRPCFindExactPricingTemplateResponse,
         FromGRPCCreatePricingTemplateResponse, FromGRPCUpdatePricingTemplateResponse,
         FromGRPCDeletePricingTemplateResponse,
         GenerateCouponError, GeneratePurchaseOrderError, GenerateBookingError,
         CreateRackPaymentError, FindExactPricingTemplateError, CreatePricingTemplateError,
         UpdatePricingTemplateError, DeletePricingTemplateError

-----------------------------------------------------------------------------
(* What a step can be *)

ErrorStatuses == {400, 403, 404, 409, 422, 429, 500, 503}
Unmoved == UNCHANGED <<useMock, query, wire, done, said>>

\* The first call of a field, and the calls that follow another one.
Begins(c) ==
    /\ pc = "received"
    /\ Permits(root.directive)
    /\ \/ /\ query.field \notin {"getBookingPayment", "createRackPayment"}
          /\ c = LastCall[query.field]
       \/ /\ query.field = "getBookingPayment"
          /\ c = "GetInstallationsByUserEmail" /\ HasRole(claims, "ADMIN")
       \/ /\ query.field = "getBookingPayment"
          /\ c = "GetBookingPayment" /\ HasRole(claims, "SUPER_ADMIN")
       \/ /\ query.field = "createRackPayment"
          /\ c \in {"CreateRackPayment", "FindExactPricingTemplate"}
Follows(c) ==
    /\ Usable
    /\ \/ call = "GetInstallationsByUserEmail" /\ c = "GetBookingPayment"
       \/ call = "GetBookingPayment" /\ c = "GetPurchaseOrdersByBookingIDs"
       \/ /\ call = "FindExactPricingTemplate"
          /\ c \in {"CreateRackPayment", "CreatePricingTemplate"}
       \/ /\ call = "CreatePricingTemplate" /\ query.field = "createRackPayment"
          /\ c = "CreateRackPayment"
Calling(c) ==
    /\ Begins(c) \/ Follows(c)
    /\ call' = c
    /\ pc' \in {"gate", "ready"}
    /\ Unmoved /\ UNCHANGED <<response, refused>>

\* The ways a request ends.
Ends == pc' = "over" /\ UNCHANGED call /\ Unmoved
FailsEarly ==
    /\ pc \in {"received", "gate", "ready"}
    /\ response'.status \in ErrorStatuses /\ response'.data = Nil
    /\ Ends /\ UNCHANGED refused
FailsRejected ==
    /\ pc = "sent" /\ call \notin done /\ refused' = refused \cup {call}
    /\ response'.status \in ErrorStatuses /\ response'.data = Nil
    /\ Ends
FailsGivenUp ==
    /\ pc = "sent"
    /\ response'.status \in ErrorStatuses /\ response'.data = Nil
    /\ call \in Effects => response'.status \in EffectStatuses
    /\ Ends /\ UNCHANGED refused
FailsOnError ==
    /\ pc = "answered"
    /\ response'.status \in ErrorStatuses /\ response'.data = Nil
    /\ call \in Effects => response'.status \in EffectStatuses
    /\ Ends /\ UNCHANGED refused
Succeeds ==
    /\ Usable
    /\ call = LastCall[query.field] \/ call \in OfAdmins
    /\ response'.status = 200
    /\ Ends /\ UNCHANGED refused

\* The other steps.
Receives ==
    /\ pc = "idle" /\ pc' = "received" /\ query' \in Queries
    /\ UNCHANGED <<useMock, call, response, wire, done, refused, said>>
Mocked ==
    /\ pc = "ready" /\ pc' = "answered" /\ IsMocked(call)
    /\ Unmoved /\ UNCHANGED <<call, response, refused>>
Sends ==
    /\ pc = "ready" /\ pc' = "sent" /\ wire' = wire \cup {call}
    /\ UNCHANGED <<useMock, query, call, response, done, refused, said>>
Executes ==
    /\ \E c \in wire \ (done \cup refused) : done' = done \cup {c}
    /\ UNCHANGED <<useMock, query, pc, call, reply, response, wire, refused, said>>
Answers ==
    /\ pc = "sent" /\ pc' = "answered"
    /\ \E m :
          /\ call \in OfAdmins \/ m \in Messages[call]
          /\ IF IsError(m) THEN call \notin done /\ refused' = refused \cup {call}
                           ELSE call \in done /\ UNCHANGED refused
          /\ reply' = DTO(call, m)
    /\ DOMAIN said' = DOMAIN said \cup {call}
    /\ UNCHANGED <<useMock, query, call, response, wire, done>>
LosesOrders ==
    /\ pc = "sent" /\ pc' = "answered" /\ call = "GetPurchaseOrdersByBookingIDs"
    /\ \/ UNCHANGED refused
       \/ call \notin done /\ refused' = refused \cup {call}
    /\ Unmoved /\ UNCHANGED <<call, response>>
Admitted ==
    /\ pc = "gate" /\ pc' = "ready"
    /\ Unmoved /\ UNCHANGED <<call, response, refused>>

\* The response that a failing step writes.
LEMMA FailWithShape ==
    ASSUME NEW ext, FailWith(ext)
    PROVE  /\ pc' = "over" /\ UNCHANGED <<useMock, query, call>>
           /\ response'.data = Nil
           /\ ext.status = 0 => response'.status = 200
           /\ ext.status # 0 => response'.status = ext.status
<1>1. /\ pc' = "over"
      /\ response' = [status |-> finalStatusCode(200, ext.status), code |-> ext.code,
                      data |-> Nil]
      /\ UNCHANGED <<useMock, query, call>>
  BY DEF FailWith, Respond
<1>2. response'.data = Nil /\ response'.status = finalStatusCode(200, ext.status)
  BY <1>1
<1> QED
  BY <1>1, <1>2 DEF finalStatusCode

LEMMA FailWithStatus ==
    ASSUME NEW ext, FailWith(ext), ext.status \in ErrorStatuses
    PROVE  /\ pc' = "over" /\ UNCHANGED <<useMock, query, call>>
           /\ response'.data = Nil /\ response'.status \in ErrorStatuses
           /\ response'.status = ext.status
<1>1. ext.status # 0
  BY DEF ErrorStatuses
<1> QED
  BY <1>1, FailWithShape

LEMMA ReturnShape ==
    ASSUME NEW v, Return(v)
    PROVE  pc' = "over" /\ UNCHANGED <<useMock, query, call>> /\ response'.status = 200
<1>1. /\ pc' = "over" /\ UNCHANGED <<useMock, query, call>>
      /\ response'.status = finalStatusCode(200, Extensions("", 0).status)
  BY DEF Return, Respond
<1>2. Extensions("", 0).status = 0
  BY DEF Extensions
<1> QED
  BY <1>1, <1>2 DEF finalStatusCode

\* The statuses a failed call is reported with.
LEMMA StatusOfField ==
    ASSUME NEW name
    PROVE  /\ ErrorOfField(Domain(name)).status \in {400, 404, 500, 503}
           /\ call \in Effects => ErrorOfField(Domain(name)) = New(Domain(name))
<1>1. \/ ErrorOfField(Domain(name)) = New(Domain(name))
      \/ ErrorOfField(Domain(name)) = New(Wrapped(Domain(name)))
  BY DEF ErrorOfField
<1>2. New(Domain(name)).status \in {400, 404, 500, 503}
  BY ImpersonalErrors, StatusOfError
<1>3. New(Wrapped(Domain(name))).status \in {400, 404, 500, 503}
  BY ImpersonalErrors, StatusOfError
<1>4. call \in Effects => ErrorOfField(Domain(name)) = New(Domain(name))
  BY DEF ErrorOfField, Effects
<1> QED
  BY <1>1, <1>2, <1>3, <1>4

WithoutOrders ==
    /\ call = "GetPurchaseOrdersByBookingIDs"
    /\ pc' = "answered" /\ UNCHANGED <<useMock, query, call, response>>
ForGood(code, reason) ==
    /\ pc' = "over" /\ UNCHANGED <<useMock, query, call>>
    /\ response'.data = Nil /\ response'.status \in ErrorStatuses
    /\ code \in Failures /\ reason = "" /\ call \in Effects => response'.status \in EffectStatuses

LEMMA FailedShape ==
    ASSUME NEW code, NEW reason, Failed(code, reason)
    PROVE  WithoutOrders \/ ForGood(code, reason)
<1> USE DEF WithoutOrders, ForGood
<1>1. CASE call = "GetPurchaseOrdersByBookingIDs"
  BY <1>1 DEF Failed
<1>2. CASE call # "GetPurchaseOrdersByBookingIDs" /\ call \in LocalAccess
  <2>1. FailWith(localAccessGQLError(localAccessError(code, reason)))
    BY <1>2 DEF Failed
  <2>2. localAccessGQLError(localAccessError(code, reason)).status \in ErrorStatuses
    <3>1. localAccessGQLError(localAccessError(code, reason)).status
              \in {400, 404, 409, 429, 500, 503}
      BY StatusOfLocalAccess
    <3> QED
      BY <3>1 DEF ErrorStatuses
  <2>3. /\ pc' = "over" /\ UNCHANGED <<useMock, query, call>>
        /\ response'.data = Nil /\ response'.status \in ErrorStatuses
        /\ response'.status = localAccessGQLError(localAccessError(code, reason)).status
    BY <2>1, <2>2, FailWithStatus
  <2>4. ASSUME code \in Failures, reason = "" PROVE response'.status = 500
    <3>1. localAccessError(code, reason) = Extensions("", 0)
      BY <2>4 DEF Failures, localAccessError, localAccessCatalog
    <3>2. localAccessGQLError(Extensions("", 0)).status = 500
      BY DEF localAccessGQLError, Extensions
    <3> DEFINE ext == localAccessGQLError(localAccessError(code, reason))
    <3>3. ext.status = 500
      BY <3>1, <3>2
    <3>4. response'.status = ext.status
      BY <2>3
    <3> HIDE DEF ext
    <3> QED
      BY <3>3, <3>4
  <2>5. ASSUME code \in Failures, reason = "" PROVE response'.status \in EffectStatuses
    BY <2>4, <2>5 DEF EffectStatuses
  <2> QED
    BY <2>3, <2>5
<1>3. CASE call # "GetPurchaseOrdersByBookingIDs" /\ call \notin LocalAccess
  <2> DEFINE err == Domain(mapGRPCError(code))
  <2>1. FailWith(ErrorOfField(err))
    BY <1>3 DEF Failed
  <2>2. ErrorOfField(err).status \in ErrorStatuses
    <3>1. ErrorOfField(err).status \in {400, 404, 500, 503}
      BY StatusOfField
    <3> QED
      BY <3>1 DEF ErrorStatuses
  <2>3. ASSUME call \in Effects PROVE ErrorOfField(err) = New(err)
    BY <2>3, StatusOfField
  <2>4. ASSUME code \in Failures PROVE New(err).status \in EffectStatuses
    BY <2>4, StatusOfFailure
  <2> HIDE DEF err
  <2>5. /\ pc' = "over" /\ UNCHANGED <<useMock, query, call>>
        /\ response'.data = Nil /\ response'.status \in ErrorStatuses
        /\ response'.status = ErrorOfField(err).status
    BY <2>1, <2>2, FailWithStatus
  <2>6. ASSUME code \in Failures, call \in Effects PROVE response'.status \in EffectStatuses
    BY <2>3, <2>4, <2>5, <2>6
  <2> QED
    BY <2>5, <2>6
<1> QED
  BY <1>1, <1>2, <1>3

\* The steps of the middlewares and the resolvers.
LEMMA EarlyShapes ==
    /\ Middlewares => Receives \/ FailsEarly
    /\ Resolvers /\ query.field \in FieldNames => FailsEarly \/ \E c \in Calls : Calling(c)
<1>1. ASSUME NEW q \in Queries, Receive(q) PROVE Receives
  BY <1>1 DEF Receive, Receives, peers
<1>2. ASSUME NEW ext, FailWith(ext), ext.status \in ErrorStatuses,
             pc \in {"received", "gate", "ready"}, UNCHANGED <<wire, peers, said>>
      PROVE  FailsEarly
  <2>1. /\ pc' = "over" /\ UNCHANGED <<useMock, query, call>>
        /\ response'.data = Nil /\ response'.status \in ErrorStatuses
    BY <1>2, FailWithStatus
  <2> QED
    BY <1>2, <2>1 DEF FailsEarly, Ends, Unmoved, peers
<1>3. CASE Forbidden
  BY <1>2, <1>3 DEF Forbidden, ForbiddenError, Extensions, ErrorStatuses
<1>4. CASE Invalid
  <2> DEFINE ext == Extensions("GRAPHQL_VALIDATION_FAILED", 0)
  <2>1. /\ pc = "received" /\ pc' = "over"
        /\ response' = [status |-> finalStatusCode(422, ext.status), code |-> ext.code,
                        data |-> Nil]
        /\ UNCHANGED <<useMock, query, call, wire, peers, said>>
    BY <1>4 DEF Invalid, Respond
  <2>2. ext.status = 0
    BY DEF Extensions
  <2>3. response'.status = 422 /\ response'.data = Nil
    BY <2>1, <2>2 DEF finalStatusCode
  <2> QED
    BY <2>1, <2>3 DEF FailsEarly, Ends, Unmoved, ErrorStatuses, peers
<1>5. CASE ResolveHistoryOfNobody \/ ResolveWizardNoCells
  <2> DEFINE err == Plain(FALSE)
  <2>1. /\ FailWith(New(err)) /\ pc = "received" /\ UNCHANGED <<wire, peers, said>>
    BY <1>5 DEF ResolveHistoryOfNobody, ResolveWizardNoCells, Entered
  <2>2. Impersonal(err)
    BY ImpersonalErrors
  <2> HIDE DEF err
  <2>3. New(err).status \in {400, 404, 500, 503}
    BY <2>2, StatusOfError
  <2>4. New(err).status \in ErrorStatuses
    BY <2>3 DEF ErrorStatuses
  <2> QED
    BY <1>2, <2>1, <2>4
<1>6. ASSUME NEW c \in Calls, Start(c), Entered, Begins(c)
      PROVE  Calling(c)
  BY <1>6 DEF Start, Calling, Unmoved, peers
<1>7. ASSUME Resolve, query.field \in FieldNames PROVE \E c \in Calls : Calling(c)
  <2>1. /\ Entered /\ query.field \notin {"getBookingPayment", "createRackPayment"}
        /\ Start(LastCall[query.field])
    BY <1>7 DEF Resolve
  <2>2. Begins(LastCall[query.field]) /\ LastCall[query.field] \in Calls
    BY <1>7, <2>1, FieldTable DEF Begins, Entered
  <2> QED
    BY <1>6, <2>1, <2>2
<1>8. ASSUME ResolveHistoryOfAdmin PROVE \E c \in Calls : Calling(c)
  <2>1. /\ Entered /\ Start("GetInstallationsByUserEmail")
        /\ Begins("GetInstallationsByUserEmail")
    BY <1>8 DEF ResolveHistoryOfAdmin, Begins, Entered, isAdmin
  <2>2. "GetInstallationsByUserEmail" \in Calls
    BY DEF Calls, Reads
  <2> QED
    BY <1>6, <2>1, <2>2
<1>9. ASSUME ResolveHistory PROVE \E c \in Calls : Calling(c)
  <2>1. Entered /\ Start("GetBookingPayment") /\ Begins("GetBookingPayment")
    BY <1>9 DEF ResolveHistory, Begins, Entered
  <2>2. "GetBookingPayment" \in Calls
    BY DEF Calls, Reads
  <2> QED
    BY <1>6, <2>1, <2>2
<1>10. ASSUME ResolveRack PROVE \E c \in Calls : Calling(c)
  <2>1. Entered /\ Start("CreateRackPayment") /\ Begins("CreateRackPayment")
    BY <1>10 DEF ResolveRack, Begins, Entered
  <2>2. "CreateRackPayment" \in Calls
    BY DEF Calls, Effects
  <2> QED
    BY <1>6, <2>1, <2>2
<1>11. ASSUME ResolveWizard PROVE \E c \in Calls : Calling(c)
  <2>1. Entered /\ Start("FindExactPricingTemplate") /\ Begins("FindExactPricingTemplate")
    BY <1>11 DEF ResolveWizard, Begins, Entered
  <2>2. "FindExactPricingTemplate" \in Calls
    BY DEF Calls, Reads
  <2> QED
    BY <1>6, <2>1, <2>2
<1> QED
  BY <1>1, <1>3, <1>4, <1>5, <1>7, <1>8, <1>9, <1>10, <1>11 DEF Middlewares, Resolvers

\* The steps of a call and of its peer.
LEMMA CallShapes ==
    ASSUME Call
    PROVE  FailsEarly \/ Admitted \/ Mocked \/ Sends
<1>1. CASE Admit
  BY <1>1 DEF Admit, Admitted, Unmoved, peers
<1>2. ASSUME NEW ext, FailWith(ext), ext.status \in ErrorStatuses,
             pc \in {"received", "gate", "ready"}, UNCHANGED <<wire, peers, said>>
      PROVE  FailsEarly
  BY <1>2, FailWithStatus DEF FailsEarly, Ends, Unmoved, peers
<1>3. CASE RefusedByService
  <2>1. PICK name : FailWith(New(Domain(name)))
    BY <1>3 DEF RefusedByService
  <2>2. New(Domain(name)).status \in {400, 404, 500, 503}
    BY ImpersonalErrors, StatusOfError
  <2>3. New(Domain(name)).status \in ErrorStatuses
    BY <2>2 DEF ErrorStatuses
  <2> QED
    BY <1>2, <1>3, <2>1, <2>3 DEF RefusedByService
<1>4. ASSUME NEW err \in GateErrors, RefusedByGate(err) PROVE FailsEarly
  <2>1. New(err).status \in {400, 404, 500, 503}
    BY ImpersonalErrors, StatusOfError
  <2>2. New(err).status \in ErrorStatuses
    BY <2>1 DEF ErrorStatuses
  <2> QED
    BY <1>2, <1>4, <2>2 DEF RefusedByGate
<1>5. ASSUME NEW dto \in Mocks(call), AnsweredByMock(dto) PROVE Mocked
  BY <1>5 DEF AnsweredByMock, Mocked, Unmoved, peers
<1>6. CASE Send
  BY <1>6 DEF Send, Sends, peers
<1> QED
  BY <1>1, <1>3, <1>4, <1>5, <1>6 DEF Call

LEMMA PeerShapes ==
    ASSUME Peer
    PROVE  Executes \/ Answers \/ LosesOrders \/ FailsRejected \/ FailsGivenUp
<1>1. ASSUME NEW c \in wire, Execute(c) PROVE Executes
  BY <1>1 DEF Execute, Executes, goroutine
<1>2. ASSUME pc = "sent", NEW m \in Sayable, Answer(m) PROVE Answers
  <2>1. call \in OfAdmins \/ m \in Messages[call]
    BY <1>2 DEF Sayable, OfAdmins
  <2>2. DOMAIN said' = DOMAIN said \cup {call}
    BY <1>2 DEF Answer
  <2> QED
    BY <1>2, <2>1, <2>2 DEF Answer, Answers
<1>3. ASSUME NEW code, NEW reason, RejectedByPeer(code, reason)
      PROVE  LosesOrders \/ FailsRejected
  <2>1. /\ pc = "sent" /\ call \notin done /\ refused' = refused \cup {call}
        /\ Failed(code, reason) /\ UNCHANGED <<wire, done, said>>
    BY <1>3 DEF RejectedByPeer
  <2>2. WithoutOrders \/ ForGood(code, reason)
    BY <2>1, FailedShape
  <2>3. CASE WithoutOrders
    BY <2>1, <2>3 DEF WithoutOrders, LosesOrders, Unmoved
  <2>4. CASE ForGood(code, reason)
    BY <2>1, <2>4 DEF ForGood, FailsRejected, Ends, Unmoved
  <2> QED
    BY <2>2, <2>3, <2>4
<1>4. ASSUME NEW code \in Failures, GivenUp(code) PROVE LosesOrders \/ FailsGivenUp
  <2>1. /\ pc = "sent" /\ Failed(code, "") /\ UNCHANGED <<wire, done, refused, said>>
    BY <1>4 DEF GivenUp, peers
  <2>2. WithoutOrders \/ ForGood(code, "")
    BY <2>1, FailedShape
  <2>3. CASE WithoutOrders
    BY <2>1, <2>3 DEF WithoutOrders, LosesOrders, Unmoved
  <2>4. CASE ForGood(code, "")
    BY <1>4, <2>1, <2>4 DEF ForGood, FailsGivenUp, Ends, Unmoved
  <2> QED
    BY <2>2, <2>3, <2>4
<1> QED
  BY <1>1, <1>2, <1>3, <1>4 DEF Peer

\* The steps after an answer.
LEMMA ContinueShapes ==
    ASSUME Continue, query.field \in FieldNames
    PROVE  FailsOnError \/ Succeeds \/ \E c \in Calls : Calling(c)
<1>1. CASE ErrorStatus
  <2> DEFINE err == Domain(ErrorOf(call))
  <2>1. /\ pc = "answered" /\ ErrorOf(call) # "" /\ FailWith(ErrorOfField(err))
        /\ UNCHANGED <<wire, done, refused, said>>
    BY <1>1 DEF ErrorStatus, StatusIsError, peers
  <2>2. ErrorOfField(err).status \in ErrorStatuses
    <3>1. ErrorOfField(err).status \in {400, 404, 500, 503}
      BY StatusOfField
    <3> QED
      BY <3>1 DEF ErrorStatuses
  <2>3. ASSUME call \in Effects
        PROVE  ErrorOfField(err) = New(err) /\ New(err).status \in EffectStatuses
    <3>1. ErrorOfField(err) = New(err)
      BY <2>3 DEF ErrorOfField, Effects
    <3>2. New(Domain(ErrorOf(call))).status \in EffectStatuses
      BY <2>1, <2>3, StatusOfEffect, Zenon
    <3> QED
      BY <3>1, <3>2
  <2> HIDE DEF err
  <2>4. /\ pc' = "over" /\ UNCHANGED <<useMock, query, call>>
        /\ response'.data = Nil /\ response'.status \in ErrorStatuses
        /\ response'.status = ErrorOfField(err).status
    BY <2>1, <2>2, FailWithStatus
  <2>5. ASSUME call \in Effects PROVE response'.status \in EffectStatuses
    BY <2>3, <2>4, <2>5
  <2> QED
    BY <2>1, <2>4, <2>5 DEF FailsOnError, Ends, Unmoved
<1>2. ASSUME NEW v, Return(v), Usable, call = LastCall[query.field] \/ call \in OfAdmins,
             UNCHANGED <<wire, peers, said>>
      PROVE  Succeeds
  BY <1>2, ReturnShape DEF Succeeds, Ends, Unmoved, peers
<1>3. CASE Conclude
  BY <1>2, <1>3 DEF Conclude
<1>4. CASE HideHistory \/ ReturnPage \/ ReturnHistory
  BY <1>2, <1>4 DEF HideHistory, ReturnPage, ReturnHistory, OfAdmins
<1>5. ASSUME NEW c \in Calls, Start(c), Follows(c) PROVE Calling(c)
  BY <1>5 DEF Start, Calling, Unmoved, peers
<1>6. /\ "GetBookingPayment" \in Calls /\ "GetPurchaseOrdersByBookingIDs" \in Calls
      /\ "CreateRackPayment" \in Calls /\ "CreatePricingTemplate" \in Calls
  BY DEF Calls, Effects, Reads
<1>7. ASSUME AskHistory PROVE \E c \in Calls : Calling(c)
  <2>1. Start("GetBookingPayment") /\ Follows("GetBookingPayment")
    BY <1>7 DEF AskHistory, Follows
  <2> QED
    BY <1>5, <1>6, <2>1
<1>8. ASSUME AskOrders PROVE \E c \in Calls : Calling(c)
  <2>1. Start("GetPurchaseOrdersByBookingIDs") /\ Follows("GetPurchaseOrdersByBookingIDs")
    BY <1>8 DEF AskOrders, Follows
  <2> QED
    BY <1>5, <1>6, <2>1
<1>9. ASSUME TemplateFound \/ TemplateCreated PROVE \E c \in Calls : Calling(c)
  <2>1. Start("CreateRackPayment") /\ Follows("CreateRackPayment")
    BY <1>9 DEF TemplateFound, TemplateCreated, Follows
  <2> QED
    BY <1>5, <1>6, <2>1
<1>10. ASSUME NoTemplate PROVE \E c \in Calls : Calling(c)
  <2>1. Start("CreatePricingTemplate") /\ Follows("CreatePricingTemplate")
    BY <1>10 DEF NoTemplate, Follows
  <2> QED
    BY <1>5, <1>6, <2>1
<1> QED
  BY <1>1, <1>3, <1>4, <1>7, <1>8, <1>9, <1>10 DEF Continue


-----------------------------------------------------------------------------
(* Types *)

\* TypeOK by what it is about, and what belongs to where the goroutine is.
Asked == query.field \in FieldNames /\ query.headers \in Headers
Mode == useMock \in BOOLEAN
Asking == (query = NotYet \/ Asked) /\ (pc # "idle" => Asked)
Replying ==
    /\ response = NotYet \/ response.status \in HTTPStatuses
    /\ pc # "over" => response = NotYet
Working ==
    /\ pc \in Stages
    /\ call \in Calls \cup {""}
    /\ wire \subseteq Calls
    /\ done \subseteq wire
    /\ refused \subseteq wire \ done
    /\ DOMAIN said \subseteq wire \cap (done \cup refused)
    /\ pc \in {"idle", "received"} => wire = {} /\ call = ""
    /\ pc \in {"gate", "ready", "sent", "answered"} => call \in Calls
    /\ pc = "sent" => call \in wire
Good == Mode /\ Asking /\ Replying /\ Working

LEMMA GoodTypes == Good => TypeOK
<1>1. Asking => query = NotYet \/ (query.field \in DOMAIN RootFields /\ query.headers \in Headers)
  BY FieldTable DEF Asking, Asked
<1>2. Mode => useMock \in BOOLEAN
  BY DEF Mode
<1>3. Replying => response = NotYet
                  \/ response.status \in HTTPStatuses
  BY DEF Replying
<1>4. Working => /\ pc \in Stages /\ call \in Calls \cup {""} /\ wire \subseteq Calls
                 /\ done \subseteq wire /\ refused \subseteq wire \ done
                 /\ DOMAIN said \subseteq wire \cap (done \cup refused)
  BY DEF Working
<1>5. Good => Mode /\ Asking /\ Replying /\ Working
  BY DEF Good
<1> QED
  BY <1>1, <1>2, <1>3, <1>4, <1>5, Zenon DEF TypeOK

\* Nothing but a request can arrive at a goroutine that has none.
LEMMA Stepping ==
    ASSUME Good, Next
    PROVE  \/ Receives \/ Admitted \/ Mocked \/ Sends \/ Executes \/ Answers \/ LosesOrders
           \/ FailsEarly \/ FailsRejected \/ FailsGivenUp \/ FailsOnError \/ Succeeds
           \/ \E c \in Calls : Calling(c)
<1>1. Resolvers \/ Continue => query.field \in FieldNames
  <2>1. Resolvers \/ Continue => pc # "idle"
    BY DEF Resolvers, Resolve, ResolveHistoryOfAdmin, ResolveHistory, ResolveHistoryOfNobody,
           ResolveRack, ResolveWizard, ResolveWizardNoCells, Entered,
           Continue, ErrorStatus, Conclude, HideHistory, AskHistory, ReturnPage, AskOrders,
           ReturnHistory, TemplateFound, NoTemplate, TemplateCreated, Usable
  <2> QED
    BY <2>1 DEF Good, Asking, Asked
<1> QED
  BY <1>1, EarlyShapes, CallShapes, PeerShapes, ContinueShapes DEF Next

\* The shapes as far as the working part of the state goes.
LEMMA WorkingStep ==
    ASSUME Working,
           \/ Receives \/ Admitted \/ Mocked \/ Sends \/ Executes \/ Answers \/ LosesOrders
           \/ FailsEarly \/ FailsRejected \/ FailsGivenUp \/ FailsOnError \/ Succeeds
           \/ \E c \in Calls : Calling(c)
    PROVE  Working'
<1>1. CASE Receives
  BY <1>1 DEF Receives, Working, Stages
<1>2. CASE Admitted \/ Mocked
  BY <1>2 DEF Admitted, Mocked, Unmoved, Working, Stages
<1>3. CASE Sends
  BY <1>3 DEF Sends, Working, Stages
<1>4. CASE Executes
  BY <1>4 DEF Executes, Working
<1>5. CASE Answers
  <2>1. /\ pc = "sent" /\ pc' = "answered" /\ UNCHANGED <<call, wire, done>>
        /\ DOMAIN said' = DOMAIN said \cup {call}
        /\ \/ call \notin done /\ refused' = refused \cup {call}
           \/ call \in done /\ UNCHANGED refused
    BY <1>5 DEF Answers
  <2> QED
    BY <2>1 DEF Working, Stages
<1>6. CASE LosesOrders
  <2>1. /\ pc = "sent" /\ pc' = "answered" /\ UNCHANGED <<call, wire, done, said>>
        /\ UNCHANGED refused \/ (call \notin done /\ refused' = refused \cup {call})
    BY <1>6 DEF LosesOrders, Unmoved
  <2> QED
    BY <2>1 DEF Working, Stages
<1>7. CASE FailsEarly \/ FailsGivenUp \/ FailsOnError
  <2>1. /\ pc \notin {"idle", "over"} /\ pc' = "over"
        /\ UNCHANGED <<call, wire, done, refused, said>>
    BY <1>7 DEF FailsEarly, FailsGivenUp, FailsOnError, Ends, Unmoved
  <2> QED
    BY <2>1 DEF Working, Stages
<1>8. CASE FailsRejected
  BY <1>8 DEF FailsRejected, Ends, Unmoved, Working, Stages
<1>9. CASE Succeeds
  BY <1>9 DEF Succeeds, Usable, Ends, Unmoved, Working, Stages
<1>10. ASSUME NEW c \in Calls, Calling(c) PROVE Working'
  <2>1. /\ pc' \in {"gate", "ready"} /\ call' = c /\ c \in Calls
        /\ UNCHANGED <<wire, done, refused, said>>
    BY <1>10 DEF Calling, Unmoved
  <2> QED
    BY <2>1 DEF Working, Stages
<1> QED
  BY <1>1, <1>2, <1>3, <1>4, <1>5, <1>6, <1>7, <1>8, <1>9, <1>10

\* What the shapes do to the rest.
LEMMA RestOfShapes ==
    ASSUME \/ Receives \/ Admitted \/ Mocked \/ Sends \/ Executes \/ Answers \/ LosesOrders
           \/ FailsEarly \/ FailsRejected \/ FailsGivenUp \/ FailsOnError \/ Succeeds
           \/ \E c \in Calls : Calling(c)
    PROVE  /\ UNCHANGED useMock
           /\ \/ UNCHANGED query /\ (pc = "idle" => pc' = "idle")
              \/ query' \in Queries
           /\ \/ UNCHANGED response /\ (pc = "over" <=> pc' = "over")
              \/ /\ pc' = "over"
                 /\ response'.status \in HTTPStatuses
<1>1. CASE Receives
  BY <1>1 DEF Receives
<1>2. CASE Admitted \/ Mocked \/ Sends
  BY <1>2 DEF Admitted, Mocked, Sends, Unmoved
<1>3. CASE Executes
  BY <1>3 DEF Executes
<1>4. CASE Answers \/ LosesOrders
  BY <1>4 DEF Answers, LosesOrders, Unmoved
<1>5. CASE FailsEarly
  BY <1>5 DEF FailsEarly, Ends, Unmoved, ErrorStatuses, HTTPStatuses
<1>6. CASE FailsRejected
  BY <1>6 DEF FailsRejected, Ends, Unmoved, ErrorStatuses, HTTPStatuses
<1>7. CASE FailsGivenUp
  BY <1>7 DEF FailsGivenUp, Ends, Unmoved, ErrorStatuses, HTTPStatuses
<1>8. CASE FailsOnError
  BY <1>8 DEF FailsOnError, Ends, Unmoved, ErrorStatuses, HTTPStatuses
<1>9. CASE Succeeds
  BY <1>9 DEF Succeeds, Usable, Ends, Unmoved, HTTPStatuses
<1>10. ASSUME NEW c \in Calls, Calling(c)
       PROVE  /\ UNCHANGED <<useMock, query, response>>
              /\ pc # "idle" /\ pc # "over" /\ pc' # "over"
  BY <1>10 DEF Calling, Begins, Follows, Usable, Unmoved
<1> QED
  BY <1>1, <1>2, <1>3, <1>4, <1>5, <1>6, <1>7, <1>8, <1>9, <1>10

LEMMA GoodStep == Good /\ [Next]_vars => Good'
<1> SUFFICES ASSUME Good, [Next]_vars PROVE Good'
  OBVIOUS
<1>1. ASSUME Next PROVE Mode'
  BY <1>1, Stepping, RestOfShapes DEF Good, Mode
<1>2. ASSUME Next PROVE Asking'
  <2>1. Asking
    BY DEF Good
  <2>2. \/ UNCHANGED query /\ (pc = "idle" => pc' = "idle")
        \/ query' \in Queries
    BY <1>2, Stepping, RestOfShapes
  <2>3. \A q \in Queries : q.field \in FieldNames /\ q.headers \in Headers
    BY PipelineAssumption, FieldTable
  <2> QED
    BY <2>1, <2>2, <2>3 DEF Asking, Asked
<1>3. ASSUME Next PROVE Replying'
  <2>1. Replying
    BY DEF Good
  <2>2. \/ UNCHANGED response /\ (pc = "over" <=> pc' = "over")
        \/ /\ pc' = "over"
           /\ response'.status \in HTTPStatuses
    BY <1>3, Stepping, RestOfShapes
  <2> QED
    BY <2>1, <2>2 DEF Replying
<1>4. ASSUME Next PROVE Working'
  BY <1>4, Stepping, WorkingStep DEF Good
<1>5. ASSUME UNCHANGED vars PROVE Good'
  <2>1. UNCHANGED <<useMock, query, pc, call, response, wire, done, refused, said>>
    BY <1>5 DEF vars, goroutine, peers
  <2>2. Mode' /\ Asking'
    BY <2>1 DEF Good, Mode, Asking, Asked
  <2>3. Replying'
    BY <2>1 DEF Good, Replying
  <2>4. Working'
    BY <2>1 DEF Good, Working
  <2> QED
    BY <2>2, <2>3, <2>4 DEF Good
<1> QED
  BY <1>1, <1>2, <1>3, <1>4, <1>5 DEF Good

LEMMA GoodAlways == Spec => []Good
<1>1. Init => Good
  <2> SUFFICES ASSUME Init PROVE Good
    OBVIOUS
  <2>1. Mode
    BY DEF Init, Mode
  <2>2. Asking
    BY DEF Init, Asking
  <2>3. Replying
    BY DEF Init, Replying
  <2>4. Working
    <3>1. DOMAIN <<>> = {}
      BY SMT
    <3>2. DOMAIN said = {}
      BY <3>1 DEF Init
    <3> QED
      BY <3>2 DEF Init, Working, Stages
  <2> QED
    BY <2>1, <2>2, <2>3, <2>4 DEF Good
<1> QED
  BY <1>1, GoodStep, PTL DEF Spec

\* Every variable keeps its type, and the peers do, refuse and say nothing that
\* was not sent, whatever the requests and the messages are.
THEOREM PipelineTypeCorrect == Spec => []TypeOK
  BY GoodAlways, GoodTypes, PTL

-----------------------------------------------------------------------------
(* Who is entitled to what *)

\* Claims are what the headers agree on.
LEMMA Identify ==
    ASSUME NEW h \in Headers, AuthMiddleware(h) # NoClaims
    PROVE  AuthMiddleware(h) = h.claims /\ h.validated /\ h.claims # NoClaims
           /\ h.claims.sub \in Users /\ h.userID \in {"", h.claims.sub}
           /\ h.userEmail \in {"", h.claims.email}
<1>1. /\ ParseAPISIXHeaders(h) # NoClaims /\ h.validated
      /\ ParseAPISIXHeaders(h).sub # "" /\ AuthMiddleware(h) = ParseAPISIXHeaders(h)
  BY Zenon DEF AuthMiddleware
<1>2. /\ h.claims # NoClaims /\ h.userID \in {"", h.claims.sub}
      /\ h.userEmail \in {"", h.claims.email} /\ ParseAPISIXHeaders(h) = h.claims
  BY <1>1, Zenon DEF ParseAPISIXHeaders
<1>3. h.claims \in CognitoClaims \cup {NoClaims}
  BY DEF Headers
<1>4. h.claims.sub \in Users \cup {""}
  BY <1>2, <1>3 DEF CognitoClaims
<1>5. h.claims.sub \in Users
  BY <1>1, <1>2, <1>4
<1> QED
  BY <1>1, <1>2, <1>5

LEMMA Grants ==
    ASSUME NEW h \in Headers, NEW role,
           AuthMiddleware(h) # NoClaims, HasRole(AuthMiddleware(h), role)
    PROVE  Holds(h, role)
<1>1. AuthMiddleware(h) = h.claims
  BY Identify
<1>2. role \in GetRoles(h.claims)
  BY <1>1 DEF HasRole
<1>3. h.claims.permissions.parses /\ role \in h.claims.permissions.roles
  BY <1>2, Zenon DEF GetRoles
<1>4. Identified(h)
  BY <1>3, Identify, Zenon DEF Identified
<1> QED
  BY <1>3, <1>4, Zenon DEF Holds

\* OnlyEntitled, one call at a time.
Entitles(c) ==
    /\ c \in Reserved => Holds(query.headers, "SUPER_ADMIN")
    /\ c \in OfAdmins => Holds(query.headers, "ADMIN") \/ Holds(query.headers, "SUPER_ADMIN")

LEMMA BeginsEntitled ==
    ASSUME Asked, NEW c, Begins(c)
    PROVE  Entitles(c)
<1>1. query.field \in FieldNames /\ query.headers \in Headers
  BY DEF Asked
<1>2. ASSUME Permits(root.directive), root.directive.name = "hasRole"
      PROVE  Holds(query.headers, root.directive.role)
  <2>1. claims # NoClaims /\ HasRole(claims, root.directive.role)
    BY <1>2 DEF Permits, HasRoleDirective
  <2> QED
    BY <1>1, <2>1, Grants DEF claims
<1>3. ASSUME LastCall[query.field] \in Reserved, Permits(root.directive)
      PROVE  Holds(query.headers, "SUPER_ADMIN")
  <2>1. root.directive.name = "hasRole" /\ root.directive.role = "SUPER_ADMIN"
    BY <1>1, <1>3, ReservedTable DEF root
  <2>2. Holds(query.headers, root.directive.role)
    BY <1>2, <1>3, <2>1
  <2> QED
    BY <2>1, <2>2
<1>4. ASSUME query.field = "getBookingPayment", Permits(root.directive), NEW role,
             HasRole(claims, role)
      PROVE  Holds(query.headers, role)
  <2>1. root.directive.name = "auth"
    BY <1>1, <1>4, ReservedTable DEF root
  <2>2. claims # NoClaims
    BY <1>4, <2>1 DEF Permits, Auth
  <2> QED
    BY <1>1, <1>4, <2>2, Grants DEF claims
<1>5. Permits(root.directive)
  BY DEF Begins
<1>6. CASE query.field \notin {"getBookingPayment", "createRackPayment"}
           /\ c = LastCall[query.field]
  <2>1. c \notin OfAdmins
    BY <1>1, <1>6, FieldTable
  <2> QED
    BY <1>3, <1>5, <1>6, <2>1 DEF Entitles
<1>7. CASE query.field = "getBookingPayment" /\ c = "GetInstallationsByUserEmail"
           /\ HasRole(claims, "ADMIN")
  BY <1>4, <1>5, <1>7 DEF Entitles, Reserved
<1>8. CASE query.field = "getBookingPayment" /\ c = "GetBookingPayment"
           /\ HasRole(claims, "SUPER_ADMIN")
  BY <1>4, <1>5, <1>8 DEF Entitles, Reserved
<1>9. CASE query.field = "createRackPayment"
           /\ c \in {"CreateRackPayment", "FindExactPricingTemplate"}
  <2>1. LastCall[query.field] \in Reserved
    BY <1>9, FieldTable DEF Reserved
  <2>2. c \notin OfAdmins
    BY <1>9 DEF OfAdmins
  <2> QED
    BY <1>3, <1>5, <2>1, <2>2 DEF Entitles
<1> QED
  BY <1>6, <1>7, <1>8, <1>9 DEF Begins

LEMMA FollowsEntitled ==
    ASSUME Entitles(call), NEW c, Follows(c)
    PROVE  Entitles(c)
  BY DEF Entitles, Follows, Reserved, OfAdmins

LEMMA EntitledStep ==
    ASSUME Good, OnlyEntitled, [Next]_vars
    PROVE  OnlyEntitled'
<1>1. \A c \in wire \cup {call} : Entitles(c)
  BY DEF OnlyEntitled, Entitles
<1>2. ASSUME UNCHANGED query, \A c \in wire' \cup {call'} : Entitles(c)
      PROVE  OnlyEntitled'
  BY <1>2 DEF OnlyEntitled, Entitles
<1>3. ASSUME UNCHANGED query, call' = call, wire' \subseteq wire \cup {call} PROVE OnlyEntitled'
  BY <1>1, <1>2, <1>3
<1>4. CASE Receives
  <2>1. wire' = {} /\ call' = ""
    BY <1>4 DEF Receives, Good, Working
  <2> QED
    BY <2>1 DEF OnlyEntitled, Reserved, OfAdmins
<1>5. CASE Admitted \/ Mocked \/ Sends \/ Executes \/ Answers \/ LosesOrders
  BY <1>3, <1>5 DEF Admitted, Mocked, Sends, Executes, Answers, LosesOrders, Unmoved
<1>6. CASE FailsEarly \/ FailsRejected \/ FailsGivenUp \/ FailsOnError \/ Succeeds
  BY <1>3, <1>6 DEF FailsEarly, FailsRejected, FailsGivenUp, FailsOnError, Succeeds, Ends, Unmoved
<1>7. ASSUME NEW c \in Calls, Calling(c) PROVE OnlyEntitled'
  <2>1. UNCHANGED <<query, wire>> /\ call' = c /\ (Begins(c) \/ Follows(c))
    BY <1>7 DEF Calling, Unmoved
  <2>2. Begins(c) => Asked
    BY DEF Begins, Good, Asking
  <2>3. Entitles(c)
    BY <1>1, <2>1, <2>2, BeginsEntitled, FollowsEntitled
  <2> QED
    BY <1>1, <1>2, <2>1, <2>3
<1>8. CASE UNCHANGED vars
  BY <1>3, <1>8 DEF vars, goroutine
<1> QED
  BY <1>4, <1>5, <1>6, <1>7, <1>8, Stepping

\* Nothing of the back office is asked of a peer but for a user who holds the
\* role and whose headers agree, for any users, roles and requests
\* (auth_claims.go, auth_middleware.go, auth_directives.go).
THEOREM OnlyTheEntitledAsk == Spec => []OnlyEntitled
<1>1. Init => OnlyEntitled
  BY DEF Init, OnlyEntitled, Reserved, OfAdmins
<1>2. Good /\ OnlyEntitled /\ [Next]_vars => OnlyEntitled'
  BY EntitledStep
<1> QED
  BY <1>1, <1>2, GoodAlways, PTL DEF Spec

-----------------------------------------------------------------------------
(* What a client error says *)

\* What was asked for is the last thing a request asks, and a client error is
\* an answer of before it, or its refusal.
Blameless ==
    Mutation =>
        /\ LastCall[asked] \in wire =>
               call = LastCall[asked] /\ pc \in {"sent", "answered", "over"}
        /\ pc = "over" /\ response.status \in ClientStatuses =>
               LastCall[asked] \notin wire \ refused

LEMMA BlamelessStep ==
    ASSUME Good, Blameless, [Next]_vars
    PROVE  Blameless'
<1>1. ASSUME UNCHANGED query, Mutation => \/ LastCall[asked] \notin wire'
                          \/ /\ call' = LastCall[asked] /\ pc' \in {"sent", "answered"}
                          \/ /\ call' = LastCall[asked] /\ pc' = "over"
                             /\ response'.status \in ClientStatuses =>
                                    LastCall[asked] \notin wire' \ refused'
      PROVE  Blameless'
  BY <1>1 DEF Blameless, Mutation, asked
<1>2. ASSUME Mutation, LastCall[asked] \in wire
      PROVE  /\ call = LastCall[asked] /\ pc \in {"sent", "answered", "over"}
             /\ call \in Effects
  BY <1>2 DEF Blameless, Mutation
<1>3. CASE Receives
  <2>1. wire' = {}
    BY <1>3 DEF Receives, Good, Working
  <2> QED
    BY <2>1 DEF Blameless
<1>4. CASE Admitted \/ FailsEarly \/ Mocked
  <2>1. /\ pc \in {"received", "gate", "ready"} /\ UNCHANGED <<query, wire>>
    BY <1>4 DEF Admitted, FailsEarly, Mocked, Ends, Unmoved
  <2> QED
    BY <1>1, <1>2, <2>1
<1>5. CASE Sends
  <2>1. pc = "ready" /\ pc' = "sent" /\ wire' = wire \cup {call} /\ UNCHANGED <<query, call>>
    BY <1>5 DEF Sends
  <2> QED
    BY <1>1, <1>2, <2>1
<1>6. CASE Executes
  <2>1. UNCHANGED <<query, pc, call, response, wire, refused>>
    BY <1>6 DEF Executes
  <2> QED
    BY <2>1 DEF Blameless, Mutation, asked
<1>7. CASE Answers \/ LosesOrders
  <2>1. pc' = "answered" /\ UNCHANGED <<query, call, wire>>
    BY <1>7 DEF Answers, LosesOrders, Unmoved
  <2> QED
    BY <1>1, <1>2, <2>1
<1>8. CASE FailsRejected
  <2>1. pc' = "over" /\ UNCHANGED <<query, call, wire>> /\ refused' = refused \cup {call}
    BY <1>8 DEF FailsRejected, Ends, Unmoved
  <2> QED
    BY <1>1, <1>2, <2>1
<1>9. CASE FailsGivenUp \/ FailsOnError
  <2>1. /\ pc' = "over" /\ UNCHANGED <<query, call, wire>>
        /\ call \in Effects => response'.status \in EffectStatuses
    BY <1>9 DEF FailsGivenUp, FailsOnError, Ends, Unmoved
  <2>2. call \in Effects => response'.status \notin ClientStatuses
    BY <2>1 DEF ClientStatuses, EffectStatuses
  <2> QED
    BY <1>1, <1>2, <2>1, <2>2
<1>10. CASE Succeeds
  <2>1. pc' = "over" /\ UNCHANGED <<query, call, wire>> /\ response'.status = 200
    BY <1>10 DEF Succeeds, Ends, Unmoved
  <2>2. response'.status \notin ClientStatuses
    BY <2>1 DEF ClientStatuses
  <2> QED
    BY <1>1, <1>2, <2>1, <2>2
<1>11. ASSUME NEW c \in Calls, Calling(c) PROVE Blameless'
  <2>1. UNCHANGED <<query, wire>>
    BY <1>11 DEF Calling, Unmoved
  <2>2. Begins(c) \/ Follows(c)
    BY <1>11 DEF Calling
  <2>3. ASSUME Mutation, LastCall[asked] \in wire PROVE FALSE
    <3>1. ~Begins(c)
      BY <1>2, <2>3 DEF Begins
    <3>2. Follows(c) /\ call = LastCall[asked] /\ call \in Effects
      BY <1>2, <2>2, <2>3, <3>1
    <3>3. call = "CreatePricingTemplate" /\ query.field = "createRackPayment"
      BY <3>2 DEF Follows, Effects
    <3> QED
      BY <3>2, <3>3, FieldTable DEF asked
  <2> QED
    BY <1>1, <2>1, <2>3
<1>12. CASE UNCHANGED vars
  <2>1. UNCHANGED <<query, pc, call, response, wire, refused>>
    BY <1>12 DEF vars, goroutine, peers
  <2> QED
    BY <2>1 DEF Blameless, Mutation, asked
<1> QED
  BY <1>3, <1>4, <1>5, <1>6, <1>7, <1>8, <1>9, <1>10, <1>11, <1>12, Stepping

LEMMA BlamelessAlways == Spec => []Blameless
<1>1. Init => Blameless
  BY DEF Init, Blameless
<1> QED
  BY <1>1, BlamelessStep, GoodAlways, PTL DEF Spec

\* A client error says that what was asked for has not happened and will not,
\* for any requests and whatever the peers do (gql_errors.go, mapGRPCError,
\* local_access_errors.go).
THEOREM ClientErrorIsSafe == Spec => []ClientErrorMeansNoEffect
<1>1. Blameless => ClientErrorMeansNoEffect
  BY DEF Blameless, ClientErrorMeansNoEffect, Over
<1> QED
  BY <1>1, BlamelessAlways, PTL

-----------------------------------------------------------------------------
(* What a success says *)

Real == ~useMock

LEMMA RealStays ==
    ASSUME UNCHANGED useMock
    PROVE  Real' <=> Real
  BY Zenon DEF Real

LEMMA NotMocked ==
    ASSUME Real, NEW c, IsMocked(c)
    PROVE  c \in AlwaysMock
  BY Zenon DEF Real, IsMocked

\* A mutation leaves no call behind that its peer has not executed.
OfMutations == Effects \cup {"FindExactPricingTemplate"}
Paying ==
    /\ pc \in {"gate", "ready", "sent", "answered"} => call \in OfMutations
    /\ pc \in {"gate", "ready"} => wire \subseteq done
    /\ pc = "sent" => wire \subseteq done \cup {call}
    /\ pc = "answered" /\ ~StatusIsError => wire \subseteq done /\ call \in done
    /\ pc = "over" /\ response.data # Nil => wire \subseteq done /\ LastCall[asked] \in done
Earning == Real /\ Mutation => Paying

\* An answer that is not an error is of a peer that did what it was asked.
LEMMA AnswerEarns ==
    ASSUME Answers, Paying
    PROVE  Paying'
<1>1. /\ pc = "sent" /\ pc' = "answered" /\ UNCHANGED <<query, call, wire, done>>
      /\ call \in OfMutations /\ wire \subseteq done \cup {call}
  BY DEF Answers, Paying
<1>2. PICK m : /\ call \in OfAdmins \/ m \in Messages[call]
               /\ IF IsError(m) THEN call \notin done /\ refused' = refused \cup {call}
                                ELSE call \in done /\ UNCHANGED refused
               /\ reply' = DTO(call, m)
  BY DEF Answers
<1>3. ASSUME IsError(m) PROVE StatusIsError'
  <2>1. ASSUME call = "IssueOfflineVoucher" PROVE FALSE
    <3>1. m \in Messages["IssueOfflineVoucher"]
      BY <1>2, <2>1 DEF OfAdmins
    <3>2. m \in [wifiPassword : STRING]
      BY <3>1, PeersAssumption DEF MessageTypes
    <3> QED
      BY <1>3, <3>2 DEF IsError
  <2>2. call \in (Effects \cup {"FindExactPricingTemplate"}) \ {"IssueOfflineVoucher"}
    BY <1>1, <2>1 DEF OfMutations
  <2>3. /\ "response" \in DOMAIN reply' /\ reply'.response = m.response /\ ErrorOf(call) # ""
    BY <1>2, <2>2, HeaderOfDTO
  <2> QED
    BY <1>1, <1>3, <2>3 DEF StatusIsError, IsError
<1>4. ASSUME ~StatusIsError' PROVE wire' \subseteq done' /\ call' \in done'
  BY <1>1, <1>2, <1>3, <1>4
<1> QED
  BY <1>1, <1>4 DEF Paying

LEMMA EarningStep ==
    ASSUME Good, Earning, [Next]_vars
    PROVE  Earning'
<1>1. ASSUME UNCHANGED <<useMock, query>>, Real /\ Mutation /\ Paying => Paying'
      PROVE  Earning'
  BY <1>1, RealStays DEF Earning, Mutation, asked
<1>2. CASE Receives
  BY <1>2 DEF Receives, Earning, Paying
<1>3. CASE Admitted
  <2>1. /\ pc = "gate" /\ pc' = "ready"
        /\ UNCHANGED <<useMock, query, call, response, wire, done>>
    BY <1>3 DEF Admitted, Unmoved
  <2>2. Paying => Paying'
    BY <2>1 DEF Paying
  <2> QED
    BY <1>1, <2>1, <2>2
<1>4. CASE Mocked
  <2>1. UNCHANGED <<useMock, query>> /\ pc = "ready" /\ IsMocked(call)
    BY <1>4 DEF Mocked, Unmoved
  <2>2. ~(Real /\ Paying)
    BY <2>1, NotMocked DEF Paying, AlwaysMock, OfMutations, Effects
  <2> QED
    BY <1>1, <2>1, <2>2
<1>5. CASE Sends
  <2>1. /\ pc = "ready" /\ pc' = "sent" /\ wire' = wire \cup {call}
        /\ UNCHANGED <<useMock, query, call, response, done>>
    BY <1>5 DEF Sends
  <2>2. Paying => Paying'
    BY <2>1 DEF Paying
  <2> QED
    BY <1>1, <2>1, <2>2
<1>6. CASE Executes
  <2>1. /\ UNCHANGED <<useMock, query, pc, call, reply, response, wire>>
        /\ done \subseteq done'
    BY <1>6 DEF Executes
  <2>2. StatusIsError' <=> StatusIsError
    BY <2>1 DEF StatusIsError
  <2>3. Paying => Paying'
    BY <2>1, <2>2 DEF Paying, asked
  <2> QED
    BY <1>1, <2>1, <2>3
<1>7. CASE Answers
  <2>1. UNCHANGED <<useMock, query>>
    BY <1>7 DEF Answers
  <2> QED
    BY <1>1, <1>7, <2>1, AnswerEarns
<1>8. CASE LosesOrders
  <2>1. UNCHANGED <<useMock, query>> /\ pc = "sent" /\ call = "GetPurchaseOrdersByBookingIDs"
    BY <1>8 DEF LosesOrders, Unmoved
  <2>2. ~Paying
    BY <2>1 DEF Paying, OfMutations, Effects
  <2> QED
    BY <1>1, <2>1, <2>2
<1>9. CASE FailsEarly \/ FailsRejected \/ FailsGivenUp \/ FailsOnError
  <2>1. UNCHANGED <<useMock, query>> /\ pc' = "over" /\ response'.data = Nil
    BY <1>9 DEF FailsEarly, FailsRejected, FailsGivenUp, FailsOnError, Ends, Unmoved
  <2>2. Paying'
    BY <2>1 DEF Paying
  <2> QED
    BY <1>1, <2>1, <2>2
<1>10. CASE Succeeds
  <2>1. /\ pc = "answered" /\ ~StatusIsError /\ pc' = "over"
        /\ UNCHANGED <<useMock, query, call, wire, done>>
        /\ call = LastCall[query.field] \/ call \in OfAdmins
    BY <1>10 DEF Succeeds, Usable, Ends, Unmoved
  <2>2. ASSUME Paying PROVE Paying'
    <3>1. wire \subseteq done /\ call \in done /\ call \in OfMutations
      BY <2>1, <2>2 DEF Paying
    <3>2. call = LastCall[query.field]
      BY <2>1, <3>1 DEF OfMutations, OfAdmins, Effects
    <3> QED
      BY <2>1, <3>1, <3>2 DEF Paying, asked
  <2> QED
    BY <1>1, <2>1, <2>2
<1>11. ASSUME NEW c \in Calls, Calling(c) PROVE Earning'
  <2>1. /\ UNCHANGED <<useMock, query, wire, done>> /\ call' = c /\ pc' \in {"gate", "ready"}
        /\ Begins(c) \/ Follows(c)
    BY <1>11 DEF Calling, Unmoved
  <2>2. ASSUME Begins(c), Mutation PROVE c \in OfMutations /\ wire \subseteq done
    <3>1. wire = {}
      BY <2>2 DEF Begins, Good, Working
    <3>2. query.field # "getBookingPayment"
      BY <2>2, FieldTable DEF Mutation, asked, Effects
    <3>3. c = LastCall[query.field] \/ c \in {"CreateRackPayment", "FindExactPricingTemplate"}
      BY <2>2, <3>2 DEF Begins
    <3>4. c \in OfMutations
      BY <2>2, <3>3 DEF Mutation, asked, OfMutations, Effects
    <3> QED
      BY <3>1, <3>4
  <2>3. ASSUME Follows(c), Paying PROVE c \in OfMutations /\ wire \subseteq done
    <3>1. call \in OfMutations /\ wire \subseteq done
      BY <2>3 DEF Follows, Usable, Paying
    <3>2. c \in {"CreateRackPayment", "CreatePricingTemplate"}
      BY <2>3, <3>1 DEF Follows, OfMutations, Effects
    <3> QED
      BY <3>1, <3>2 DEF OfMutations, Effects
  <2>4. Mutation /\ Paying => Paying'
    BY <2>1, <2>2, <2>3 DEF Paying
  <2> QED
    BY <1>1, <2>1, <2>4
<1>12. CASE UNCHANGED vars
  <2>1. UNCHANGED <<useMock, query, pc, call, reply, response, wire, done>>
    BY <1>12 DEF vars, goroutine, peers
  <2>2. StatusIsError' <=> StatusIsError
    BY <2>1 DEF StatusIsError
  <2>3. Paying => Paying'
    BY <2>1, <2>2 DEF Paying, asked
  <2> QED
    BY <1>1, <2>1, <2>3
<1> QED
  BY <1>2, <1>3, <1>4, <1>5, <1>6, <1>7, <1>8, <1>9, <1>10, <1>11, <1>12, Stepping

LEMMA EarningAlways == Spec => []Earning
<1>1. Init => Earning
  BY DEF Init, Earning, Paying
<1> QED
  BY <1>1, EarningStep, GoodAlways, PTL DEF Spec

\* Outside the mocks, a mutation that is reported as done was done, with every
\* call before it, for any requests and messages (the status checks of
\* payment_client.go).
THEOREM SuccessIsEarned == Spec => []SuccessWasEarned
<1>1. ASSUME Earning PROVE SuccessWasEarned
  <2>1. ASSUME Real, Mutation, Over, response.data # Nil
        PROVE  wire \subseteq done /\ LastCall[asked] \in done
    BY <1>1, <2>1 DEF Earning, Paying, Over
  <2> QED
    BY <2>1, Zenon DEF SuccessWasEarned, Real
<1> QED
  BY <1>1, EarningAlways, PTL

-----------------------------------------------------------------------------
(* The promise of a mutation *)

Asks == query # NotYet /\ Mutation

\* What each outcome stands on, before a step and after it.
LEMMA OutcomeParts ==
    /\ Outcome \in {"pending", "ok", "no", "unknown"}
    /\ Outcome = "pending" <=> response = NotYet
    /\ Outcome = "ok" => response.data # Nil /\ Real
    /\ Outcome = "no" => response.status \in ClientStatuses
  BY Zenon DEF Outcome, Real

LEMMA OutcomePartsNext ==
    /\ Outcome' \in {"pending", "ok", "no", "unknown"}
    /\ Outcome' = "pending" <=> response' = NotYet
    /\ Outcome' = "ok" => response'.data # Nil /\ Real'
    /\ Outcome' = "no" => response'.status \in ClientStatuses
  BY Zenon DEF Outcome, Real

LEMMA OutcomeStays ==
    ASSUME UNCHANGED <<useMock, response>>
    PROVE  UNCHANGED Outcome
  BY Zenon DEF Outcome

LEMMA Accounts ==
    /\ Asks => Outcomes = [r \in {"it"} |-> Outcome]
    /\ ~Asks => Outcomes = [r \in {"it"} |-> "pending"]
    /\ Applied = IF Asks /\ LastCall[asked] \in done THEN {"it"} ELSE {}
  BY DEF Asks, Outcomes, Applied

LEMMA AccountsNext ==
    /\ Asks' => Outcomes' = [r \in {"it"} |-> Outcome']
    /\ ~Asks' => Outcomes' = [r \in {"it"} |-> "pending"]
    /\ Applied' = IF Asks' /\ LastCall[asked'] \in done' THEN {"it"} ELSE {}
  BY DEF Asks, Outcomes, Applied

\* A peer executes the call: what the mutation is for takes place, and its
\* caller was told neither that it had nor that it never would.
LEMMA ExecutePromise ==
    ASSUME Good, Blameless, Earning, Executes
    PROVE  Promise!Next \/ UNCHANGED <<Applied, Outcomes>>
<1>1. /\ UNCHANGED <<useMock, query, response>> /\ (Asks' <=> Asks) /\ asked' = asked
      /\ UNCHANGED Outcome
  BY OutcomeStays DEF Executes, Asks, Mutation, asked
<1>2. UNCHANGED Outcomes
  BY <1>1, Accounts, AccountsNext
<1>3. PICK c \in wire \ (done \cup refused) : done' = done \cup {c}
  BY DEF Executes
<1>4. CASE Asks /\ c = LastCall[asked]
  <2>1. Outcome # "ok"
    <3>1. ASSUME Outcome = "ok" PROVE FALSE
      <4>1. response # NotYet /\ response.data # Nil /\ Real
        BY <3>1, OutcomeParts
      <4>2. pc = "over"
        BY <4>1 DEF Good, Replying
      <4> QED
        BY <1>3, <1>4, <4>1, <4>2 DEF Earning, Paying, Asks
    <3> QED
      BY <3>1
  <2>2. Outcome # "no"
    <3>1. ASSUME Outcome = "no" PROVE FALSE
      <4>1. response # NotYet /\ response.status \in ClientStatuses
        BY <3>1, OutcomeParts
      <4>2. pc = "over"
        BY <4>1 DEF Good, Replying
      <4> QED
        BY <1>3, <1>4, <4>1, <4>2 DEF Blameless, Asks
    <3> QED
      BY <3>1
  <2>3. Outcomes["it"] \in {"pending", "unknown"}
    BY <1>4, <2>1, <2>2, OutcomeParts, Accounts
  <2>4. "it" \notin Applied /\ Applied' = Applied \cup {"it"}
    BY <1>1, <1>3, <1>4, Accounts, AccountsNext
  <2>5. Promise!Apply("it")
    BY <1>2, <2>3, <2>4 DEF Promise!Apply
  <2> QED
    BY <2>5 DEF Promise!Next
<1>5. CASE ~(Asks /\ c = LastCall[asked])
  <2>1. UNCHANGED Applied
    BY <1>1, <1>3, <1>5, Accounts, AccountsNext
  <2> QED
    BY <1>2, <2>1
<1> QED
  BY <1>4, <1>5

\* The end of a request tells its caller something, and never too much.
LEMMA EndPromise ==
    ASSUME Good, Good', Blameless', Earning', pc # "over", pc' = "over",
           UNCHANGED <<useMock, query, done>>
    PROVE  Promise!Next \/ UNCHANGED <<Applied, Outcomes>>
<1>1. (Asks' <=> Asks) /\ asked' = asked /\ (Mutation' <=> Mutation)
  BY DEF Asks, Mutation, asked
<1>2. UNCHANGED Applied
  BY <1>1, Accounts, AccountsNext
<1>3. response = NotYet
  BY DEF Good, Replying
<1>4. Outcomes = [r \in {"it"} |-> "pending"]
  BY <1>3, Accounts, OutcomeParts
<1>5. CASE Asks /\ response' # NotYet
  <2>1. Outcome' \in {"ok", "no", "unknown"}
    BY <1>5, OutcomePartsNext
  <2>2. Outcome' = "ok" => LastCall[asked] \in done
    <3>1. Outcome' = "ok" => response'.data # Nil /\ Real'
      BY OutcomePartsNext
    <3>2. Real' /\ Mutation' => Paying'
      BY DEF Earning
    <3> QED
      BY <1>1, <1>5, <3>1, <3>2 DEF Paying, Asks
  <2>3. Outcome' = "no" => LastCall[asked] \notin done
    <3>1. Outcome' = "no" => response'.status \in ClientStatuses
      BY OutcomePartsNext
    <3>2. ASSUME LastCall[asked] \in done PROVE LastCall[asked] \in wire' \ refused'
      BY <3>2 DEF Good, Working
    <3>3. Mutation' /\ pc' = "over" /\ response'.status \in ClientStatuses =>
              LastCall[asked'] \notin wire' \ refused'
      BY DEF Blameless
    <3> QED
      BY <1>1, <1>5, <3>1, <3>2, <3>3 DEF Asks
  <2>4. "it" \in Applied <=> LastCall[asked] \in done
    BY <1>5, Accounts
  <2>5. Outcomes' = [r \in {"it"} |-> Outcome']
    BY <1>1, <1>5, AccountsNext
  <2> DEFINE a == Outcome'
  <2>6. /\ a \in {"ok", "no", "unknown"} /\ Outcomes' = [r \in {"it"} |-> a]
        /\ a = "ok" => "it" \in Applied
        /\ a = "no" => "it" \notin Applied
    BY <2>1, <2>2, <2>3, <2>4, <2>5
  <2> HIDE DEF a
  <2>7. Promise!Tell("it", a)
    BY <1>2, <1>4, <2>6 DEF Promise!Tell
  <2> QED
    BY <2>6, <2>7 DEF Promise!Next
<1>6. CASE ~(Asks /\ response' # NotYet)
  <2>1. Outcomes' = [r \in {"it"} |-> "pending"]
    BY <1>1, <1>6, AccountsNext, OutcomePartsNext
  <2> QED
    BY <1>2, <1>4, <2>1
<1> QED
  BY <1>5, <1>6

LEMMA PromiseStep ==
    ASSUME Good, Blameless, Earning, [Next]_vars
    PROVE  Promise!Next \/ UNCHANGED <<Applied, Outcomes>>
<1>1. Good' /\ Blameless' /\ Earning'
  BY GoodStep, BlamelessStep, EarningStep
<1>2. ASSUME UNCHANGED <<useMock, query, response, done>>
      PROVE  UNCHANGED <<Applied, Outcomes>>
  <2>1. (Asks' <=> Asks) /\ asked' = asked /\ UNCHANGED Outcome
    BY <1>2, OutcomeStays DEF Asks, Mutation, asked
  <2> QED
    BY <1>2, <2>1, Accounts, AccountsNext
<1>3. CASE Receives
  <2>1. done = {} /\ done' = {} /\ response = NotYet /\ response' = NotYet
    BY <1>3 DEF Receives, Good, Working, Replying
  <2>2. Outcomes = [r \in {"it"} |-> "pending"] /\ Outcomes' = [r \in {"it"} |-> "pending"]
    BY <2>1, Accounts, AccountsNext, OutcomeParts, OutcomePartsNext
  <2>3. Applied = {} /\ Applied' = {}
    BY <2>1, Accounts, AccountsNext
  <2> QED
    BY <2>2, <2>3
<1>4. CASE Executes
  BY <1>4, ExecutePromise
<1>5. CASE Admitted \/ Mocked \/ Sends \/ Answers \/ LosesOrders \/ \E c \in Calls : Calling(c)
  BY <1>2, <1>5 DEF Admitted, Mocked, Sends, Answers, LosesOrders, Calling, Unmoved
<1>6. CASE FailsEarly \/ FailsRejected \/ FailsGivenUp \/ FailsOnError \/ Succeeds
  <2>1. pc # "over" /\ pc' = "over" /\ UNCHANGED <<useMock, query, done>>
    BY <1>6 DEF FailsEarly, FailsRejected, FailsGivenUp, FailsOnError, Succeeds, Usable,
                Ends, Unmoved
  <2> QED
    BY <1>1, <2>1, EndPromise
<1>7. CASE UNCHANGED vars
  BY <1>2, <1>7 DEF vars, goroutine, peers
<1> QED
  BY <1>3, <1>4, <1>5, <1>6, <1>7, Stepping

\* Every mutation of the API implements AtMostOnce: its effect comes at most
\* once, "ok" is never early, and a client error never late
\* (payment_client.go:111-1110, gql_errors.go:37-148).
THEOREM EveryMutationKeepsItsPromise == Spec => KeepsPromise
<1>1. Init => Promise!Init
  <2> SUFFICES ASSUME Init PROVE Promise!Init
    OBVIOUS
  <2>1. query = NotYet /\ done = {}
    BY DEF Init
  <2>2. Applied = {} /\ Outcomes = [r \in {"it"} |-> "pending"]
    BY <2>1, Accounts DEF Asks
  <2> QED
    BY <2>2 DEF Promise!Init
<1>2. Good /\ Blameless /\ Earning /\ [Next]_vars => [Promise!Next]_<<Applied, Outcomes>>
  BY PromiseStep
<1> QED
  BY <1>1, <1>2, GoodAlways, BlamelessAlways, EarningAlways, PTL
  DEF Spec, KeepsPromise, Promise!Spec, Promise!vars
=============================================================================
