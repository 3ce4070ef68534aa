-------------------------- MODULE PaymentOperations --------------------------
(***************************************************************************)
(* The calls the resolvers make, layer by layer: what the service layer    *)
(* (payment_infra_service.go) refuses, which peer the gRPC client asks,    *)
(* what it makes of a response whose status is ERROR, what the mock        *)
(* answers, what the resolver returns.  No state: RequestPipeline makes    *)
(* the calls.                                                              *)
(*                                                                         *)
(* An argument is "ok", or "blank": what the service refuses, an empty     *)
(* string after TrimSpace, a number that is not positive, an empty list.   *)
(***************************************************************************)
EXTENDS Mappers, ErrorMapping

\* The calls of PaymentInfraService and LocalAccessService, and the one the
\* history makes behind its own.
Effects == {"GenerateCoupon", "GeneratePurchaseOrder", "GenerateBooking", "CreateRackPayment",
            "CreatePricingTemplate", "UpdatePricingTemplate", "DeletePricingTemplate",
            "IssueOfflineVoucher"}
Reads == {"GetPaymentInfraByQrValue", "GetAvailableLockers", "ValidateDiscountCoupon",
          "GetPurchaseOrderByPo", "CheckBookingStatus", "GetPricingTemplates",
          "GetBookingTimes", "FindExactPricingTemplate", "GetInstallationsByUserEmail",
          "GetBookingPayment", "GetPurchaseOrdersByBookingIDs", "GetLockerConnectivity"}
Calls == Effects \cup Reads

\* validateServiceAvailability stands before every call of the payment service
\* but one; the local access service is wired past it (container.go).
LocalAccess == {"GetLockerConnectivity", "IssueOfflineVoucher"}
Gated == Calls \ (LocalAccess \cup {"GetInstallationsByUserEmail",
                                    "GetPurchaseOrdersByBookingIDs"})

-----------------------------------------------------------------------------
(* The service layer: the arguments, in the order they are looked at *)

Check(argument, error) == [argument |-> argument, error |-> error]

GetPaymentInfraByQrValueChecks == <<Check("qrValue", "ErrInvalidPaymentRackID")>>
GetAvailableLockersChecks ==
    <<Check("paymentRackId", "ErrInvalidPaymentRackID"),
      Check("bookingTimeId", "ErrInvalidBookingTimeID"), Check("traceId", "ErrInvalidTraceID")>>
ValidateDiscountCouponChecks ==
    <<Check("couponCode", "ErrInvalidCouponCode"), Check("rackId", "ErrInvalidPaymentRackID"),
      Check("groupId", "ErrInvalidGroupID"), Check("traceId", "ErrInvalidTraceID")>>
GenerateCouponChecks ==
    <<Check("rackId", "ErrInvalidPaymentRackID"), Check("groupIds", "ErrInvalidGroupID"),
      Check("amount", "ErrInvalidCouponAmount"), Check("traceId", "ErrInvalidTraceID")>>
GeneratePurchaseOrderChecks ==
    <<Check("rackIdReference", "ErrInvalidPaymentRackID"), Check("groupId", "ErrInvalidGroupID"),
      Check("userEmail", "ErrInvalidEmail"), Check("userPhone", "ErrInvalidPhone"),
      Check("traceId", "ErrInvalidTraceID"), Check("gatewayName", "ErrInvalidGatewayName")>>
\* A booking may have neither an email nor a phone.
GenerateBookingChecks ==
    <<Check("rackIdReference", "ErrInvalidPaymentRackID"), Check("groupId", "ErrInvalidGroupID"),
      Check("traceId", "ErrInvalidTraceID")>>
GetPurchaseOrderByPoChecks ==
    <<Check("purchaseOrder", "ErrInvalidPurchaseOrder"), Check("traceId", "ErrInvalidTraceID")>>
CheckBookingStatusChecks ==
    <<Check("serviceName", "ErrInvalidServiceName"), Check("currentCode", "ErrInvalidCurrentCode")>>
\* An absent pricingTemplateId is the template the resolver found or created.
CreateRackPaymentChecks ==
    <<Check("rackReference", "ErrInvalidPaymentRackID"),
      Check("pricingTemplateId", "ErrInvalidBookingTimeID"),
      Check("bookingTimeIds", "ErrInvalidBookingTimeID")>>
FindExactPricingTemplateChecks == <<Check("pricingCells", "ErrInvalidPricingCells")>>
\* The wizard has no "name": the one it makes up is never blank.
CreatePricingTemplateChecks ==
    <<Check("name", "ErrInvalidPricingTemplateName"), Check("cells", "ErrInvalidPricingCells")>>
UpdatePricingTemplateChecks ==
    <<Check("pricingTemplateId", "ErrInvalidPricingTemplateID"),
      Check("name", "ErrInvalidPricingTemplateName")>>
DeletePricingTemplateChecks == <<Check("pricingTemplateId", "ErrInvalidPricingTemplateID")>>

Checks(call) ==
    CASE call = "GetPaymentInfraByQrValue" -> GetPaymentInfraByQrValueChecks
      [] call = "GetAvailableLockers" -> GetAvailableLockersChecks
      [] call = "ValidateDiscountCoupon" -> ValidateDiscountCouponChecks
      [] call = "GenerateCoupon" -> GenerateCouponChecks
      [] call = "GeneratePurchaseOrder" -> GeneratePurchaseOrderChecks
      [] call = "GenerateBooking" -> GenerateBookingChecks
      [] call = "GetPurchaseOrderByPo" -> GetPurchaseOrderByPoChecks
      [] call = "CheckBookingStatus" -> CheckBookingStatusChecks
      [] call = "CreateRackPayment" -> CreateRackPaymentChecks
      [] call = "FindExactPricingTemplate" -> FindExactPricingTemplateChecks
      [] call = "CreatePricingTemplate" -> CreatePricingTemplateChecks
      [] call = "UpdatePricingTemplate" -> UpdatePricingTemplateChecks
      [] call = "DeletePricingTemplate" -> DeletePricingTemplateChecks
      [] OTHER -> <<>>

\* The positions of the checks the arguments fail; the first one decides the
\* error.
FailedChecks(call, args) ==
    {i \in DOMAIN Checks(call) : /\ Checks(call)[i].argument \in DOMAIN args
                                 /\ args[Checks(call)[i].argument] = "blank"}

-----------------------------------------------------------------------------
(* The gRPC clients: the error of a response whose status is ERROR *)

\* "" where the client does not look at the status, or there is none.
GetPaymentInfraByQrValueError == "ErrPaymentRackNotFound"
GetAvailableLockersError == "ErrNoLockersAvailable"
\* A coupon that does not apply is an answer, not an error.
ValidateDiscountCouponError == ""
GenerateCouponError == "ErrCouponGenerationFailed"
GeneratePurchaseOrderError == "ErrPurchaseOrderFailed"
\* (Mutant: a booking that was refused is taken for a booking.)
GenerateBookingErrorUnseen == ""
GenerateBookingError == "ErrBookingGenerationFailed"
GetPurchaseOrderByPoError == "ErrPurchaseOrderNotFound"
CheckBookingStatusError == "ErrBookingNotFound"
GetPricingTemplatesError == "ErrPaymentInfraServiceUnavailable"
GetBookingTimesError == "ErrPaymentInfraServiceUnavailable"
CreateRackPaymentError == "ErrPaymentInfraServiceUnavailable"
FindExactPricingTemplateError == "ErrPaymentInfraServiceUnavailable"
CreatePricingTemplateError == "ErrPaymentInfraServiceUnavailable"
UpdatePricingTemplateError == "ErrPaymentInfraServiceUnavailable"
DeletePricingTemplateError == "ErrPaymentInfraServiceUnavailable"

ErrorOf(call) ==
    CASE call = "GetPaymentInfraByQrValue" -> GetPaymentInfraByQrValueError
      [] call = "GetAvailableLockers" -> GetAvailableLockersError
      [] call = "ValidateDiscountCoupon" -> ValidateDiscountCouponError
      [] call = "GenerateCoupon" -> GenerateCouponError
      [] call = "GeneratePurchaseOrder" -> GeneratePurchaseOrderError
      [] call = "GenerateBooking" -> GenerateBookingError
      [] call = "GetPurchaseOrderByPo" -> GetPurchaseOrderByPoError
      [] call = "CheckBookingStatus" -> CheckBookingStatusError
      [] call = "GetPricingTemplates" -> GetPricingTemplatesError
      [] call = "GetBookingTimes" -> GetBookingTimesError
      [] call = "CreateRackPayment" -> CreateRackPaymentError
      [] call = "FindExactPricingTemplate" -> FindExactPricingTemplateError
      [] call = "CreatePricingTemplate" -> CreatePricingTemplateError
      [] call = "UpdatePricingTemplate" -> UpdatePricingTemplateError
      [] call = "DeletePricingTemplate" -> DeletePricingTemplateError
      [] OTHER -> ""

\* The purchase order by its PO is answered by the mock in every mode: the
\* RPC is not written yet.
AlwaysMock == {"GetPurchaseOrderByPo"}

-----------------------------------------------------------------------------
(* What the client makes of a message: the DTO, where there is one *)

DTO(call, p) ==
    CASE call = "GetPaymentInfraByQrValue" -> FromGRPCGetPaymentInfraResponse(p)
      [] call = "GetAvailableLockers" ->
             FromGRPCGetAvailableLockersByRackIDAndBookingTimeResponse(p)
      [] call = "ValidateDiscountCoupon" -> FromGRPCValidateDiscountCouponResponse(p)
      [] call = "GenerateCoupon" -> FromGRPCGenerateCouponResponse(p)
      [] call = "GeneratePurchaseOrder" -> FromGRPCGeneratePurchaseOrderResponse(p)
      [] call = "GenerateBooking" -> FromGRPCGenerateBookingResponse(p)
      [] call = "CheckBookingStatus" -> FromGRPCCheckBookingStatusResponse(p)
      [] call = "GetPricingTemplates" -> FromGRPCGetPricingTemplatesResponse(p)
      [] call = "GetBookingTimes" -> FromGRPCGetBookingTimesResponse(p)
      [] call = "CreateRackPayment" -> FromGRPCCreateRackPaymentResponse(p)
      [] call = "FindExactPricingTemplate" -> FromGRPCFindExactPricingTemplateResponse(p)
      [] call = "CreatePricingTemplate" -> FromGRPCCreatePricingTemplateResponse(p)
      [] call = "UpdatePricingTemplate" -> FromGRPCUpdatePricingTemplateResponse(p)
      [] call = "DeletePricingTemplate" -> FromGRPCDeletePricingTemplateResponse(p)
      [] OTHER -> p

-----------------------------------------------------------------------------
(* The mock: the DTOs it may answer with *)

Ok == [status |-> 1]
Empty == <<>>   \* a struct no field of which matters here

mockGetPaymentInfraByQrValue ==
    [response |-> Ok, paymentRack |-> Empty, installation |-> Empty, device |-> Nil,
     bookingTimes |-> <<[name |-> "Express", unitMeasurement |-> 2],
                        [name |-> "Normal", unitMeasurement |-> 2]>>]
mockGetAvailableLockers ==
    [response |-> Ok,
     availableGroups |-> <<[groupId |-> 1], [groupId |-> 2], [groupId |-> 3]>>]
\* Four codes are known to it.
mockValidateCoupon(known) ==
    [response |-> [status |-> IF known THEN 1 ELSE 2], discountType |-> "PERCENTAGE",
     applies |-> known]
mockGenerateCoupon == [response |-> Ok, couponCode |-> "MOCKCP"]
mockGeneratePurchaseOrder == [response |-> Ok, url |-> "mock"]
mockGenerateBooking == [response |-> Ok, code |-> "ABC123DEF"]
mockGetPurchaseOrderByPo == [response |-> Ok, purchaseOrder |-> [oc |-> "requested"]]
mockCheckBookingStatus == [response |-> Ok, booking |-> [currentCode |-> "requested"]]
mockGetPricingTemplates ==
    [response |-> Ok, pricingTemplates |-> <<[bookingGroups |-> <<>>], [bookingGroups |-> <<>>]>>]
mockGetBookingTimes ==
    [response |-> Ok,
     bookingTimes |-> <<[name |-> "Express"], [name |-> "Normal"], [name |-> "Admin"]>>]
mockCreateRackPayment == [response |-> Ok, paymentRackId |-> "requested"]
\* There is never an exact match.
mockFindExactPricingTemplate == [response |-> Ok, found |-> FALSE, pricingTemplateId |-> 0]
mockCreatePricingTemplate == [response |-> Ok, pricingTemplateId |-> 9999]
mockUpdatePricingTemplate == [response |-> Ok]
mockDeletePricingTemplate == [response |-> Ok]
\* The calls whose mock is in the client itself; the history makes no second
\* call for the orders of an empty page.
mockGetInstallationsByUserEmail == [installations |-> <<>>]
mockGetBookingPayment == [bookings |-> <<>>, currentPage |-> 1]
mockGetLockerConnectivity == [lastSeenAt |-> "seen"]
mockIssueOfflineVoucher == [wifiPassword |-> "password"]

Mocks(call) ==
    CASE call = "GetPaymentInfraByQrValue" -> {mockGetPaymentInfraByQrValue}
      [] call = "GetAvailableLockers" -> {mockGetAvailableLockers}
      [] call = "ValidateDiscountCoupon" -> {mockValidateCoupon(known) : known \in BOOLEAN}
      [] call = "GenerateCoupon" -> {mockGenerateCoupon}
      [] call = "GeneratePurchaseOrder" -> {mockGeneratePurchaseOrder}
      [] call = "GenerateBooking" -> {mockGenerateBooking}
      [] call = "GetPurchaseOrderByPo" -> {mockGetPurchaseOrderByPo}
      [] call = "CheckBookingStatus" -> {mockCheckBookingStatus}
      [] call = "GetPricingTemplates" -> {mockGetPricingTemplates}
      [] call = "GetBookingTimes" -> {mockGetBookingTimes}
      [] call = "CreateRackPayment" -> {mockCreateRackPayment}
      [] call = "FindExactPricingTemplate" -> {mockFindExactPricingTemplate}
      [] call = "CreatePricingTemplate" -> {mockCreatePricingTemplate}
      [] call = "UpdatePricingTemplate" -> {mockUpdatePricingTemplate}
      [] call = "DeletePricingTemplate" -> {mockDeletePricingTemplate}
      [] call = "GetInstallationsByUserEmail" -> {mockGetInstallationsByUserEmail}
      [] call = "GetBookingPayment" -> {mockGetBookingPayment}
      [] call = "GetLockerConnectivity" -> {mockGetLockerConnectivity}
      [] call = "IssueOfflineVoucher" -> {mockIssueOfflineVoucher}
      [] OTHER -> {}

-----------------------------------------------------------------------------
(* The resolvers: what the last call of a field becomes *)

GetPaymentInfraByQRValue(dto) == ToGraphQLResponse(ToDomain(dto))
GetAvailableLockersByRackIDAndBookingTime(dto) ==
    ToAvailableLockersByRackIDAndBookingTimeResponse(ToAvailableLockersDomain(dto))
ValidateDiscountCoupon(dto) == ToValidateCouponResponse(ToCouponValidationDomain(dto))
GenerateCoupon(dto) == ToGenerateCouponResponse(ToGenerateCouponDomain(dto))
GeneratePurchaseOrder(dto) == ToPurchaseOrderResponse(ToPurchaseOrderDomain(dto))
GenerateBooking(dto) == ToBookingResponse(ToBookingDomain(dto))
GetPurchaseOrderByPo(dto) == ToPurchaseOrderDataResponse(ToPurchaseOrderDataDomain(dto))
CheckBookingStatus(dto) == ToBookingStatusResponse(ToBookingStatusDomain(dto))
GetPricingTemplates(dto) == ToPricingTemplatesResponse(ToPricingTemplatesDomain(dto))
GetBookingTimes(dto) == ToBookingTimesResponse(ToBookingTimesDomain(dto))
CreateRackPayment(dto) == ToCreateRackPaymentResponse(ToRackPaymentDomain(dto))
CreatePricingTemplate(dto) ==
    ToCreatePricingTemplateResponse(ToCreatePricingTemplateResultDomain(dto))
UpdatePricingTemplate(dto) ==
    ToUpdatePricingTemplateResponse(ToUpdatePricingTemplateResultDomain(dto))
DeletePricingTemplate(dto) ==
    ToDeletePricingTemplateResponse(ToDeletePricingTemplateResultDomain(dto))

Returned(call, dto) ==
    CASE call = "GetPaymentInfraByQrValue" -> GetPaymentInfraByQRValue(dto)
      [] call = "GetAvailableLockers" -> GetAvailableLockersByRackIDAndBookingTime(dto)
      [] call = "ValidateDiscountCoupon" -> ValidateDiscountCoupon(dto)
      [] call = "GenerateCoupon" -> GenerateCoupon(dto)
      [] call = "GeneratePurchaseOrder" -> GeneratePurchaseOrder(dto)
      [] call = "GenerateBooking" -> GenerateBooking(dto)
      [] call = "GetPurchaseOrderByPo" -> GetPurchaseOrderByPo(dto)
      [] call = "CheckBookingStatus" -> CheckBookingStatus(dto)
      [] call = "GetPricingTemplates" -> GetPricingTemplates(dto)
      [] call = "GetBookingTimes" -> GetBookingTimes(dto)
      [] call = "CreateRackPayment" -> CreateRackPayment(dto)
      [] call = "CreatePricingTemplate" -> CreatePricingTemplate(dto)
      [] call = "UpdatePricingTemplate" -> UpdatePricingTemplate(dto)
      [] call = "DeletePricingTemplate" -> DeletePricingTemplate(dto)
      [] call = "GetLockerConnectivity" -> ToLockerConnectivity(dto)
      [] call = "IssueOfflineVoucher" -> ToOfflineVoucher(dto)
=============================================================================
