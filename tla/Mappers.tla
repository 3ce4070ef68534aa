------------------------------- MODULE Mappers -------------------------------
(***************************************************************************)
(* The two mappers.  A message of a peer goes through three hands: the     *)
(* protobuf message becomes a DTO (FromGRPC...), the DTO a model of the    *)
(* domain (To...Domain), the model a GraphQL struct (To...Response).  What *)
(* can get lost on the way: a nested message that is not there, a          *)
(* response without its header, a number an enum has no name for, a        *)
(* booking time the mapper filters out.  Fields that are copied as they    *)
(* are and cannot be nil are left out, but for one payload per message.    *)
(***************************************************************************)
EXTENDS GraphQLSchema, Integers, SequencesExt

\* The status of a peer travels as a number: 1 is OK, 2 is ERROR.
mapResponseStatus(n) ==
    CASE n = 1 -> "OK" [] n = 2 -> "ERROR" [] OTHER -> "UNSPECIFIED"
\* A model whose message had no header has the zero string for a status.
mapResponseStatusToGraphQL(s) ==
    CASE s = "OK" -> "RESPONSE_STATUS_OK"
      [] s = "ERROR" -> "RESPONSE_STATUS_ERROR"
      [] OTHER -> "RESPONSE_STATUS_UNSPECIFIED"

mapUnitMeasurement(n) ==
    CASE n = 1 -> "hour" [] n = 2 -> "day" [] n = 3 -> "week" [] n = 4 -> "month"
      [] OTHER -> "unspecified"
mapUnitMeasurementToGraphQL(u) ==
    CASE u = "hour" -> "HOUR" [] u = "day" -> "DAY" [] u = "week" -> "WEEK"
      [] u = "month" -> "MONTH" [] OTHER -> "UNSPECIFIED"

mapDiscountType(n) == CASE n = 1 -> "PERCENTAGE" [] n = 2 -> "AMOUNT" [] OTHER -> ""

\* Applied to each element of a repeated field; a nil slice is the empty one.
Each(s, Op(_)) == [i \in DOMAIN s |-> Op(s[i])]

\* if response.Response != nil { ... } of every To...Domain.
StatusOf(response) == IF response = Nil THEN "" ELSE mapResponseStatus(response.status)
Told(m) == mapResponseStatusToGraphQL(m.status)

-----------------------------------------------------------------------------
(* protobuf to DTO *)

FromGRPCGetPaymentInfraResponse(p) ==
    [response |-> p.response, paymentRack |-> p.paymentRack, installation |-> p.installation,
     device |-> p.device,
     bookingTimes |-> Each(p.bookingTimes,
                           LAMBDA t : [name |-> t.name, unitMeasurement |-> t.unitMeasurement])]
FromGRPCGetAvailableLockersByRackIDAndBookingTimeResponse(p) ==
    [response |-> p.response, availableGroups |-> p.availableGroup]
FromGRPCValidateDiscountCouponResponse(p) ==
    [response |-> p.response, discountType |-> mapDiscountType(p.discountType),
     applies |-> p.applies]
FromGRPCGenerateCouponResponse(p) == [response |-> p.response, couponCode |-> p.couponCode]
FromGRPCGeneratePurchaseOrderResponse(p) == [response |-> p.response, url |-> p.url]
FromGRPCGenerateBookingResponse(p) == [response |-> p.response, code |-> p.code]
\* The header of booking-manager has no trace id.
FromGRPCCheckBookingStatusResponse(p) == [response |-> p.response, booking |-> p.booking]
FromGRPCGetPricingTemplatesResponse(p) ==
    [response |-> p.response,
     pricingTemplates |->
         Each(p.pricingTemplates, LAMBDA t :
             [bookingGroups |-> Each(t.bookingGroups, LAMBDA g : [products |-> g.products])])]
FromGRPCGetBookingTimesResponse(p) ==
    [response |-> p.response, bookingTimes |-> p.bookingTimes]
FromGRPCCreateRackPaymentResponse(p) ==
    [response |-> p.response, paymentRackId |-> p.paymentRackId]
FromGRPCFindExactPricingTemplateResponse(p) ==
    [response |-> p.response, found |-> p.found, pricingTemplateId |-> p.pricingTemplateId]
FromGRPCCreatePricingTemplateResponse(p) ==
    [response |-> p.response, pricingTemplateId |-> p.pricingTemplateId]
FromGRPCUpdatePricingTemplateResponse(p) == [response |-> p.response]
FromGRPCDeletePricingTemplateResponse(p) == [response |-> p.response]

-----------------------------------------------------------------------------
(* DTO to domain *)

ToDomain(r) ==
    [status |-> StatusOf(r.response), paymentRack |-> r.paymentRack,
     installation |-> r.installation, device |-> r.device,
     bookingTimes |-> Each(r.bookingTimes, LAMBDA t :
         [name |-> t.name, unitMeasurement |-> mapUnitMeasurement(t.unitMeasurement)])]
ToAvailableLockersDomain(r) ==
    [status |-> StatusOf(r.response), availableGroups |-> r.availableGroups]
ToCouponValidationDomain(r) ==
    [status |-> StatusOf(r.response), discountType |-> r.discountType, applies |-> r.applies]
ToGenerateCouponDomain(r) == [status |-> StatusOf(r.response), couponCode |-> r.couponCode]
ToPurchaseOrderDomain(r) == [status |-> StatusOf(r.response), url |-> r.url]
ToBookingDomain(r) == [status |-> StatusOf(r.response), code |-> r.code]
\* An order that is not there leaves the zero value of every field.
ToPurchaseOrderDataDomain(r) ==
    [status |-> StatusOf(r.response),
     oc |-> IF r.purchaseOrder = Nil THEN "" ELSE r.purchaseOrder.oc]
ToBookingStatusDomain(r) == [status |-> StatusOf(r.response), booking |-> r.booking]
\* A slice without elements is nil here and empty again in the GraphQL struct.
ToPricingTemplatesDomain(r) ==
    [status |-> StatusOf(r.response),
     pricingTemplates |->
         Each(r.pricingTemplates, LAMBDA t :
             [bookingGroups |-> Each(t.bookingGroups, LAMBDA g : [products |-> g.products])])]
ToBookingTimesDomain(r) ==
    [status |-> StatusOf(r.response), bookingTimes |-> r.bookingTimes]
ToRackPaymentDomain(r) ==
    [status |-> StatusOf(r.response), paymentRackId |-> r.paymentRackId]
ToCreatePricingTemplateResultDomain(r) ==
    [status |-> StatusOf(r.response), pricingTemplateId |-> r.pricingTemplateId]
ToUpdatePricingTemplateResultDomain(r) == [status |-> StatusOf(r.response)]
ToDeletePricingTemplateResultDomain(r) == [status |-> StatusOf(r.response)]

-----------------------------------------------------------------------------
(* Domain to GraphQL *)

\* The booking time the backoffice calls "Admin" is not for payers: the loop
\* leaves it out.
ForPayers(times) ==
    LET upTo[i \in 0..Len(times)] ==
            IF i = 0 THEN <<>>
            ELSE IF times[i].name = "Admin" THEN upTo[i - 1]
            ELSE Append(upTo[i - 1], times[i])
    IN upTo[Len(times)]
ToGraphQLResponse(m) ==
    [status |-> Told(m), paymentRack |-> m.paymentRack, installation |-> m.installation,
     device |-> m.device,
     bookingTimes |->
         Each(ForPayers(m.bookingTimes),
              LAMBDA t : [name |-> t.name, unitMeasurement |->
                              mapUnitMeasurementToGraphQL(t.unitMeasurement)])]
ToAvailableLockersByRackIDAndBookingTimeResponse(m) ==
    [status |-> Told(m), availableGroups |-> m.availableGroups]
ToValidateCouponResponse(m) ==
    [status |-> Told(m), discountType |-> m.discountType, applies |-> m.applies]
ToGenerateCouponResponse(m) == [status |-> Told(m), couponCode |-> m.couponCode]
ToPurchaseOrderResponse(m) == [status |-> Told(m), url |-> m.url]
ToBookingResponse(m) == [status |-> Told(m), code |-> m.code]
\* purchaseOrderData is always there, whatever the model holds.
ToPurchaseOrderDataResponse(m) ==
    [status |-> Told(m), purchaseOrderData |-> [oc |-> m.oc]]
ToBookingStatusResponse(m) == [status |-> Told(m), booking |-> m.booking]
\* (Mutant: the products of a group stay behind.)
ToPricingTemplatesResponseBare(m) ==
    [status |-> Told(m),
     pricingTemplates |->
         Each(m.pricingTemplates, LAMBDA t :
             [bookingGroups |-> Each(t.bookingGroups, LAMBDA g : [products |-> <<>>])])]
ToPricingTemplatesResponse(m) ==
    [status |-> Told(m),
     pricingTemplates |->
         Each(m.pricingTemplates, LAMBDA t :
             [bookingGroups |-> Each(t.bookingGroups, LAMBDA g : [products |-> g.products])])]
ToBookingTimesResponse(m) == [status |-> Told(m), bookingTimes |-> m.bookingTimes]
ToCreateRackPaymentResponse(m) == [status |-> Told(m), paymentRackId |-> m.paymentRackId]
ToCreatePricingTemplateResponse(m) ==
    [status |-> Told(m), pricingTemplateId |-> m.pricingTemplateId]
ToUpdatePricingTemplateResponse(m) == [status |-> Told(m)]
ToDeletePricingTemplateResponse(m) == [status |-> Told(m)]

-----------------------------------------------------------------------------
(* Messages with no DTO: the client maps them itself *)

\* The page of the history and the purchase orders found for its bookings: the
\* last order of a booking wins, a booking without one keeps a nil pointer.
JoinByPosition(bookings, orders) ==   \* (Mutant: the i-th order is the i-th booking's.)
    [i \in DOMAIN bookings |->
        [id |-> bookings[i].id, installationName |-> bookings[i].installationName,
         purchaseOrder |-> IF i \in DOMAIN orders THEN orders[i] ELSE Nil]]
poMap(orders) ==
    LET about(id) == {j \in DOMAIN orders : orders[j].bookingReference = id}
    IN [id \in {orders[j].bookingReference : j \in DOMAIN orders} |-> orders[Max(about(id))]]
Join(bookings, orders) ==
    [i \in DOMAIN bookings |->
        [id |-> bookings[i].id, installationName |-> bookings[i].installationName,
         purchaseOrder |-> IF bookings[i].id \in DOMAIN poMap(orders)
                           THEN poMap(orders)[bookings[i].id] ELSE Nil]]

\* History and record go into GraphQL structs as they are, couponId and
\* purchaseOrder as the pointers they were.
ToBookingPaymentResponse(records, currentPage) ==
    [bookings |-> records, currentPage |-> currentPage]

\* LastSeenAt is nil when the locker never reported; an empty Wi-Fi password
\* means that it was not verified and becomes null.
ToLockerConnectivity(p) == [lastSeenAt |-> p.lastSeenAt]
ToOfflineVoucher(p) ==
    [wifiPassword |-> IF p.wifiPassword = "" THEN Nil ELSE p.wifiPassword]
=============================================================================
