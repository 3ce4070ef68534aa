---------------------------- MODULE GraphQLSchema ----------------------------
(***************************************************************************)
(* What the generated executor (graph/generated/generated.go) makes of the *)
(* Go value a resolver returns, and of the input of a root field: which    *)
(* fields a type has, which of them may be null, where a nil pointer in a  *)
(* non-null place takes its parent with it, which directive stands before  *)
(* a root field.  graph/model/models_gen.go says which Go fields can be    *)
(* nil at all.                                                             *)
(*                                                                         *)
(* A Go struct is a function from the names of its pointer and slice       *)
(* fields (and of the scalars a property tells apart) to their values; a   *)
(* scalar that is not in it is some value, never null.                     *)
(***************************************************************************)
EXTENDS Sequences

CONSTANT Nil   \* Go's nil pointer, GraphQL's null

\* required fields ("!"), nullable fields, and the types of those that are
\* objects or lists of objects.
Type(required, nullable, object, list) ==
    [required |-> required, nullable |-> nullable, object |-> object, list |-> list]
None == <<>>
Leaf(required, nullable) == Type(required, nullable, None, None)

\* What every response of payment-manager starts with.
GenericResponse == {"transactionId", "message", "status", "traceId"}

AvailableLockersByRackIDAndBookingTimeResponse ==
    Type(GenericResponse \cup {"availableGroups"}, {}, None, [availableGroups |-> "AvailablePaymentGroup"])
AvailablePaymentGroup == Leaf({"groupId", "name", "price", "description", "imageUrl"}, {})
\* What booking-manager says of a booking, in a status check and in the history.
Booking == {"id", "configurationBookingId", "initBooking", "finishBooking", "installationName",
            "numberLocker", "deviceId", "currentCode", "openings", "serviceName",
            "emailRecipient", "createdAt", "updatedAt"}
BookingPaymentRecord ==
    Type(Booking, {"purchaseOrder"}, [purchaseOrder |-> "PurchaseOrderInfo"], None)
BookingPaymentResponse ==
    Type({"bookings", "totalCount", "currentPage", "totalPages", "lastPage", "nextPage"}, {},
         None, [bookings |-> "BookingPaymentRecord"])
BookingStatusData == Leaf(Booking, {})
BookingTimeFull == Leaf({"id", "name", "unitMeasurement", "amount", "active", "updatedAt"}, {})
CheckBookingStatusResponse ==
    Type(GenericResponse \ {"traceId"}, {"booking"}, [booking |-> "BookingStatusData"], None)
CreatePricingTemplateResponse == Leaf(GenericResponse \cup {"pricingTemplateId"}, {})
CreateRackPaymentResponse == Leaf(GenericResponse \cup {"paymentRackId"}, {})
DeletePricingTemplateResponse == Leaf(GenericResponse, {})
GenerateBookingResponse == Leaf(GenericResponse \cup {"code"}, {})
GenerateCouponResponse == Leaf(GenericResponse \cup {"couponCode"}, {})
GeneratePurchaseOrderResponse == Leaf(GenericResponse \cup {"url"}, {})
GetBookingTimesResponse ==
    Type(GenericResponse \cup {"bookingTimes"}, {}, None, [bookingTimes |-> "BookingTimeFull"])
GetPricingTemplatesResponse ==
    Type(GenericResponse \cup {"pricingTemplates"}, {}, None, [pricingTemplates |-> "PricingTemplate"])
LockerConnectivity == Leaf({"online", "offlineVoucherAvailable"}, {"lastSeenAt"})
OfflineVoucher == Leaf({"url", "wifiSsid", "validUntil"}, {"wifiPassword"})
PaymentBookingTime == Leaf({"id", "name", "unitMeasurement", "amount"}, {})
PaymentDevice == Leaf({"name", "online", "brand", "model"}, {})
PaymentInfraResponse ==
    Type(GenericResponse \cup {"bookingTimes"}, {"paymentRack", "installation", "device"},
         [paymentRack |-> "PaymentRack", installation |-> "PaymentInstallation",
          device |-> "PaymentDevice"],
         [bookingTimes |-> "PaymentBookingTime"])
PaymentInstallation == Leaf({"id", "name", "region", "city", "address", "imageUrl"}, {})
PaymentRack == Leaf({"id", "description", "address"}, {})
PricingTemplate ==
    Type({"id", "name", "description", "createdAt", "bookingGroups", "configuredLockerCount",
          "activeRackCount"}, {}, None, [bookingGroups |-> "PricingTemplateBookingGroup"])
PricingTemplateBookingGroup ==
    Type({"bookingTimeId", "bookingTimeName", "unitMeasurement", "amount", "products"}, {},
         None, [products |-> "PricingTemplateProduct"])
PricingTemplateProduct == Leaf({"groupId", "name", "price", "description", "imageUrl"}, {})
PurchaseOrderFields ==
    {"bookingReference", "oc", "email", "phone", "discount", "productPrice", "finalProductPrice",
     "productName", "productDescription", "lockerPosition", "installationName", "deviceSerieNum",
     "status"}
PurchaseOrderData == Leaf(PurchaseOrderFields \cup {"couponId"}, {})
PurchaseOrderInfo == Leaf(PurchaseOrderFields \cup {"createdAt", "updatedAt"}, {"couponId"})
PurchaseOrderResponse ==
    Type(GenericResponse \cup {"purchaseOrderData"}, {}, [purchaseOrderData |-> "PurchaseOrderData"], None)
UpdatePricingTemplateResponse == Leaf(GenericResponse, {})
ValidateDiscountCouponResponse ==
    Leaf(GenericResponse \cup {"discountPercentage", "discountType", "discountAmount", "applies"}, {})

Types ==
    [AvailableLockersByRackIDAndBookingTimeResponse |->
         AvailableLockersByRackIDAndBookingTimeResponse,
     AvailablePaymentGroup |-> AvailablePaymentGroup,
     BookingPaymentRecord |-> BookingPaymentRecord,
     BookingPaymentResponse |-> BookingPaymentResponse,
     BookingStatusData |-> BookingStatusData,
     BookingTimeFull |-> BookingTimeFull,
     CheckBookingStatusResponse |-> CheckBookingStatusResponse,
     CreatePricingTemplateResponse |-> CreatePricingTemplateResponse,
     CreateRackPaymentResponse |-> CreateRackPaymentResponse,
     DeletePricingTemplateResponse |-> DeletePricingTemplateResponse,
     GenerateBookingResponse |-> GenerateBookingResponse,
     GenerateCouponResponse |-> GenerateCouponResponse,
     GeneratePurchaseOrderResponse |-> GeneratePurchaseOrderResponse,
     GetBookingTimesResponse |-> GetBookingTimesResponse,
     GetPricingTemplatesResponse |-> GetPricingTemplatesResponse,
     LockerConnectivity |-> LockerConnectivity,
     OfflineVoucher |-> OfflineVoucher,
     PaymentBookingTime |-> PaymentBookingTime,
     PaymentDevice |-> PaymentDevice,
     PaymentInfraResponse |-> PaymentInfraResponse,
     PaymentInstallation |-> PaymentInstallation,
     PaymentRack |-> PaymentRack,
     PricingTemplate |-> PricingTemplate,
     PricingTemplateBookingGroup |-> PricingTemplateBookingGroup,
     PricingTemplateProduct |-> PricingTemplateProduct,
     PurchaseOrderData |-> PurchaseOrderData,
     PurchaseOrderInfo |-> PurchaseOrderInfo,
     PurchaseOrderResponse |-> PurchaseOrderResponse,
     UpdatePricingTemplateResponse |-> UpdatePricingTemplateResponse,
     ValidateDiscountCouponResponse |-> ValidateDiscountCouponResponse]

-----------------------------------------------------------------------------
(* Completion of a value: the JSON a client gets, or Nil *)

\* A nil slice is an empty list, never null; one null element voids the list.
CompletedList(type, s, Sub(_, _)) ==
    LET c == [i \in DOMAIN s |-> Sub(type, s[i])]
    IN IF \E i \in DOMAIN s : c[i] = Nil THEN Nil ELSE c

\* One level of the selection set: _T(ctx, sel, obj) and its field functions,
\* the children of an object completed by Sub.
CompletedObject(name, v, Sub(_, _)) ==
    LET t == Types[name]
        value == [f \in t.required \cup t.nullable |->
                     IF f \notin DOMAIN v THEN "scalar"
                     ELSE IF f \in DOMAIN t.list THEN CompletedList(t.list[f], v[f], Sub)
                     ELSE IF f \in DOMAIN t.object THEN Sub(t.object[f], v[f])
                     ELSE v[f]]
    IN IF v = Nil THEN Nil
       ELSE IF \E f \in t.required : value[f] = Nil THEN Nil
       ELSE value

\* The types nest four deep: templates, booking groups, products.
Stop(name, v) == Nil
Complete1(name, v) == CompletedObject(name, v, Stop)
Complete2(name, v) == CompletedObject(name, v, Complete1)
Complete3(name, v) == CompletedObject(name, v, Complete2)
Complete(name, v) == CompletedObject(name, v, Complete3)

-----------------------------------------------------------------------------
(* The inputs of the root fields *)

Input(required, optional) == [required |-> required, optional |-> optional]
NoInput == Input({}, {})

CheckBookingStatusInput == Input({"serviceName", "currentCode"}, {})
CreatePricingTemplateInput == Input({"name", "description", "cells"}, {})
CreateRackPaymentInput ==
    Input({"rackReference", "notes", "bookingTimeIds"},
          {"pricingTemplateId", "groupProductBySize", "pricingCells", "installationName",
           "rackDescription"})
DeletePricingTemplateInput == Input({"pricingTemplateId"}, {})
GenerateBookingInput ==
    Input({"rackIdReference", "groupId", "userEmail", "userPhone", "traceId"}, {"couponCode"})
GenerateCouponInput ==
    Input({"rackId", "groupIds", "amount", "traceId"}, {"initAt", "finishAt"})
GeneratePurchaseOrderInput ==
    Input({"rackIdReference", "groupId", "userEmail", "userPhone", "traceId", "gatewayName"},
          {"couponCode"})
GetAvailableLockersByRackIDAndBookingTimeInput ==
    Input({"paymentRackId", "bookingTimeId", "traceId"}, {})
GetBookingPaymentInput ==
    Input({}, {"deviceId", "emailRecipient", "activeOnly", "page", "pageSize", "dateFrom",
               "dateUntil", "sortBy", "sort", "installationName"})
GetPaymentInfraByQrValueInput == Input({"qrValue"}, {})
GetPurchaseOrderByPoInput == Input({"purchaseOrder", "traceId"}, {})
OfflineAccessInput == Input({"serviceName", "currentCode"}, {})
UpdatePricingTemplateInput == Input({"pricingTemplateId", "name", "description"}, {"cells"})
ValidateDiscountCouponInput == Input({"couponCode", "rackId", "groupId", "traceId"}, {})

\* The arguments of a request: a function from the fields that were sent.  A
\* missing required field, an unknown one or one of another type is refused
\* by the validator before any directive or resolver runs.
Unmarshals(input, args) ==
    /\ input.required \subseteq DOMAIN args
    /\ DOMAIN args \subseteq input.required \cup input.optional
    /\ \A f \in DOMAIN args : args[f] # "mistyped"

-----------------------------------------------------------------------------
(* The root fields *)

Public == [name |-> "none", role |-> ""]
auth == [name |-> "auth", role |-> ""]
hasRole(role) == [name |-> "hasRole", role |-> role]
Field(directive, input, type) == [directive |-> directive, input |-> input, type |-> type]

getPaymentInfraByQrValue ==
    Field(Public, GetPaymentInfraByQrValueInput, "PaymentInfraResponse")
getAvailableLockersByRackIDAndBookingTime ==
    Field(Public, GetAvailableLockersByRackIDAndBookingTimeInput,
          "AvailableLockersByRackIDAndBookingTimeResponse")
validateDiscountCoupon ==
    Field(Public, ValidateDiscountCouponInput, "ValidateDiscountCouponResponse")
getPurchaseOrderByPo == Field(Public, GetPurchaseOrderByPoInput, "PurchaseOrderResponse")
checkBookingStatus == Field(Public, CheckBookingStatusInput, "CheckBookingStatusResponse")
getBookingPayment == Field(auth, GetBookingPaymentInput, "BookingPaymentResponse")
getPricingTemplates == Field(hasRole("SUPER_ADMIN"), NoInput, "GetPricingTemplatesResponse")
getBookingTimes == Field(hasRole("SUPER_ADMIN"), NoInput, "GetBookingTimesResponse")
lockerConnectivity == Field(Public, OfflineAccessInput, "LockerConnectivity")
generatePurchaseOrder ==
    Field(Public, GeneratePurchaseOrderInput, "GeneratePurchaseOrderResponse")
generateBooking == Field(Public, GenerateBookingInput, "GenerateBookingResponse")
generateCoupon == Field(hasRole("SUPER_ADMIN"), GenerateCouponInput, "GenerateCouponResponse")
createRackPayment ==
    Field(hasRole("SUPER_ADMIN"), CreateRackPaymentInput, "CreateRackPaymentResponse")
createPricingTemplate ==
    Field(hasRole("SUPER_ADMIN"), CreatePricingTemplateInput, "CreatePricingTemplateResponse")
updatePricingTemplate ==
    Field(hasRole("SUPER_ADMIN"), UpdatePricingTemplateInput, "UpdatePricingTemplateResponse")
deletePricingTemplate ==
    Field(hasRole("SUPER_ADMIN"), DeletePricingTemplateInput, "DeletePricingTemplateResponse")
requestOfflineVoucher == Field(Public, OfflineAccessInput, "OfflineVoucher")

RootFields ==
    [getPaymentInfraByQrValue |-> getPaymentInfraByQrValue,
     getAvailableLockersByRackIDAndBookingTime |-> getAvailableLockersByRackIDAndBookingTime,
     validateDiscountCoupon |-> validateDiscountCoupon,
     getPurchaseOrderByPo |-> getPurchaseOrderByPo,
     checkBookingStatus |-> checkBookingStatus,
     getBookingPayment |-> getBookingPayment,
     getPricingTemplates |-> getPricingTemplates,
     getBookingTimes |-> getBookingTimes,
     lockerConnectivity |-> lockerConnectivity,
     generatePurchaseOrder |-> generatePurchaseOrder,
     generateBooking |-> generateBooking,
     generateCoupon |-> generateCoupon,
     createRackPayment |-> createRackPayment,
     createPricingTemplate |-> createPricingTemplate,
     updatePricingTemplate |-> updatePricingTemplate,
     deletePricingTemplate |-> deletePricingTemplate,
     requestOfflineVoucher |-> requestOfflineVoucher]
=============================================================================
