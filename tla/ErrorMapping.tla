---------------------------- MODULE ErrorMapping ----------------------------
(***************************************************************************)
(* From an error to what a client is told: mapGRPCError and the response   *)
(* status of the peers give domain errors (payment_client.go), localAccess *)
(* has a catalogue of its own, gql_errors.go turns a Go error into a code  *)
(* and the code into the status of the HTTP response.  No state.           *)
(*                                                                         *)
(* An error is what the code asks of it: the domain error whose text is    *)
(* its text ("" if none), the code of the GatewayValidationError in its    *)
(* chain ("" if none), whether its text contains "unavailable".            *)
(***************************************************************************)
EXTENDS Integers

Error == [is : STRING, gateway : STRING, unavailable : BOOLEAN]

\* The errors of payment_errors.go, by what gql_errors.go lists them under.
NotFoundErrors ==
    {"ErrPaymentRackNotFound", "ErrCouponNotFound", "ErrPaymentInfraServiceUnavailable",
     "ErrNoLockersAvailable", "ErrPurchaseOrderNotFound", "ErrBookingNotFound"}
BadRequestErrors ==
    {"ErrInvalidPaymentRackID", "ErrInvalidBookingTimeID", "ErrInvalidCouponCode",
     "ErrInvalidCoupon", "ErrInvalidGroupID", "ErrInvalidEmail", "ErrInvalidPhone",
     "ErrInvalidTraceID", "ErrInvalidGatewayName", "ErrInvalidPurchaseOrder",
     "ErrInvalidServiceName", "ErrInvalidCurrentCode"}
InternalErrors ==
    {"ErrPurchaseOrderFailed", "ErrBookingGenerationFailed", "ErrExecuteOpenFailed"}
UnlistedErrors ==
    {"ErrInvalidCouponAmount", "ErrCouponGenerationFailed", "ErrInvalidPricingCells",
     "ErrInvalidPricingTemplateName", "ErrInvalidPricingTemplateID"}
DomainErrors == NotFoundErrors \cup BadRequestErrors \cup InternalErrors \cup UnlistedErrors

\* Only "payment infrastructure service unavailable" has the word.
Domain(name) ==
    [is |-> name, gateway |-> "", unavailable |-> name = "ErrPaymentInfraServiceUnavailable"]
Plain(unavailable) == [is |-> "", gateway |-> "", unavailable |-> unavailable]
Gateway(code) == [is |-> "", gateway |-> code, unavailable |-> FALSE]
\* fmt.Errorf("...: %w", err): another text, the same chain.
Wrapped(err) == [err EXCEPT !.is = ""]

\* (Mutant: a deadline counts as an invalid argument.)
mapGRPCErrorTimeoutAsInvalid(code) ==
    CASE code = "NotFound" -> "ErrPaymentRackNotFound"
      [] code \in {"InvalidArgument", "DeadlineExceeded"} -> "ErrInvalidPaymentRackID"
      [] OTHER -> "ErrPaymentInfraServiceUnavailable"

\* Every code but two is "service unavailable": the deadline of a call, too.
mapGRPCError(code) ==
    CASE code = "NotFound" -> "ErrPaymentRackNotFound"
      [] code = "InvalidArgument" -> "ErrInvalidPaymentRackID"
      [] OTHER -> "ErrPaymentInfraServiceUnavailable"

\* isAny compares texts (EqualFold), whatever its comment says of errors.Is: a
\* wrapped domain error is none of them.
isAny(err, targets) == err.is \in targets

resolveCode(err) ==
    IF err.gateway # "" THEN err.gateway
    ELSE IF isAny(err, NotFoundErrors) THEN "NOT_FOUND"
    ELSE IF isAny(err, BadRequestErrors) THEN "BAD_REQUEST"
    ELSE IF isAny(err, InternalErrors) THEN "INTERNAL_SERVER_ERROR"
    ELSE IF err.unavailable THEN "SERVICE_UNAVAILABLE"
    ELSE "INTERNAL_SERVER_ERROR"

\* A code of the gateway that is none of these (INTERNAL_ERROR) is a 500.
resolveStatus(code) ==
    CASE code = "BAD_REQUEST" -> 400
      [] code = "UNAUTHENTICATED" -> 401
      [] code = "FORBIDDEN" -> 403
      [] code = "NOT_FOUND" -> 404
      [] code = "SERVICE_UNAVAILABLE" -> 503
      [] OTHER -> 500

\* The extensions of an error of the response: its code and its HTTP status,
\* 0 when it has no status.
Extensions(code, status) == [code |-> code, status |-> status]
New(err) == Extensions(resolveCode(err), resolveStatus(resolveCode(err)))
ForbiddenError == Extensions("FORBIDDEN", 403)

-----------------------------------------------------------------------------
(* Local access *)

localAccessCatalog ==
    [INVALID_INPUT |-> 400, BOOKING_NOT_FOUND |-> 404, BOOKING_NOT_ELIGIBLE |-> 409,
     DEVICE_NOT_READY |-> 409, VOUCHER_ALREADY_ACTIVE |-> 409, ONLINE_OPEN_IN_PROGRESS |-> 409,
     OPENING_LIMIT_REACHED |-> 409, RATE_LIMITED |-> 429, SIGNING_UNAVAILABLE |-> 503]
ErrOfflineVoucherNotAvailable == Extensions("SERVICE_UNAVAILABLE", 503)

\* localAccessError: the reason in the details of the status, if K3 knows it;
\* Unimplemented whatever the details; anything else has no extensions yet.
localAccessError(code, reason) ==
    IF code = "Unimplemented" THEN ErrOfflineVoucherNotAvailable
    ELSE IF reason \in DOMAIN localAccessCatalog
         THEN Extensions(reason, localAccessCatalog[reason])
         ELSE Extensions("", 0)

localAccessGQLError(e) ==
    IF e.code = "" THEN Extensions("INTERNAL_SERVER_ERROR", 500) ELSE e
=============================================================================
