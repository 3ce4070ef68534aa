--------------------------- MODULE GatewayVerdict ---------------------------
(***************************************************************************)
(* What the BFF makes of one answer of the APISIX Control Gateway:         *)
(* control_gateway_client.go turns an HTTP response, or the lack of one,   *)
(* into a verdict (available, err); gateway_cache.go decides whether the   *)
(* verdict may be kept; service_validation_middleware.go decides whether   *)
(* the operation behind it may run.  No state: the modules that have some  *)
(* extend this one.                                                        *)
(*                                                                         *)
(* An error text is abstracted to the one thing the code looks for in it:  *)
(* which of the middleware's four infrastructure words it contains.        *)
(* "Client.Timeout" is the text net/http produces when http.Client.Timeout *)
(* expires ("context deadline exceeded (Client.Timeout exceeded while      *)
(* awaiting headers)"), which has a capital T and none of the four words.  *)
(***************************************************************************)
EXTENDS Integers

InfrastructureText == {"connection refused", "timeout", "dial tcp", "no such host"}
Text == InfrastructureText \cup {"Client.Timeout", "context canceled", "wording"}

\* strings.Contains(errorMsg, ...) || ... in the middleware.
MentionsInfrastructure(text) == text \in InfrastructureText

\* The error of a Go (bool, error) result: nil, a *GatewayValidationError, or
\* an error made with fmt.Errorf.
NoError == [type |-> "nil", code |-> "", text |-> ""]
GatewayError(code, text) ==
    [type |-> "GatewayValidationError", code |-> code, text |-> text]
PlainError(text) == [type |-> "error", code |-> "", text |-> text]

Error ==
    {NoError}
        \cup {GatewayError(c, t) : c \in {"SERVICE_UNAVAILABLE", "INTERNAL_ERROR"}, t \in Text}
        \cup {PlainError(t) : t \in Text}
VerdictType == [available : BOOLEAN, err : Error]

Available(b) == [available |-> b, err |-> NoError]
Refused(e) == [available |-> FALSE, err |-> e]

\* An HTTP response of the gateway: its status (0 for every code the client
\* does not name), whether the body parses, the body's valid flag, and its
\* message ("" when it has none).
Answer ==
    [status : {200, 503, 500, 0}, parses : BOOLEAN, valid : BOOLEAN,
     message : Text \cup {""}]

HasMessage(a) == a.parses /\ a.message # ""

\* The error of a complete response that is not a 200.
ResponseError(a) ==
    IF a.status = 503 /\ HasMessage(a) THEN GatewayError("SERVICE_UNAVAILABLE", a.message)
    ELSE IF a.status = 500 /\ HasMessage(a) THEN GatewayError("INTERNAL_ERROR", a.message)
    ELSE IF a.status = 0 /\ a.message # ""
         THEN PlainError(a.message)   \* "unexpected status code %d: %s" carries the body
         ELSE PlainError("wording")

\* The (available, err) a complete response is turned into.
Verdict(a) ==
    IF a.status # 200 THEN Refused(ResponseError(a))
    ELSE IF a.parses THEN Available(a.valid)
    ELSE Refused(PlainError("wording"))

\* The verdict of a call that got no complete response: the transport's error,
\* wrapped with %w, so its text is still there.
Failure(text) == Refused(PlainError(text))

\* (Mutant: any message of the gateway is final, its INTERNAL_ERROR too.)
IsCacheableAnyMessage(err) == err = NoError \/ err.type = "GatewayValidationError"

\* Only final answers may be kept: nil (HTTP 200, whatever valid says) and the
\* gateway's SERVICE_UNAVAILABLE.
IsCacheable(err) ==
    \/ err = NoError
    \/ err.type = "GatewayValidationError" /\ err.code = "SERVICE_UNAVAILABLE"

\* validateServiceAvailability returns nil.
Bypassed(v, bypassOnError) ==
    v.err # NoError /\ MentionsInfrastructure(v.err.text) /\ bypassOnError
\* (Mutant: the available = false without an error is overlooked.)
AdmitsWithoutError(v, bypassOnError) == Bypassed(v, bypassOnError) \/ v.err = NoError
Admits(v, bypassOnError) ==
    Bypassed(v, bypassOnError) \/ (v.err = NoError /\ v.available)
=============================================================================
