-------------------------- MODULE MCRequestPipeline --------------------------
(* Model values, requests and messages for RequestPipeline. *)
EXTENDS RequestPipeline

CONSTANTS ana, eva   \* users

UserSet == {ana, eva}
RoleSet == {"SUPER_ADMIN", "ADMIN"}
\* ana has two installations; eva, and who has no email, none.
AdministersMap == (ana :> <<"north", "south">>) @@ (eva :> <<>>) @@ ("" :> <<>>)

BookingSet == {[id |-> 2, installationName |-> "east"], [id |-> 1, installationName |-> "north"]}
\* Booking 1 was paid for twice; 2 with a coupon.
OrderSet ==
    {[bookingReference |-> 1, oc |-> "first", couponId |-> Nil],
     [bookingReference |-> 2, oc |-> "second", couponId |-> 7],
     [bookingReference |-> 1, oc |-> "third", couponId |-> Nil]}

-----------------------------------------------------------------------------
(* Requests *)

Claim(sub, email, roles) ==
    [sub |-> sub, email |-> email, permissions |-> [parses |-> TRUE, roles |-> roles]]
Unreadable(user) == [sub |-> user, email |-> user, permissions |-> [parses |-> FALSE, roles |-> {}]]
ClaimSet == {Claim(sub, email, roles) : sub \in UserSet \cup {""}, email \in UserSet \cup {""},
                                        roles \in SUBSET RoleSet}
            \cup {Unreadable(ana), NoClaims}
AllHeaders == [validated : BOOLEAN, userID : UserSet \cup {""}, userEmail : UserSet \cup {""},
               claims : ClaimSet]
Honest(user, roles) ==
    [validated |-> TRUE, userID |-> user, userEmail |-> user, claims |-> Claim(user, user, roles)]
Anonymous == [validated |-> FALSE, userID |-> "", userEmail |-> "", claims |-> NoClaims]
Chief == Honest(ana, {"SUPER_ADMIN"})

Good(fields) == [f \in fields |-> "ok"]
InputOf(field) == RootFields[field].input
\* Everything right; one argument blank or of the wrong type, absent or unknown.
Arguments(field) ==
    LET required == InputOf(field).required
        all == required \cup InputOf(field).optional
    IN {Good(required), Good(all), Good(all \cup {"unknown"})}
       \cup {[Good(all) EXCEPT ![f] = v] : f \in all, v \in {"blank", "mistyped"}}
       \cup {[Good(required) EXCEPT ![f] = "blank"] : f \in required}
       \cup {Good(required \ {f}) : f \in required}
\* The wizard sends cells instead of a template.
WizardArguments ==
    LET good == Good(InputOf("createRackPayment").required \cup {"pricingCells"})
    IN {good} \cup {[good EXCEPT ![f] = "blank"] : f \in DOMAIN good}
HistoryArguments ==
    {<<>>} \cup {[f \in {"installationName"} |-> v] : v \in {"north", "east", "blank", "mistyped"}}

Request(field, args, headers) == [field |-> field, args |-> args, headers |-> headers]
Fields == DOMAIN RootFields \ {"getBookingPayment"}
QuerySet ==
    UNION {{Request(f, args, Chief) : args \in Arguments(f)} : f \in Fields}
    \cup {Request("createRackPayment", args, Chief) : args \in WizardArguments}
    \cup {Request(f, Good(InputOf(f).required), h) :
             f \in {"getPricingTemplates", "createRackPayment"}, h \in AllHeaders}
    \cup {Request(f, Good(InputOf(f).required), h) : f \in Fields, h \in {Anonymous, Honest(eva, {"ADMIN"})}}
    \cup {Request("getBookingPayment", args, h) : args \in HistoryArguments, h \in AllHeaders}

-----------------------------------------------------------------------------
(* Messages *)

Responses == {Nil} \cup {[status |-> n] : n \in 0..3}
Time(name, unit) == [name |-> name, unitMeasurement |-> unit]
Times == {<<>>, <<Time("Admin", 1)>>,
          <<Time("Express", 2), Time("Admin", 1), Time("Normal", 4)>>,
          <<Time("Normal", 3), Time("Express", 1), Time("Normal", 5), Time("Admin", 2)>>}
Template(groups) == [bookingGroups |-> groups]
Group(products) == [products |-> products]
TemplateLists == {<<>>, <<Template(<<>>)>>,
                  <<Template(<<Group(<<>>)>>),
                    Template(<<Group(<<[groupId |-> 1], [groupId |-> 2]>>), Group(<<[groupId |-> 1]>>)>>)>>}

Message(c) ==
    CASE c = "GetPaymentInfraByQrValue" ->
             [response : Responses, paymentRack : {Nil, [id |-> 1]}, installation : {Nil, [id |-> 2]},
              device : {Nil, [name |-> "device"]}, bookingTimes : Times]
      [] c = "GetAvailableLockers" ->
             [response : Responses, availableGroup : {<<>>, <<[groupId |-> 1], [groupId |-> 2]>>}]
      [] c = "ValidateDiscountCoupon" ->
             [response : Responses, discountType : 0..3, applies : BOOLEAN]
      [] c = "GenerateCoupon" -> [response : Responses, couponCode : {"COUPON"}]
      [] c = "GeneratePurchaseOrder" -> [response : Responses, url : {"url"}]
      [] c = "GenerateBooking" -> [response : Responses, code : {"code"}]
      [] c = "CheckBookingStatus" ->
             [response : Responses, booking : {Nil, [currentCode |-> "code"]}]
      [] c = "GetPricingTemplates" -> [response : Responses, pricingTemplates : TemplateLists]
      [] c = "GetBookingTimes" ->
             [response : Responses, bookingTimes : {<<>>, <<[name |-> "Admin"], [name |-> "Express"]>>}]
      [] c = "CreateRackPayment" -> [response : Responses, paymentRackId : {5}]
      [] c = "FindExactPricingTemplate" ->
             [response : Responses, found : BOOLEAN, pricingTemplateId : {0, 3}]
      [] c = "CreatePricingTemplate" -> [response : Responses, pricingTemplateId : {0, 4}]
      [] c \in {"UpdatePricingTemplate", "DeletePricingTemplate"} -> [response : Responses]
      [] c = "GetLockerConnectivity" -> [lastSeenAt : {Nil, "seen"}]
      [] c = "IssueOfflineVoucher" -> [wifiPassword : {"", "password"}]
      [] OTHER -> {}
MessageMap == [c \in Calls |-> Message(c)]
=============================================================================
