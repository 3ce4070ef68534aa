---------------------------- MODULE MCRackPricing ----------------------------
(* Model values and inputs for RackPricing. *)
EXTENDS RackPricing, TLC

CONSTANTS r1, r2, r3, none,
          a, a2, b   \* prices: a and a2 differ beyond a float32's precision

RequestSet2 == {r1, r2}
RequestSet3 == {r1, r2, r3}
Symmetry3 == Permutations(RequestSet3)
PriceSet == {a, a2, b}
Narrow == (a :> a) @@ (a2 :> a) @@ (b :> b)
StockedSet == {{a}}
CodeSet == {"NotFound", "InvalidArgument", "RESPONSE_STATUS_ERROR"}

RackInput(ref, times, id, groups, cells) ==
    [op |-> "Rack", rackReference |-> ref, bookingTimeIds |-> times, pricingTemplateID |-> id,
     groupProductBySize |-> groups, cells |-> cells, name |-> ""]
TemplateInput(op, id, cells, name) ==
    [op |-> op, rackReference |-> 0, bookingTimeIds |-> 0, pricingTemplateID |-> id,
     groupProductBySize |-> {}, cells |-> cells, name |-> name]

\* The wizard, for three sets of prices of which two are the same on the wire.
WizardInputs == {RackInput(1, 1, NilID, {}, cells) : cells \in {{a}, {a2}, {a, b}}}
EditInputs == {TemplateInput("Update", 1, {b}, "named"), TemplateInput("Delete", 1, {}, ""),
               TemplateInput("Create", 0, {a}, "named")}
ByIdInputs == {RackInput(1, 1, 1, {b}, {a}), RackInput(1, 1, 1, {}, {})}
\* Each argument check of the resolver and the service, failing.
InvalidInputs == {RackInput(0, 1, NilID, {}, {a}), RackInput(1, 0, NilID, {}, {a}),
                  RackInput(1, 1, NilID, {}, {}), RackInput(1, 1, 0, {}, {}),
                  TemplateInput("Create", 0, {a}, ""), TemplateInput("Create", 0, {}, "named"),
                  TemplateInput("Update", 0, {b}, "named"), TemplateInput("Update", 1, {b}, ""),
                  TemplateInput("Update", 1, {}, "named"), TemplateInput("Delete", 0, {}, "")}

CoreInputs == WizardInputs \cup EditInputs
AllInputs == CoreInputs \cup ByIdInputs \cup InvalidInputs
=============================================================================
