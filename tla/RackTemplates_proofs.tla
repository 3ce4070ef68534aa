------------------------ MODULE RackTemplates_proofs ------------------------
(***************************************************************************)
(* What the wizard makes of the pricing templates, for any number of       *)
(* requests, inputs, prices and templates: the rack it creates is sold at  *)
(* the prices asked for, it does not repeat a template, and it leaves none *)
(* behind unless it failed.                                                *)
(***************************************************************************)
EXTENDS RackPricing_proofs

\* Whoever was over when r began stays over.
OverInv == \A r \in Requests : \A q \in over[r] : pc[q] = "ended" /\ ~InFlight(q)

\* The ids are taken in their order, each for an executed CreatePricingTemplate.
IdsInv ==
    /\ \A t, u \in Ids : templates[t].state = "free" /\ t < u => templates[u].state = "free"
    /\ \A t \in Ids : templates[t].by # NoOne =>
          /\ templates[t].state # "free"
          /\ <<templates[t].by, "Create">> \in done

EditedAlongside(r, t) == \E q \in Requests : Edited(q, t) /\ Concurrent(q, r)

\* Template t has the cells r asked for, unless it was edited alongside r.
AsAsked(r, t) ==
    /\ t \in Ids /\ templates[t].state # "free"
    /\ templates[t].cells = Asked(r) \/ EditedAlongside(r, t)

\* What the wizard was answered, and what it passes on, is what it asked for.
HasAnswer(r) == pc[r] \in {"Find", "Create"} /\ rpc[r].at = "ok"
HasChosen(r) == pc[r] = "Rack" \/ <<r, "Rack">> \in wire
Choice(r) == Wizard(r) =>
    /\ HasAnswer(r) => rpc[r].groups = Asked(r) /\ AsAsked(r, rpc[r].id)
    /\ HasChosen(r) => chosen[r].groups = Asked(r) /\ AsAsked(r, chosen[r].id)

RacksInv ==
    \A k \in racks :
        /\ <<k.by, "Rack">> \in done
        /\ Wizard(k.by) => k.groups = Asked(k.by) /\ AsAsked(k.by, k.template)

ChoiceInv == AccountableInv /\ OverInv /\ IdsInv /\ RacksInv /\ \A r \in Requests : Choice(r)

\* What r did not find was made or changed since it began.
Unseen(r, t) ==
    Live(t) /\ templates[t].cells = Asked(r) =>
        \/ templates[t].by # NoOne /\ Concurrent(templates[t].by, r)
        \/ \E q \in Requests : Edited(q, t)
HasSearched(r) ==
    \/ pc[r] = "Find" /\ rpc[r].at = "none"
    \/ pc[r] = "Create"
    \/ <<r, "Create">> \in wire
Searched(r) == Wizard(r) /\ HasSearched(r) => \A t \in Ids : Unseen(r, t)

TwinsInv == ChoiceInv /\ NoRepeatedTemplate /\ \A r \in Requests : Searched(r)

\* A request has its template created once, and the wizard goes on with it.
OnceMade(r) ==
    /\ <<r, "Create">> \in wire =>
          /\ <<r, "Create">> \notin done
          /\ \/ pc[r] = "Create" /\ rpc[r] = Sent
             \/ pc[r] = "ended" /\ told[r] # "ok"
    /\ pc[r] = "Find" => <<r, "Create">> \notin done
    /\ pc[r] = "Create" /\ rpc[r].at = "ready" => <<r, "Create">> \notin done
Knows(r, t) ==
    /\ pc[r] = "Create" /\ rpc[r].at = "ok" => rpc[r].id = t
    /\ Wizard(r) /\ (pc[r] = "Rack" \/ told[r] = "ok") => chosen[r].id = t
Linked(r) ==
    /\ \A t \in Ids : templates[t].by = r => Knows(r, t)
    /\ Wizard(r) /\ <<r, "Rack">> \in done =>
          \E k \in racks : k.by = r /\ k.template = chosen[r].id

OrphansInv ==
    /\ ChoiceInv
    /\ \A r \in Requests : OnceMade(r) /\ Linked(r)
    /\ \A t, u \in Ids : templates[t].by = templates[u].by /\ templates[t].by # NoOne => t = u
-----------------------------------------------------------------------------
(* What a step does to one request *)

\* A step of other requests.
Elsewhere(r) ==
    /\ input'[r] = input[r] /\ pc'[r] = pc[r] /\ rpc'[r] = rpc[r]
    /\ chosen'[r] = chosen[r] /\ told'[r] = told[r] /\ over'[r] = over[r]
    /\ \A op : <<r, op>> \in wire' <=> <<r, op>> \in wire
    /\ \A op : <<r, op>> \in done' <=> <<r, op>> \in done

\* What the payment service and the network do with an RPC of r.
LEMMA ServiceShape ==
  ASSUME TypeOK, NEW r \in Requests, PaymentService(r)
  PROVE  \E op \in Ops :
            /\ <<r, op>> \in wire /\ wire' = wire \ {<<r, op>>}
            /\ UNCHANGED <<input, pc, chosen, told, over>>
            /\ done' = done \/ done' = done \cup {<<r, op>>}
            /\ \/ rpc' = rpc
               \/ /\ pc[r] = op /\ rpc[r] = Sent
                  /\ \E x : x.at # "ready" /\ rpc' = [rpc EXCEPT ![r] = x]
<1>0. {"Find", "Create", "Update", "Delete", "Rack"} = Ops
  BY DEF Ops
<1>1. ASSUME NEW op \in Ops, NEW x, Reply(r, op, x), x.at # "ready",
             done' = done \/ done' = done \cup {<<r, op>>}
      PROVE  /\ <<r, op>> \in wire /\ wire' = wire \ {<<r, op>>}
             /\ UNCHANGED <<input, pc, chosen, told, over>>
             /\ done' = done \/ done' = done \cup {<<r, op>>}
             /\ \/ rpc' = rpc
                \/ /\ pc[r] = op /\ rpc[r] = Sent
                   /\ \E y : y.at # "ready" /\ rpc' = [rpc EXCEPT ![r] = y]
  BY <1>1 DEF Reply
<1>a. \A id, groups : OK(id, groups).at # "ready"
  BY DEF OK
<1>2. CASE ServeFind(r)
  <2>1. PICK x : Execute(r, "Find", x) /\ x.at # "ready"
    <3>1. [at |-> "none"].at # "ready"
      OBVIOUS
    <3> QED BY <1>2, <1>a, <3>1 DEF ServeFind
  <2> QED BY <1>0, <1>1, <2>1 DEF Execute
<1>3. CASE ServeCreate(r)
  <2>1. PICK x : Execute(r, "Create", x) /\ x.at # "ready"
    BY <1>3, <1>a DEF ServeCreate
  <2> QED BY <1>0, <1>1, <2>1 DEF Execute
<1>4. CASE ServeUpdate(r)
  <2>1. PICK x : Execute(r, "Update", x) /\ x.at # "ready"
    BY <1>4, <1>a DEF ServeUpdate
  <2> QED BY <1>0, <1>1, <2>1 DEF Execute
<1>5. CASE ServeDelete(r)
  <2>1. PICK x : Execute(r, "Delete", x) /\ x.at # "ready"
    BY <1>5, <1>a DEF ServeDelete
  <2> QED BY <1>0, <1>1, <2>1 DEF Execute
<1>6. CASE ServeRack(r)
  <2>1. PICK x : Execute(r, "Rack", x) /\ x.at # "ready"
    BY <1>6, <1>a DEF ServeRack
  <2> QED BY <1>0, <1>1, <2>1 DEF Execute
<1>7. ASSUME NEW op \in Ops, Reject(r, op)
      PROVE  \E x : Reply(r, op, x) /\ x.at # "ready" /\ done' = done
  BY <1>7 DEF Reject
<1>8. ASSUME NEW op \in Ops, Lose(r, op)
      PROVE  /\ <<r, op>> \in wire /\ wire' = wire \ {<<r, op>>}
             /\ UNCHANGED <<input, pc, chosen, told, over, rpc, done>>
  BY <1>8 DEF Lose, goroutine
<1> QED BY <1>1, <1>2, <1>3, <1>4, <1>5, <1>6, <1>7, <1>8 DEF PaymentService

\* What the goroutine of r does.
Alone(r) ==
    /\ UNCHANGED <<input, templates, racks, done, over>>
    /\ \A q \in Requests \ {r} : /\ pc'[q] = pc[q] /\ rpc'[q] = rpc[q]
                                 /\ chosen'[q] = chosen[q] /\ told'[q] = told[q]
Ended(r, e) == /\ UNCHANGED <<wire, chosen, rpc>>
               /\ pc'[r] = "ended" /\ told'[r] = e

LEMMA EndShape ==
  ASSUME TypeOK, NEW r \in Requests, NEW e, End(r, e),
         UNCHANGED <<input, wire, service, done, over>>
  PROVE  Alone(r) /\ Ended(r, e)
<1>1. UNCHANGED <<input, wire, templates, racks, done, over, rpc, chosen>>
  BY DEF End, service
<1>2. pc'[r] = "ended" /\ \A q \in Requests \ {r} : pc'[q] = pc[q]
  BY DEF End, TypeOK
<1>3. told'[r] = e /\ \A q \in Requests \ {r} : told'[q] = told[q]
  BY DEF End, TypeOK
<1> QED BY <1>1, <1>2, <1>3 DEF Alone, Ended

LEMMA GoroutineShape ==
  ASSUME TypeOK, NEW r \in Requests, Goroutine(r) \/ Fail(r)
  PROVE  /\ pc[r] \in Ops /\ Alone(r)
         /\ \/ \E e : Ended(r, e) /\ e # "" /\ (e = "ok" => Succeeded(r))
            \/ Send(r) \/ Found(r) \/ NoMatch(r) \/ Created(r)
<1>a. \A e \in DomainErrors : e # "" /\ e # "ok"
  BY DEF DomainErrors
<1>1. ASSUME NEW e, pc[r] \in Ops, Alone(r) /\ Ended(r, e), e # "", e = "ok" => Succeeded(r)
      PROVE  /\ pc[r] \in Ops /\ Alone(r)
             /\ \E x : Ended(r, x) /\ x # "" /\ (x = "ok" => Succeeded(r))
  BY <1>1
<1>2. CASE Refused(r)
  <2>1. pc[r] \in Ops /\ Alone(r) /\ Ended(r, "gate")
    BY <1>2, EndShape DEF Refused, AtCall
  <2> QED BY <1>1, <2>1
<1>3. CASE Invalid(r)
  <2>1. PICK e \in DomainErrors : End(r, e)
    BY <1>3 DEF Invalid
  <2>2. pc[r] \in Ops /\ Alone(r) /\ Ended(r, e)
    BY <1>3, <2>1, EndShape DEF Invalid, AtCall
  <2> QED BY <1>1, <1>a, <2>2
<1>4. CASE Fail(r)
  <2> DEFINE e == mapGRPCError("DeadlineExceeded")
  <2>1. pc[r] \in Ops /\ Alone(r) /\ Ended(r, e)
    BY <1>4, EndShape DEF Fail
  <2>2. e \in DomainErrors
    BY MapsToDomain
  <2> HIDE DEF e
  <2> QED BY <1>1, <1>a, <2>1, <2>2
<1>5. CASE Rejected(r)
  <2> DEFINE e == mapGRPCError(rpc[r].code)
  <2>1. pc[r] \in Ops /\ Alone(r) /\ Ended(r, e)
    BY <1>5, EndShape DEF Rejected
  <2>2. e \in DomainErrors
    BY MapsToDomain
  <2> HIDE DEF e
  <2> QED BY <1>1, <1>a, <2>1, <2>2
<1>6. CASE Succeeded(r)
  <2>1. pc[r] \in Ops
    BY <1>6 DEF Succeeded, TypeOK, Input
  <2>2. Alone(r) /\ Ended(r, "ok")
    BY <1>6, EndShape DEF Succeeded
  <2> QED BY <1>1, <1>6, <2>1, <2>2
<1>7. CASE Send(r) \/ Found(r) \/ NoMatch(r) \/ Created(r)
  <2>1. pc[r] \in Ops
    BY <1>7 DEF Send, AtCall, Found, NoMatch, Created, Ops
  <2>2. UNCHANGED <<input, templates, racks, done, over>>
    BY <1>7 DEF Send, Found, NoMatch, Created, service
  <2>3. ASSUME NEW q \in Requests \ {r}
        PROVE  pc'[q] = pc[q] /\ rpc'[q] = rpc[q] /\ chosen'[q] = chosen[q] /\ told'[q] = told[q]
    BY <1>7 DEF Send, Found, NoMatch, Created, GoTo, Choose, TypeOK
  <2> QED BY <1>7, <2>1, <2>2, <2>3 DEF Alone
<1> QED BY <1>2, <1>3, <1>4, <1>5, <1>6, <1>7 DEF Goroutine

LEMMA Moves ==
  ASSUME TypeOK, [Next]_vars, NEW r \in Requests
  PROVE  \/ \E i \in Inputs : Begin(r, i)
         \/ Goroutine(r) \/ Fail(r)
         \/ PaymentService(r)
         \/ Elsewhere(r)
<1>1. CASE UNCHANGED vars
  BY <1>1 DEF vars, goroutine, Elsewhere
<1>2. ASSUME NEW b \in Requests \ {r}, NEW i \in Inputs, Begin(b, i) PROVE Elsewhere(r)
  BY <1>2 DEF Begin, FirstCall, End, GoTo, Choose, TypeOK, Elsewhere
<1>3. ASSUME NEW b \in Requests \ {r}, Goroutine(b) \/ Fail(b) PROVE Elsewhere(r)
  <2>1. wire' = wire \/ wire' = wire \cup {<<b, pc[b]>>}
    BY <1>3 DEF Goroutine, Fail, Refused, Invalid, Send, Found, NoMatch, Created, Succeeded,
       Rejected
  <2>2. \A op : <<r, op>> \in wire' <=> <<r, op>> \in wire
    BY <2>1
  <2> QED BY <1>3, <2>2, GoroutineShape DEF Elsewhere, Alone
<1>4. ASSUME NEW b \in Requests \ {r}, PaymentService(b) PROVE Elsewhere(r)
  <2>1. PICK op \in Ops :
            /\ <<b, op>> \in wire /\ wire' = wire \ {<<b, op>>}
            /\ UNCHANGED <<input, pc, chosen, told, over>>
            /\ done' = done \/ done' = done \cup {<<b, op>>}
            /\ rpc' = rpc \/ \E x : rpc' = [rpc EXCEPT ![b] = x]
    BY <1>4, ServiceShape
  <2>2. rpc'[r] = rpc[r]
    BY <2>1 DEF TypeOK
  <2>3. \A o : <<r, o>> \in wire' <=> <<r, o>> \in wire
    BY <2>1
  <2>4. \A o : <<r, o>> \in done' <=> <<r, o>> \in done
    BY <2>1
  <2> QED BY <2>1, <2>2, <2>3, <2>4 DEF Elsewhere
<1> QED BY <1>1, <1>2, <1>3, <1>4 DEF Next

\* Once begun, a request keeps its arguments; what was executed stays executed.
LEMMA Stays ==
  ASSUME TypeOK, [Next]_vars, NEW r \in Requests, pc[r] # "idle"
  PROVE  /\ input'[r] = input[r] /\ over'[r] = over[r] /\ pc'[r] # "idle"
         /\ \A op : <<r, op>> \in done => <<r, op>> \in done'
         /\ \A op : <<r, op>> \in wire' => <<r, op>> \in wire \/ (pc[r] = op /\ AtCall(r))
         /\ pc[r] = "ended" => /\ pc'[r] = "ended"
                               /\ told'[r] = told[r] /\ chosen'[r] = chosen[r]
<1>0. pc[r] = "ended" => pc[r] \notin Ops
  BY DEF Ops
<1>1. ~\E i \in Inputs : Begin(r, i)
  BY DEF Begin
<1>2. CASE Goroutine(r) \/ Fail(r)
  <2>1. pc[r] \in Ops /\ Alone(r)
    BY <1>2, GoroutineShape
  <2>2. CASE \E e : Ended(r, e)
    BY <1>0, <2>1, <2>2 DEF Alone, Ended
  <2>3. CASE Send(r)
    <3>1. pc' = pc /\ wire' = wire \cup {<<r, pc[r]>>} /\ AtCall(r)
      BY <2>3 DEF Send
    <3> QED BY <1>0, <2>1, <3>1 DEF Alone
  <2>4. CASE Found(r) \/ NoMatch(r) \/ Created(r)
    <3>1. wire' = wire /\ pc'[r] # "idle"
      BY <2>4 DEF Found, NoMatch, Created, GoTo, TypeOK
    <3> QED BY <1>0, <2>1, <3>1 DEF Alone
  <2> QED BY <1>2, <2>2, <2>3, <2>4, GoroutineShape
<1>3. CASE PaymentService(r)
  <2>1. PICK op \in Ops :
            /\ wire' = wire \ {<<r, op>>}
            /\ UNCHANGED <<input, pc, chosen, told, over>>
            /\ done' = done \/ done' = done \cup {<<r, op>>}
    BY <1>3, ServiceShape
  <2> QED BY <2>1
<1>4. CASE Elsewhere(r)
  BY <1>4 DEF Elsewhere
<1> QED BY <1>1, <1>2, <1>3, <1>4, Moves

\* Whoever has an RPC on its way or executed has begun.
LEMMA Started ==
  ASSUME AccountableInv, NEW r \in Requests, NEW op \in Ops, <<r, op>> \in wire \cup done
  PROVE  TypeOK /\ pc[r] # "idle"
<1>1. Accountable(r)
  BY DEF AccountableInv
<1> QED BY <1>1 DEF Accountable, AccountableInv

\* A request that has something left to do.
Active(r) == pc[r] \in Ops \/ InFlight(r)

LEMMA ActiveBegun ==
  ASSUME AccountableInv, NEW r \in Requests, Active(r) PROVE TypeOK /\ pc[r] # "idle"
<1>1. CASE pc[r] \in Ops
  BY <1>1 DEF Ops, AccountableInv
<1>2. CASE InFlight(r)
  BY <1>2, Started DEF InFlight
<1> QED BY <1>1, <1>2 DEF Active

LEMMA OverStep ==
  ASSUME TypeOK, AccountableInv, OverInv, [Next]_vars PROVE OverInv'
<1>1. ASSUME NEW q \in Requests, pc[q] = "ended", ~InFlight(q)
      PROVE  pc'[q] = "ended" /\ ~InFlight(q)'
  <2>1. /\ pc'[q] = "ended"
        /\ \A op : <<q, op>> \in wire' => <<q, op>> \in wire \/ (pc[q] = op /\ AtCall(q))
    BY <1>1, Stays
  <2>2. ~AtCall(q)
    BY <1>1 DEF AtCall, Ops
  <2> QED BY <1>1, <2>1, <2>2 DEF InFlight
<1>2. ASSUME NEW r \in Requests, NEW q \in over'[r]
      PROVE  q \in Requests /\ pc[q] = "ended" /\ ~InFlight(q)
  <2>1. CASE over'[r] = over[r]
    BY <1>2, <2>1 DEF OverInv, TypeOK
  <2>2. CASE \E i \in Inputs : Begin(r, i)
    BY <1>2, <2>2 DEF Begin, TypeOK
  <2>3. over'[r] = over[r] \/ \E i \in Inputs : Begin(r, i)
    <3>1. CASE Goroutine(r) \/ Fail(r)
      BY <3>1, GoroutineShape DEF Alone
    <3>2. CASE PaymentService(r)
      BY <3>2, ServiceShape
    <3>3. CASE Elsewhere(r)
      BY <3>3 DEF Elsewhere
    <3> QED BY <3>1, <3>2, <3>3, Moves
  <2> QED BY <2>1, <2>2, <2>3
<1> QED BY <1>1, <1>2 DEF OverInv

\* Two requests that both have something left to do are alongside each other, ...
LEMMA ActiveConcurrent ==
  ASSUME OverInv, NEW q \in Requests, NEW r \in Requests, Active(q), Active(r)
  PROVE  Concurrent(q, r)
<1>1. \A x \in Requests : Active(x) => ~(pc[x] = "ended" /\ ~InFlight(x))
  BY DEF Active, Ops
<1> QED BY <1>1 DEF OverInv, Concurrent

\* ... and stay so.
LEMMA ConcurrentStays ==
  ASSUME TypeOK, [Next]_vars, NEW q \in Requests, NEW r \in Requests,
         pc[q] # "idle", pc[r] # "idle"
  PROVE  Concurrent(q, r)' <=> Concurrent(q, r)
<1>1. over'[q] = over[q] /\ over'[r] = over[r]
  BY Stays
<1> QED BY <1>1 DEF Concurrent

LEMMA EditedStays ==
  ASSUME AccountableInv, [Next]_vars, NEW q \in Requests, NEW t, Edited(q, t)
  PROVE  Edited(q, t)' /\ TypeOK /\ pc[q] # "idle"
<1>1. TypeOK /\ pc[q] # "idle"
  BY Started DEF Edited, Ops
<1>2. input'[q] = input[q] /\ <<q, "Update">> \in done'
  BY <1>1, Stays DEF Edited
<1> QED BY <1>1, <1>2 DEF Edited

-----------------------------------------------------------------------------
(* What a step does to the templates and racks *)

Makes(b, t) ==
    /\ <<b, "Create">> \in wire /\ NextFree(t)
    /\ templates' = [templates EXCEPT ![t] = [state |-> "live", cells |-> Asked(b), by |-> b]]
    /\ rpc' = IF pc[b] = "Create" /\ rpc[b] = Sent
              THEN [rpc EXCEPT ![b] = OK(t, Asked(b))] ELSE rpc
    /\ done' = done \cup {<<b, "Create">>}
    /\ UNCHANGED <<racks, pc, told, chosen>>
Edits(b, t) ==
    /\ <<b, "Update">> \in wire /\ Live(t) /\ ~HasRacks(t)
    /\ templates' = [templates EXCEPT ![t].cells = Asked(b)]
    /\ Edited(b, t)'
    /\ racks' = racks
Deletes(t) ==
    /\ Live(t) /\ ~HasRacks(t)
    /\ templates' = [templates EXCEPT ![t].state = "deleted"]
    /\ racks' = racks
Racks(b) ==
    /\ Live(chosen[b].id) /\ <<b, "Rack">> \in wire
    /\ racks' = racks \cup {[by |-> b, template |-> chosen[b].id, groups |-> chosen[b].groups]}
    /\ templates' = templates
    /\ done' = done \cup {<<b, "Rack">>}

LEMMA ServiceStep ==
  ASSUME TypeOK, [Next]_vars
  PROVE  \/ templates' = templates /\ racks' = racks
         \/ \E b \in Requests, t \in Ids : Makes(b, t) \/ Edits(b, t)
         \/ \E t \in Ids : Deletes(t)
         \/ \E b \in Requests : Racks(b)
<1> DEFINE Quiet == templates' = templates /\ racks' = racks
<1>1. CASE UNCHANGED vars
  BY <1>1 DEF vars, service
<1>2. ASSUME NEW b \in Requests, NEW i \in Inputs, Begin(b, i) PROVE Quiet
  BY <1>2 DEF Begin, service
<1>3. ASSUME NEW b \in Requests, Goroutine(b) \/ Fail(b) PROVE Quiet
  BY <1>3, GoroutineShape DEF Alone
<1>4. ASSUME NEW b \in Requests, ServeFind(b) \/ \E op \in Ops : Reject(b, op) \/ Lose(b, op)
      PROVE  Quiet
  BY <1>4 DEF ServeFind, Reject, Lose, service
<1>5. ASSUME NEW b \in Requests, ServeCreate(b) PROVE \E t \in Ids : Makes(b, t)
  BY <1>5 DEF ServeCreate, Makes, Execute, Reply
<1>6. ASSUME NEW b \in Requests, ServeUpdate(b) PROVE Quiet \/ \E t \in Ids : Edits(b, t)
  <2> DEFINE t == input[b].pricingTemplateID
  <2>1. /\ <<b, "Update">> \in wire /\ done' = done \cup {<<b, "Update">>}
        /\ input' = input /\ racks' = racks /\ Live(t) /\ t \in Ids
        /\ Asked(b) # {} => ~HasRacks(t)
    BY <1>6 DEF ServeUpdate, Execute, Reply, Live
  <2>2. CASE Asked(b) = {}
    BY <1>6, <2>1, <2>2 DEF ServeUpdate
  <2>3. CASE Asked(b) # {}
    <3>1. input[b].cells # {}
      BY <2>3 DEF Asked, cellsToDto
    <3>2. Edited(b, t)'
      BY <2>1, <3>1 DEF Edited
    <3>3. templates' = [templates EXCEPT ![t].cells = Asked(b)]
      BY <1>6, <2>3 DEF ServeUpdate
    <3> QED BY <2>1, <2>3, <3>2, <3>3 DEF Edits
  <2> QED BY <2>2, <2>3
<1>7. ASSUME NEW b \in Requests, ServeDelete(b) PROVE \E t \in Ids : Deletes(t)
  BY <1>7 DEF ServeDelete, Deletes, Live
<1>8. ASSUME NEW b \in Requests, ServeRack(b) PROVE Racks(b)
  BY <1>8 DEF ServeRack, Racks, Execute, Reply
<1> QED BY <1>1, <1>2, <1>3, <1>4, <1>5, <1>6, <1>7, <1>8 DEF Next, PaymentService

\* What that means for one template.
LEMMA OneTemplate ==
  ASSUME TypeOK, [Next]_vars, NEW t \in Ids
  PROVE  \/ templates'[t] = templates[t]
         \/ \E b \in Requests : /\ Makes(b, t) /\ templates[t].state = "free"
                                /\ templates'[t] = [state |-> "live", cells |-> Asked(b), by |-> b]
         \/ \E b \in Requests : /\ Edits(b, t) /\ templates[t].state = "live"
                                /\ templates'[t] = [templates[t] EXCEPT !.cells = Asked(b)]
         \/ /\ ~HasRacks(t) /\ templates[t].state = "live"
            /\ templates'[t] = [templates[t] EXCEPT !.state = "deleted"]
<1>1. templates \in [Ids -> Template]
  BY DEF TypeOK
<1>2. ASSUME NEW b \in Requests, NEW u \in Ids, Makes(b, u)
      PROVE  \/ templates'[t] = templates[t]
             \/ /\ Makes(b, t) /\ templates[t].state = "free"
                /\ templates'[t] = [state |-> "live", cells |-> Asked(b), by |-> b]
  BY <1>1, <1>2 DEF Makes, NextFree
<1>3. ASSUME NEW b \in Requests, NEW u \in Ids, Edits(b, u)
      PROVE  \/ templates'[t] = templates[t]
             \/ /\ Edits(b, t) /\ templates[t].state = "live"
                /\ templates'[t] = [templates[t] EXCEPT !.cells = Asked(b)]
  BY <1>1, <1>3 DEF Edits, Live
<1>4. ASSUME NEW u \in Ids, Deletes(u)
      PROVE  \/ templates'[t] = templates[t]
             \/ /\ ~HasRacks(t) /\ templates[t].state = "live"
                /\ templates'[t] = [templates[t] EXCEPT !.state = "deleted"]
  BY <1>1, <1>4 DEF Deletes, Live
<1>5. ASSUME NEW b \in Requests, Racks(b) PROVE templates'[t] = templates[t]
  BY <1>5 DEF Racks
<1> QED BY <1>2, <1>3, <1>4, <1>5, ServiceStep

\* An author stays, and so does a template that was made.
LEMMA IdsStep ==
  ASSUME AccountableInv, IdsInv, [Next]_vars PROVE IdsInv'
<1>0. TypeOK /\ templates \in [Ids -> Template]
  BY DEF AccountableInv, TypeOK
<1>1. ASSUME NEW t \in Ids, templates'[t].by # NoOne
      PROVE  templates'[t].state # "free" /\ <<templates'[t].by, "Create">> \in done'
  <2>1. ASSUME templates'[t].by = templates[t].by,
               templates[t].state # "free" => templates'[t].state # "free"
        PROVE  templates'[t].state # "free" /\ <<templates'[t].by, "Create">> \in done'
    <3>1. templates[t].state # "free" /\ <<templates[t].by, "Create">> \in done
      BY <1>1, <2>1 DEF IdsInv
    <3>2. templates[t].by \in Requests
      BY <1>0, <1>1, <2>1 DEF Template
    <3>3. <<templates[t].by, "Create">> \in done'
      BY <1>0, <3>1, <3>2, Started, Stays DEF Ops
    <3> QED BY <2>1, <3>1, <3>3
  <2>2. ASSUME NEW b \in Requests, Makes(b, t),
               templates'[t] = [state |-> "live", cells |-> Asked(b), by |-> b]
        PROVE  templates'[t].state # "free" /\ <<templates'[t].by, "Create">> \in done'
    BY <2>2 DEF Makes
  <2>3. ASSUME NEW c, templates'[t] = [templates[t] EXCEPT !.cells = c]
        PROVE  templates'[t].by = templates[t].by /\ templates'[t].state = templates[t].state
    BY <1>0, <2>3 DEF Template
  <2>4. ASSUME templates'[t] = [templates[t] EXCEPT !.state = "deleted"]
        PROVE  templates'[t].by = templates[t].by /\ templates'[t].state # "free"
    BY <1>0, <2>4 DEF Template
  <2> QED BY <1>0, <2>1, <2>2, <2>3, <2>4, OneTemplate
<1>2. ASSUME NEW t \in Ids, NEW u \in Ids, templates'[t].state = "free", t < u
      PROVE  templates'[u].state = "free"
  <2>1. ASSUME NEW x \in Ids, templates'[x].state = "free" PROVE templates[x].state = "free"
    BY <1>0, <2>1, OneTemplate DEF Template
  <2>2. templates[t].state = "free" /\ templates[u].state = "free"
    BY <1>2, <2>1 DEF IdsInv
  <2>3. CASE \E b \in Requests : Makes(b, u)
    BY <1>2, <2>2, <2>3 DEF Makes, NextFree
  <2>4. CASE templates'[u] = templates[u]
    BY <2>2, <2>4
  <2> QED BY <1>0, <2>2, <2>3, <2>4, OneTemplate
<1> QED BY <1>1, <1>2 DEF IdsInv

-----------------------------------------------------------------------------
(* What the wizard chose is what it asked for *)

LEMMA AskedStays ==
  ASSUME TypeOK, [Next]_vars, NEW r \in Requests, pc[r] # "idle"
  PROVE  Asked(r)' = Asked(r) /\ (Wizard(r)' <=> Wizard(r))
<1>1. input'[r] = input[r]
  BY Stays
<1> QED BY <1>1 DEF Asked, cellsToDto, Wizard

LEMMA AlongsideStays ==
  ASSUME AccountableInv, [Next]_vars, NEW r \in Requests, pc[r] # "idle", NEW t,
         EditedAlongside(r, t)
  PROVE  EditedAlongside(r, t)'
<1>1. PICK q \in Requests : Edited(q, t) /\ Concurrent(q, r)
  BY DEF EditedAlongside
<1>2. Edited(q, t)' /\ TypeOK /\ pc[q] # "idle"
  BY <1>1, EditedStays
<1>3. Concurrent(q, r)'
  BY <1>1, <1>2, ConcurrentStays
<1> QED BY <1>2, <1>3 DEF EditedAlongside

\* An edit while r has something left to do, or of a template without a rack.
LEMMA AsAskedStays ==
  ASSUME AccountableInv, OverInv, [Next]_vars, NEW r \in Requests, pc[r] # "idle",
         NEW t, AsAsked(r, t), Active(r) \/ HasRacks(t)
  PROVE  AsAsked(r, t)'
<1>0. TypeOK /\ t \in Ids /\ templates[t] \in Template /\ templates[t].state # "free"
  BY DEF AccountableInv, TypeOK, AsAsked
<1>1. Asked(r)' = Asked(r)
  BY <1>0, AskedStays
<1>2. CASE templates'[t] = templates[t]
  BY <1>0, <1>1, <1>2, AlongsideStays DEF AsAsked
<1>3. CASE templates'[t] = [templates[t] EXCEPT !.state = "deleted"]
  <2>1. templates'[t].state # "free" /\ templates'[t].cells = templates[t].cells
    BY <1>0, <1>3 DEF Template
  <2> QED BY <1>0, <1>1, <2>1, AlongsideStays DEF AsAsked
<1>4. ASSUME NEW b \in Requests, Edits(b, t), templates[t].state = "live",
             templates'[t] = [templates[t] EXCEPT !.cells = Asked(b)]
      PROVE  AsAsked(r, t)'
  <2>1. Active(b) /\ Active(r) /\ Edited(b, t)'
    BY <1>4 DEF Edits, Active, InFlight, Ops
  <2>2. Concurrent(b, r) /\ pc[b] # "idle"
    BY <2>1, ActiveConcurrent, ActiveBegun
  <2>3. Concurrent(b, r)'
    BY <1>0, <2>2, ConcurrentStays
  <2>4. templates'[t].state # "free"
    BY <1>0, <1>4 DEF Template
  <2> QED BY <1>0, <2>1, <2>3, <2>4 DEF AsAsked, EditedAlongside
<1> QED BY <1>0, <1>2, <1>3, <1>4, OneTemplate

\* The answers of the payment service.
Fresh(r) ==
    \E t \in Ids : /\ rpc'[r] = OK(t, Asked(r))
                   /\ templates'[t].state = "live" /\ templates'[t].cells = Asked(r)

LEMMA FreshAnswer ==
  ASSUME TypeOK, NEW r \in Requests, PaymentService(r),
         pc[r] \in {"Find", "Create"}, rpc'[r].at = "ok"
  PROVE  rpc'[r] = rpc[r] \/ Fresh(r)
<1>1. ASSUME NEW op, NEW x, Reply(r, op, x)
      PROVE  rpc'[r] = rpc[r] \/ (pc[r] = op /\ rpc'[r] = x)
  BY <1>1 DEF Reply, TypeOK
<1>2. ASSUME NEW t \in Matches(Asked(r)), Execute(r, "Find", OK(t, templates[t].cells)),
             UNCHANGED service
      PROVE  rpc'[r] = rpc[r] \/ Fresh(r)
  BY <1>1, <1>2 DEF Execute, Matches, Live, Fresh, service
<1>3. ASSUME Execute(r, "Find", [at |-> "none"])
      PROVE  rpc'[r] = rpc[r]
  BY <1>1, <1>3 DEF Execute
<1>4. CASE ServeFind(r)
  BY <1>2, <1>3, <1>4 DEF ServeFind
<1>5. CASE ServeCreate(r)
  <2>1. PICK t \in Ids : /\ Execute(r, "Create", OK(t, Asked(r)))
                         /\ templates' = [templates EXCEPT ![t] =
                               [state |-> "live", cells |-> Asked(r), by |-> r]]
    BY <1>5 DEF ServeCreate
  <2>2. templates'[t].state = "live" /\ templates'[t].cells = Asked(r)
    BY <2>1 DEF TypeOK
  <2> QED BY <1>1, <2>1, <2>2 DEF Execute, Fresh
<1>6. CASE ServeUpdate(r)
  BY <1>1, <1>6 DEF ServeUpdate, Execute
<1>7. CASE ServeDelete(r)
  BY <1>1, <1>7 DEF ServeDelete, Execute
<1>8. CASE ServeRack(r)
  BY <1>1, <1>8 DEF ServeRack, Execute
<1>9. ASSUME NEW op \in Ops, Reject(r, op) PROVE rpc'[r] = rpc[r]
  BY <1>1, <1>9 DEF Reject
<1>10. ASSUME NEW op \in Ops, Lose(r, op) PROVE rpc'[r] = rpc[r]
  BY <1>10 DEF Lose, goroutine
<1> QED BY <1>4, <1>5, <1>6, <1>7, <1>8, <1>9, <1>10 DEF PaymentService

\* Where an answer, and what is passed on, may come from.
LEMMA ChoiceStep ==
  ASSUME TypeOK, [Next]_vars, NEW r \in Requests, pc[r] # "idle"
  PROVE  /\ HasAnswer(r)' => (HasAnswer(r) /\ rpc'[r] = rpc[r]) \/ Fresh(r)
         /\ HasChosen(r)' =>
              \/ HasChosen(r) /\ chosen'[r] = chosen[r]
              \/ HasAnswer(r) /\ chosen'[r] = [id |-> rpc[r].id, groups |-> rpc[r].groups]
<1>1. ~\E i \in Inputs : Begin(r, i)
  BY DEF Begin
<1>2. ASSUME UNCHANGED <<wire, chosen, rpc>>, pc'[r] = "ended"
      PROVE  ~HasAnswer(r)' /\ (HasChosen(r)' => HasChosen(r)) /\ chosen'[r] = chosen[r]
  BY <1>2 DEF HasAnswer, HasChosen
<1>3. CASE Send(r)
  <2>1. /\ pc' = pc /\ rpc'[r] = Sent /\ chosen' = chosen
        /\ wire' = wire \cup {<<r, pc[r]>>}
    BY <1>3 DEF Send, TypeOK
  <2>2. ~HasAnswer(r)'
    BY <2>1 DEF HasAnswer, Sent
  <2>3. HasChosen(r)' => HasChosen(r)
    BY <2>1 DEF HasChosen
  <2> QED BY <2>1, <2>2, <2>3
<1>4. CASE Found(r) \/ Created(r)
  <2>1. /\ HasAnswer(r) /\ pc'[r] = "Rack"
        /\ chosen'[r] = [id |-> rpc[r].id, groups |-> rpc[r].groups]
    BY <1>4 DEF Found, Created, HasAnswer, GoTo, Choose, TypeOK
  <2> QED BY <2>1 DEF HasAnswer
<1>5. CASE NoMatch(r)
  <2>1. pc'[r] = "Create" /\ rpc'[r] = Ready /\ chosen' = chosen /\ wire' = wire
    BY <1>5 DEF NoMatch, GoTo, TypeOK
  <2>2. ~HasAnswer(r)'
    BY <2>1 DEF HasAnswer, Ready
  <2>3. HasChosen(r)' => HasChosen(r)
    BY <2>1 DEF HasChosen
  <2> QED BY <2>1, <2>2, <2>3
<1>6. CASE PaymentService(r)
  <2>1. PICK op \in Ops : /\ wire' = wire \ {<<r, op>>} /\ UNCHANGED <<pc, chosen>>
                          /\ \/ rpc' = rpc
                             \/ pc[r] = op /\ rpc[r] = Sent
    BY <1>6, ServiceShape
  <2>2. (HasChosen(r)' => HasChosen(r)) /\ chosen'[r] = chosen[r]
    BY <2>1 DEF HasChosen
  <2>3. HasAnswer(r)' => rpc'[r] = rpc[r] \/ Fresh(r)
    BY <1>6, <2>1, FreshAnswer DEF HasAnswer
  <2>4. HasAnswer(r)' /\ rpc'[r] = rpc[r] => HasAnswer(r)
    BY <2>1 DEF HasAnswer
  <2> QED BY <2>2, <2>3, <2>4
<1>7. CASE Elsewhere(r)
  BY <1>7 DEF Elsewhere, HasAnswer, HasChosen
<1>8. CASE Goroutine(r) \/ Fail(r)
  BY <1>2, <1>3, <1>4, <1>5, <1>8, GoroutineShape DEF Ended
<1> QED BY <1>1, <1>6, <1>7, <1>8, Moves

\* A request that has not begun has nothing yet.
LEMMA BeginChoice ==
  ASSUME AccountableInv, [Next]_vars, NEW r \in Requests, pc[r] = "idle"
  PROVE  /\ \A op \in Ops : <<r, op>> \notin wire' \cup done'
         /\ Wizard(r)' => ~HasAnswer(r)' /\ pc'[r] \in {"idle", "Find", "ended"}
         /\ pc'[r] \in Ops => rpc'[r] = Ready
         /\ pc'[r] = "ended" => told'[r] # "ok"
<1>0. TypeOK /\ \A op \in Ops : <<r, op>> \notin wire \cup done
  BY DEF AccountableInv, Accountable
<1>1. CASE Elsewhere(r)
  BY <1>0, <1>1 DEF Elsewhere, Wizard, HasAnswer, Ops
<1>2. ASSUME NEW i \in Inputs, Begin(r, i)
      PROVE  /\ \A op \in Ops : <<r, op>> \notin wire' \cup done'
             /\ Wizard(r)' => ~HasAnswer(r)' /\ pc'[r] \in {"idle", "Find", "ended"}
             /\ pc'[r] \in Ops => rpc'[r] = Ready
             /\ pc'[r] = "ended" => told'[r] # "ok"
  <2>1. input'[r] = i /\ wire' = wire /\ done' = done
    BY <1>0, <1>2 DEF Begin, TypeOK
  <2>2. Ready.at # "ok"
    BY DEF Ready
  <2>3. /\ Wizard(r)' => pc'[r] \in {"Find", "ended"}
        /\ pc'[r] = "ended" => told'[r] # "ok"
        /\ pc'[r] \in Ops => rpc'[r] = Ready
    BY <1>0, <1>2, <2>1, PricingAssumption DEF Begin, FirstCall, GoTo, End, Wizard, TypeOK, Ops, Input
  <2> QED BY <1>0, <2>1, <2>2, <2>3 DEF HasAnswer, Ops
<1>3. ~(Goroutine(r) \/ Fail(r))
  BY <1>0, GoroutineShape DEF Ops
<1>4. ~PaymentService(r)
  BY <1>0, ServiceShape
<1> QED BY <1>0, <1>1, <1>2, <1>3, <1>4, Moves

LEMMA ChoiceKept ==
  ASSUME ChoiceInv, [Next]_vars, NEW r \in Requests PROVE Choice(r)'
<1>0. AccountableInv /\ OverInv /\ TypeOK /\ Choice(r)
  BY DEF ChoiceInv, AccountableInv
<1>1. CASE pc[r] = "idle"
  BY <1>0, <1>1, BeginChoice DEF Choice, HasChosen, Ops
<1>2. CASE pc[r] # "idle"
  <2> SUFFICES ASSUME Wizard(r)'
               PROVE  /\ HasAnswer(r)' => rpc'[r].groups = Asked(r)' /\ AsAsked(r, rpc[r].id)'
                      /\ HasChosen(r)' => chosen'[r].groups = Asked(r)' /\ AsAsked(r, chosen[r].id)'
    BY DEF Choice
  <2>1. Asked(r)' = Asked(r) /\ Wizard(r)
    BY <1>0, <1>2, AskedStays
  <2>2. ASSUME NEW t, AsAsked(r, t), Active(r) PROVE AsAsked(r, t)'
    BY <1>0, <1>2, <2>2, AsAskedStays
  <2>3. (HasAnswer(r) => Active(r)) /\ (HasChosen(r) => Active(r))
    BY DEF HasAnswer, HasChosen, Active, InFlight, Ops
  <2>4. ASSUME HasAnswer(r)
        PROVE  rpc[r].groups = Asked(r) /\ \E t : t = rpc[r].id /\ AsAsked(r, t)'
    <3>1. rpc[r].groups = Asked(r) /\ AsAsked(r, rpc[r].id)
      BY <1>0, <2>1, <2>4 DEF Choice
    <3>a. PICK t : t = rpc[r].id
      OBVIOUS
    <3>2. AsAsked(r, t)
      BY <3>1, <3>a
    <3>3. AsAsked(r, t)'
      BY <2>2, <2>3, <2>4, <3>2
    <3> QED BY <3>1, <3>3, <3>a
  <2>5. ASSUME HasChosen(r)
        PROVE  chosen[r].groups = Asked(r) /\ \E t : t = chosen[r].id /\ AsAsked(r, t)'
    <3>1. chosen[r].groups = Asked(r) /\ AsAsked(r, chosen[r].id)
      BY <1>0, <2>1, <2>5 DEF Choice
    <3>a. PICK t : t = chosen[r].id
      OBVIOUS
    <3>2. AsAsked(r, t)
      BY <3>1, <3>a
    <3>3. AsAsked(r, t)'
      BY <2>2, <2>3, <2>5, <3>2
    <3> QED BY <3>1, <3>3, <3>a
  <2>6. ASSUME Fresh(r) PROVE rpc'[r].groups = Asked(r) /\ AsAsked(r, rpc[r].id)'
    BY <2>1, <2>6 DEF Fresh, OK, AsAsked
  <2>7. ASSUME NEW t, AsAsked(r, t)', rpc'[r].id = t PROVE AsAsked(r, rpc[r].id)'
    BY <2>7 DEF AsAsked, EditedAlongside
  <2>8. ASSUME NEW t, AsAsked(r, t)', chosen'[r].id = t PROVE AsAsked(r, chosen[r].id)'
    BY <2>8 DEF AsAsked, EditedAlongside
  <2>9. ASSUME HasAnswer(r)' PROVE rpc'[r].groups = Asked(r) /\ AsAsked(r, rpc[r].id)'
    <3>1. CASE HasAnswer(r) /\ rpc'[r] = rpc[r]
      <4>1. PICK t : t = rpc[r].id /\ AsAsked(r, t)'
        BY <2>4, <3>1
      <4> QED BY <2>4, <2>7, <3>1, <4>1
    <3> QED BY <1>0, <1>2, <2>6, <2>9, <3>1, ChoiceStep
  <2>10. ASSUME HasChosen(r)' PROVE chosen'[r].groups = Asked(r) /\ AsAsked(r, chosen[r].id)'
    <3>1. CASE HasChosen(r) /\ chosen'[r] = chosen[r]
      <4>1. PICK t : t = chosen[r].id /\ AsAsked(r, t)'
        BY <2>5, <3>1
      <4> QED BY <2>5, <2>8, <3>1, <4>1
    <3>2. CASE HasAnswer(r) /\ chosen'[r] = [id |-> rpc[r].id, groups |-> rpc[r].groups]
      <4>1. PICK t : t = rpc[r].id /\ AsAsked(r, t)'
        BY <2>4, <3>2
      <4> QED BY <2>4, <2>8, <3>2, <4>1
    <3> QED BY <1>0, <1>2, <2>10, <3>1, <3>2, ChoiceStep
  <2> QED BY <2>1, <2>9, <2>10
<1> QED BY <1>1, <1>2

LEMMA RacksStep ==
  ASSUME ChoiceInv, [Next]_vars PROVE RacksInv'
<1>0. AccountableInv /\ OverInv /\ RacksInv /\ TypeOK
  BY DEF ChoiceInv, AccountableInv
<1>1. ASSUME NEW k \in racks
      PROVE  /\ <<k.by, "Rack">> \in done'
             /\ Wizard(k.by)' => k.groups = Asked(k.by)' /\ AsAsked(k.by, k.template)'
  <2>1. k.by \in Requests /\ <<k.by, "Rack">> \in done /\ HasRacks(k.template)
    BY <1>0 DEF RacksInv, TypeOK, HasRacks
  <2>2. pc[k.by] # "idle" /\ <<k.by, "Rack">> \in done'
    BY <1>0, <2>1, Started, Stays DEF Ops
  <2>3. Asked(k.by)' = Asked(k.by) /\ (Wizard(k.by)' <=> Wizard(k.by))
    BY <1>0, <2>1, <2>2, AskedStays
  <2>4. ASSUME Wizard(k.by) PROVE k.groups = Asked(k.by) /\ AsAsked(k.by, k.template)'
    <3>1. k.groups = Asked(k.by) /\ AsAsked(k.by, k.template)
      BY <1>0, <2>4 DEF RacksInv
    <3> QED BY <1>0, <2>1, <2>2, <3>1, AsAskedStays
  <2> QED BY <2>2, <2>3, <2>4
<1>2. ASSUME NEW b \in Requests, Racks(b),
             NEW k, k = [by |-> b, template |-> chosen[b].id, groups |-> chosen[b].groups]
      PROVE  /\ <<k.by, "Rack">> \in done'
             /\ Wizard(k.by)' => k.groups = Asked(k.by)' /\ AsAsked(k.by, k.template)'
  <2>1. HasChosen(b) /\ Active(b) /\ <<b, "Rack">> \in done'
    BY <1>2 DEF Racks, HasChosen, Active, InFlight, Ops
  <2>2. pc[b] # "idle"
    BY <1>0, <2>1, ActiveBegun
  <2>3. Asked(b)' = Asked(b) /\ (Wizard(b)' <=> Wizard(b))
    BY <1>0, <2>2, AskedStays
  <2>4. ASSUME Wizard(b) PROVE k.groups = Asked(b) /\ AsAsked(b, k.template)'
    <3>1. k.groups = Asked(b) /\ AsAsked(b, k.template)
      BY <1>2, <2>1, <2>4 DEF ChoiceInv, Choice
    <3> QED BY <1>0, <2>1, <2>2, <3>1, AsAskedStays
  <2> QED BY <1>2, <2>1, <2>3, <2>4
<1>3. racks' = racks \/ \E b \in Requests : Racks(b)
  BY <1>0, ServiceStep DEF Makes, Edits, Deletes
<1>4. CASE racks' = racks
  BY <1>1, <1>4 DEF RacksInv
<1>5. ASSUME NEW b \in Requests, Racks(b) PROVE RacksInv'
  <2>1. \A k \in racks' : \/ k \in racks
                          \/ k = [by |-> b, template |-> chosen[b].id, groups |-> chosen[b].groups]
    BY <1>5 DEF Racks
  <2> QED BY <1>1, <1>2, <1>5, <2>1 DEF RacksInv
<1> QED BY <1>3, <1>4, <1>5

LEMMA ChoiceInit == Init => ChoiceInv
<1> SUFFICES ASSUME Init PROVE ChoiceInv
  OBVIOUS
<1>1. PICK cells \in Stocked \cup {{}} :
          templates = [t \in Ids |-> IF t = 1 /\ cells # {}
                                     THEN [state |-> "live", cells |-> cells, by |-> NoOne]
                                     ELSE Free]
  BY DEF Init
<1>2. IdsInv
  <2>1. \A t \in Ids : templates[t].by = NoOne
    BY <1>1 DEF Free
  <2>2. \A t \in Ids : t # 1 => templates[t].state = "free"
    BY <1>1 DEF Free
  <2>3. \A t \in Ids, u \in Ids : t < u => u # 1
    BY PricingAssumption DEF Ids
  <2> QED BY <2>1, <2>2, <2>3 DEF IdsInv
<1>3. OverInv /\ RacksInv
  BY DEF Init, OverInv, RacksInv
<1>4. \A r \in Requests : Choice(r)
  BY DEF Init, Choice, HasAnswer, HasChosen
<1> QED BY <1>2, <1>3, <1>4, AccountableInit DEF ChoiceInv

LEMMA ChoiceInvStep == ChoiceInv /\ [Next]_vars => ChoiceInv'
<1> SUFFICES ASSUME ChoiceInv, [Next]_vars PROVE ChoiceInv'
  OBVIOUS
<1>1. AccountableInv /\ OverInv /\ IdsInv /\ TypeOK
  BY DEF ChoiceInv, AccountableInv
<1>2. AccountableInv' /\ OverInv' /\ IdsInv'
  BY <1>1, PricingProgress, OverStep, IdsStep
<1>3. RacksInv' /\ \A r \in Requests : Choice(r)'
  BY RacksStep, ChoiceKept
<1> QED BY <1>2, <1>3 DEF ChoiceInv

LEMMA ChoiceAlways == Spec => []ChoiceInv
  BY ChoiceInit, ChoiceInvStep, PTL DEF Spec

\* A rack of the wizard is sold at the prices asked for, whatever the other
\* requests do between the finding of its template and its creation: only an
\* edit alongside the request can change them, and none once the rack exists
\* (pricing_template_helpers.go:29-54, schema.resolvers.go:161-174).
THEOREM SoldAsAsked == Spec => []RackAsAsked
<1>1. ChoiceInv => RackAsAsked
  <2> SUFFICES ASSUME ChoiceInv, NEW k \in racks, Wizard(k.by)
               PROVE  /\ k.groups = Asked(k.by)
                      /\ \/ templates[k.template].cells = k.groups
                         \/ \E q \in Requests : Edited(q, k.template) /\ Concurrent(q, k.by)
    BY DEF RackAsAsked
  <2>1. k.groups = Asked(k.by) /\ AsAsked(k.by, k.template)
    BY DEF ChoiceInv, RacksInv
  <2> QED BY <2>1 DEF AsAsked, EditedAlongside
<1> QED BY <1>1, ChoiceAlways, PTL

-----------------------------------------------------------------------------
(* What the wizard did not find *)

NoneFound(r) == ServeFind(r) /\ Matches(Asked(r)) = {}

LEMMA NoneAnswer ==
  ASSUME TypeOK, NEW r \in Requests, PaymentService(r), rpc'[r].at = "none"
  PROVE  rpc'[r] = rpc[r] \/ NoneFound(r)
<1>1. ASSUME NEW op, NEW x, Reply(r, op, x), x.at # "none"
      PROVE  rpc'[r] = rpc[r]
  BY <1>1 DEF Reply, TypeOK
<1>2. \A id, groups : OK(id, groups).at # "none"
  BY DEF OK
<1>3. ASSUME NEW op, NEW id, NEW groups, Execute(r, op, OK(id, groups)) PROVE rpc'[r] = rpc[r]
  BY <1>1, <1>2, <1>3 DEF Execute
<1>4. CASE ServeFind(r)
  BY <1>3, <1>4 DEF ServeFind, NoneFound
<1>5. CASE ServeCreate(r)
  BY <1>3, <1>5 DEF ServeCreate
<1>6. CASE ServeUpdate(r)
  BY <1>3, <1>6 DEF ServeUpdate
<1>7. CASE ServeDelete(r)
  BY <1>3, <1>7 DEF ServeDelete
<1>8. CASE ServeRack(r)
  BY <1>3, <1>8 DEF ServeRack
<1>9. ASSUME NEW op \in Ops, Reject(r, op) PROVE rpc'[r] = rpc[r]
  BY <1>1, <1>9 DEF Reject
<1>10. ASSUME NEW op \in Ops, Lose(r, op) PROVE rpc'[r] = rpc[r]
  BY <1>10 DEF Lose, goroutine
<1> QED BY <1>4, <1>5, <1>6, <1>7, <1>8, <1>9, <1>10 DEF PaymentService

LEMMA SearchedFrom ==
  ASSUME TypeOK, [Next]_vars, NEW r \in Requests, pc[r] # "idle", HasSearched(r)'
  PROVE  HasSearched(r) \/ NoneFound(r)
<1>1. ~\E i \in Inputs : Begin(r, i)
  BY DEF Begin
<1>2. ASSUME NEW e, Ended(r, e) PROVE HasSearched(r)
  BY <1>2 DEF Ended, HasSearched
<1>3. CASE Send(r)
  <2>1. pc' = pc /\ rpc'[r] = Sent /\ wire' = wire \cup {<<r, pc[r]>>}
    BY <1>3 DEF Send, TypeOK
  <2> QED BY <2>1 DEF HasSearched, Sent
<1>4. CASE Found(r) \/ Created(r)
  <2>1. pc'[r] = "Rack" /\ wire' = wire
    BY <1>4 DEF Found, Created, GoTo, TypeOK
  <2> QED BY <2>1 DEF HasSearched
<1>5. CASE NoMatch(r)
  BY <1>5 DEF NoMatch, HasSearched
<1>6. CASE PaymentService(r)
  <2>1. PICK op \in Ops : wire' = wire \ {<<r, op>>} /\ UNCHANGED pc
    BY <1>6, ServiceShape
  <2>2. rpc'[r].at = "none" => rpc'[r] = rpc[r] \/ NoneFound(r)
    BY <1>6, NoneAnswer
  <2> QED BY <2>1, <2>2 DEF HasSearched
<1>7. CASE Elsewhere(r)
  BY <1>7 DEF Elsewhere, HasSearched
<1>8. CASE Goroutine(r) \/ Fail(r)
  BY <1>2, <1>3, <1>4, <1>5, <1>8, GoroutineShape
<1> QED BY <1>1, <1>6, <1>7, <1>8, Moves

LEMMA SearchedKept ==
  ASSUME TwinsInv, [Next]_vars, NEW r \in Requests PROVE Searched(r)'
<1>0. /\ AccountableInv /\ OverInv /\ IdsInv /\ TypeOK /\ Searched(r)
      /\ templates \in [Ids -> Template]
  BY DEF TwinsInv, ChoiceInv, AccountableInv, TypeOK
<1> SUFFICES ASSUME Wizard(r)', HasSearched(r)', NEW t \in Ids, Live(t)',
                    templates'[t].cells = Asked(r)'
             PROVE  \/ templates'[t].by # NoOne /\ Concurrent(templates[t].by, r)'
                    \/ \E q \in Requests : Edited(q, t)'
  BY DEF Searched, Unseen
<1>1. pc[r] # "idle"
  <2>1. ASSUME pc[r] = "idle" PROVE ~HasSearched(r)'
    <3>1. /\ <<r, "Create">> \notin wire' /\ pc'[r] # "Create"
          /\ pc'[r] = "Find" => rpc'[r] = Ready
      BY <1>0, <2>1, BeginChoice DEF Ops
    <3> QED BY <3>1 DEF HasSearched, Ready
  <2> QED BY <2>1
<1>2. Asked(r)' = Asked(r) /\ Wizard(r)
  BY <1>0, <1>1, AskedStays
<1>3. CASE HasSearched(r)
  <2>1. Active(r)
    BY <1>3 DEF HasSearched, Active, InFlight, Ops
  <2>2. ASSUME Live(t), templates[t].cells = Asked(r),
               templates'[t].by = templates[t].by
        PROVE  \/ templates'[t].by # NoOne /\ Concurrent(templates[t].by, r)'
               \/ \E q \in Requests : Edited(q, t)'
    <3>1. CASE templates[t].by # NoOne /\ Concurrent(templates[t].by, r)
      <4>1. PICK b : b = templates[t].by
        OBVIOUS
      <4>2. b \in Requests /\ <<b, "Create">> \in done
        BY <1>0, <3>1, <4>1 DEF IdsInv, Template
      <4>3. pc[b] # "idle"
        BY <1>0, <4>2, Started DEF Ops
      <4>4. Concurrent(b, r)'
        BY <1>0, <1>1, <3>1, <4>1, <4>2, <4>3, ConcurrentStays
      <4>5. templates'[t].by = b
        BY <2>2, <4>1
      <4> QED BY <3>1, <4>1, <4>4, <4>5 DEF Concurrent
    <3>2. CASE \E q \in Requests : Edited(q, t)
      BY <1>0, <3>2, EditedStays
    <3> QED BY <1>0, <1>2, <1>3, <2>2, <3>1, <3>2 DEF Searched, Unseen
  <2>3. ASSUME NEW b \in Requests, Makes(b, t), templates'[t].by = b
        PROVE  templates'[t].by # NoOne /\ Concurrent(templates[t].by, r)'
    <3>1. Active(b)
      BY <2>3 DEF Makes, Active, InFlight, Ops
    <3>2. Concurrent(b, r)'
      BY <1>0, <1>1, <2>1, <3>1, ActiveConcurrent, ActiveBegun, ConcurrentStays
    <3> QED BY <2>3, <3>2, PricingAssumption DEF Concurrent
  <2>4. ASSUME NEW b \in Requests, Edits(b, t) PROVE \E q \in Requests : Edited(q, t)'
    BY <2>4 DEF Edits
  <2>5. templates'[t] # [templates[t] EXCEPT !.state = "deleted"]
    BY <1>0 DEF Live, Template
  <2>6. CASE templates'[t] = templates[t]
    BY <1>2, <2>2, <2>6 DEF Live
  <2>7. CASE \E b \in Requests :
                /\ Makes(b, t) /\ templates'[t] = [state |-> "live", cells |-> Asked(b), by |-> b]
    BY <2>3, <2>7
  <2>8. CASE \E b \in Requests : Edits(b, t)
    BY <2>4, <2>8
  <2> QED BY <1>0, <2>5, <2>6, <2>7, <2>8, OneTemplate
<1>4. CASE ~HasSearched(r)
  <2>1. NoneFound(r)
    BY <1>0, <1>1, <1>4, SearchedFrom
  <2> QED BY <1>2, <2>1 DEF NoneFound, ServeFind, service, Matches, Live
<1> QED BY <1>3, <1>4

LEMMA TwinsStep == TwinsInv /\ [Next]_vars => TwinsInv'
<1> SUFFICES ASSUME TwinsInv, [Next]_vars PROVE TwinsInv'
  OBVIOUS
<1>0. /\ AccountableInv /\ OverInv /\ IdsInv /\ TypeOK
      /\ templates \in [Ids -> Template]
  BY DEF TwinsInv, ChoiceInv, AccountableInv, TypeOK
<1>1. ASSUME NEW t \in Ids, NEW u \in Ids, t < u, Live(t)', Live(u)',
             templates'[t].cells = templates'[u].cells,
             NEW r, r = templates'[u].by, r # NoOne, Wizard(r)'
      PROVE  \/ templates'[t].by # NoOne /\ Concurrent(templates[t].by, r)'
             \/ \E q \in Requests : Edited(q, t)' \/ Edited(q, u)'
  <2>1. ASSUME NEW c \in Requests, templates[t].by # NoOne, pc[c] # "idle",
               Concurrent(templates[t].by, c), templates'[t] = templates[t]
        PROVE  templates'[t].by # NoOne /\ Concurrent(templates[t].by, c)'
    <3>1. PICK b : b = templates[t].by
      OBVIOUS
    <3>2. b \in Requests /\ <<b, "Create">> \in done
      BY <1>0, <2>1, <3>1 DEF IdsInv, Template
    <3>3. pc[b] # "idle"
      BY <1>0, <3>2, Started DEF Ops
    <3>4. Concurrent(b, c)'
      BY <1>0, <2>1, <3>1, <3>2, <3>3, ConcurrentStays
    <3> QED BY <2>1, <3>1, <3>4 DEF Concurrent
  <2>2. ASSUME NEW b \in Requests, Makes(b, u),
               templates'[u] = [state |-> "live", cells |-> Asked(b), by |-> b]
        PROVE  \/ templates'[t].by # NoOne /\ Concurrent(templates[t].by, r)'
               \/ \E q \in Requests : Edited(q, t)'
    <3>1. r = b /\ templates'[t] = templates[t] /\ HasSearched(b) /\ pc[b] # "idle"
      <4>1. t # u
        BY <1>1, PricingAssumption DEF Ids
      <4>2. pc[b] # "idle"
        BY <1>0, <2>2, Started DEF Makes, Ops
      <4> QED BY <1>0, <1>1, <2>2, <4>1, <4>2 DEF Makes, HasSearched
    <3>2. Wizard(b)
      BY <1>0, <1>1, <3>1, AskedStays
    <3>3. Live(t) /\ templates[t].cells = Asked(b)
      BY <1>1, <2>2, <3>1 DEF Live
    <3>4. \/ templates[t].by # NoOne /\ Concurrent(templates[t].by, b)
          \/ \E q \in Requests : Edited(q, t)
      BY <3>1, <3>2, <3>3 DEF TwinsInv, Searched, Unseen
    <3>5. CASE \E q \in Requests : Edited(q, t)
      BY <1>0, <3>5, EditedStays
    <3> QED BY <2>1, <3>1, <3>4, <3>5
  <2>3. CASE \E b \in Requests : Edits(b, t) \/ Edits(b, u)
    BY <2>3 DEF Edits
  <2>4. /\ templates'[t] # [templates[t] EXCEPT !.state = "deleted"]
        /\ templates'[u] # [templates[u] EXCEPT !.state = "deleted"]
    BY <1>0, <1>1 DEF Live, Template
  <2>5. CASE templates'[u] = templates[u]
    <3>1. r \in Requests /\ <<r, "Create">> \in done /\ Live(u) /\ templates[u].by = r
      BY <1>0, <1>1, <2>5 DEF IdsInv, Template, Live
    <3>2. pc[r] # "idle"
      BY <1>0, <3>1, Started DEF Ops
    <3>3. Wizard(r)
      BY <1>0, <1>1, <3>1, <3>2, AskedStays
    <3>4. \A b \in Requests : ~Makes(b, t)
      BY <1>0, <1>1, <3>1 DEF Makes, NextFree, IdsInv, Live
    <3>5. CASE templates'[t] = templates[t]
      <4>1. Live(t) /\ templates[t].cells = templates[u].cells
        BY <1>1, <2>5, <3>5 DEF Live
      <4>2. \/ templates[t].by # NoOne /\ Concurrent(templates[t].by, r)
            \/ \E q \in Requests : Edited(q, t) \/ Edited(q, u)
        BY <1>1, <3>1, <3>3, <4>1 DEF TwinsInv, NoRepeatedTemplate
      <4>3. CASE \E q \in Requests : Edited(q, t) \/ Edited(q, u)
        BY <1>0, <4>3, EditedStays
      <4> QED BY <2>1, <3>1, <3>2, <3>5, <4>2, <4>3
    <3> QED BY <1>0, <2>3, <2>4, <3>4, <3>5, OneTemplate
  <2> QED BY <1>0, <2>2, <2>3, <2>4, <2>5, OneTemplate
<1>2. NoRepeatedTemplate'
  BY <1>1 DEF NoRepeatedTemplate
<1>3. ChoiceInv' /\ \A r \in Requests : Searched(r)'
  BY ChoiceInvStep, SearchedKept DEF TwinsInv
<1> QED BY <1>2, <1>3 DEF TwinsInv

LEMMA Unauthored == Init => \A t \in Ids : templates[t].by = NoOne
<1> SUFFICES ASSUME Init PROVE \A t \in Ids : templates[t].by = NoOne
  OBVIOUS
<1>1. PICK cells \in Stocked \cup {{}} :
          templates = [t \in Ids |-> IF t = 1 /\ cells # {}
                                     THEN [state |-> "live", cells |-> cells, by |-> NoOne]
                                     ELSE Free]
  BY DEF Init
<1> QED BY <1>1 DEF Free

LEMMA TwinsInit == Init => TwinsInv
<1> SUFFICES ASSUME Init PROVE TwinsInv
  OBVIOUS
<1>1. ChoiceInv
  BY ChoiceInit
<1>2. \A r \in Requests : Searched(r)
  BY DEF Init, Searched, HasSearched
<1>3. \A t \in Ids : templates[t].by = NoOne
  BY Unauthored
<1>4. NoRepeatedTemplate
  BY <1>3 DEF NoRepeatedTemplate
<1> QED BY <1>1, <1>2, <1>4 DEF TwinsInv

\* What the wizard searches for and does not find it creates; a twin is due to
\* somebody who was at work at the same time, or to an edit, however many
\* requests there are (pricing_template_helpers.go:29-54).
THEOREM TwinsExplained == Spec => []NoRepeatedTemplate
<1>1. TwinsInv => NoRepeatedTemplate
  BY DEF TwinsInv
<1> QED BY <1>1, TwinsInit, TwinsStep, PTL DEF Spec

-----------------------------------------------------------------------------
(* No template is left behind unnoticed *)

LEMMA OnceMadeKept ==
  ASSUME AccountableInv, [Next]_vars, NEW r \in Requests, OnceMade(r) PROVE OnceMade(r)'
<1>0. TypeOK /\ Accountable(r)
  BY DEF AccountableInv
<1>1. CASE pc[r] = "idle"
  <2>1. <<r, "Create">> \notin wire' \cup done'
    BY <1>1, BeginChoice DEF Ops
  <2> QED BY <2>1 DEF OnceMade
<1>2. CASE Elsewhere(r)
  BY <1>2 DEF Elsewhere, OnceMade
<1>3. ASSUME NEW e, Ended(r, e), pc[r] \in Ops, Alone(r), e = "ok" => Succeeded(r)
      PROVE  OnceMade(r)'
  <2>1. wire' = wire /\ done' = done /\ pc'[r] = "ended" /\ told'[r] = e
    BY <1>3 DEF Ended, Alone
  <2>2. ASSUME <<r, "Create">> \in wire PROVE <<r, "Create">> \notin done /\ e # "ok"
    <3>1. /\ <<r, "Create">> \notin done
          /\ pc[r] = "Create" /\ rpc[r] = Sent
      BY <1>3, <2>2 DEF OnceMade, Ops
    <3> QED BY <1>3, <3>1 DEF Succeeded, Sent
  <2> QED BY <2>1, <2>2 DEF OnceMade
<1>4. CASE Send(r)
  <2>1. /\ pc' = pc /\ rpc'[r] = Sent /\ done' = done /\ wire' = wire \cup {<<r, pc[r]>>}
        /\ pc[r] \in Ops /\ rpc[r] = Ready
    BY <1>0, <1>4 DEF Send, TypeOK, AtCall
  <2>2. <<r, "Create">> \notin wire
    BY <2>1 DEF OnceMade, Ready, Sent, Ops
  <2>3. <<r, "Create">> \in wire' => pc[r] = "Create"
    BY <2>1, <2>2
  <2>4. pc[r] \in {"Find", "Create"} => <<r, "Create">> \notin done
    BY <2>1 DEF OnceMade, Ready
  <2>5. Sent.at # "ready"
    BY DEF Sent
  <2> QED BY <2>1, <2>3, <2>4, <2>5 DEF OnceMade
<1>5. CASE Found(r) \/ NoMatch(r) \/ Created(r)
  <2>1. /\ wire' = wire /\ done' = done
        /\ pc[r] \in {"Find", "Create"} /\ rpc[r].at \in {"ok", "none"}
    BY <1>5 DEF Found, NoMatch, Created
  <2>2. pc'[r] = "Rack" \/ (pc[r] = "Find" /\ pc'[r] = "Create")
    BY <1>0, <1>5 DEF Found, NoMatch, Created, GoTo, TypeOK
  <2>3. <<r, "Create">> \notin wire
    BY <2>1 DEF OnceMade, Sent
  <2> QED BY <2>1, <2>2, <2>3 DEF OnceMade
<1>6. CASE PaymentService(r)
  <2>1. PICK op \in Ops :
            /\ <<r, op>> \in wire /\ wire' = wire \ {<<r, op>>}
            /\ UNCHANGED <<pc, told>>
            /\ done' = done \/ done' = done \cup {<<r, op>>}
            /\ \/ rpc' = rpc
               \/ /\ pc[r] = op /\ rpc[r] = Sent
                  /\ \E x : x.at # "ready" /\ rpc' = [rpc EXCEPT ![r] = x]
    BY <1>0, <1>6, ServiceShape
  <2>2. rpc'[r] = rpc[r] \/ (pc[r] = op /\ rpc'[r].at # "ready")
    BY <1>0, <2>1 DEF TypeOK
  <2>3. CASE op = "Create"
    <3>1. <<r, "Create">> \notin wire' /\ pc[r] # "Find"
      BY <2>1, <2>3 DEF OnceMade
    <3>2. ~(pc[r] = "Create" /\ rpc'[r].at = "ready")
      BY <2>1, <2>2, <2>3 DEF OnceMade, Sent
    <3> QED BY <2>1, <3>1, <3>2 DEF OnceMade
  <2>4. CASE op # "Create"
    <3>1. /\ <<r, "Create">> \in wire' <=> <<r, "Create">> \in wire
          /\ <<r, "Create">> \in done' <=> <<r, "Create">> \in done
      BY <2>1, <2>4
    <3>2. pc[r] = "Create" => rpc'[r] = rpc[r]
      BY <2>2, <2>4
    <3> QED BY <2>1, <3>1, <3>2 DEF OnceMade
  <2> QED BY <2>3, <2>4
<1>7. CASE Goroutine(r) \/ Fail(r)
  BY <1>0, <1>3, <1>4, <1>5, <1>7, GoroutineShape
<1> QED BY <1>0, <1>1, <1>2, <1>6, <1>7, Moves DEF Begin

\* Who executes the creation of a rack adds the rack.
LEMMA RackDone ==
  ASSUME TypeOK, [Next]_vars, NEW r \in Requests, <<r, "Rack">> \in done' \ done
  PROVE  Racks(r) /\ chosen' = chosen
<1>1. ~UNCHANGED vars
  BY DEF vars
<1>2. \A b \in Requests : ~\E i \in Inputs : Begin(b, i)
  BY DEF Begin
<1>3. \A b \in Requests : ~(Goroutine(b) \/ Fail(b))
  <2> SUFFICES ASSUME NEW b \in Requests, Goroutine(b) \/ Fail(b) PROVE FALSE
    OBVIOUS
  <2>1. Alone(b)
    BY GoroutineShape
  <2> QED BY <2>1 DEF Alone
<1>4. PICK b \in Requests : PaymentService(b)
  BY <1>1, <1>2, <1>3 DEF Next
<1>5. ~(ServeFind(b) \/ ServeCreate(b) \/ ServeUpdate(b) \/ ServeDelete(b))
  BY DEF ServeFind, ServeCreate, ServeUpdate, ServeDelete, Execute
<1>6. ~\E op \in Ops : Reject(b, op) \/ Lose(b, op)
  BY DEF Reject, Lose
<1>7. ServeRack(b)
  BY <1>4, <1>5, <1>6 DEF PaymentService
<1>8. b = r
  BY <1>7 DEF ServeRack, Execute
<1> QED BY <1>7, <1>8 DEF ServeRack, Racks, Execute, Reply

\* What it knows of the template it made it knows after a step.
LEMMA KnowsKept ==
  ASSUME AccountableInv, [Next]_vars, NEW r \in Requests, OnceMade(r), pc[r] # "idle",
         <<r, "Create">> \in done, NEW t, Knows(r, t)
  PROVE  Knows(r, t)'
<1>0. TypeOK /\ Accountable(r) /\ (Wizard(r)' <=> Wizard(r)) /\ pc[r] # "Find"
  BY AskedStays DEF AccountableInv, OnceMade
<1>1. CASE Elsewhere(r)
  BY <1>0, <1>1 DEF Elsewhere, Knows
<1>2. ASSUME NEW e, Ended(r, e), e = "ok" => Succeeded(r) PROVE Knows(r, t)'
  <2>1. pc'[r] = "ended" /\ told'[r] = e /\ chosen' = chosen
    BY <1>2 DEF Ended
  <2>2. e = "ok" /\ Wizard(r) => pc[r] = "Rack"
    BY <1>2 DEF Succeeded, Wizard
  <2> QED BY <1>0, <2>1, <2>2 DEF Knows
<1>3. CASE Send(r)
  <2>1. pc' = pc /\ rpc'[r] = Sent /\ told' = told /\ chosen' = chosen
    BY <1>0, <1>3 DEF Send, TypeOK
  <2> QED BY <1>0, <2>1 DEF Knows, Sent
<1>4. CASE Created(r)
  <2>1. /\ pc[r] = "Create" /\ rpc[r].at = "ok" /\ pc'[r] = "Rack"
        /\ chosen'[r].id = rpc[r].id
    BY <1>0, <1>4 DEF Created, GoTo, Choose, TypeOK
  <2> QED BY <2>1 DEF Knows
<1>5. CASE PaymentService(r)
  <2>1. PICK op \in Ops : /\ <<r, op>> \in wire
                          /\ UNCHANGED <<pc, told, chosen>>
                          /\ rpc' = rpc \/ pc[r] = op
    BY <1>0, <1>5, ServiceShape
  <2>2. op # "Create"
    BY <2>1 DEF OnceMade
  <2> QED BY <1>0, <2>1, <2>2 DEF Knows
<1>6. CASE Goroutine(r) \/ Fail(r)
  <2>1. ~(Found(r) \/ NoMatch(r))
    BY <1>0 DEF Found, NoMatch
  <2> QED BY <1>0, <1>2, <1>3, <1>4, <1>6, <2>1, GoroutineShape
<1> QED BY <1>0, <1>1, <1>5, <1>6, Moves DEF Begin

LEMMA OrphansInit == Init => OrphansInv
<1> SUFFICES ASSUME Init PROVE OrphansInv
  OBVIOUS
<1>1. /\ \A t \in Ids : templates[t].by = NoOne
      /\ ChoiceInv /\ NoOne \notin Requests
  BY Unauthored, ChoiceInit, PricingAssumption
<1>2. wire = {} /\ done = {}
  BY DEF Init
<1>3. \A r \in Requests : OnceMade(r)
  BY <1>2 DEF OnceMade
<1>4. \A r \in Requests : Linked(r)
  BY <1>1, <1>2 DEF Linked
<1> QED BY <1>1, <1>3, <1>4 DEF OrphansInv

\* Where an author comes from.
LEMMA AuthorStep ==
  ASSUME TypeOK, [Next]_vars, NEW t \in Ids
  PROVE  \/ templates'[t].by = templates[t].by
         \/ \E b \in Requests : Makes(b, t) /\ templates'[t].by = b
<1>1. templates[t] \in Template
  BY DEF TypeOK
<1>2. ASSUME NEW c, templates'[t] = [templates[t] EXCEPT !.cells = c]
      PROVE  templates'[t].by = templates[t].by
  BY <1>1, <1>2 DEF Template
<1>3. ASSUME templates'[t] = [templates[t] EXCEPT !.state = "deleted"]
      PROVE  templates'[t].by = templates[t].by
  BY <1>1, <1>3 DEF Template
<1>4. ASSUME NEW b \in Requests, Makes(b, t),
             templates'[t] = [state |-> "live", cells |-> Asked(b), by |-> b]
      PROVE  Makes(b, t) /\ templates'[t].by = b
  BY <1>4
<1> QED BY <1>2, <1>3, <1>4, OneTemplate

LEMMA LinkedKept ==
  ASSUME OrphansInv, [Next]_vars, NEW r \in Requests PROVE Linked(r)'
<1>0. /\ AccountableInv /\ TypeOK /\ Accountable(r) /\ IdsInv /\ IdsInv'
      /\ OnceMade(r) /\ Linked(r)
  BY IdsStep DEF OrphansInv, ChoiceInv, AccountableInv
<1>1. CASE pc[r] = "idle"
  <2>1. <<r, "Create">> \notin done' /\ <<r, "Rack">> \notin done'
    BY <1>0, <1>1, BeginChoice DEF Ops
  <2>2. \A t \in Ids : templates'[t].by # r
    BY <1>0, <2>1, PricingAssumption DEF IdsInv
  <2> QED BY <2>1, <2>2 DEF Linked
<1>2. CASE pc[r] # "idle"
  <2>0. Wizard(r)' <=> Wizard(r)
    BY <1>0, <1>2, AskedStays
  <2>1. ASSUME NEW t \in Ids, templates'[t].by = r PROVE Knows(r, t)'
    <3>1. CASE templates[t].by = r
      <4>1. <<r, "Create">> \in done
        BY <1>0, <3>1, PricingAssumption DEF IdsInv
      <4>2. Knows(r, t)
        BY <1>0, <3>1 DEF Linked, Knows
      <4> QED BY <1>0, <1>2, <4>1, <4>2, KnowsKept
    <3>2. CASE Makes(r, t)
      <4>1. /\ UNCHANGED <<pc, told, chosen>>
            /\ rpc' = IF pc[r] = "Create" /\ rpc[r] = Sent
                      THEN [rpc EXCEPT ![r] = OK(t, Asked(r))] ELSE rpc
            /\ \/ pc[r] = "Create" /\ rpc[r] = Sent
               \/ pc[r] = "ended" /\ told[r] # "ok"
        BY <1>0, <3>2 DEF Makes, OnceMade
      <4>2. CASE pc[r] = "ended" /\ told[r] # "ok"
        BY <4>1, <4>2 DEF Knows
      <4>3. CASE pc[r] = "Create" /\ rpc[r] = Sent
        <5>1. told[r] = ""
          BY <1>0, <4>3 DEF Accountable
        <5>2. rpc'[r].id = t
          BY <1>0, <4>1, <4>3 DEF OK, TypeOK
        <5> QED BY <4>1, <4>3, <5>1, <5>2 DEF Knows
      <4> QED BY <4>1, <4>2, <4>3
    <3> QED BY <1>0, <2>1, <3>1, <3>2, AuthorStep
  <2>2. ASSUME Wizard(r), <<r, "Rack">> \in done
        PROVE  \E k \in racks' : k.by = r /\ k.template = chosen'[r].id
    <3>1. PICK k \in racks : k.by = r /\ k.template = chosen[r].id
      BY <1>0, <2>2 DEF Linked
    <3>2. racks \subseteq racks'
      BY <1>0, ServiceStep DEF Makes, Edits, Deletes, Racks
    <3>3. chosen'[r] = chosen[r]
      <4>1. ~(Found(r) \/ Created(r))
        BY <1>0, <2>2 DEF Found, Created, Accountable, Last, Wizard, Ops
      <4>2. CASE Goroutine(r) \/ Fail(r)
        BY <1>0, <4>1, <4>2, GoroutineShape DEF Ended, Send, NoMatch
      <4>3. CASE PaymentService(r)
        BY <1>0, <4>3, ServiceShape
      <4>4. CASE Elsewhere(r)
        BY <4>4 DEF Elsewhere
      <4> QED BY <1>0, <1>2, <4>2, <4>3, <4>4, Moves DEF Begin
    <3> QED BY <3>1, <3>2, <3>3
  <2>3. ASSUME <<r, "Rack">> \in done' \ done
        PROVE  \E k \in racks' : k.by = r /\ k.template = chosen'[r].id
    <3>1. /\ racks' = racks \cup {[by |-> r, template |-> chosen[r].id, groups |-> chosen[r].groups]}
          /\ chosen' = chosen
      BY <1>0, <2>3, RackDone DEF Racks
    <3>2. PICK k : k = [by |-> r, template |-> chosen[r].id, groups |-> chosen[r].groups]
      OBVIOUS
    <3>3. k \in racks' /\ k.by = r /\ k.template = chosen'[r].id
      BY <3>1, <3>2
    <3> QED BY <3>3
  <2> QED BY <2>0, <2>1, <2>2, <2>3 DEF Linked, Knows
<1> QED BY <1>1, <1>2

LEMMA OrphansStep == OrphansInv /\ [Next]_vars => OrphansInv'
<1> SUFFICES ASSUME OrphansInv, [Next]_vars PROVE OrphansInv'
  OBVIOUS
<1>0. AccountableInv /\ TypeOK /\ IdsInv
  BY DEF OrphansInv, ChoiceInv, AccountableInv
<1>1. ChoiceInv'
  BY ChoiceInvStep DEF OrphansInv
<1>2. \A r \in Requests : OnceMade(r)'
  BY <1>0, OnceMadeKept DEF OrphansInv
<1>3. \A r \in Requests : Linked(r)'
  BY LinkedKept
<1>4. ASSUME NEW t \in Ids, NEW u \in Ids, templates'[t].by = templates'[u].by,
             templates'[t].by # NoOne
      PROVE  t = u
  <2>1. ASSUME NEW b \in Requests, NEW x \in Ids, NEW y \in Ids, Makes(b, x), x # y
        PROVE  templates'[y].by = templates[y].by /\ templates[y].by # b
    <3>1. templates'[y] = templates[y]
      BY <1>0, <2>1 DEF Makes, TypeOK
    <3>2. <<b, "Create">> \notin done
      BY <2>1 DEF Makes, OrphansInv, OnceMade
    <3> QED BY <1>0, <2>1, <3>1, <3>2, PricingAssumption DEF IdsInv
  <2>2. CASE templates'[t].by = templates[t].by /\ templates'[u].by = templates[u].by
    BY <1>4, <2>2 DEF OrphansInv
  <2>3. ASSUME NEW b \in Requests, Makes(b, t), templates'[t].by = b PROVE t = u
    BY <1>4, <2>1, <2>3
  <2>4. ASSUME NEW b \in Requests, Makes(b, u), templates'[u].by = b PROVE t = u
    BY <1>4, <2>1, <2>4
  <2> QED BY <1>0, <2>2, <2>3, <2>4, AuthorStep
<1> QED BY <1>1, <1>2, <1>3, <1>4 DEF OrphansInv

\* No template is left behind without its author knowing of it: a request makes
\* one at most, and a wizard that was told "ok" has a rack on the one it made
\* (pricing_template_helpers.go:50-54, schema.resolvers.go:170-174).
THEOREM NoSilentOrphan == Spec => []OrphanAccounted
<1>1. OrphansInv => OrphanAccounted
  <2> SUFFICES ASSUME OrphansInv, NEW t \in Ids, templates[t].by # NoOne
               PROVE  LET r == templates[t].by IN
                      /\ \A u \in Ids : templates[u].by = r => u = t
                      /\ \/ ~Wizard(r) \/ told[r] # "ok"
                         \/ \E k \in racks : k.by = r /\ k.template = t
    BY DEF OrphanAccounted
  <2>1. PICK r : r = templates[t].by
    OBVIOUS
  <2>2. r \in Requests
    BY <2>1 DEF OrphansInv, ChoiceInv, AccountableInv, TypeOK, Template
  <2>3. \A u \in Ids : templates[u].by = r => u = t
    BY <2>1 DEF OrphansInv
  <2>4. ASSUME Wizard(r), told[r] = "ok" PROVE \E k \in racks : k.by = r /\ k.template = t
    <3>1. <<r, "Rack">> \in done
      BY <2>2, <2>4 DEF OrphansInv, ChoiceInv, AccountableInv, Accountable, Last, Wizard
    <3> QED BY <2>1, <2>2, <2>4, <3>1 DEF OrphansInv, Linked, Knows
  <2> QED BY <2>1, <2>3, <2>4
<1> QED BY <1>1, OrphansInit, OrphansStep, PTL DEF Spec
=============================================================================
