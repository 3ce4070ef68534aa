------------------------- MODULE RequestAnswers_proofs -------------------------
(***************************************************************************)
(* Proofs about what RequestPipeline answers: an administrator's history,  *)
(* the orders of its bookings, and that no mapper and no null loses part   *)
(* of a message.                                                           *)
(***************************************************************************)
EXTENDS RequestPipeline_proofs, WellFoundedInduction, FiniteSetTheorems

-----------------------------------------------------------------------------
(* Counting *)

Below == {ss \in Nat \X Nat : ss[1] < ss[2]}

\* Induction, without an operator for a parameter: a set of naturals has a
\* least element.
LEMMA LeastNumber ==
    ASSUME NEW T \in SUBSET Nat, T # {}
    PROVE  \E x \in T : \A y \in T : x <= y
<1>1. IsWellFoundedOn(Below, Nat)
  BY NatLessThanWellFounded, Zenon DEF OpToRel, Below
<1>2. PICK x \in T : \A y \in T : ~(<<y, x>> \in Below)
  BY <1>1, WFMin, Zenon
<1>3. \A y \in T : ~(y < x)
  BY <1>2 DEF Below
<1> QED
  BY <1>3

\* The last of some positions of a sequence.
LEMMA LastPosition ==
    ASSUME NEW n \in Nat, NEW S \in SUBSET (1..n), S # {}
    PROVE  Max(S) \in S /\ \A j \in S : j <= Max(S)
<1> DEFINE T == {m \in Nat : \A j \in S : j <= m}
<1>1. n \in T
  OBVIOUS
<1>2. PICK m \in T : \A k \in T : m <= k
  BY <1>1, LeastNumber, Zenon
<1>3. m \in S
  <2>1. SUFFICES ASSUME m \notin S PROVE FALSE
    OBVIOUS
  <2>2. \A j \in S : j <= m - 1
    BY <1>2, <2>1
  <2>3. PICK j \in S : j <= m - 1
    BY <2>2
  <2>4. m - 1 \in T
    BY <2>2, <2>3
  <2> QED
    BY <1>2, <2>4
<1>4. \A j \in S : m >= j
  BY <1>2
<1>5. \E x \in S : \A y \in S : x >= y
  BY <1>3, <1>4
<1>6. Max(S) \in S /\ \A y \in S : Max(S) >= y
  BY <1>5, Zenon DEF Max
<1> QED
  BY <1>6

-----------------------------------------------------------------------------
(* The booking times a payer sees *)

Units == {"hour", "day", "week", "month", "unspecified"}
TimeModel == [name : STRING, unitMeasurement : Units]

\* s is what is left of the first k times: the times at the positions at, in
\* their order, all but the admin's.
Picks(s, times, k, at) ==
    /\ at \in [DOMAIN s -> 1..k]
    /\ \A i, j \in DOMAIN s : i < j => at[i] < at[j]
    /\ \A i \in DOMAIN s : s[i] = times[at[i]] /\ times[at[i]].name # "Admin"
    /\ \A j \in 1..k : times[j].name # "Admin" => \E i \in DOMAIN s : at[i] = j

\* The loop of ForPayers over the first n times.
Loops(times, n, f) ==
    f = [i \in 0..n |-> IF i = 0 THEN <<>>
                        ELSE IF times[i].name = "Admin" THEN f[i - 1]
                        ELSE Append(f[i - 1], times[i])]

LEMMA LoopExists ==
    ASSUME NEW times, NEW n \in Nat
    PROVE  \E f : Loops(times, n, f)
<1> DEFINE T == {k \in Nat : ~\E f : Loops(times, k, f)}
<1>1. SUFFICES ASSUME n \in T PROVE FALSE
  OBVIOUS
<1>2. PICK k \in T : \A y \in T : k <= y
  BY <1>1, LeastNumber, Zenon
<1>3. CASE k = 0
  <2> DEFINE f == [i \in 0..0 |-> <<>>]
  <2>1. Loops(times, k, f)
    BY <1>3 DEF Loops
  <2> QED
    BY <1>2, <2>1
<1>4. CASE k # 0
  <2>1. k - 1 \in Nat /\ k - 1 \notin T
    BY <1>2, <1>4
  <2>2. PICK g : Loops(times, k - 1, g)
    BY <2>1
  <2> DEFINE last == IF times[k].name = "Admin" THEN g[k - 1] ELSE Append(g[k - 1], times[k])
  <2> DEFINE f == [i \in 0..k |-> IF i = k THEN last ELSE g[i]]
  <2>3. \A i \in 0..k - 1 : f[i] = g[i]
    BY <2>1
  <2>4. \A i \in 0..k - 1 :
            g[i] = IF i = 0 THEN <<>>
                   ELSE IF times[i].name = "Admin" THEN g[i - 1] ELSE Append(g[i - 1], times[i])
    BY <2>1, <2>2, Zenon DEF Loops
  <2> HIDE DEF last
  <2>5. f[k] = last /\ f[k - 1] = g[k - 1]
    BY <2>1
  <2>6. last = IF times[k].name = "Admin" THEN f[k - 1] ELSE Append(f[k - 1], times[k])
    BY <2>5 DEF last
  <2> HIDE DEF f
  <2>7. \A i \in 0..k :
            f[i] = IF i = 0 THEN <<>>
                   ELSE IF times[i].name = "Admin" THEN f[i - 1] ELSE Append(f[i - 1], times[i])
    <3> TAKE i \in 0..k
    <3>1. CASE i = k
      BY <1>4, <2>5, <2>6, <3>1
    <3>2. CASE i = 0
      BY <1>4, <2>3, <2>4, <3>2, <2>1
    <3>3. CASE i \in 1..k - 1
      <4>1. f[i] = g[i] /\ f[i - 1] = g[i - 1] /\ i # 0
        BY <2>3, <3>3
      <4> QED
        BY <2>4, <3>3, <4>1
    <3> QED
      BY <3>1, <3>2, <3>3
  <2>8. f = [i \in 0..k |-> f[i]]
    BY DEF f
  <2>9. Loops(times, k, f)
    BY <2>7, <2>8, Zenon DEF Loops
  <2> QED
    BY <1>2, <2>9
<1> QED
  BY <1>3, <1>4

\* One round of the loop: the admin's time is left out, any other one goes last.
LEMMA PicksSkip ==
    ASSUME NEW times, NEW k \in Nat \ {0}, NEW s, NEW at, Picks(s, times, k - 1, at),
           times[k].name = "Admin"
    PROVE  Picks(s, times, k, at)
<1>1. \A j \in 1..k : j # k => j \in 1..k - 1
  OBVIOUS
<1>2. 1..k - 1 \subseteq 1..k
  OBVIOUS
<1> QED
  BY <1>1, <1>2 DEF Picks

LEMMA PicksAppend ==
    ASSUME NEW times, NEW k \in Nat \ {0}, NEW s \in Seq(TimeModel), NEW at,
           Picks(s, times, k - 1, at), NEW e \in TimeModel, e = times[k], e.name # "Admin",
           NEW h, h = Append(s, e)
    PROVE  \E new : Picks(h, times, k, new)
<1>1. PICK n \in Nat : n = Len(s) /\ DOMAIN s = 1..n
  OBVIOUS
<1>2. DOMAIN h = 1..n + 1 /\ h[n + 1] = e /\ \A i \in 1..n : h[i] = s[i]
  BY <1>1
<1>3. PICK new : new = [i \in 1..n + 1 |-> IF i = n + 1 THEN k ELSE at[i]]
  OBVIOUS
<1>4. \A i \in 1..n : at[i] \in 1..k - 1
  BY <1>1 DEF Picks
<1>5. new[n + 1] = k /\ \A i \in 1..n : new[i] = at[i]
  BY <1>3
<1>6. \A i \in 1..n + 1 : i = n + 1 \/ i \in 1..n
  OBVIOUS
<1>7. new \in [DOMAIN h -> 1..k]
  <2>1. \A i \in 1..n + 1 : (IF i = n + 1 THEN k ELSE at[i]) \in 1..k
    BY <1>4, <1>6
  <2> QED
    BY <1>2, <1>3, <2>1
<1>8. \A i, j \in DOMAIN h : i < j => new[i] < new[j]
  <2> SUFFICES ASSUME NEW i \in 1..n + 1, NEW j \in 1..n + 1, i < j PROVE new[i] < new[j]
    BY <1>2
  <2>1. i \in 1..n /\ new[i] = at[i] /\ at[i] \in 1..k - 1
    BY <1>4, <1>5
  <2>2. CASE j = n + 1
    BY <1>5, <2>1, <2>2
  <2>3. CASE j \in 1..n
    BY <1>1, <1>5, <2>1, <2>3 DEF Picks
  <2> QED
    BY <1>6, <2>2, <2>3
<1>9. \A i \in DOMAIN h : h[i] = times[new[i]] /\ times[new[i]].name # "Admin"
  <2>1. \A i \in 1..n : s[i] = times[at[i]] /\ times[at[i]].name # "Admin"
    BY <1>1 DEF Picks
  <2> QED
    BY <1>2, <1>5, <1>6, <2>1
<1>10. \A j \in 1..k : times[j].name # "Admin" => \E i \in DOMAIN h : new[i] = j
  <2> SUFFICES ASSUME NEW j \in 1..k, times[j].name # "Admin"
               PROVE  \E i \in 1..n + 1 : new[i] = j
    BY <1>2
  <2>1. CASE j = k
    BY <1>5, <2>1
  <2>2. CASE j # k
    <3>1. j \in 1..k - 1
      BY <2>2
    <3>2. PICK i \in 1..n : at[i] = j
      BY <1>1, <3>1 DEF Picks
    <3> QED
      BY <1>5, <3>2
  <2> QED
    BY <2>1, <2>2
<1>11. Picks(h, times, k, new)
  BY <1>7, <1>8, <1>9, <1>10 DEF Picks
<1> QED
  BY <1>11

\* What the loop keeps, whatever the times are.
LEMMA LoopKeeps ==
    ASSUME NEW times \in Seq(TimeModel), NEW f, Loops(times, Len(times), f),
           NEW n \in 0..Len(times)
    PROVE  f[n] \in Seq(TimeModel) /\ \E at : Picks(f[n], times, n, at)
<1> DEFINE Left(k) == f[k] \in Seq(TimeModel) /\ \E at : Picks(f[k], times, k, at)
<1> DEFINE T == {k \in 0..Len(times) : ~Left(k)}
<1>1. SUFFICES ASSUME n \in T PROVE FALSE
  OBVIOUS
<1>2. T \in SUBSET Nat
  OBVIOUS
<1>3. PICK k \in T : \A y \in T : k <= y
  BY <1>1, <1>2, LeastNumber, Zenon
<1>4. f[k] = IF k = 0 THEN <<>>
             ELSE IF times[k].name = "Admin" THEN f[k - 1] ELSE Append(f[k - 1], times[k])
  BY <1>3, Zenon DEF Loops
<1>5. CASE k = 0
  <2>1. PICK none : none = <<>>
    OBVIOUS
  <2>2. none \in Seq(TimeModel) /\ DOMAIN none = {}
    BY <2>1
  <2>3. Picks(none, times, 0, [i \in {} |-> 1])
    BY <2>2 DEF Picks
  <2>4. Left(k)
    BY <1>4, <1>5, <2>1, <2>2, <2>3
  <2> QED
    BY <1>3, <2>4
<1>6. CASE k # 0
  <2>0. k \in 0..Len(times) /\ Len(times) \in Nat
    BY <1>3
  <2>1. k \in 1..Len(times) /\ k \in Nat \ {0} /\ k - 1 \in 0..Len(times) /\ ~(k <= k - 1)
    BY <1>6, <2>0
  <2>2. Left(k - 1)
    BY <1>3, <2>1, Zenon
  <2>3. PICK g, e : g = f[k - 1] /\ e = times[k]
    OBVIOUS
  <2>4. g \in Seq(TimeModel) /\ e \in TimeModel
    BY <2>1, <2>2, <2>3
  <2>5. PICK at : Picks(g, times, k - 1, at)
    BY <2>2, <2>3, Zenon
  <2>6. CASE e.name = "Admin"
    <3>1. f[k] = g
      BY <1>4, <1>6, <2>3, <2>6
    <3>2. Picks(g, times, k, at)
      BY <2>1, <2>3, <2>5, <2>6, PicksSkip
    <3>3. Left(k)
      BY <2>4, <3>1, <3>2
    <3> QED
      BY <1>3, <3>3
  <2>7. CASE e.name # "Admin"
    <3>1. PICK h : h = Append(g, e)
      OBVIOUS
    <3>2. f[k] = h
      BY <1>4, <1>6, <2>3, <2>7, <3>1
    <3>3. h \in Seq(TimeModel)
      BY <2>4, <3>1
    <3>4. \E new : Picks(h, times, k, new)
      BY <2>1, <2>3, <2>4, <2>5, <2>7, <3>1, PicksAppend
    <3>5. Left(k)
      BY <3>2, <3>3, <3>4
    <3> QED
      BY <1>3, <3>5
  <2> QED
    BY <2>6, <2>7
<1> QED
  BY <1>5, <1>6

\* A payer sees every booking time but the admin's, in order, and nothing else.
LEMMA PayersTimes ==
    ASSUME NEW times \in Seq(TimeModel)
    PROVE  /\ ForPayers(times) \in Seq(TimeModel)
           /\ \E at : Picks(ForPayers(times), times, Len(times), at)
<1> DEFINE upTo == CHOOSE f : Loops(times, Len(times), f)
<1>1. Len(times) \in Nat /\ Len(times) \in 0..Len(times)
  OBVIOUS
<1>2. Loops(times, Len(times), upTo)
  BY <1>1, LoopExists, Zenon
<1>3. ForPayers(times) = upTo[Len(times)]
  BY Zenon DEF ForPayers, Loops
<1> HIDE DEF upTo
<1>4. /\ upTo[Len(times)] \in Seq(TimeModel)
      /\ \E at : Picks(upTo[Len(times)], times, Len(times), at)
  BY <1>1, <1>2, LoopKeeps
<1> QED
  BY <1>3, <1>4

-----------------------------------------------------------------------------
(* The steps of a request, by what they do to its answer *)

History == "GetBookingPayment"
Installations == "GetInstallationsByUserEmail"
OrdersOf == "GetPurchaseOrdersByBookingIDs"
OfHistory == query.field = "getBookingPayment"

Arrives ==
    /\ pc = "idle" /\ pc' = "received"
    /\ UNCHANGED <<useMock, call, reply, scope, page, response, wire, said>>
GivesUp ==
    /\ pc' = "over" /\ response'.data = Nil
    /\ \/ pc \in {"received", "gate"}
       \/ pc = "ready" /\ InvalidArguments # {}
       \/ pc = "sent" /\ call # OrdersOf
       \/ pc = "answered" /\ StatusIsError
    /\ UNCHANGED <<useMock, query, call, reply, said>>
\* What all steps keep that go on to a next call.
GoesOn(c) ==
    /\ call' = c /\ pc' = (IF c \in Gated THEN "gate" ELSE "ready")
    /\ UNCHANGED <<useMock, query, reply, response, said>>
Opens(c) ==
    /\ pc = "received" /\ GoesOn(c)
    /\ IF OfHistory THEN /\ c \in {Installations, History} /\ (c = History => ~isAdmin)
                         /\ claims # NoClaims
       ELSE c \notin OfAdmins
AsksHistory ==
    /\ pc = "answered" /\ call = Installations /\ ~OutOfScope /\ GoesOn(History)
    /\ scope' = IF FilterIn(query.args) THEN <<Filter>> ELSE reply.installations
AsksOrders ==
    /\ pc = "answered" /\ call = History /\ GoesOn(OrdersOf)
    /\ reply.bookings \notin {Nil, <<>>} /\ page' = reply
\* The wizard.
GoesOnWithRack ==
    \/ pc = "answered" /\ call = "FindExactPricingTemplate" /\ GoesOn("CreateRackPayment")
    \/ pc = "answered" /\ call = "FindExactPricingTemplate" /\ GoesOn("CreatePricingTemplate")
    \/ /\ pc = "answered" /\ call = "CreatePricingTemplate" /\ GoesOn("CreateRackPayment")
       /\ query.field = "createRackPayment"
Admits == pc = "gate" /\ pc' = "ready"
          /\ UNCHANGED <<useMock, query, call, reply, scope, page, response, said>>
Mocking ==
    /\ pc = "ready" /\ pc' = "answered" /\ IsMocked(call) /\ reply' \in Mocks(call)
    /\ UNCHANGED <<useMock, query, call, scope, page, response, said>>
Posts ==
    /\ pc = "ready" /\ pc' = "sent" /\ ~IsMocked(call)
    /\ UNCHANGED <<useMock, query, call, reply, scope, page, response, said>>
Works == UNCHANGED <<useMock, goroutine, said>>
Hears ==
    \E m \in Sayable :
        /\ pc = "sent" /\ pc' = "answered" /\ reply' = DTO(call, m)
        /\ said' = [c \in DOMAIN said \cup {call} |-> IF c = call THEN m ELSE said[c]]
        /\ UNCHANGED <<useMock, query, call, scope, page, response>>
HearsNothing ==
    /\ pc = "sent" /\ pc' = "answered" /\ call = OrdersOf /\ reply' = [orders |-> <<>>]
    /\ UNCHANGED <<useMock, query, call, scope, page, response, said>>
\* The resolver returned v.
Returns(v) ==
    /\ pc = "answered" /\ pc' = "over" /\ ~StatusIsError
    /\ response'.status = 200 /\ response'.data = Complete(RootFields[query.field].type, v)
    /\ UNCHANGED <<useMock, query, call, reply, scope, page, said>>
Concludes ==
    call = LastCall[query.field] /\ call # History /\ Returns(Returned(call, reply))
Hides == call = Installations /\ Returns(ToBookingPaymentResponse(<<>>, 1))
ReturnsPage ==
    /\ call = History /\ reply.bookings \in {Nil, <<>>}
    /\ Returns(ToBookingPaymentResponse(<<>>, IF reply.bookings = Nil THEN 0
                                              ELSE reply.currentPage))
ReturnsHistory ==
    /\ call = OrdersOf
    /\ Returns(ToBookingPaymentResponse(Join(page.bookings, reply.orders), page.currentPage))

LEMMA GivingUp ==
    ASSUME NEW ext, FailWith(ext), UNCHANGED said,
           \/ pc \in {"received", "gate"}
           \/ pc = "ready" /\ InvalidArguments # {}
           \/ pc = "sent" /\ call # OrdersOf
           \/ pc = "answered" /\ StatusIsError
    PROVE  GivesUp
<1>1. response'.data = Nil
  BY FailWithShape
<1>2. pc' = "over" /\ UNCHANGED <<useMock, query, call, reply>>
  BY DEF FailWith, Respond
<1> QED
  BY <1>1, <1>2 DEF GivesUp

LEMMA Returning ==
    ASSUME NEW v, Usable, Return(v), UNCHANGED said
    PROVE  Returns(v)
<1> DEFINE result == Complete(RootFields[query.field].type, v)
<1>1. /\ pc' = "over" /\ UNCHANGED <<useMock, query, call, reply, scope, page>>
      /\ response' = [status |-> finalStatusCode(200, Extensions("", 0).status),
                      code |-> Extensions("", 0).code, data |-> result]
  BY DEF Return, Respond
<1>2. Extensions("", 0).status = 0
  BY DEF Extensions
<1> HIDE DEF result
<1>3. response'.status = 200 /\ response'.data = result
  BY <1>1, <1>2 DEF finalStatusCode
<1> QED
  BY <1>1, <1>3 DEF Returns, Usable, result

LEMMA EarlyMoves ==
    /\ Middlewares => Arrives \/ GivesUp
    /\ Resolvers /\ query.field \in FieldNames => GivesUp \/ \E c \in Calls : Opens(c)
<1>1. ASSUME NEW q \in Queries, Receive(q) PROVE Arrives
  BY <1>1 DEF Receive, Arrives
<1>2. ASSUME NEW ext, FailWith(ext), pc \in {"received", "gate"}, UNCHANGED <<wire, peers, said>>
      PROVE  GivesUp
  BY <1>2, GivingUp
<1>3. CASE Invalid
  <2>1. Respond(422, Extensions("GRAPHQL_VALIDATION_FAILED", 0), Nil)
        /\ pc = "received" /\ UNCHANGED said
    BY <1>3 DEF Invalid
  <2> QED
    BY <2>1 DEF Respond, GivesUp
<1>4. CASE Forbidden \/ ResolveHistoryOfNobody \/ ResolveWizardNoCells
  BY <1>2, <1>4 DEF Forbidden, ResolveHistoryOfNobody, ResolveWizardNoCells, Entered
<1>5. ASSUME NEW c \in Calls, Entered, Start(c), UNCHANGED reply,
             IF OfHistory THEN c \in {Installations, History} /\ (c = History => ~isAdmin)
             ELSE c \notin OfAdmins
      PROVE  Opens(c)
  <2>1. ASSUME OfHistory PROVE claims # NoClaims
    <3>1. root.directive.name = "auth"
      BY <2>1, ReservedTable DEF root, OfHistory, FieldNames
    <3>2. Permits(root.directive)
      BY <1>5 DEF Entered
    <3> QED
      BY <3>1, <3>2 DEF Permits, Auth
  <2> QED
    BY <1>5, <2>1 DEF Start, Entered, Opens, GoesOn
<1>6. ASSUME Resolve, query.field \in FieldNames PROVE \E c \in Calls : Opens(c)
  <2>1. LastCall[query.field] \in Calls /\ LastCall[query.field] \notin OfAdmins /\ ~OfHistory
    BY <1>6, FieldTable DEF Resolve, OfHistory
  <2>2. Entered /\ Start(LastCall[query.field]) /\ UNCHANGED reply
    BY <1>6 DEF Resolve
  <2> QED
    BY <1>5, <2>1, <2>2
<1>7. ASSUME ResolveHistoryOfAdmin PROVE Opens(Installations)
  BY <1>5, <1>7 DEF ResolveHistoryOfAdmin, Installations, History, OfHistory, Calls, Reads
<1>8. ASSUME ResolveHistory PROVE Opens(History)
  BY <1>5, <1>8 DEF ResolveHistory, Installations, History, OfHistory, Calls, Reads
<1>9. ASSUME ResolveRack PROVE Opens("CreateRackPayment")
  BY <1>5, <1>9 DEF ResolveRack, OfHistory, OfAdmins, Calls, Effects
<1>10. ASSUME ResolveWizard PROVE Opens("FindExactPricingTemplate")
  BY <1>5, <1>10 DEF ResolveWizard, OfHistory, OfAdmins, Calls, Reads
<1>11. {Installations, History, "CreateRackPayment", "FindExactPricingTemplate"} \subseteq Calls
  BY DEF Installations, History, Calls, Effects, Reads
<1> QED
  BY <1>1, <1>3, <1>4, <1>6, <1>7, <1>8, <1>9, <1>10, <1>11 DEF Middlewares, Resolvers

LEMMA CallMoves ==
    ASSUME Call
    PROVE  GivesUp \/ Admits \/ Mocking \/ Posts
<1>1. CASE Admit
  BY <1>1 DEF Admit, Admits
<1>2. ASSUME NEW err, RefusedByGate(err) PROVE GivesUp
  BY <1>2, GivingUp DEF RefusedByGate
<1>3. CASE RefusedByService
  BY <1>3, GivingUp DEF RefusedByService
<1>4. ASSUME NEW dto \in Mocks(call), AnsweredByMock(dto) PROVE Mocking
  BY <1>4 DEF AnsweredByMock, Mocking
<1>5. CASE Send
  BY <1>5 DEF Send, Posts
<1> QED
  BY <1>1, <1>2, <1>3, <1>4, <1>5 DEF Call

LEMMA PeerMoves ==
    ASSUME Peer
    PROVE  Works \/ Hears \/ HearsNothing \/ GivesUp
<1>1. ASSUME NEW c \in wire, Execute(c) PROVE Works
  BY <1>1 DEF Execute, Works
<1>2. ASSUME NEW m \in Sayable, Answer(m) PROVE Hears
  BY <1>2 DEF Answer, Hears
<1>3. ASSUME NEW code, NEW reason, pc = "sent", Failed(code, reason), UNCHANGED said
      PROVE  HearsNothing \/ GivesUp
  <2>1. CASE call = OrdersOf
    BY <1>3, <2>1 DEF Failed, HearsNothing, OrdersOf
  <2>2. CASE call # OrdersOf
    <3>1. PICK ext : FailWith(ext)
      BY <1>3, <2>2 DEF Failed, OrdersOf
    <3> QED
      BY <1>3, <2>2, <3>1, GivingUp
  <2> QED
    BY <2>1, <2>2
<1>4. ASSUME NEW code, NEW reason, RejectedByPeer(code, reason) PROVE HearsNothing \/ GivesUp
  BY <1>3, <1>4 DEF RejectedByPeer
<1>5. ASSUME NEW code, GivenUp(code) PROVE HearsNothing \/ GivesUp
  BY <1>3, <1>5 DEF GivenUp
<1> QED
  BY <1>1, <1>2, <1>4, <1>5 DEF Peer

LEMMA ContinueMoves ==
    ASSUME Continue
    PROVE  \/ GivesUp \/ Concludes \/ Hides \/ ReturnsPage \/ ReturnsHistory
           \/ AsksHistory \/ AsksOrders \/ GoesOnWithRack
<1>1. CASE ErrorStatus
  BY <1>1, GivingUp DEF ErrorStatus
<1>2. CASE Conclude
  BY <1>2, Returning DEF Conclude, Concludes, History
<1>3. CASE HideHistory
  <2>1. [bookings |-> <<>>, currentPage |-> 1] = ToBookingPaymentResponse(<<>>, 1)
    BY DEF ToBookingPaymentResponse
  <2> QED
    BY <1>3, <2>1, Returning DEF HideHistory, Hides, Installations
<1>4. CASE ReturnPage
  BY <1>4, Returning DEF ReturnPage, ReturnsPage, History
<1>5. CASE ReturnHistory
  BY <1>5, Returning DEF ReturnHistory, ReturnsHistory, OrdersOf
<1>6. CASE AskHistory
  BY <1>6 DEF AskHistory, AsksHistory, Start, GoesOn, Usable, Installations, History
<1>7. CASE AskOrders
  BY <1>7 DEF AskOrders, AsksOrders, Start, GoesOn, Usable, OrdersOf, History
<1>8. CASE TemplateFound \/ NoTemplate \/ TemplateCreated
  BY <1>8 DEF TemplateFound, NoTemplate, TemplateCreated, GoesOnWithRack, Start, GoesOn, Usable
<1> QED
  BY <1>1, <1>2, <1>3, <1>4, <1>5, <1>6, <1>7, <1>8 DEF Continue

LEMMA Moving ==
    ASSUME Good, [Next]_vars
    PROVE  \/ Arrives \/ GivesUp \/ Admits \/ Mocking \/ Posts \/ Works \/ Hears \/ HearsNothing
           \/ Concludes \/ Hides \/ ReturnsPage \/ ReturnsHistory
           \/ AsksHistory \/ AsksOrders \/ GoesOnWithRack \/ \E c \in Calls : Opens(c)
<1>1. Resolvers => query.field \in FieldNames
  <2>1. Resolvers => pc # "idle"
    BY DEF Resolvers, Resolve, ResolveHistoryOfAdmin, ResolveHistory, ResolveHistoryOfNobody,
           ResolveRack, ResolveWizard, ResolveWizardNoCells, Entered
  <2> QED
    BY <2>1 DEF Good, Asking, Asked
<1>2. UNCHANGED vars => Works
  BY DEF vars, Works
<1>3. Next \/ UNCHANGED vars
  OBVIOUS
<1> QED
  BY <1>1, <1>2, <1>3, EarlyMoves, CallMoves, PeerMoves, ContinueMoves DEF Next

-----------------------------------------------------------------------------
(* Fields that end with the message of their call *)

\* What call c, the last of field f, becomes when its message is m.
Unusable(c, m) == "response" \in DOMAIN DTO(c, m) /\ DTO(c, m).response # Nil
                      /\ DTO(c, m).response.status = 2 /\ ErrorOf(c) # ""
Final(f, c, m) == Complete(RootFields[f].type, Returned(c, DTO(c, m)))

\* The message the last call got is in the resolver's hands, or in the response.
HeardOf(f, c) ==
    c \in DOMAIN said =>
        /\ call = c
        /\ \E m \in Messages[c] :
            /\ said[c] = m /\ reply = DTO(c, m)
            /\ \/ pc = "answered"
               \/ pc = "over" /\ Unusable(c, m)
               \/ pc = "over" /\ response.status = 200 /\ response.data = Final(f, c, m)
Heard == (pc # "idle" /\ ~OfHistory) => HeardOf(query.field, LastCall[query.field])

LEMMA HeardStep ==
    ASSUME Good, Heard, [Next]_vars
    PROVE  Heard'
<1>1. ASSUME UNCHANGED query, NEW f, NEW c, f = query.field, c = LastCall[f], HeardOf(f, c)'
      PROVE  Heard'
  BY <1>1 DEF Heard
<1>2. SUFFICES ASSUME pc' # "idle", ~OfHistory' PROVE Heard'
  BY DEF Heard
<1>3. CASE Arrives
  <2>1. DOMAIN said = {} /\ said' = said
    BY <1>3 DEF Arrives, Good, Working
  <2> QED
    BY <2>1 DEF Heard, HeardOf
<1>4. CASE ~Arrives
  <2>1. UNCHANGED query /\ pc # "idle" /\ ~OfHistory
    BY <1>2, <1>4, Moving DEF GivesUp, Admits, Mocking, Posts, Works, goroutine, Hears, HearsNothing,
       Concludes, Hides, ReturnsPage, ReturnsHistory, Returns, AsksHistory, AsksOrders,
       GoesOnWithRack, Opens, GoesOn, OfHistory
  <2>2. PICK f, c : f = query.field /\ c = LastCall[f]
    OBVIOUS
  <2>3. HeardOf(f, c) /\ f \in FieldNames
    BY <2>1, <2>2 DEF Heard, Good, Asking, Asked
  <2>4. c \notin OfAdmins /\ (f = "createRackPayment" => c = "CreateRackPayment")
    BY <2>1, <2>2, <2>3, FieldTable DEF OfHistory
  <2>5. ASSUME UNCHANGED said /\ c \notin DOMAIN said
       PROVE  HeardOf(f, c)'
    BY <2>5 DEF HeardOf
  <2>6. ASSUME c \in DOMAIN said /\ pc = "answered"
       PROVE  HeardOf(f, c)'
    <3>1. PICK m \in Messages[c] : said[c] = m /\ reply = DTO(c, m) /\ call = c
      BY <2>3, <2>6 DEF HeardOf
    <3>2. call \notin OfAdmins
      BY <2>4, <3>1
    <3>3. \/ /\ pc' = "over" /\ UNCHANGED <<call, reply, said>> /\ StatusIsError
          \/ UNCHANGED <<call, reply, said, pc>>
          \/ Concludes
          \/ GoesOnWithRack
      BY <1>4, <2>6, <3>2, Moving DEF GivesUp, Admits, Mocking, Posts, Works, goroutine, Hears,
         HearsNothing, Hides, ReturnsPage, ReturnsHistory, AsksHistory, AsksOrders,
         Opens, OfAdmins, History, OrdersOf, Installations
    <3>4. CASE pc' = "over" /\ UNCHANGED <<call, reply, said>> /\ StatusIsError
      <4>1. Unusable(c, m)
        BY <3>1, <3>4 DEF StatusIsError, Unusable
      <4>2. call' = c /\ said'[c] = m /\ reply' = DTO(c, m) /\ pc' = "over"
        BY <3>1, <3>4
      <4> QED
        BY <3>1, <4>1, <4>2 DEF HeardOf
    <3>5. CASE UNCHANGED <<call, reply, said, pc>>
      <4>1. call' = c /\ said'[c] = m /\ reply' = DTO(c, m) /\ pc' = "answered"
        BY <2>6, <3>1, <3>5
      <4> QED
        BY <3>1, <4>1 DEF HeardOf
    <3>6. CASE Concludes
      <4>1. PICK r : r = reply
        OBVIOUS
      <4>2. Returns(Returned(c, r)) /\ UNCHANGED <<query, call, reply, said>>
        BY <3>1, <3>6, <4>1 DEF Concludes, Returns
      <4>3. pc' = "over" /\ response'.status = 200
            /\ response'.data = Complete(RootFields[f].type, Returned(c, r))
        BY <2>2, <4>2 DEF Returns
      <4>4. response'.data = Final(f, c, m)
        BY <3>1, <4>1, <4>3 DEF Final
      <4>5. call' = c /\ said'[c] = m /\ reply' = DTO(c, m)
        BY <3>1, <4>2
      <4> QED
        BY <3>1, <4>3, <4>4, <4>5 DEF HeardOf
    <3>7. ASSUME GoesOnWithRack PROVE FALSE
      <4>1. call \in {"FindExactPricingTemplate", "CreatePricingTemplate"}
            /\ (call = "CreatePricingTemplate" => f = "createRackPayment")
        BY <2>2, <3>7 DEF GoesOnWithRack
      <4>2. c # "FindExactPricingTemplate"
        BY <2>2, <2>3 DEF LastCall, FieldNames
      <4> QED
        BY <2>4, <3>1, <4>1, <4>2
    <3> QED
      BY <3>3, <3>4, <3>5, <3>6, <3>7
  <2>7. ASSUME c \in DOMAIN said /\ pc = "over"
       PROVE  HeardOf(f, c)'
    <3>1. UNCHANGED <<pc, call, reply, response, said>>
      BY <1>4, <2>7, Moving DEF Admits, Mocking, Posts, Works, goroutine, Hears, HearsNothing, GivesUp,
         Concludes, Hides, ReturnsPage, ReturnsHistory, Returns, AsksHistory, AsksOrders,
         GoesOnWithRack, Opens
    <3> QED
      BY <2>3, <2>7, <3>1 DEF HeardOf
  <2>8. ASSUME Hears /\ c \notin DOMAIN said
       PROVE  HeardOf(f, c)'
    <3>1. PICK m \in Sayable :
              /\ pc' = "answered" /\ reply' = DTO(call, m) /\ call' = call
              /\ said' = [x \in DOMAIN said \cup {call} |-> IF x = call THEN m ELSE said[x]]
      BY <2>8 DEF Hears
    <3>2. CASE c # call
      BY <2>8, <3>1, <3>2 DEF HeardOf
    <3>3. CASE c = call
      <4>1. m \in Messages[c]
        BY <2>4, <3>1, <3>3 DEF Sayable, OfAdmins
      <4>2. said'[c] = m /\ reply' = DTO(c, m) /\ call' = c /\ pc' = "answered"
        BY <3>1, <3>3
      <4> QED
        BY <4>1, <4>2 DEF HeardOf
    <3> QED
      BY <3>2, <3>3
  <2>9. UNCHANGED said \/ Hears
    BY Moving DEF Arrives, GivesUp, Admits, Mocking, Posts, Works, HearsNothing,
       Concludes, Hides, ReturnsPage, ReturnsHistory, Returns, AsksHistory, AsksOrders,
       GoesOnWithRack, Opens, GoesOn
  <2>10. c \in DOMAIN said => pc \in {"answered", "over"}
    BY <2>3 DEF HeardOf
  <2>11. HeardOf(f, c)'
    BY <2>5, <2>6, <2>7, <2>8, <2>9, <2>10
  <2> QED
    BY <1>1, <2>1, <2>2, <2>11
<1> QED
  BY <1>3, <1>4

LEMMA HeardAlways == Spec => []Heard
<1>1. Init => Heard
  BY DEF Init, Heard
<1> QED
  BY <1>1, HeardStep, GoodAlways, PTL DEF Spec

-----------------------------------------------------------------------------
(* The history of bookings *)

Record == [id : Int, installationName : STRING]
Order == [bookingReference : Int, oc : STRING, couponId : {Nil} \cup Int]
Pages == [bookings : {Nil} \cup Seq(Record), currentPage : Int]

LEMMA Arrangements ==
    ASSUME NEW S, IsFiniteSet(S), NEW T \in SUBSET S, NEW some \in SetToAllKPermutations(T)
    PROVE  \E n \in Nat : some \in [1..n -> T]
<1>1. PICK U \in SUBSET T : some \in SetToSeqs(U)
  BY DEF SetToAllKPermutations
<1>2. IsFiniteSet(U)
  BY FS_Subset
<1>3. Cardinality(U) \in Nat
  BY <1>2, FS_CardinalityType
<1>4. some \in [1..Cardinality(U) -> U]
  BY <1>1 DEF SetToSeqs
<1> QED
  BY <1>3, <1>4

\* booking-manager says nothing but bookings, of the scope.
LEMMA PagesSaid ==
    ASSUME NEW m \in HistoryPages
    PROVE  /\ m \in Pages
           /\ m.bookings # Nil => \A i \in DOMAIN m.bookings : InScope(m.bookings[i])
<1>1. CASE m = [bookings |-> Nil, currentPage |-> 0]
  BY <1>1 DEF Pages
<1>2. CASE m # [bookings |-> Nil, currentPage |-> 0]
  <2> DEFINE T == {b \in Bookings : InScope(b)}
  <2>1. PICK some \in SetToAllKPermutations(T) : m = [bookings |-> some, currentPage |-> 1]
    BY <1>2 DEF HistoryPages
  <2>2. IsFiniteSet(Bookings) /\ T \in SUBSET Bookings
    BY PeersAssumption
  <2>3. PICK n \in Nat : some \in [1..n -> T]
    BY <2>1, <2>2, Arrangements
  <2>4. Bookings \subseteq Record
    BY PeersAssumption DEF Record
  <2>5. some \in Seq(Record)
    BY <2>3, <2>4
  <2>6. \A i \in DOMAIN some : InScope(some[i])
    BY <2>3
  <2> QED
    BY <2>1, <2>5, <2>6 DEF Pages
<1> QED
  BY <1>1, <1>2

LEMMA OrdersSaid ==
    ASSUME NEW m \in OrderLists
    PROVE  \E o \in Seq(Order) : m = [orders |-> o]
<1> DEFINE ids == {page.bookings[i].id : i \in DOMAIN page.bookings}
           T == {o \in PurchaseOrders : o.bookingReference \in ids}
<1>1. PICK some \in SetToAllKPermutations(T) : m = [orders |-> some]
  BY DEF OrderLists
<1>2. IsFiniteSet(PurchaseOrders) /\ T \in SUBSET PurchaseOrders
  BY PeersAssumption
<1>3. PICK n \in Nat : some \in [1..n -> T]
  BY <1>1, <1>2, Arrangements
<1>4. PurchaseOrders \subseteq Order
  BY PeersAssumption DEF Order
<1>5. some \in Seq(Order)
  BY <1>3, <1>4
<1> QED
  BY <1>1, <1>5

Page(records, n) == Complete("BookingPaymentResponse", ToBookingPaymentResponse(records, n))
NoBookings(p) == p.bookings \in {Nil, <<>>}
\* The orders that were said; none if the lookup failed.
OrdersHeard(o) ==
    IF OrdersOf \in DOMAIN said THEN said[OrdersOf] = [orders |-> o] ELSE o = <<>>

\* Where page p, which booking-manager has said, is; and where none is, yet.
Kept(p) ==
    \/ /\ call = History /\ pc = "answered" /\ reply = p /\ OrdersOf \notin DOMAIN said
    \/ /\ call = OrdersOf /\ pc \in {"ready", "sent"} /\ page = p /\ ~NoBookings(p)
       /\ OrdersOf \notin DOMAIN said
    \/ /\ call = OrdersOf /\ pc = "answered" /\ page = p /\ ~NoBookings(p)
       /\ \E o \in Seq(Order) : reply = [orders |-> o] /\ OrdersHeard(o)
    \/ /\ pc = "over" /\ response.status = 200 /\ NoBookings(p)
       /\ \E n \in Int : response.data = Page(<<>>, n)
    \/ /\ pc = "over" /\ response.status = 200 /\ ~NoBookings(p)
       /\ \E o \in Seq(Order) : /\ OrdersHeard(o)
                                /\ response.data = Page(Join(p.bookings, o), p.currentPage)
NoPage ==
    /\ History \notin DOMAIN said /\ OrdersOf \notin DOMAIN said
    /\ call # OrdersOf
    /\ call = History /\ pc = "answered" => reply = mockGetBookingPayment
    /\ pc = "over" => response.data = Nil \/ \E n \in Int : response.data = Page(<<>>, n)
Tracked ==
    /\ call \in OfAdmins \cup {""}
    /\ pc = "sent" => useMock = FALSE
    /\ \/ NoPage
       \/ History \in DOMAIN said /\ \E p \in Pages : said[History] = p /\ Kept(p)
Track == (pc # "idle" /\ OfHistory) => Tracked

\* The calls of the history have no arguments to check, no status, and its
\* orders no mock.
LEMMA HistoryCalls ==
    /\ \A c \in OfAdmins : ErrorOf(c) = ""
    /\ Mocks(OrdersOf) = {} /\ Mocks(History) = {mockGetBookingPayment}
    /\ OrdersOf \notin Gated
    /\ \A args : FailedChecks(OrdersOf, args) = {}
    /\ \A m, c : c \in OfAdmins => DTO(c, m) = m
    /\ RootFields["getBookingPayment"].type = "BookingPaymentResponse"
    /\ Installations \in OfAdmins /\ History \in OfAdmins /\ OrdersOf \in OfAdmins
<1>1. \A c \in OfAdmins : ErrorOf(c) = ""
  BY DEF OfAdmins, ErrorOf
<1>2. Mocks(OrdersOf) = {} /\ Mocks(History) = {mockGetBookingPayment}
  BY DEF Mocks, OrdersOf, History
<1>3. OrdersOf \notin Gated
  BY DEF Gated, OrdersOf
<1>4. \A args : FailedChecks(OrdersOf, args) = {}
  <2>1. Checks(OrdersOf) = <<>>
    BY DEF Checks, OrdersOf
  <2>2. DOMAIN <<>> = {}
    BY SMT
  <2> QED
    BY <2>1, <2>2 DEF FailedChecks
<1>5. \A m, c : c \in OfAdmins => DTO(c, m) = m
  BY DEF OfAdmins, DTO
<1>6. RootFields["getBookingPayment"].type = "BookingPaymentResponse"
  <2>1. RootFields["getBookingPayment"] = getBookingPayment
    BY DEF RootFields
  <2> QED
    BY <2>1 DEF getBookingPayment, Field
<1>7. Installations \in OfAdmins /\ History \in OfAdmins /\ OrdersOf \in OfAdmins
  BY DEF OfAdmins, Installations, History, OrdersOf
<1> QED
  BY <1>1, <1>2, <1>3, <1>4, <1>5, <1>6, <1>7

LEMMA HistoryNeverErrs ==
    ASSUME call \in OfAdmins
    PROVE  ~StatusIsError /\ (call = OrdersOf => InvalidArguments = {})
<1>1. ~StatusIsError
  BY HistoryCalls DEF StatusIsError
<1>2. OrdersOf # "CreateRackPayment"
  BY DEF OrdersOf
<1>3. ASSUME call = OrdersOf PROVE InvalidArguments = {}
  <2>1. NoSuchTemplate = {}
    BY <1>2, <1>3 DEF NoSuchTemplate
  <2>2. FailedChecks(call, query.args) = {}
    BY <1>3, HistoryCalls
  <2> QED
    BY <2>1, <2>2 DEF InvalidArguments
<1> QED
  BY <1>1, <1>3

LEMMA PageReturned ==
    ASSUME OfHistory, NEW records, NEW n, Returns(ToBookingPaymentResponse(records, n))
    PROVE  /\ pc' = "over" /\ response'.status = 200 /\ UNCHANGED <<call, said>>
           /\ response'.data = Page(records, n)
<1>1. PICK v : v = ToBookingPaymentResponse(records, n)
  OBVIOUS
<1>2. Returns(v) /\ RootFields[query.field].type = "BookingPaymentResponse"
  BY <1>1, HistoryCalls DEF OfHistory
<1>3. response'.data = Complete("BookingPaymentResponse", v)
  BY <1>2 DEF Returns
<1> QED
  BY <1>1, <1>2, <1>3 DEF Returns, Page

\* A page that was said is followed to the response.
LEMMA KeptStep ==
    ASSUME Good, [Next]_vars, OfHistory, pc # "idle", Tracked,
           NEW p \in Pages, said[History] = p, History \in DOMAIN said, Kept(p)
    PROVE  Tracked'
<1>0. call \in OfAdmins \cup {""} /\ (pc # "over" => call \in OfAdmins)
  BY HistoryCalls DEF Kept, Tracked
<1>1. pc # "over" => /\ call \in OfAdmins /\ ~StatusIsError
                     /\ call = OrdersOf => InvalidArguments = {}
  BY <1>0, HistoryNeverErrs
<1>2. ASSUME call' \in OfAdmins \cup {""}, pc' = "sent" => useMock' = FALSE,
             History \in DOMAIN said', said'[History] = p, Kept(p)'
      PROVE  Tracked'
  BY <1>2 DEF Tracked
<1>3. CASE pc = "answered" /\ call = History
  <2>1. reply = p /\ OrdersOf \notin DOMAIN said
    BY <1>3 DEF Kept, History, OrdersOf
  <2>2. Works \/ ReturnsPage \/ AsksOrders
    BY <1>1, <1>3, Moving DEF Arrives, GivesUp, Admits, Mocking, Posts, Hears, HearsNothing,
       Concludes, Hides, ReturnsHistory, AsksHistory, GoesOnWithRack, Opens,
       History, Installations, OrdersOf
  <2>3. CASE Works
    BY <1>1, <1>2, <1>3, <2>1, <2>3 DEF Works, goroutine, Kept
  <2>4. CASE ReturnsPage
    <3>1. NoBookings(p) /\ \E n \in Int : Returns(ToBookingPaymentResponse(<<>>, n))
      BY <2>1, <2>4 DEF ReturnsPage, Pages, NoBookings
    <3>2. PICK n \in Int : /\ pc' = "over" /\ response'.status = 200 /\ UNCHANGED <<call, said>>
                           /\ response'.data = Page(<<>>, n)
      BY <3>1, PageReturned
    <3> QED
      BY <1>0, <1>2, <3>1, <3>2 DEF Kept
  <2>5. CASE AsksOrders
    <3>1. /\ call' = OrdersOf /\ pc' = "ready" /\ page' = p /\ UNCHANGED said
          /\ ~NoBookings(p)
      BY <2>1, <2>5, HistoryCalls DEF AsksOrders, GoesOn, NoBookings
    <3> QED
      BY <1>2, <2>1, <3>1, HistoryCalls DEF Kept
  <2> QED
    BY <2>2, <2>3, <2>4, <2>5
<1>4. CASE pc \in {"ready", "sent"}
  <2>1. call = OrdersOf /\ page = p /\ ~NoBookings(p) /\ OrdersOf \notin DOMAIN said
    BY <1>4 DEF Kept
  <2>2. Works \/ Posts \/ Hears \/ HearsNothing
    BY <1>1, <1>4, <2>1, HistoryCalls, Moving DEF Arrives, GivesUp, Admits, Mocking,
       Concludes, Hides, ReturnsPage, ReturnsHistory, Returns, AsksHistory, AsksOrders,
       GoesOnWithRack, Opens
  <2>3. CASE Works
    BY <1>1, <1>2, <1>4, <2>1, <2>3 DEF Works, goroutine, Kept, Tracked
  <2>4. CASE Posts
    <3>1. useMock' = FALSE
      <4>1. ~IsMocked(call) /\ UNCHANGED useMock /\ useMock \in BOOLEAN
        BY <2>4 DEF Posts, Good, Mode
      <4> QED
        BY <4>1, Zenon DEF IsMocked
    <3> QED
      BY <1>1, <1>2, <2>1, <2>4, <3>1 DEF Posts, Kept
  <2>5. CASE Hears
    <3>1. PICK m \in Sayable :
              /\ pc' = "answered" /\ reply' = DTO(call, m) /\ UNCHANGED <<call, page>>
              /\ said' = [c \in DOMAIN said \cup {call} |-> IF c = call THEN m ELSE said[c]]
      BY <2>5 DEF Hears
    <3>2. m \in OrderLists
      BY <2>1, <3>1 DEF Sayable, OrdersOf
    <3>3. PICK o \in Seq(Order) : m = [orders |-> o]
      BY <3>2, OrdersSaid
    <3>4. reply' = m
      <4>1. DTO(call, m) = m
        BY <1>1, <1>4, HistoryCalls
      <4> QED
        BY <3>1, <4>1
    <3>5. History # OrdersOf
      BY DEF History, OrdersOf
    <3>6. OrdersOf \in DOMAIN said' /\ said'[OrdersOf] = m
          /\ History \in DOMAIN said' /\ said'[History] = p
      BY <2>1, <3>1, <3>5
    <3>7. OrdersHeard(o)'
      BY <3>3, <3>6 DEF OrdersHeard
    <3>8. call' = OrdersOf /\ page' = p /\ pc' = "answered" /\ reply' = [orders |-> o]
      BY <2>1, <3>1, <3>3, <3>4
    <3>9. Kept(p)'
      BY <2>1, <3>7, <3>8 DEF Kept, OrdersHeard
    <3> QED
      BY <1>1, <1>2, <2>1, <3>1, <3>3, <3>6, <3>8, <3>9, HistoryCalls
  <2>6. CASE HearsNothing
    <3>1. pc' = "answered" /\ reply' = [orders |-> <<>>] /\ UNCHANGED <<call, page, said>>
      BY <2>6 DEF HearsNothing
    <3>2. <<>> \in Seq(Order) /\ OrdersHeard(<<>>)'
      BY <2>1, <3>1 DEF OrdersHeard
    <3> QED
      BY <1>1, <1>2, <1>4, <2>1, <3>1, <3>2 DEF Kept, OrdersHeard
  <2> QED
    BY <2>2, <2>3, <2>4, <2>5, <2>6
<1>5. CASE pc = "answered" /\ call = OrdersOf
  <2>1. page = p /\ ~NoBookings(p)
    BY <1>5 DEF Kept, History, OrdersOf
  <2>2. PICK o \in Seq(Order) : reply = [orders |-> o] /\ OrdersHeard(o)
    BY <1>5 DEF Kept, History, OrdersOf
  <2>3. Works \/ ReturnsHistory
    BY <1>1, <1>5, Moving DEF Arrives, GivesUp, Admits, Mocking, Posts, Hears, HearsNothing, OfHistory,
       Concludes, Hides, ReturnsPage, AsksHistory, AsksOrders, GoesOnWithRack, Opens, LastCall,
       History, Installations, OrdersOf
  <2>4. CASE Works
    <3>1. UNCHANGED <<pc, call, reply, page, said>>
      BY <2>4 DEF Works, goroutine
    <3>2. OrdersHeard(o)'
      BY <2>2, <3>1 DEF OrdersHeard
    <3> QED
      BY <1>1, <1>2, <1>5, <2>1, <2>2, <3>1, <3>2 DEF Kept
  <2>5. CASE ReturnsHistory
    <3>1. Returns(ToBookingPaymentResponse(Join(p.bookings, o), p.currentPage))
      BY <2>1, <2>2, <2>5 DEF ReturnsHistory
    <3>2. pc' = "over" /\ response'.status = 200 /\ UNCHANGED <<call, said>>
          /\ response'.data = Page(Join(p.bookings, o), p.currentPage)
      BY <3>1, PageReturned
    <3>3. OrdersHeard(o)'
      BY <2>2, <3>2 DEF OrdersHeard
    <3> QED
      BY <1>0, <1>2, <2>1, <3>2, <3>3 DEF Kept, OrdersHeard
  <2> QED
    BY <2>3, <2>4, <2>5
<1>6. CASE pc = "over"
  <2>1. UNCHANGED <<pc, call, response, said>>
    BY <1>6, Moving DEF Arrives, GivesUp, Admits, Mocking, Posts, Works, goroutine, Hears, HearsNothing,
       Concludes, Hides, ReturnsPage, ReturnsHistory, Returns, AsksHistory, AsksOrders,
       GoesOnWithRack, Opens
  <2>2. Kept(p)'
    <3>1. CASE NoBookings(p)
      BY <1>6, <2>1, <3>1 DEF Kept
    <3>2. CASE ~NoBookings(p)
      <4>1. PICK o \in Seq(Order) :
                OrdersHeard(o) /\ response.data = Page(Join(p.bookings, o), p.currentPage)
        BY <1>6, <3>2 DEF Kept
      <4>2. OrdersHeard(o)'
        BY <2>1, <4>1 DEF OrdersHeard
      <4>3. response.status = 200
        BY <1>6 DEF Kept
      <4> QED
        BY <1>6, <2>1, <3>2, <4>1, <4>2, <4>3 DEF Kept, OrdersHeard
    <3> QED
      BY <3>1, <3>2
  <2> QED
    BY <1>0, <1>2, <1>6, <2>1, <2>2
<1> QED
  BY <1>3, <1>4, <1>5, <1>6 DEF Kept

\* Until one is said, none is shown.
LEMMA NoPageStep ==
    ASSUME Good, [Next]_vars, OfHistory, pc # "idle", Tracked, NoPage
    PROVE  Tracked'
<1>1. /\ call \in OfAdmins \cup {""} /\ call # OrdersOf
      /\ History \notin DOMAIN said /\ OrdersOf \notin DOMAIN said
      /\ call = History /\ pc = "answered" => reply = mockGetBookingPayment
      /\ pc = "sent" => useMock = FALSE
  BY DEF Tracked, NoPage
<1>2. mockGetBookingPayment.bookings = <<>> /\ mockGetBookingPayment.currentPage = 1
  BY DEF mockGetBookingPayment
<1>3. /\ {History, Installations, OrdersOf} = OfAdmins /\ History # Installations
      /\ History # OrdersOf /\ Installations # OrdersOf
  BY DEF OfAdmins, History, Installations, OrdersOf
<1>4. ASSUME call' \in OfAdmins \cup {""}, pc' = "sent" => useMock' = FALSE, NoPage'
      PROVE  Tracked'
  BY <1>4 DEF Tracked
<1>5. CASE GivesUp
  BY <1>1, <1>4, <1>5 DEF GivesUp, NoPage
<1>6. CASE Admits \/ Works
  BY <1>1, <1>4, <1>6 DEF Admits, Works, goroutine, NoPage
<1>7. CASE Mocking
  <2>1. call = History => reply' = mockGetBookingPayment
    <3>1. reply' \in Mocks(call)
      BY <1>7 DEF Mocking
    <3> QED
      BY <3>1, HistoryCalls
  <2>2. pc' = "answered" /\ UNCHANGED <<call, said>>
    BY <1>7 DEF Mocking
  <2>3. NoPage'
    BY <1>1, <2>1, <2>2 DEF NoPage
  <2> QED
    BY <1>1, <1>4, <2>2, <2>3
<1>8. CASE Posts
  <2>1. useMock' = FALSE
    <3>1. ~IsMocked(call) /\ UNCHANGED useMock /\ useMock \in BOOLEAN
      BY <1>8 DEF Posts, Good, Mode
    <3> QED
      BY <3>1, Zenon DEF IsMocked
  <2> QED
    BY <1>1, <1>4, <1>8, <2>1 DEF Posts, NoPage
<1>9. CASE Hears
  <2>1. PICK m \in Sayable :
            /\ pc = "sent" /\ pc' = "answered" /\ reply' = DTO(call, m) /\ call' = call
            /\ said' = [c \in DOMAIN said \cup {call} |-> IF c = call THEN m ELSE said[c]]
    BY <1>9 DEF Hears
  <2>2. CASE call # History
    <3>1. NoPage'
      BY <1>1, <2>1, <2>2 DEF NoPage
    <3> QED
      BY <1>1, <1>4, <2>1, <3>1
  <2>3. CASE call = History
    <3>1. m \in HistoryPages
      BY <2>1, <2>3 DEF Sayable, History
    <3>2. m \in Pages
      BY <3>1, PagesSaid
    <3>3. OrdersOf \notin DOMAIN said
      BY DEF NoPage
    <3>4. reply' = m
      <4>1. DTO(call, m) = m
        BY <2>3, HistoryCalls
      <4> QED
        BY <2>1, <4>1
    <3>5. /\ History \in DOMAIN said' /\ said'[History] = m /\ OrdersOf \notin DOMAIN said'
          /\ pc' = "answered" /\ call' = History
      BY <1>3, <2>1, <2>3, <3>3
    <3>6. Kept(m)'
      BY <3>4, <3>5 DEF Kept
    <3> QED
      BY <1>3, <3>2, <3>5, <3>6 DEF Tracked
  <2> QED
    BY <2>2, <2>3
<1>10. CASE Hides
  <2>1. PICK n \in Int :
            /\ pc' = "over" /\ UNCHANGED <<call, said>> /\ response'.data = Page(<<>>, n)
    BY <1>10, PageReturned DEF Hides
  <2> QED
    BY <1>1, <1>4, <2>1 DEF NoPage
<1>11. CASE ReturnsPage
  <2>1. \E n \in Int : Returns(ToBookingPaymentResponse(<<>>, n))
    <3>1. pc = "answered" /\ call = History
      BY <1>11 DEF ReturnsPage, Returns
    <3>2. PICK n : n = IF reply.bookings = Nil THEN 0 ELSE reply.currentPage
      OBVIOUS
    <3>3. n \in Int
      <4>1. reply.currentPage = 1
        BY <1>1, <1>2, <3>1
      <4>2. n = 0 \/ n = 1
        BY <3>2, <4>1
      <4> QED
        BY <4>2
    <3>4. Returns(ToBookingPaymentResponse(<<>>, n))
      BY <1>11, <3>2 DEF ReturnsPage
    <3> QED
      BY <3>3, <3>4
  <2>2. PICK n \in Int :
            /\ pc' = "over" /\ UNCHANGED <<call, said>> /\ response'.data = Page(<<>>, n)
    BY <2>1, PageReturned
  <2> QED
    BY <1>1, <1>4, <2>2 DEF NoPage
<1>12. CASE AsksHistory
  BY <1>1, <1>3, <1>4, <1>12 DEF AsksHistory, GoesOn, NoPage
<1>13. ASSUME NEW c, Opens(c) PROVE Tracked'
  BY <1>1, <1>3, <1>4, <1>13 DEF Opens, GoesOn, NoPage
<1>14. ~Arrives /\ ~HearsNothing /\ ~ReturnsHistory
  BY <1>1 DEF Arrives, HearsNothing, ReturnsHistory
<1>15. ~Concludes
  BY FieldTable DEF Concludes, OfHistory, History
<1>16. ~AsksOrders
  <2>1. SUFFICES ASSUME AsksOrders PROVE FALSE
    OBVIOUS
  <2>2. reply.bookings # <<>> /\ reply = mockGetBookingPayment
    BY <1>1, <2>1 DEF AsksOrders
  <2> QED
    BY <1>2, <2>2
<1>17. ~GoesOnWithRack
  BY <1>1 DEF GoesOnWithRack, OfAdmins
<1> QED
  BY <1>5, <1>6, <1>7, <1>8, <1>9, <1>10, <1>11, <1>12, <1>13, <1>14, <1>15, <1>16, <1>17, Moving

LEMMA TrackStep ==
    ASSUME Good, Track, [Next]_vars
    PROVE  Track'
<1>1. CASE Arrives
  <2>1. DOMAIN said = {} /\ call = "" /\ call' = call /\ said' = said /\ pc' = "received"
    BY <1>1 DEF Arrives, Good, Working
  <2>2. NoPage'
    BY <2>1 DEF NoPage, OrdersOf, History
  <2> QED
    BY <2>1, <2>2 DEF Track, Tracked
<1>2. CASE ~Arrives /\ pc' # "idle" /\ OfHistory'
  <2>1. pc # "idle" /\ OfHistory
    BY <1>2, Moving DEF GivesUp, Admits, Mocking, Posts, Works, goroutine, Hears, HearsNothing,
       Concludes, Hides, ReturnsPage, ReturnsHistory, Returns, AsksHistory, AsksOrders,
       GoesOnWithRack, Opens, GoesOn, OfHistory
  <2>2. Tracked
    BY <2>1 DEF Track
  <2>3. CASE NoPage
    BY <2>1, <2>2, <2>3, NoPageStep DEF Track
  <2>4. CASE ~NoPage
    <3>1. History \in DOMAIN said /\ \E p \in Pages : said[History] = p /\ Kept(p)
      BY <2>2, <2>4 DEF Tracked
    <3> QED
      BY <2>1, <2>2, <3>1, KeptStep DEF Track
  <2> QED
    BY <2>3, <2>4
<1> QED
  BY <1>1, <1>2 DEF Track

LEMMA TrackAlways == Spec => []Track
<1>1. Init => Track
  BY DEF Init, Track
<1> QED
  BY <1>1, TrackStep, GoodAlways, PTL DEF Spec

-----------------------------------------------------------------------------
(* The history of an administrator *)

mine == Administers[query.headers.claims.email]
Scoped == Holds(query.headers, "ADMIN") /\ (mine # <<>> \/ FilterIn(query.args))

\* What is asked and said of the installations called names, and of no other.
Owned(names) ==
    /\ pc \notin {"received", "over"} => claims # NoClaims
    /\ call = Installations /\ pc = "answered" =>
           useMock = TRUE \/ reply = [installations |-> names]
    /\ call = History /\ pc \in {"gate", "ready", "sent"} =>
           useMock = TRUE \/ (scope # <<>> /\ Range(scope) \subseteq Range(names))
    /\ History \in DOMAIN said /\ said[History].bookings # Nil =>
           \A i \in DOMAIN said[History].bookings :
               said[History].bookings[i].installationName \in Range(names)
Own == (pc # "idle" /\ OfHistory /\ Scoped) => Owned(mine)

\* The claims of an administrator with an identity are those of the headers.
LEMMA AdminIsAdmin ==
    ASSUME query.headers \in Headers, Holds(query.headers, "ADMIN"), claims # NoClaims
    PROVE  isAdmin /\ claims.email = query.headers.claims.email
<1>1. claims = query.headers.claims
  BY Identify DEF claims
<1>2. query.headers.claims.permissions.parses /\ "ADMIN" \in query.headers.claims.permissions.roles
  BY Zenon DEF Holds, Identified
<1>3. "ADMIN" \in GetRoles(query.headers.claims)
  BY <1>2, Zenon DEF GetRoles
<1> QED
  BY <1>1, <1>3 DEF isAdmin, HasRole

LEMMA OwnedStep ==
    ASSUME Good, Track, [Next]_vars, OfHistory, pc # "idle", Scoped,
           NEW names, names = mine, Owned(names), UNCHANGED query
    PROVE  Owned(names)'
<1>1. query.headers \in Headers /\ UNCHANGED claims
  BY DEF Good, Asking, Asked, claims
<1>2. (names # <<>> \/ FilterIn(query.args)) /\ Holds(query.headers, "ADMIN")
  BY DEF Scoped
<1>3. /\ History # Installations /\ History # OrdersOf /\ Installations # OrdersOf
  BY DEF History, Installations, OrdersOf
<1>4. pc' \notin {"received", "over"} => claims' # NoClaims
  <2>1. ASSUME NEW c, Opens(c) PROVE claims # NoClaims
    BY <2>1 DEF Opens
  <2>2. claims # NoClaims \/ pc' \in {"received", "over"}
    BY <2>1, Moving DEF Owned, Arrives, GivesUp, Admits, Mocking, Posts, Works, goroutine, Hears,
       HearsNothing, Concludes, Hides, ReturnsPage, ReturnsHistory, Returns, AsksHistory,
       AsksOrders, GoesOnWithRack
  <2> QED
    BY <1>1, <2>2
<1>5. ASSUME call' = Installations, pc' = "answered", useMock' # TRUE
      PROVE  reply' = [installations |-> names]
  <2>1. Works \/ Mocking \/ Hears
    BY <1>3, <1>5, Moving DEF Arrives, GivesUp, Admits, Posts, HearsNothing, Concludes, Hides,
       ReturnsPage, ReturnsHistory, Returns, AsksHistory, AsksOrders, GoesOnWithRack, GoesOn, Opens
  <2>2. CASE Works
    BY <1>5, <2>2 DEF Works, goroutine, Owned
  <2>3. ASSUME Mocking PROVE FALSE
    <3>1. IsMocked(Installations) /\ useMock # TRUE /\ useMock \in BOOLEAN
      BY <1>5, <2>3 DEF Mocking, Good, Mode
    <3>2. Installations \notin AlwaysMock
      BY DEF Installations, AlwaysMock
    <3> QED
      BY <3>1, <3>2, Zenon DEF IsMocked
  <2>4. CASE Hears
    <3>1. PICK m \in Sayable : pc = "sent" /\ reply' = DTO(call, m) /\ call' = call
      BY <2>4 DEF Hears
    <3>2. claims # NoClaims
      BY <3>1 DEF Owned
    <3>3. claims.email = query.headers.claims.email
      BY <1>1, <1>2, <3>2, AdminIsAdmin
    <3>4. m = [installations |-> names]
      BY <1>5, <3>1, <3>3 DEF Sayable, Installations, mine
    <3>5. DTO(call, m) = m
      BY <1>5, <3>1, HistoryCalls
    <3> QED
      BY <3>1, <3>4, <3>5
  <2> QED
    BY <2>1, <2>2, <2>3, <2>4
<1>6. ASSUME call' = History, pc' \in {"gate", "ready", "sent"}, useMock' # TRUE
      PROVE  scope' # <<>> /\ Range(scope') \subseteq Range(names)
  <2>1. ASSUME NEW c, Opens(c) PROVE c # History
    BY <1>1, <1>2, <2>1, AdminIsAdmin DEF Opens
  <2>2. Works \/ Admits \/ Posts \/ AsksHistory
    BY <1>3, <1>6, <2>1, Moving DEF Arrives, GivesUp, Mocking, Hears, HearsNothing, Concludes, Hides,
       ReturnsPage, ReturnsHistory, Returns, AsksOrders, GoesOnWithRack, GoesOn, Opens, History
  <2>3. CASE Works \/ Admits \/ Posts
    BY <1>6, <2>3 DEF Works, goroutine, Admits, Posts, Owned
  <2>4. CASE AsksHistory
    <3>1. reply.installations = names
      <4>1. useMock # TRUE /\ pc = "answered" /\ call = Installations
        BY <1>6, <2>4 DEF AsksHistory, GoesOn
      <4>2. reply = [installations |-> names]
        BY <4>1 DEF Owned
      <4> QED
        BY <4>2
    <3>2. CASE FilterIn(query.args)
      <4>1. PICK i \in DOMAIN names : names[i] = Filter
        BY <2>4, <3>1, <3>2 DEF AsksHistory, OutOfScope
      <4>2. scope' = <<Filter>>
        BY <2>4, <3>2 DEF AsksHistory
      <4>3. scope' = <<names[i]>>
        BY <4>1, <4>2
      <4>4. scope' # <<>> /\ \A x \in DOMAIN scope' : scope'[x] = names[i]
        BY <4>3
      <4> QED
        BY <4>1, <4>4 DEF Range
    <3>3. CASE ~FilterIn(query.args)
      BY <1>2, <2>4, <3>1, <3>3 DEF AsksHistory, Range
    <3> QED
      BY <3>2, <3>3
  <2> QED
    BY <2>2, <2>3, <2>4
<1>7. ASSUME History \in DOMAIN said', said'[History].bookings # Nil
      PROVE  \A i \in DOMAIN said'[History].bookings :
                 said'[History].bookings[i].installationName \in Range(names)
  <2>1. UNCHANGED said \/ Hears
    BY Moving DEF Arrives, GivesUp, Admits, Mocking, Posts, Works, HearsNothing,
       Concludes, Hides, ReturnsPage, ReturnsHistory, Returns, AsksHistory, AsksOrders,
       GoesOnWithRack, Opens, GoesOn
  <2>2. CASE UNCHANGED said
    BY <1>7, <2>2 DEF Owned
  <2>3. CASE Hears
    <3>1. PICK m \in Sayable :
              /\ pc = "sent"
              /\ said' = [x \in DOMAIN said \cup {call} |-> IF x = call THEN m ELSE said[x]]
      BY <2>3 DEF Hears
    <3>2. CASE call # History
      <4>1. History \in DOMAIN said /\ said'[History] = said[History]
        BY <1>7, <3>1, <3>2
      <4> QED
        BY <1>7, <4>1 DEF Owned
    <3>3. CASE call = History
      <4>1. said'[History] = m
        BY <3>1, <3>3
      <4>2. m \in HistoryPages
        BY <3>1, <3>3 DEF Sayable, History
      <4>3. scope # <<>> /\ Range(scope) \subseteq Range(names)
        BY <3>1, <3>3 DEF Owned, Track, Tracked
      <4>4. \A i \in DOMAIN m.bookings : m.bookings[i].installationName \in Range(scope)
        BY <1>7, <4>1, <4>2, <4>3, PagesSaid DEF InScope
      <4> QED
        BY <4>1, <4>3, <4>4
    <3> QED
      BY <3>2, <3>3
  <2> QED
    BY <2>1, <2>2, <2>3
<1> QED
  BY <1>4, <1>5, <1>6, <1>7 DEF Owned

LEMMA OwnStep ==
    ASSUME Good, Track, Own, [Next]_vars
    PROVE  Own'
<1>1. CASE Arrives
  <2>1. DOMAIN said = {} /\ call = "" /\ call' = call /\ said' = said /\ pc' = "received"
    BY <1>1 DEF Arrives, Good, Working
  <2> QED
    BY <2>1 DEF Own, Owned, Installations, History
<1>2. CASE ~Arrives /\ pc' # "idle" /\ OfHistory' /\ Scoped'
  <2>1. pc # "idle" /\ UNCHANGED query
    BY <1>2, Moving DEF GivesUp, Admits, Mocking, Posts, Works, goroutine, Hears, HearsNothing,
       Concludes, Hides, ReturnsPage, ReturnsHistory, Returns, AsksHistory, AsksOrders,
       GoesOnWithRack, Opens, GoesOn
  <2>2. OfHistory /\ Scoped /\ UNCHANGED mine
    BY <1>2, <2>1 DEF OfHistory, Scoped, mine
  <2>3. PICK names : names = mine
    OBVIOUS
  <2>4. Owned(names)'
    BY <2>1, <2>2, <2>3, OwnedStep DEF Own
  <2> QED
    BY <2>2, <2>3, <2>4 DEF Own, Owned
<1> QED
  BY <1>1, <1>2 DEF Own

LEMMA OwnAlways == Spec => []Own
<1>1. Init => Own
  BY DEF Init, Own
<1> QED
  BY <1>1, OwnStep, TrackAlways, GoodAlways, PTL DEF Spec

-----------------------------------------------------------------------------
(* What the executor makes of a value *)

\* Go's nil is no struct, no map and no slice: the model value Nil is no function.
NilIsNoStruct == \A D, R : Nil \notin [D -> R]

LEMMA NilIsApart ==
    /\ Nil \notin Int /\ Nil \notin STRING /\ Nil \notin BOOLEAN
    /\ Nil # "scalar" /\ Nil # "" /\ Nil # "PERCENTAGE" /\ Nil # "AMOUNT"
  BY PeersAssumption

LEMMA FunctionIsNotNil ==
    ASSUME NilIsNoStruct, NEW D, NEW g, g = [x \in D |-> g[x]]
    PROVE  g # Nil
<1>1. PICK R : R = {g[x] : x \in D}
  OBVIOUS
<1>2. g \in [D -> R]
  BY <1>1
<1>3. Nil \notin [D -> R]
  BY Zenon DEF NilIsNoStruct
<1> QED
  BY <1>2, <1>3

\* A list of objects, at the top.
Listed(type, s) == CompletedList(type, s, Complete3)

\* What _T makes of field f of the struct v, at the top, and one level down.
Field3(name, v, f) ==
    IF f \notin DOMAIN v THEN "scalar"
    ELSE IF f \in DOMAIN Types[name].list THEN Listed(Types[name].list[f], v[f])
    ELSE IF f \in DOMAIN Types[name].object THEN Complete3(Types[name].object[f], v[f])
    ELSE v[f]
Fields(name) == Types[name].required \cup Types[name].nullable

LEMMA WholeObject ==
    ASSUME NilIsNoStruct, NEW name, NEW v, v # Nil,
           \A f \in Types[name].required : Field3(name, v, f) # Nil
    PROVE  /\ Complete(name, v) = [f \in Fields(name) |-> Field3(name, v, f)]
           /\ Complete(name, v) # Nil
<1>1. Complete(name, v) = [f \in Fields(name) |-> Field3(name, v, f)]
  BY Zenon DEF Complete, CompletedObject, Field3, Fields, Listed
<1>2. PICK g : g = Complete(name, v)
  OBVIOUS
<1>3. g = [f \in Fields(name) |-> g[f]]
  BY <1>1, <1>2
<1>4. g # Nil
  BY <1>3, FunctionIsNotNil
<1> QED
  BY <1>1, <1>2, <1>4

\* A struct of scalars, in a place of the top struct, or of one of its lists.
LEMMA WholeLeaf ==
    ASSUME NilIsNoStruct, NEW name, Types[name].list = <<>>, Types[name].object = <<>>,
           NEW v, v # Nil, \A f \in Types[name].required \cap DOMAIN v : v[f] # Nil,
           Nil # "scalar"
    PROVE  /\ Complete1(name, v) =
                  [f \in Fields(name) |-> IF f \notin DOMAIN v THEN "scalar" ELSE v[f]]
           /\ Complete2(name, v) = Complete1(name, v)
           /\ Complete3(name, v) = Complete1(name, v)
           /\ Complete(name, v) = Complete1(name, v)
           /\ Complete1(name, v) # Nil
<1>1. DOMAIN <<>> = {}
  BY SMT
<1> DEFINE whole == [f \in Fields(name) |-> IF f \notin DOMAIN v THEN "scalar" ELSE v[f]]
<1>2. Complete1(name, v) = whole
  BY <1>1, Zenon DEF Complete1, CompletedObject, Fields
<1>3. Complete2(name, v) = whole
  BY <1>1, Zenon DEF Complete2, CompletedObject, Fields
<1>4. Complete3(name, v) = whole
  BY <1>1, Zenon DEF Complete3, CompletedObject, Fields
<1>5. Complete(name, v) = whole
  BY <1>1, Zenon DEF Complete, CompletedObject, Fields
<1>6. PICK g : g = whole
  OBVIOUS
<1>7. g = [f \in Fields(name) |-> g[f]]
  BY <1>6
<1>8. g # Nil
  BY <1>7, FunctionIsNotNil
<1> QED
  BY <1>2, <1>3, <1>4, <1>5, <1>6, <1>8

\* No element of a list that is whole is lost.
LEMMA WholeList ==
    ASSUME NilIsNoStruct, NEW type, NEW s, \A i \in DOMAIN s : Complete3(type, s[i]) # Nil
    PROVE  /\ Listed(type, s) = [i \in DOMAIN s |-> Complete3(type, s[i])]
           /\ Listed(type, s) # Nil
<1>1. Listed(type, s) = [i \in DOMAIN s |-> Complete3(type, s[i])]
  BY Zenon DEF Listed, CompletedList
<1>2. PICK g : g = Listed(type, s)
  OBVIOUS
<1>3. g = [i \in DOMAIN s |-> g[i]]
  BY <1>1, <1>2
<1>4. g # Nil
  BY <1>3, FunctionIsNotNil
<1> QED
  BY <1>1, <1>2, <1>4

-----------------------------------------------------------------------------
(* The page of the history a client gets *)

Joined == [id : Int, installationName : STRING, purchaseOrder : {Nil} \cup Order]

LEMMA HistoryTypes ==
    /\ Types["PurchaseOrderInfo"] = PurchaseOrderInfo
    /\ Types["BookingPaymentRecord"] = BookingPaymentRecord
    /\ Types["BookingPaymentResponse"] = BookingPaymentResponse
    /\ Nil # "scalar"
<1>1. Types["PurchaseOrderInfo"] = PurchaseOrderInfo
  BY DEF Types
<1>2. Types["BookingPaymentRecord"] = BookingPaymentRecord
  BY DEF Types
<1>3. Types["BookingPaymentResponse"] = BookingPaymentResponse
  BY DEF Types
<1>4. Nil # "scalar"
  BY PeersAssumption
<1> QED
  BY <1>1, <1>2, <1>3, <1>4

LEMMA ShownOrder ==
    ASSUME NilIsNoStruct, NEW o \in Order
    PROVE  LET s == Complete2("PurchaseOrderInfo", o)
           IN s # Nil /\ s.oc = o.oc /\ s.couponId = o.couponId
<1>1. /\ Types["PurchaseOrderInfo"].list = <<>> /\ Types["PurchaseOrderInfo"].object = <<>>
      /\ {"oc", "couponId"} \subseteq Fields("PurchaseOrderInfo")
      /\ "couponId" \notin Types["PurchaseOrderInfo"].required
  BY HistoryTypes DEF PurchaseOrderInfo, Leaf, Type, None, Fields, PurchaseOrderFields
<1>2. o # Nil
  <2>1. o = [f \in {"bookingReference", "oc", "couponId"} |-> o[f]]
    BY DEF Order
  <2> QED
    BY <2>1, FunctionIsNotNil
<1>3. \A f \in Types["PurchaseOrderInfo"].required \cap DOMAIN o : o[f] # Nil
  BY <1>1, PeersAssumption DEF Order
<1>4. /\ Complete1("PurchaseOrderInfo", o) =
            [f \in Fields("PurchaseOrderInfo") |-> IF f \notin DOMAIN o THEN "scalar" ELSE o[f]]
      /\ Complete2("PurchaseOrderInfo", o) = Complete1("PurchaseOrderInfo", o)
      /\ Complete1("PurchaseOrderInfo", o) # Nil
  BY <1>1, <1>2, <1>3, HistoryTypes, WholeLeaf
<1>5. "oc" \in DOMAIN o /\ "couponId" \in DOMAIN o
  BY DEF Order
<1> QED
  BY <1>1, <1>4, <1>5

LEMMA ShownRecord ==
    ASSUME NilIsNoStruct, NEW r \in Joined
    PROVE  LET s == Complete3("BookingPaymentRecord", r)
           IN /\ s # Nil /\ s.id = r.id /\ s.installationName = r.installationName
              /\ r.purchaseOrder = Nil => s.purchaseOrder = Nil
              /\ r.purchaseOrder # Nil => /\ s.purchaseOrder # Nil
                                          /\ s.purchaseOrder.oc = r.purchaseOrder.oc
                                          /\ s.purchaseOrder.couponId = r.purchaseOrder.couponId
<1> DEFINE name == "BookingPaymentRecord"
           value == [f \in Fields(name) |->
                        IF f \notin DOMAIN r THEN "scalar"
                        ELSE IF f \in DOMAIN Types[name].list
                             THEN CompletedList(Types[name].list[f], r[f], Complete2)
                        ELSE IF f \in DOMAIN Types[name].object
                             THEN Complete2(Types[name].object[f], r[f])
                        ELSE r[f]]
<1>1. /\ Types[name].required = Booking /\ Types[name].nullable = {"purchaseOrder"}
      /\ Types[name].object = [purchaseOrder |-> "PurchaseOrderInfo"] /\ Types[name].list = <<>>
  BY HistoryTypes DEF BookingPaymentRecord, Type, None
<1>2. /\ DOMAIN Types[name].list = {} /\ DOMAIN Types[name].object = {"purchaseOrder"}
      /\ Types[name].object["purchaseOrder"] = "PurchaseOrderInfo"
      /\ DOMAIN r = {"id", "installationName", "purchaseOrder"}
      /\ {"id", "installationName", "purchaseOrder"} \subseteq Fields(name)
      /\ "purchaseOrder" \notin Booking
  BY <1>1 DEF Joined, Booking, Fields
<1>3. r # Nil
  <2>1. r = [f \in {"id", "installationName", "purchaseOrder"} |-> r[f]]
    BY DEF Joined
  <2> QED
    BY <2>1, FunctionIsNotNil
<1>4. /\ value["id"] = r["id"] /\ value["installationName"] = r["installationName"]
      /\ value["purchaseOrder"] = Complete2("PurchaseOrderInfo", r["purchaseOrder"])
      /\ \A f \in Booking : f \notin DOMAIN r => value[f] = "scalar"
  BY <1>1, <1>2 DEF Fields
<1>5. \A f \in Types[name].required : value[f] # Nil
  <2>1. r["id"] \in Int /\ r["installationName"] \in STRING
    BY DEF Joined
  <2> HIDE DEF value
  <2>2. \A f \in Booking : f \in {"id", "installationName"} \/ value[f] = "scalar"
    BY <1>2, <1>4
  <2> QED
    BY <1>1, <1>4, <2>1, <2>2, PeersAssumption, HistoryTypes
<1>6. Complete3(name, r) = value
  BY <1>3, <1>5, Zenon DEF Complete3, CompletedObject, Fields
<1>7. value # Nil
  <2>1. PICK g : g = value
    OBVIOUS
  <2>2. g = [f \in Fields(name) |-> g[f]]
    BY <2>1
  <2> QED
    BY <2>1, <2>2, FunctionIsNotNil
<1> HIDE DEF value
<1>8. ASSUME r.purchaseOrder = Nil PROVE value["purchaseOrder"] = Nil
  <2>1. Complete2("PurchaseOrderInfo", Nil) = Nil
    BY Zenon DEF Complete2, CompletedObject
  <2> QED
    BY <1>4, <1>8, <2>1
<1>9. ASSUME r.purchaseOrder # Nil
      PROVE  /\ value["purchaseOrder"] # Nil
             /\ value["purchaseOrder"].oc = r.purchaseOrder.oc
             /\ value["purchaseOrder"].couponId = r.purchaseOrder.couponId
  <2>1. PICK o : o = r.purchaseOrder
    OBVIOUS
  <2>2. o \in Order
    BY <1>9, <2>1 DEF Joined
  <2>3. value["purchaseOrder"] = Complete2("PurchaseOrderInfo", o)
    BY <1>4, <2>1
  <2> QED
    BY <2>1, <2>2, <2>3, ShownOrder
<1> QED
  BY <1>4, <1>6, <1>7, <1>8, <1>9

LEMMA ShownPage ==
    ASSUME NilIsNoStruct, NEW records \in Seq(Joined), NEW n \in Int
    PROVE  /\ Page(records, n) # Nil
           /\ Page(records, n)["bookings"] =
                  [i \in DOMAIN records |-> Complete3("BookingPaymentRecord", records[i])]
<1> DEFINE name == "BookingPaymentResponse"
<1>1. PICK v : v = ToBookingPaymentResponse(records, n)
  OBVIOUS
<1>2. v = [bookings |-> records, currentPage |-> n]
  BY <1>1 DEF ToBookingPaymentResponse
<1>3. /\ Types[name].list = [bookings |-> "BookingPaymentRecord"] /\ Types[name].object = <<>>
      /\ "bookings" \in Fields(name)
  BY HistoryTypes DEF BookingPaymentResponse, Type, None, Fields
<1>4. v # Nil
  <2>1. v = [f \in {"bookings", "currentPage"} |-> v[f]]
    BY <1>2
  <2> QED
    BY <2>1, FunctionIsNotNil
<1>5. \A i \in DOMAIN records : Complete3("BookingPaymentRecord", records[i]) # Nil
  BY ShownRecord
<1>6. /\ DOMAIN v = {"bookings", "currentPage"} /\ v["bookings"] = records /\ v["currentPage"] = n
      /\ DOMAIN Types[name].list = {"bookings"} /\ DOMAIN Types[name].object = {}
      /\ Types[name].list["bookings"] = "BookingPaymentRecord"
  BY <1>2, <1>3
<1>7. /\ Field3(name, v, "bookings") = Listed("BookingPaymentRecord", records)
      /\ Field3(name, v, "currentPage") = n
      /\ \A f : f \notin DOMAIN v => Field3(name, v, f) = "scalar"
  BY <1>6, Zenon DEF Field3
<1>8. \A f \in Types[name].required : Field3(name, v, f) # Nil
  <2>1. Listed("BookingPaymentRecord", records) # Nil
    BY <1>5, WholeList
  <2>2. \A f \in DOMAIN v : Field3(name, v, f) # Nil
    BY <1>6, <1>7, <2>1, NilIsApart
  <2> QED
    BY <1>7, <2>2, NilIsApart
<1>9. /\ Complete(name, v) = [f \in Fields(name) |-> Field3(name, v, f)]
      /\ Complete(name, v) # Nil
  BY <1>4, <1>8, WholeObject
<1>10. Complete(name, v)["bookings"] = Field3(name, v, "bookings")
  BY <1>3, <1>9
<1> QED
  BY <1>1, <1>5, <1>7, <1>9, <1>10, WholeList DEF Page

\* The orders said for a booking, by their positions.
About(o, id) == {j \in DOMAIN o : o[j].bookingReference = id}

\* What is joined to a booking: the last order said for it, or nil.
OrderFor(o, id) ==
    IF About(o, id) = {} THEN {Nil}
    ELSE {o[m] : m \in {Max(About(o, id))} \cap DOMAIN o}

\* The record of each booking, in its place, with the last order said for it.
LEMMA JoinedPage ==
    ASSUME NEW bookings \in Seq(Record), NEW o \in Seq(Order)
    PROVE  /\ Join(bookings, o) \in Seq(Joined)
           /\ DOMAIN Join(bookings, o) = DOMAIN bookings
           /\ \A i \in DOMAIN bookings :
                  /\ Join(bookings, o)[i].id = bookings[i].id
                  /\ Join(bookings, o)[i].installationName = bookings[i].installationName
                  /\ Join(bookings, o)[i].purchaseOrder \in OrderFor(o, bookings[i].id)
<1> DEFINE ids == {o[j].bookingReference : j \in DOMAIN o}
<1>1. ASSUME NEW id, About(o, id) # {} PROVE Max(About(o, id)) \in DOMAIN o
  <2>1. PICK n \in Nat : DOMAIN o = 1..n
    OBVIOUS
  <2>2. PICK S : S = About(o, id)
    OBVIOUS
  <2>3. S \in SUBSET (1..n) /\ S # {} /\ S \subseteq DOMAIN o
    BY <1>1, <2>1, <2>2 DEF About
  <2>4. Max(S) \in S
    BY <2>3, LastPosition
  <2> QED
    BY <2>2, <2>3, <2>4
<1>2. poMap(o) = [id \in ids |-> o[Max(About(o, id))]]
  BY Zenon DEF poMap, About
<1>3. \A id : id \in ids <=> About(o, id) # {}
  BY DEF About
<1> HIDE DEF ids
<1>4. DOMAIN poMap(o) = ids /\ \A id \in ids : poMap(o)[id] = o[Max(About(o, id))]
  BY <1>2
<1> DEFINE order(id) == IF id \in DOMAIN poMap(o) THEN poMap(o)[id] ELSE Nil
           record(b) == [id |-> b.id, installationName |-> b.installationName,
                         purchaseOrder |-> order(b.id)]
<1>5. ASSUME NEW id
      PROVE  /\ order(id) \in {Nil} \cup Order
             /\ IF About(o, id) = {} THEN order(id) = Nil
                ELSE Max(About(o, id)) \in DOMAIN o /\ order(id) = o[Max(About(o, id))]
  <2>1. CASE About(o, id) = {}
    BY <1>3, <1>4, <2>1
  <2>2. CASE About(o, id) # {}
    <3>1. Max(About(o, id)) \in DOMAIN o /\ order(id) = o[Max(About(o, id))]
      BY <1>1, <1>3, <1>4, <2>2
    <3>2. PICK k : k = Max(About(o, id))
      OBVIOUS
    <3>3. o[k] \in Order
      BY <3>1, <3>2
    <3> QED
      BY <2>2, <3>1, <3>2, <3>3
  <2> QED
    BY <2>1, <2>2
<1>6. Join(bookings, o) = [i \in DOMAIN bookings |-> record(bookings[i])]
  BY Zenon DEF Join
<1> HIDE DEF order
<1>7. ASSUME NEW i \in DOMAIN bookings PROVE record(bookings[i]) \in Joined
  <2>1. PICK b \in Record : b = bookings[i]
    OBVIOUS
  <2>2. b.id \in Int /\ b.installationName \in STRING
    BY DEF Record
  <2>3. PICK x : x = order(b.id)
    OBVIOUS
  <2>4. x \in {Nil} \cup Order
    BY <1>5, <2>3
  <2> QED
    BY <2>1, <2>2, <2>3, <2>4 DEF Joined
<1>8. PICK n \in Nat : DOMAIN bookings = 1..n
  OBVIOUS
<1>9. Join(bookings, o) \in Seq(Joined)
  <2>1. PICK g : g = Join(bookings, o)
    OBVIOUS
  <2>2. g = [i \in 1..n |-> g[i]] /\ \A i \in 1..n : g[i] \in Joined
    BY <1>6, <1>7, <1>8, <2>1
  <2> QED
    BY <2>1, <2>2
<1>10. ASSUME NEW i \in DOMAIN bookings
       PROVE  /\ Join(bookings, o)[i].id = bookings[i].id
              /\ Join(bookings, o)[i].installationName = bookings[i].installationName
              /\ Join(bookings, o)[i].purchaseOrder = order(bookings[i].id)
  BY <1>6
<1>11. ASSUME NEW id PROVE order(id) \in OrderFor(o, id)
  BY <1>5 DEF OrderFor
<1>12. ASSUME NEW i \in DOMAIN bookings
       PROVE  Join(bookings, o)[i].purchaseOrder \in OrderFor(o, bookings[i].id)
  BY <1>10, <1>11
<1> QED
  BY <1>6, <1>9, <1>10, <1>12

-----------------------------------------------------------------------------
(* The theorems of the history *)

LEMMA EmptyPage ==
    ASSUME NilIsNoStruct, NEW n \in Int
    PROVE  Page(<<>>, n) # Nil /\ Page(<<>>, n)["bookings"] = <<>>
<1>1. PICK records : records = <<>>
  OBVIOUS
<1>2. records \in Seq(Joined) /\ DOMAIN records = {}
  BY <1>1
<1>3. PICK g : g = Page(records, n)["bookings"]
  OBVIOUS
<1>4. Page(records, n) # Nil
      /\ g = [i \in DOMAIN records |-> Complete3("BookingPaymentRecord", records[i])]
  BY <1>2, <1>3, ShownPage
<1>5. g = [i \in {} |-> g[i]]
  BY <1>2, <1>4
<1>6. g = <<>>
  BY <1>5
<1> QED
  BY <1>1, <1>3, <1>4, <1>6

\* The i-th booking of page p, as it is shown.
ShownFor(p, o, i) == Complete3("BookingPaymentRecord", Join(p.bookings, o)[i])

\* What a response over a page of booking-manager shows.
LEMMA PageShown ==
    ASSUME NilIsNoStruct, Track, Over, OfHistory, History \in DOMAIN said,
           NEW p, p = said[History]
    PROVE  /\ p \in Pages /\ response.status = 200 /\ response.data # Nil
           /\ p.bookings = Nil => Shown("bookings") = <<>>
           /\ p.bookings # Nil =>
                 /\ p.bookings \in Seq(Record)
                 /\ DOMAIN Shown("bookings") = DOMAIN p.bookings
                 /\ Len(Shown("bookings")) = Len(p.bookings)
                 /\ \A i \in DOMAIN p.bookings : \E o \in Seq(Order) :
                        OrdersHeard(o) /\ Shown("bookings")[i] = ShownFor(p, o, i)
<1>1. p \in Pages /\ Kept(p) /\ pc = "over"
  BY DEF Track, Tracked, NoPage, Over
<1>2. p.bookings # Nil => p.bookings \in Seq(Record)
  BY <1>1 DEF Pages
<1>3. CASE NoBookings(p)
  <2>1. PICK n \in Int : response.data = Page(<<>>, n)
    BY <1>1, <1>3 DEF Kept
  <2>2. response.data # Nil /\ Shown("bookings") = <<>>
    BY <2>1, EmptyPage DEF Shown
  <2>3. DOMAIN <<>> = {}
    BY SMT
  <2>4. response.status = 200
    BY <1>1 DEF Kept
  <2> QED
    BY <1>1, <1>2, <1>3, <2>2, <2>3, <2>4 DEF NoBookings
<1>4. CASE ~NoBookings(p)
  <2>1. PICK o \in Seq(Order) :
            OrdersHeard(o) /\ response.data = Page(Join(p.bookings, o), p.currentPage)
    BY <1>1, <1>4 DEF Kept
  <2>2. p.bookings # Nil
    BY <1>4 DEF NoBookings
  <2>0. p.bookings \in Seq(Record) /\ p.currentPage \in Int
    BY <1>1, <2>2 DEF Pages
  <2>3. PICK bookings, records, n :
            /\ bookings = p.bookings /\ records = Join(bookings, o) /\ n = p.currentPage
            /\ bookings \in Seq(Record) /\ n \in Int
    BY <2>0
  <2>4. records \in Seq(Joined) /\ DOMAIN records = DOMAIN bookings
    BY <2>3, JoinedPage
  <2>5. PICK g : g = Shown("bookings")
    OBVIOUS
  <2>6. response.data # Nil
        /\ g = [i \in DOMAIN records |-> Complete3("BookingPaymentRecord", records[i])]
    BY <2>1, <2>3, <2>4, <2>5, ShownPage DEF Shown
  <2>7. PICK m \in Nat : DOMAIN bookings = 1..m /\ Len(bookings) = m
    OBVIOUS
  <2>8. g = [i \in 1..m |-> g[i]]
    BY <2>4, <2>6, <2>7
  <2>9. Len(g) = m /\ DOMAIN g = DOMAIN bookings
    BY <2>7, <2>8
  <2>10. ASSUME NEW i \in DOMAIN bookings PROVE g[i] = ShownFor(p, o, i)
    BY <2>3, <2>4, <2>6 DEF ShownFor
  <2>11. response.status = 200
    BY <1>1 DEF Kept
  <2> QED
    BY <1>1, <1>2, <2>1, <2>2, <2>3, <2>5, <2>6, <2>7, <2>9, <2>10, <2>11
<1> QED
  BY <1>3, <1>4

LEMMA ShownBooking ==
    ASSUME NilIsNoStruct, NEW p \in Pages, p.bookings # Nil, NEW o \in Seq(Order),
           NEW i \in DOMAIN p.bookings
    PROVE  /\ ShownFor(p, o, i).id = p.bookings[i].id
           /\ ShownFor(p, o, i).installationName = p.bookings[i].installationName
           /\ \E w \in OrderFor(o, p.bookings[i].id) :
                  /\ w = Nil => ShownFor(p, o, i).purchaseOrder = Nil
                  /\ w # Nil => /\ ShownFor(p, o, i).purchaseOrder # Nil
                                /\ ShownFor(p, o, i).purchaseOrder.oc = w.oc
                                /\ ShownFor(p, o, i).purchaseOrder.couponId = w.couponId
<1>1. PICK bookings \in Seq(Record) : bookings = p.bookings
  BY DEF Pages
<1>2. i \in DOMAIN bookings
  BY <1>1
<1>3. PICK records : records = Join(bookings, o)
  OBVIOUS
<1>4. records \in Seq(Joined) /\ DOMAIN records = DOMAIN bookings
  BY <1>3, JoinedPage
<1>5. PICK r \in Joined : r = records[i]
  BY <1>2, <1>4
<1>6. /\ r.id = bookings[i].id
      /\ r.installationName = bookings[i].installationName
      /\ r.purchaseOrder \in OrderFor(o, bookings[i].id)
  BY <1>2, <1>3, <1>5, JoinedPage
<1>7. PICK s : s = Complete3("BookingPaymentRecord", r)
  OBVIOUS
<1>8. /\ s # Nil /\ s.id = r.id /\ s.installationName = r.installationName
      /\ r.purchaseOrder = Nil => s.purchaseOrder = Nil
      /\ r.purchaseOrder # Nil => /\ s.purchaseOrder # Nil
                                  /\ s.purchaseOrder.oc = r.purchaseOrder.oc
                                  /\ s.purchaseOrder.couponId = r.purchaseOrder.couponId
  BY <1>7, ShownRecord
<1>9. ShownFor(p, o, i) = s
  BY <1>1, <1>3, <1>5, <1>7 DEF ShownFor
<1> QED
  BY <1>1, <1>6, <1>8, <1>9

LEMMA NothingShown ==
    ASSUME NilIsNoStruct, Track, Over, OfHistory, History \notin DOMAIN said, response.data # Nil
    PROVE  Shown("bookings") = <<>>
<1>1. PICK n \in Int : response.data = Page(<<>>, n)
  BY DEF Track, Tracked, NoPage, Over
<1> QED
  BY <1>1, EmptyPage DEF Shown

\* One page of the history is shown as long as booking-manager said it and in
\* its order, whether or not its orders were found, for any bookings and orders
\* (payment_client.go:1230-1304).
THEOREM BookingsAreKept ==
    ASSUME NilIsNoStruct
    PROVE  Spec => []BookingsSurviveLookup
<1>1. Track => BookingsSurviveLookup
  <2> SUFFICES ASSUME Track, Over, OfHistory, History \in DOMAIN said
               PROVE  LET page1 == said[History].bookings
                      IN /\ response.status = 200
                         /\ response.data # Nil
                         /\ page1 # Nil =>
                                /\ Len(Shown("bookings")) = Len(page1)
                                /\ \A i \in DOMAIN page1 : Shown("bookings")[i].id = page1[i].id
    BY DEF BookingsSurviveLookup, OfHistory, asked, History
  <2>1. PICK p : p = said[History]
    OBVIOUS
  <2>2. ASSUME p.bookings # Nil, NEW i \in DOMAIN p.bookings
        PROVE  Shown("bookings")[i].id = p.bookings[i].id
    <3>1. PICK o \in Seq(Order) : Shown("bookings")[i] = ShownFor(p, o, i)
      BY <2>1, <2>2, PageShown
    <3>2. p \in Pages
      BY <2>1, PageShown
    <3> QED
      BY <2>2, <3>1, <3>2, ShownBooking
  <2> QED
    BY <2>1, <2>2, PageShown
<1> QED
  BY <1>1, TrackAlways, PTL

\* A booking is shown with its own order, the last one said for it, and with
\* none only if none was said for it (payment_client.go:1252-1299).
THEOREM OrdersAreOwn ==
    ASSUME NilIsNoStruct
    PROVE  Spec => []OrdersAreTheirOwn
<1>1. Track => OrdersAreTheirOwn
  <2> SUFFICES ASSUME Track, Over, OfHistory, History \in DOMAIN said, said[History].bookings # Nil,
                      NEW i \in DOMAIN Shown("bookings")
               PROVE  LET b == Shown("bookings")[i]
                          orders == IF OrdersOf \notin DOMAIN said THEN <<>>
                                    ELSE said[OrdersOf].orders
                          about == {j \in DOMAIN orders : orders[j].bookingReference = b.id}
                      IN IF about = {} THEN b.purchaseOrder = Nil
                         ELSE /\ b.purchaseOrder # Nil
                              /\ b.purchaseOrder.oc = orders[Max(about)].oc
                              /\ b.purchaseOrder.couponId = orders[Max(about)].couponId
    BY DEF OrdersAreTheirOwn, OfHistory, asked, History, OrdersOf
  <2>1. PICK p : p = said[History]
    OBVIOUS
  <2>2. p \in Pages /\ p.bookings # Nil /\ DOMAIN Shown("bookings") = DOMAIN p.bookings
    BY <2>1, PageShown
  <2>3. PICK o \in Seq(Order) : OrdersHeard(o) /\ Shown("bookings")[i] = ShownFor(p, o, i)
    BY <2>1, <2>2, PageShown
  <2>4. o = IF OrdersOf \notin DOMAIN said THEN <<>> ELSE said[OrdersOf].orders
    BY <2>3 DEF OrdersHeard
  <2>5. PICK b : b = Shown("bookings")[i]
    OBVIOUS
  <2>6. PICK about : about = About(o, p.bookings[i].id)
    OBVIOUS
  <2>7. b.id = p.bookings[i].id
    BY <2>2, <2>3, <2>5, ShownBooking
  <2>8. about = {j \in DOMAIN o : o[j].bookingReference = b.id}
    BY <2>6, <2>7 DEF About
  <2>9. PICK w \in OrderFor(o, p.bookings[i].id) :
            /\ w = Nil => b.purchaseOrder = Nil
            /\ w # Nil => /\ b.purchaseOrder # Nil
                          /\ b.purchaseOrder.oc = w.oc
                          /\ b.purchaseOrder.couponId = w.couponId
    BY <2>2, <2>3, <2>5, ShownBooking
  <2>10. CASE about = {}
    BY <2>4, <2>5, <2>6, <2>8, <2>9, <2>10 DEF OrderFor
  <2>11. CASE about # {}
    <3>1. w \in Order /\ w = o[Max(about)]
      BY <2>6, <2>9, <2>11 DEF OrderFor
    <3>2. w = [f \in {"bookingReference", "oc", "couponId"} |-> w[f]]
      BY <3>1 DEF Order
    <3>3. w # Nil
      BY <3>2, FunctionIsNotNil
    <3> QED
      BY <2>4, <2>5, <2>8, <2>9, <2>11, <3>1, <3>3
  <2> QED
    BY <2>10, <2>11
<1> QED
  BY <1>1, TrackAlways, PTL

\* No administrator who has an installation, or names one, is shown a booking of
\* an installation that is not theirs, for any users, installations, bookings
\* and requests.  The one case left out, who has none and names none, is the one
\* in which nothing is restricted (schema.resolvers.go:400-427).
THEOREM AdministratorsSeeTheirOwn ==
    ASSUME NilIsNoStruct
    PROVE  Spec => []AdminSeesOwn
<1>1. Track /\ Own => AdminSeesOwn
  <2> SUFFICES ASSUME Track, Own, Over, OfHistory, response.data # Nil, Scoped,
                      NEW i \in DOMAIN Shown("bookings")
               PROVE  Shown("bookings")[i].installationName \in Range(mine)
    BY DEF AdminSeesOwn, OfHistory, asked, Scoped, mine
  <2>1. DOMAIN <<>> = {}
    BY SMT
  <2>2. CASE History \notin DOMAIN said
    BY <2>1, <2>2, NothingShown
  <2>3. CASE History \in DOMAIN said
    <3>1. PICK p : p = said[History]
      OBVIOUS
    <3>2. p \in Pages /\ p.bookings # Nil /\ i \in DOMAIN p.bookings
      BY <2>1, <2>3, <3>1, PageShown
    <3>3. PICK o \in Seq(Order) : Shown("bookings")[i] = ShownFor(p, o, i)
      BY <2>3, <3>1, <3>2, PageShown
    <3>4. Shown("bookings")[i].installationName = p.bookings[i].installationName
      BY <3>2, <3>3, ShownBooking
    <3>5. p.bookings[i].installationName \in Range(mine)
      BY <2>3, <3>1, <3>2 DEF Own, Owned, Over
    <3> QED
      BY <3>4, <3>5
  <2> QED
    BY <2>2, <2>3
<1> QED
  BY <1>1, TrackAlways, OwnAlways, PTL

-----------------------------------------------------------------------------
(* The other messages, each of them whole *)

\* The status a client is told of message m.
ToldOf(m) ==
    IF m.response = Nil THEN "RESPONSE_STATUS_UNSPECIFIED"
    ELSE Word(Statuses, m.response.status, "RESPONSE_STATUS_UNSPECIFIED")
Nested == {"paymentRack", "installation", "device", "booking"}
Lists == {"availableGroup", "pricingTemplates", "bookingTimes"}

\* FaithfulAnswer, of the data a client gets for message m.
Faithful(f, m, data) ==
    /\ data # Nil
    /\ "response" \in DOMAIN m => data["status"] = ToldOf(m)
    /\ \A x \in Payload \cap DOMAIN m : data[x] = m[x]
    /\ "discountType" \in DOMAIN m => data["discountType"] = Word(Discounts, m["discountType"], "")
    /\ "wifiPassword" \in DOMAIN m =>
           data["wifiPassword"] = IF m["wifiPassword"] = "" THEN Nil ELSE m["wifiPassword"]
    /\ \A x \in Nested \cap DOMAIN m : CarriesPart(data[x], m[x])
    /\ "availableGroup" \in DOMAIN m => CarriesEach(data["availableGroups"], m["availableGroup"])
    /\ "pricingTemplates" \in DOMAIN m =>
           CarriesTemplates(data["pricingTemplates"], m["pricingTemplates"])
    /\ f = "getBookingTimes" => CarriesEach(data["bookingTimes"], m["bookingTimes"])
    /\ f = "getPaymentInfraByQrValue" => CarriesTimes(data["bookingTimes"], m["bookingTimes"])

Struct(v) == v = [x \in DOMAIN v |-> v[x]]

LEMMA StructIsNotNil ==
    ASSUME NilIsNoStruct, NEW v, Struct(v)
    PROVE  v # Nil
  BY FunctionIsNotNil DEF Struct

LEMMA WordTables ==
    /\ DOMAIN Statuses = {1, 2} /\ Statuses[1] = "RESPONSE_STATUS_OK"
    /\ Statuses[2] = "RESPONSE_STATUS_ERROR"
    /\ DOMAIN Discounts = {1, 2} /\ Discounts[1] = "PERCENTAGE" /\ Discounts[2] = "AMOUNT"
    /\ DOMAIN UnitNames = {1, 2, 3, 4} /\ UnitNames[1] = "HOUR" /\ UnitNames[2] = "DAY"
    /\ UnitNames[3] = "WEEK" /\ UnitNames[4] = "MONTH"
  BY DEF Statuses, Discounts, UnitNames

LEMMA HeaderTold ==
    ASSUME NEW m, m.response \in Header
    PROVE  /\ mapResponseStatusToGraphQL(StatusOf(m.response)) = ToldOf(m)
           /\ ToldOf(m) # Nil
<1>1. PICK h : h = m.response
  OBVIOUS
<1>2. CASE h = Nil
  <2>1. StatusOf(h) = "" /\ ToldOf(m) = "RESPONSE_STATUS_UNSPECIFIED"
    BY <1>1, <1>2 DEF StatusOf, ToldOf
  <2> QED
    BY <1>1, <2>1, PeersAssumption DEF mapResponseStatusToGraphQL
<1>3. CASE h # Nil
  <2>1. PICK n \in Int : n = h.status
    BY <1>1, <1>3 DEF Header
  <2>2. /\ StatusOf(h) = mapResponseStatus(n)
        /\ ToldOf(m) = Word(Statuses, n, "RESPONSE_STATUS_UNSPECIFIED")
    BY <1>1, <1>3, <2>1 DEF StatusOf, ToldOf
  <2>3. mapResponseStatusToGraphQL(mapResponseStatus(n)) =
            Word(Statuses, n, "RESPONSE_STATUS_UNSPECIFIED")
    BY WordTables DEF mapResponseStatusToGraphQL, mapResponseStatus, Word
  <2>4. Word(Statuses, n, "RESPONSE_STATUS_UNSPECIFIED") # Nil
    BY WordTables, PeersAssumption DEF Word
  <2> QED
    BY <1>1, <2>2, <2>3, <2>4
<1> QED
  BY <1>2, <1>3

LEMMA LeafAnswer ==
    ASSUME NilIsNoStruct, NEW name, Types[name].list = <<>>, Types[name].object = <<>>,
           NEW v, Struct(v), DOMAIN v \subseteq Fields(name),
           \A x \in Types[name].required \cap DOMAIN v : v[x] # Nil
    PROVE  Complete(name, v) # Nil /\ \A x \in DOMAIN v : Complete(name, v)[x] = v[x]
<1>1. v # Nil
  BY StructIsNotNil
<1>2. /\ Complete1(name, v) =
             [f \in Fields(name) |-> IF f \notin DOMAIN v THEN "scalar" ELSE v[f]]
      /\ Complete(name, v) = Complete1(name, v) /\ Complete1(name, v) # Nil
  BY <1>1, WholeLeaf, HistoryTypes
<1> QED
  BY <1>2

\* A payload that is a number in the message and a word in v.
Worded(X, m, v) ==
    /\ "wifiPassword" \notin DOMAIN m
    /\ "discountType" \in DOMAIN m => /\ "discountType" \in X
                                      /\ v["discountType"] = Word(Discounts, m["discountType"], "")

\* A message without nested ones, the payload of which is copied, or named.
LEMMA PlainAnswer ==
    ASSUME NilIsNoStruct, NEW name, Types[name].list = <<>>, Types[name].object = <<>>,
           NEW m, m.response \in Header, DOMAIN m \cap (Nested \cup Lists) = {},
           NEW v, NEW X, Struct(v), DOMAIN v = {"status"} \cup X,
           {"status"} \cup X \subseteq Fields(name),
           v["status"] = mapResponseStatusToGraphQL(StatusOf(m.response)),
           \A x \in X : v[x] # Nil,
           \A x \in Payload \cap DOMAIN m : x \in X /\ v[x] = m[x], Worded(X, m, v),
           NEW f, f \notin {"getBookingTimes", "getPaymentInfraByQrValue"}
    PROVE  Faithful(f, m, Complete(name, v))
<1>1. PICK told : told = ToldOf(m)
  OBVIOUS
<1>2. v["status"] = told /\ told # Nil
  BY <1>1, HeaderTold
<1>3. \A x \in Types[name].required \cap ({"status"} \cup X) : v[x] # Nil
  BY <1>2
<1>4. PICK data : data = Complete(name, v)
  OBVIOUS
<1>5. data # Nil /\ \A x \in {"status"} \cup X : data[x] = v[x]
  BY <1>3, <1>4, LeafAnswer
<1>6. /\ "availableGroup" \notin DOMAIN m /\ "pricingTemplates" \notin DOMAIN m
      /\ Nested \cap DOMAIN m = {}
  BY DEF Lists
<1>7. data["status"] = told
  BY <1>2, <1>5
<1>8. \A x \in Payload \cap DOMAIN m : data[x] = m[x]
  BY <1>5
<1>9. "wifiPassword" \notin DOMAIN m
  BY DEF Worded
<1>10. "discountType" \in DOMAIN m =>
           data["discountType"] = Word(Discounts, m["discountType"], "")
  BY <1>5 DEF Worded
<1>11. Faithful(f, m, data)
  BY <1>1, <1>5, <1>6, <1>7, <1>8, <1>9, <1>10, Zenon DEF Faithful
<1> QED
  BY <1>4, <1>11

\* What PlainAnswer needs of field f, of the fields X of its payload.
PlainParts(f, X, m, v) ==
    LET name == RootFields[f].type
    IN /\ Types[name].list = <<>> /\ Types[name].object = <<>>
       /\ {"status"} \cup X \subseteq Fields(name)
       /\ m.response \in Header /\ DOMAIN m \cap (Nested \cup Lists) = {}
       /\ Struct(v) /\ DOMAIN v = {"status"} \cup X
       /\ v["status"] = mapResponseStatusToGraphQL(StatusOf(m.response))
       /\ \A x \in X : v[x] # Nil
       /\ \A x \in Payload \cap DOMAIN m : x \in X /\ v[x] = m[x]
       /\ Worded(X, m, v)

LEMMA PlainIsFaithful ==
    ASSUME NilIsNoStruct, NEW f \in FieldNames \ {"getBookingTimes", "getPaymentInfraByQrValue"},
           NEW m, NEW X, PlainParts(f, X, m, Returned(LastCall[f], DTO(LastCall[f], m)))
    PROVE  Faithful(f, m, Final(f, LastCall[f], m))
<1>1. PICK name, v : name = RootFields[f].type /\ v = Returned(LastCall[f], DTO(LastCall[f], m))
  OBVIOUS
<1>2. /\ Types[name].list = <<>> /\ Types[name].object = <<>>
      /\ {"status"} \cup X \subseteq Fields(name)
      /\ m.response \in Header /\ DOMAIN m \cap (Nested \cup Lists) = {}
      /\ Struct(v) /\ DOMAIN v = {"status"} \cup X
      /\ v["status"] = mapResponseStatusToGraphQL(StatusOf(m.response))
      /\ \A x \in X : v[x] # Nil
      /\ \A x \in Payload \cap DOMAIN m : x \in X /\ v[x] = m[x]
      /\ Worded(X, m, v)
  BY <1>1 DEF PlainParts
<1>3. Faithful(f, m, Complete(name, v))
  BY <1>2, PlainAnswer
<1> QED
  BY <1>1, <1>3 DEF Final

\* The fields whose answer has a header and at most a payload.
LEMMA PlainFields ==
    ASSUME NilIsNoStruct,
           NEW f \in {"validateDiscountCoupon", "generateCoupon", "generatePurchaseOrder",
                      "generateBooking", "createRackPayment", "createPricingTemplate",
                      "updatePricingTemplate", "deletePricingTemplate"},
           NEW m \in MessageTypes[LastCall[f]]
    PROVE  Faithful(f, m, Final(f, LastCall[f], m))
<1>1. PICK c, v : c = LastCall[f] /\ v = Returned(c, DTO(c, m))
  OBVIOUS
<1>2. f \in FieldNames \ {"getBookingTimes", "getPaymentInfraByQrValue"}
  BY DEF FieldNames
<1>3. SUFFICES \E X : PlainParts(f, X, m, v)
  BY <1>1, <1>2, PlainIsFaithful
<1>4. CASE f = "validateDiscountCoupon"
  <2>1. /\ c = "ValidateDiscountCoupon"
        /\ m \in [response : Header, discountType : Int, applies : BOOLEAN]
    BY <1>1, <1>4 DEF LastCall, MessageTypes
  <2>2. v = [status |-> mapResponseStatusToGraphQL(StatusOf(m.response)),
             discountType |-> mapDiscountType(m.discountType),
             applies |-> m.applies]
    BY <1>1, <2>1
       DEF Returned, DTO, Told, ValidateDiscountCoupon, ToValidateCouponResponse,
           ToCouponValidationDomain, FromGRPCValidateDiscountCouponResponse
  <2>3. /\ RootFields[f].type = "ValidateDiscountCouponResponse"
        /\ Types["ValidateDiscountCouponResponse"] = ValidateDiscountCouponResponse
    BY <1>4 DEF RootFields, validateDiscountCoupon, Field, Types
  <2>4. PICK X : X = {"discountType", "applies"}
    OBVIOUS
  <2>5. /\ ValidateDiscountCouponResponse.list = <<>>
        /\ ValidateDiscountCouponResponse.object = <<>>
        /\ {"status"} \cup X \subseteq Fields("ValidateDiscountCouponResponse")
    BY <2>3, <2>4 DEF ValidateDiscountCouponResponse, Leaf, Type, None, Fields, GenericResponse
  <2>6. /\ Struct(v) /\ DOMAIN v = {"status"} \cup X
        /\ v["status"] = mapResponseStatusToGraphQL(StatusOf(m.response))
    BY <2>2, <2>4 DEF Struct
  <2>7. /\ m.response \in Header /\ DOMAIN m \cap (Nested \cup Lists) = {}
    BY <2>1 DEF Nested, Lists
  <2>8. \A x \in X : v[x] # Nil
    <3>1. v["discountType"] # Nil
      BY <2>1, <2>2, NilIsApart DEF mapDiscountType
    <3>2. v["applies"] # Nil
      BY <2>1, <2>2, NilIsApart
    <3> QED
      BY <2>4, <3>1, <3>2
  <2>9. \A x \in Payload \cap DOMAIN m : x \in X /\ v[x] = m[x]
    BY <2>1, <2>2, <2>4 DEF Payload
  <2>10. Worded(X, m, v)
    <3>1. \A n \in Int : mapDiscountType(n) = Word(Discounts, n, "")
      BY WordTables DEF mapDiscountType, Word
    <3> QED
      BY <2>1, <2>2, <2>4, <3>1 DEF Worded
  <2> QED
    BY <2>3, <2>5, <2>6, <2>7, <2>8, <2>9, <2>10 DEF PlainParts
<1>5. CASE f = "generateCoupon"
  <2>1. c = "GenerateCoupon" /\ m \in [response : Header, couponCode : STRING]
    BY <1>1, <1>5 DEF LastCall, MessageTypes
  <2>2. v = [status |-> mapResponseStatusToGraphQL(StatusOf(m.response)),
             couponCode |-> m.couponCode]
    BY <1>1, <2>1
       DEF Returned, DTO, Told, GenerateCoupon, ToGenerateCouponResponse, ToGenerateCouponDomain,
           FromGRPCGenerateCouponResponse
  <2>3. /\ RootFields[f].type = "GenerateCouponResponse"
        /\ Types["GenerateCouponResponse"] = GenerateCouponResponse
    BY <1>5 DEF RootFields, generateCoupon, Field, Types
  <2>4. PICK X : X = {"couponCode"}
    OBVIOUS
  <2>5. /\ GenerateCouponResponse.list = <<>> /\ GenerateCouponResponse.object = <<>>
        /\ {"status"} \cup X \subseteq Fields("GenerateCouponResponse")
    BY <2>3, <2>4 DEF GenerateCouponResponse, Leaf, Type, None, Fields, GenericResponse
  <2>6. /\ Struct(v) /\ DOMAIN v = {"status"} \cup X
        /\ v["status"] = mapResponseStatusToGraphQL(StatusOf(m.response))
    BY <2>2, <2>4 DEF Struct
  <2>7. /\ m.response \in Header /\ DOMAIN m \cap (Nested \cup Lists) = {}
    BY <2>1 DEF Nested, Lists
  <2>8. \A x \in X : v[x] # Nil
    <3>1. v["couponCode"] # Nil
      BY <2>1, <2>2, NilIsApart
    <3> QED
      BY <2>4, <3>1
  <2>9. \A x \in Payload \cap DOMAIN m : x \in X /\ v[x] = m[x]
    BY <2>1, <2>2, <2>4 DEF Payload
  <2>10. Worded(X, m, v)
    BY <2>1 DEF Worded
  <2> QED
    BY <2>3, <2>5, <2>6, <2>7, <2>8, <2>9, <2>10 DEF PlainParts
<1>6. CASE f = "generatePurchaseOrder"
  <2>1. c = "GeneratePurchaseOrder" /\ m \in [response : Header, url : STRING]
    BY <1>1, <1>6 DEF LastCall, MessageTypes
  <2>2. v = [status |-> mapResponseStatusToGraphQL(StatusOf(m.response)), url |-> m.url]
    BY <1>1, <2>1
       DEF Returned, DTO, Told, GeneratePurchaseOrder, ToPurchaseOrderResponse,
           ToPurchaseOrderDomain, FromGRPCGeneratePurchaseOrderResponse
  <2>3. /\ RootFields[f].type = "GeneratePurchaseOrderResponse"
        /\ Types["GeneratePurchaseOrderResponse"] = GeneratePurchaseOrderResponse
    BY <1>6 DEF RootFields, generatePurchaseOrder, Field, Types
  <2>4. PICK X : X = {"url"}
    OBVIOUS
  <2>5. /\ GeneratePurchaseOrderResponse.list = <<>>
        /\ GeneratePurchaseOrderResponse.object = <<>>
        /\ {"status"} \cup X \subseteq Fields("GeneratePurchaseOrderResponse")
    BY <2>3, <2>4 DEF GeneratePurchaseOrderResponse, Leaf, Type, None, Fields, GenericResponse
  <2>6. /\ Struct(v) /\ DOMAIN v = {"status"} \cup X
        /\ v["status"] = mapResponseStatusToGraphQL(StatusOf(m.response))
    BY <2>2, <2>4 DEF Struct
  <2>7. /\ m.response \in Header /\ DOMAIN m \cap (Nested \cup Lists) = {}
    BY <2>1 DEF Nested, Lists
  <2>8. \A x \in X : v[x] # Nil
    <3>1. v["url"] # Nil
      BY <2>1, <2>2, NilIsApart
    <3> QED
      BY <2>4, <3>1
  <2>9. \A x \in Payload \cap DOMAIN m : x \in X /\ v[x] = m[x]
    BY <2>1, <2>2, <2>4 DEF Payload
  <2>10. Worded(X, m, v)
    BY <2>1 DEF Worded
  <2> QED
    BY <2>3, <2>5, <2>6, <2>7, <2>8, <2>9, <2>10 DEF PlainParts
<1>7. CASE f = "generateBooking"
  <2>1. c = "GenerateBooking" /\ m \in [response : Header, code : STRING]
    BY <1>1, <1>7 DEF LastCall, MessageTypes
  <2>2. v = [status |-> mapResponseStatusToGraphQL(StatusOf(m.response)), code |-> m.code]
    BY <1>1, <2>1
       DEF Returned, DTO, Told, GenerateBooking, ToBookingResponse, ToBookingDomain,
           FromGRPCGenerateBookingResponse
  <2>3. /\ RootFields[f].type = "GenerateBookingResponse"
        /\ Types["GenerateBookingResponse"] = GenerateBookingResponse
    BY <1>7 DEF RootFields, generateBooking, Field, Types
  <2>4. PICK X : X = {"code"}
    OBVIOUS
  <2>5. /\ GenerateBookingResponse.list = <<>> /\ GenerateBookingResponse.object = <<>>
        /\ {"status"} \cup X \subseteq Fields("GenerateBookingResponse")
    BY <2>3, <2>4 DEF GenerateBookingResponse, Leaf, Type, None, Fields, GenericResponse
  <2>6. /\ Struct(v) /\ DOMAIN v = {"status"} \cup X
        /\ v["status"] = mapResponseStatusToGraphQL(StatusOf(m.response))
    BY <2>2, <2>4 DEF Struct
  <2>7. /\ m.response \in Header /\ DOMAIN m \cap (Nested \cup Lists) = {}
    BY <2>1 DEF Nested, Lists
  <2>8. \A x \in X : v[x] # Nil
    <3>1. v["code"] # Nil
      BY <2>1, <2>2, NilIsApart
    <3> QED
      BY <2>4, <3>1
  <2>9. \A x \in Payload \cap DOMAIN m : x \in X /\ v[x] = m[x]
    BY <2>1, <2>2, <2>4 DEF Payload
  <2>10. Worded(X, m, v)
    BY <2>1 DEF Worded
  <2> QED
    BY <2>3, <2>5, <2>6, <2>7, <2>8, <2>9, <2>10 DEF PlainParts
<1>8. CASE f = "createRackPayment"
  <2>1. c = "CreateRackPayment" /\ m \in [response : Header, paymentRackId : Int]
    BY <1>1, <1>8 DEF LastCall, MessageTypes
  <2>2. v = [status |-> mapResponseStatusToGraphQL(StatusOf(m.response)),
             paymentRackId |-> m.paymentRackId]
    BY <1>1, <2>1
       DEF Returned, DTO, Told, CreateRackPayment, ToCreateRackPaymentResponse,
           ToRackPaymentDomain, FromGRPCCreateRackPaymentResponse
  <2>3. /\ RootFields[f].type = "CreateRackPaymentResponse"
        /\ Types["CreateRackPaymentResponse"] = CreateRackPaymentResponse
    BY <1>8 DEF RootFields, createRackPayment, Field, Types
  <2>4. PICK X : X = {"paymentRackId"}
    OBVIOUS
  <2>5. /\ CreateRackPaymentResponse.list = <<>> /\ CreateRackPaymentResponse.object = <<>>
        /\ {"status"} \cup X \subseteq Fields("CreateRackPaymentResponse")
    BY <2>3, <2>4 DEF CreateRackPaymentResponse, Leaf, Type, None, Fields, GenericResponse
  <2>6. /\ Struct(v) /\ DOMAIN v = {"status"} \cup X
        /\ v["status"] = mapResponseStatusToGraphQL(StatusOf(m.response))
    BY <2>2, <2>4 DEF Struct
  <2>7. /\ m.response \in Header /\ DOMAIN m \cap (Nested \cup Lists) = {}
    BY <2>1 DEF Nested, Lists
  <2>8. \A x \in X : v[x] # Nil
    <3>1. v["paymentRackId"] # Nil
      BY <2>1, <2>2, NilIsApart
    <3> QED
      BY <2>4, <3>1
  <2>9. \A x \in Payload \cap DOMAIN m : x \in X /\ v[x] = m[x]
    BY <2>1, <2>2, <2>4 DEF Payload
  <2>10. Worded(X, m, v)
    BY <2>1 DEF Worded
  <2> QED
    BY <2>3, <2>5, <2>6, <2>7, <2>8, <2>9, <2>10 DEF PlainParts
<1>9. CASE f = "createPricingTemplate"
  <2>1. c = "CreatePricingTemplate" /\ m \in [response : Header, pricingTemplateId : Int]
    BY <1>1, <1>9 DEF LastCall, MessageTypes
  <2>2. v = [status |-> mapResponseStatusToGraphQL(StatusOf(m.response)),
             pricingTemplateId |-> m.pricingTemplateId]
    BY <1>1, <2>1
       DEF Returned, DTO, Told, CreatePricingTemplate, ToCreatePricingTemplateResponse,
           ToCreatePricingTemplateResultDomain, FromGRPCCreatePricingTemplateResponse
  <2>3. /\ RootFields[f].type = "CreatePricingTemplateResponse"
        /\ Types["CreatePricingTemplateResponse"] = CreatePricingTemplateResponse
    BY <1>9 DEF RootFields, createPricingTemplate, Field, Types
  <2>4. PICK X : X = {"pricingTemplateId"}
    OBVIOUS
  <2>5. /\ CreatePricingTemplateResponse.list = <<>>
        /\ CreatePricingTemplateResponse.object = <<>>
        /\ {"status"} \cup X \subseteq Fields("CreatePricingTemplateResponse")
    BY <2>3, <2>4 DEF CreatePricingTemplateResponse, Leaf, Type, None, Fields, GenericResponse
  <2>6. /\ Struct(v) /\ DOMAIN v = {"status"} \cup X
        /\ v["status"] = mapResponseStatusToGraphQL(StatusOf(m.response))
    BY <2>2, <2>4 DEF Struct
  <2>7. /\ m.response \in Header /\ DOMAIN m \cap (Nested \cup Lists) = {}
    BY <2>1 DEF Nested, Lists
  <2>8. \A x \in X : v[x] # Nil
    <3>1. v["pricingTemplateId"] # Nil
      BY <2>1, <2>2, NilIsApart
    <3> QED
      BY <2>4, <3>1
  <2>9. \A x \in Payload \cap DOMAIN m : x \in X /\ v[x] = m[x]
    BY <2>1, <2>2, <2>4 DEF Payload
  <2>10. Worded(X, m, v)
    BY <2>1 DEF Worded
  <2> QED
    BY <2>3, <2>5, <2>6, <2>7, <2>8, <2>9, <2>10 DEF PlainParts
<1>10. CASE f = "updatePricingTemplate"
  <2>1. c = "UpdatePricingTemplate" /\ m \in [response : Header]
    BY <1>1, <1>10 DEF LastCall, MessageTypes
  <2>2. v = [status |-> mapResponseStatusToGraphQL(StatusOf(m.response))]
    BY <1>1, <2>1
       DEF Returned, DTO, Told, UpdatePricingTemplate, ToUpdatePricingTemplateResponse,
           ToUpdatePricingTemplateResultDomain, FromGRPCUpdatePricingTemplateResponse
  <2>3. /\ RootFields[f].type = "UpdatePricingTemplateResponse"
        /\ Types["UpdatePricingTemplateResponse"] = UpdatePricingTemplateResponse
    BY <1>10 DEF RootFields, updatePricingTemplate, Field, Types
  <2>4. PICK X : X = {}
    OBVIOUS
  <2>5. /\ UpdatePricingTemplateResponse.list = <<>>
        /\ UpdatePricingTemplateResponse.object = <<>>
        /\ {"status"} \cup X \subseteq Fields("UpdatePricingTemplateResponse")
    BY <2>3, <2>4 DEF UpdatePricingTemplateResponse, Leaf, Type, None, Fields, GenericResponse
  <2>6. /\ Struct(v) /\ DOMAIN v = {"status"} \cup X
        /\ v["status"] = mapResponseStatusToGraphQL(StatusOf(m.response))
    BY <2>2, <2>4 DEF Struct
  <2>7. /\ m.response \in Header /\ DOMAIN m \cap (Nested \cup Lists) = {}
    BY <2>1 DEF Nested, Lists
  <2>8. \A x \in X : v[x] # Nil
    BY <2>1, <2>2, <2>4, NilIsApart
  <2>9. \A x \in Payload \cap DOMAIN m : x \in X /\ v[x] = m[x]
    BY <2>1, <2>2, <2>4 DEF Payload
  <2>10. Worded(X, m, v)
    BY <2>1 DEF Worded
  <2> QED
    BY <2>3, <2>5, <2>6, <2>7, <2>8, <2>9, <2>10 DEF PlainParts
<1>11. CASE f = "deletePricingTemplate"
  <2>1. c = "DeletePricingTemplate" /\ m \in [response : Header]
    BY <1>1, <1>11 DEF LastCall, MessageTypes
  <2>2. v = [status |-> mapResponseStatusToGraphQL(StatusOf(m.response))]
    BY <1>1, <2>1
       DEF Returned, DTO, Told, DeletePricingTemplate, ToDeletePricingTemplateResponse,
           ToDeletePricingTemplateResultDomain, FromGRPCDeletePricingTemplateResponse
  <2>3. /\ RootFields[f].type = "DeletePricingTemplateResponse"
        /\ Types["DeletePricingTemplateResponse"] = DeletePricingTemplateResponse
    BY <1>11 DEF RootFields, deletePricingTemplate, Field, Types
  <2>4. PICK X : X = {}
    OBVIOUS
  <2>5. /\ DeletePricingTemplateResponse.list = <<>>
        /\ DeletePricingTemplateResponse.object = <<>>
        /\ {"status"} \cup X \subseteq Fields("DeletePricingTemplateResponse")
    BY <2>3, <2>4 DEF DeletePricingTemplateResponse, Leaf, Type, None, Fields, GenericResponse
  <2>6. /\ Struct(v) /\ DOMAIN v = {"status"} \cup X
        /\ v["status"] = mapResponseStatusToGraphQL(StatusOf(m.response))
    BY <2>2, <2>4 DEF Struct
  <2>7. /\ m.response \in Header /\ DOMAIN m \cap (Nested \cup Lists) = {}
    BY <2>1 DEF Nested, Lists
  <2>8. \A x \in X : v[x] # Nil
    BY <2>1, <2>2, <2>4, NilIsApart
  <2>9. \A x \in Payload \cap DOMAIN m : x \in X /\ v[x] = m[x]
    BY <2>1, <2>2, <2>4 DEF Payload
  <2>10. Worded(X, m, v)
    BY <2>1 DEF Worded
  <2> QED
    BY <2>3, <2>5, <2>6, <2>7, <2>8, <2>9, <2>10 DEF PlainParts
<1> QED
  BY <1>4, <1>5, <1>6, <1>7, <1>8, <1>9, <1>10, <1>11

\* What the phone asks while it is offline has no header.
LEMMA LocalAccessFields ==
    ASSUME NilIsNoStruct, NEW f \in {"lockerConnectivity", "requestOfflineVoucher"},
           NEW m \in MessageTypes[LastCall[f]]
    PROVE  Faithful(f, m, Final(f, LastCall[f], m))
<1>1. PICK c, v, name : /\ c = LastCall[f] /\ v = Returned(c, DTO(c, m))
                        /\ name = RootFields[f].type
  OBVIOUS
<1>2. PICK data : data = Complete(name, v)
  OBVIOUS
<1>3. CASE f = "lockerConnectivity"
  <2>1. c = "GetLockerConnectivity" /\ m \in [lastSeenAt : {Nil} \cup STRING]
    BY <1>1, <1>3 DEF LastCall, MessageTypes
  <2>2. v = [lastSeenAt |-> m.lastSeenAt]
    BY <1>1, <2>1 DEF Returned, DTO, ToLockerConnectivity
  <2>3. name = "LockerConnectivity" /\ Types["LockerConnectivity"] = LockerConnectivity
    BY <1>1, <1>3 DEF RootFields, lockerConnectivity, Field, Types
  <2>4. /\ Types[name].list = <<>> /\ Types[name].object = <<>>
        /\ "lastSeenAt" \in Fields(name) \ Types[name].required
    BY <2>3 DEF LockerConnectivity, Leaf, Type, None, Fields
  <2>5. Struct(v) /\ DOMAIN v = {"lastSeenAt"}
    BY <2>2 DEF Struct
  <2>6. data # Nil /\ \A x \in DOMAIN v : data[x] = v[x]
    BY <1>2, <2>4, <2>5, LeafAnswer
  <2>7. data["lastSeenAt"] = m["lastSeenAt"] /\ DOMAIN m = {"lastSeenAt"}
    BY <2>1, <2>2, <2>5, <2>6
  <2>8. Faithful(f, m, data)
    BY <1>3, <2>6, <2>7 DEF Faithful, Nested
  <2> QED
    BY <1>1, <1>2, <2>8 DEF Final
<1>4. CASE f = "requestOfflineVoucher"
  <2>1. c = "IssueOfflineVoucher" /\ m \in [wifiPassword : STRING]
    BY <1>1, <1>4 DEF LastCall, MessageTypes
  <2>2. v = [wifiPassword |-> IF m.wifiPassword = "" THEN Nil ELSE m.wifiPassword]
    BY <1>1, <2>1 DEF Returned, DTO, ToOfflineVoucher
  <2>3. name = "OfflineVoucher" /\ Types["OfflineVoucher"] = OfflineVoucher
    BY <1>1, <1>4 DEF RootFields, requestOfflineVoucher, Field, Types
  <2>4. /\ Types[name].list = <<>> /\ Types[name].object = <<>>
        /\ "wifiPassword" \in Fields(name) \ Types[name].required
    BY <2>3 DEF OfflineVoucher, Leaf, Type, None, Fields
  <2>5. Struct(v) /\ DOMAIN v = {"wifiPassword"}
    BY <2>2 DEF Struct
  <2>6. data # Nil /\ \A x \in DOMAIN v : data[x] = v[x]
    BY <1>2, <2>4, <2>5, LeafAnswer
  <2>7. /\ DOMAIN m = {"wifiPassword"}
        /\ data["wifiPassword"] = IF m["wifiPassword"] = "" THEN Nil ELSE m["wifiPassword"]
    BY <2>1, <2>2, <2>5, <2>6
  <2>8. Faithful(f, m, data)
    BY <1>4, <2>6, <2>7 DEF Faithful, Nested, Payload
  <2> QED
    BY <1>1, <1>2, <2>8 DEF Final
<1> QED
  BY <1>3, <1>4

\* A struct of scalars of which none is null.
LeafOf(type, e) == /\ Struct(e) /\ DOMAIN e \subseteq Fields(type)
                   /\ \A x \in DOMAIN e : e[x] # Nil
IsLeaf(type) == Types[type].list = <<>> /\ Types[type].object = <<>>

LEMMA LeafShown ==
    ASSUME NilIsNoStruct, NEW type, IsLeaf(type), NEW e, LeafOf(type, e)
    PROVE  /\ Complete3(type, e) # Nil /\ Complete3(type, e) = Complete1(type, e)
           /\ Carries(Complete3(type, e), e)
<1>1. Struct(e) /\ DOMAIN e \subseteq Fields(type) /\ \A x \in DOMAIN e : e[x] # Nil
  BY DEF LeafOf
<1>2. e # Nil
  BY <1>1, StructIsNotNil
<1>3. \A x \in Types[type].required \cap DOMAIN e : e[x] # Nil
  BY <1>1
<1>4. /\ Complete1(type, e) = [x \in Fields(type) |-> IF x \notin DOMAIN e THEN "scalar" ELSE e[x]]
      /\ Complete3(type, e) = Complete1(type, e) /\ Complete1(type, e) # Nil
  BY <1>2, <1>3, WholeLeaf, HistoryTypes DEF IsLeaf
<1>5. \A x \in DOMAIN e : Complete3(type, e)[x] = e[x]
  BY <1>1, <1>4
<1> QED
  BY <1>4, <1>5 DEF Carries

\* A nested struct of scalars is null only if it is not there.
LEMMA NestedLeaf ==
    ASSUME NilIsNoStruct, NEW type, IsLeaf(type), NEW e, e = Nil \/ LeafOf(type, e),
           NEW shown, shown = Complete3(type, e)
    PROVE  CarriesPart(shown, e)
<1>1. Complete3(type, Nil) = Nil
  BY Zenon DEF Complete3, CompletedObject
<1>2. CASE e = Nil
  BY <1>1, <1>2 DEF CarriesPart
<1>3. CASE e # Nil
  <2>1. shown # Nil /\ Carries(shown, e)
    BY <1>3, LeafShown
  <2> QED
    BY <1>3, <2>1 DEF CarriesPart
<1> QED
  BY <1>2, <1>3

LEMMA SameLen ==
    ASSUME NEW T, NEW s \in Seq(T), NEW g, Struct(g), DOMAIN g = DOMAIN s
    PROVE  Len(g) = Len(s)
<1>1. PICK n \in Nat : DOMAIN s = 1..n /\ Len(s) = n
  OBVIOUS
<1>2. g = [i \in 1..n |-> g[i]]
  BY <1>1 DEF Struct
<1> QED
  BY <1>1, <1>2

LEMMA ListOfLeaves ==
    ASSUME NilIsNoStruct, NEW type, IsLeaf(type), NEW s, \A i \in DOMAIN s : LeafOf(type, s[i]),
           NEW g, g = Listed(type, s)
    PROVE  /\ g # Nil /\ Struct(g) /\ DOMAIN g = DOMAIN s
           /\ \A i \in DOMAIN s : Carries(g[i], s[i])
<1>1. \A i \in DOMAIN s : Complete3(type, s[i]) # Nil /\ Carries(Complete3(type, s[i]), s[i])
  BY LeafShown
<1>2. g = [i \in DOMAIN s |-> Complete3(type, s[i])] /\ g # Nil
  <2>1. \A i \in DOMAIN s : Complete3(type, s[i]) # Nil
    BY <1>1
  <2>2. /\ Listed(type, s) = [i \in DOMAIN s |-> Complete3(type, s[i])]
        /\ Listed(type, s) # Nil
    BY <2>1, WholeList
  <2> QED
    BY <2>2
<1>3. Struct(g) /\ DOMAIN g = DOMAIN s
  BY <1>2 DEF Struct
<1> QED
  BY <1>1, <1>2, <1>3

LEMMA ElementOf ==
    ASSUME NEW T, NEW s \in Seq(T), NEW i \in DOMAIN s
    PROVE  s[i] \in T
  OBVIOUS

LEMMA NestedAnswer ==
    ASSUME NilIsNoStruct, NEW name, NEW v, Struct(v), DOMAIN v \subseteq Fields(name),
           \A x \in DOMAIN v : x \in Types[name].required => Field3(name, v, x) # Nil
    PROVE  Complete(name, v) # Nil /\ \A x \in DOMAIN v : Complete(name, v)[x] = Field3(name, v, x)
<1>1. v # Nil
  BY StructIsNotNil
<1>2. \A x : x \notin DOMAIN v => Field3(name, v, x) = "scalar"
  BY DEF Field3
<1>3. \A x \in Types[name].required : Field3(name, v, x) # Nil
  BY <1>2, HistoryTypes
<1>4. /\ Complete(name, v) = [x \in Fields(name) |-> Field3(name, v, x)]
      /\ Complete(name, v) # Nil
  BY <1>1, <1>3, WholeObject
<1> QED
  BY <1>4

\* A header and a list of structs of scalars.
HasList(name, list, type) ==
    /\ Types[name].object = <<>> /\ DOMAIN Types[name].list = {list}
    /\ Types[name].list[list] = type /\ list # "status" /\ {"status", list} \subseteq Fields(name)
Listing(v, list) == Struct(v) /\ DOMAIN v = {"status", list} /\ v["status"] # Nil

LEMMA ListAnswer ==
    ASSUME NilIsNoStruct, NEW name, NEW list, NEW type, HasList(name, list, type),
           NEW v, Listing(v, list), NEW g, g = Listed(type, v[list]), g # Nil,
           NEW data, data = Complete(name, v)
    PROVE  data # Nil /\ data["status"] = v["status"] /\ data[list] = g
<1>1. DOMAIN <<>> = {}
  BY SMT
<1>2. Field3(name, v, "status") = v["status"]
  BY <1>1, Zenon DEF Field3, HasList, Listing
<1>3. Field3(name, v, list) = g
  BY Zenon DEF Field3, HasList, Listing
<1>4. Complete(name, v) # Nil /\ \A x \in DOMAIN v : Complete(name, v)[x] = Field3(name, v, x)
  BY <1>2, <1>3, NestedAnswer DEF HasList, Listing
<1> QED
  BY <1>2, <1>3, <1>4 DEF Listing

LEMMA LeavesAnswer ==
    ASSUME NilIsNoStruct, NEW name, NEW list, NEW type, HasList(name, list, type), IsLeaf(type),
           NEW T, \A e \in T : LeafOf(type, e), NEW s \in Seq(T),
           NEW v, Listing(v, list), v[list] = s,
           NEW data, data = Complete(name, v)
    PROVE  data # Nil /\ data["status"] = v["status"] /\ CarriesEach(data[list], s)
<1>1. \A i \in DOMAIN s : LeafOf(type, s[i])
  BY ElementOf
<1>2. PICK g : g = Listed(type, s)
  OBVIOUS
<1>3. g # Nil /\ Struct(g) /\ DOMAIN g = DOMAIN s /\ \A i \in DOMAIN s : Carries(g[i], s[i])
  BY <1>1, <1>2, ListOfLeaves
<1>4. Len(g) = Len(s)
  BY <1>3, SameLen
<1>5. CarriesEach(g, s)
  BY <1>3, <1>4 DEF CarriesEach
<1>6. data # Nil /\ data["status"] = v["status"] /\ data[list] = g
  BY <1>2, <1>3, ListAnswer
<1> QED
  BY <1>5, <1>6

LEMMA LockersWhole ==
    ASSUME NilIsNoStruct, NEW f, f = "getAvailableLockersByRackIDAndBookingTime",
           NEW m \in MessageTypes[LastCall[f]]
    PROVE  Faithful(f, m, Final(f, LastCall[f], m))
<1>1. PICK c, v, name : /\ c = LastCall[f] /\ v = Returned(c, DTO(c, m))
                        /\ name = RootFields[f].type
  OBVIOUS
<1>2. PICK type, list, T : /\ type = "AvailablePaymentGroup" /\ list = "availableGroups"
                           /\ T = [groupId : Int]
  OBVIOUS
<1>3. c = "GetAvailableLockers" /\ m \in [response : Header, availableGroup : Seq(T)]
  BY <1>1, <1>2 DEF LastCall, MessageTypes
<1>4. v = [status |-> mapResponseStatusToGraphQL(StatusOf(m.response)),
           availableGroups |-> m.availableGroup]
  BY <1>1, <1>3 DEF Returned, DTO, GetAvailableLockersByRackIDAndBookingTime, Told,
     ToAvailableLockersByRackIDAndBookingTimeResponse, ToAvailableLockersDomain,
     FromGRPCGetAvailableLockersByRackIDAndBookingTimeResponse
<1>5. name = "AvailableLockersByRackIDAndBookingTimeResponse"
  BY <1>1 DEF RootFields, getAvailableLockersByRackIDAndBookingTime, Field
<1>6. /\ Types[name] = AvailableLockersByRackIDAndBookingTimeResponse
      /\ Types[type] = AvailablePaymentGroup
  BY <1>2, <1>5 DEF Types
<1>7. HasList(name, list, type)
  BY <1>2, <1>6
     DEF HasList, AvailableLockersByRackIDAndBookingTimeResponse, Type, None, Fields, GenericResponse
<1>8. IsLeaf(type) /\ "groupId" \in Fields(type)
  BY <1>6 DEF IsLeaf, AvailablePaymentGroup, Leaf, Type, None, Fields
<1>9. ASSUME NEW e \in T PROVE LeafOf(type, e)
  BY <1>2, <1>8, NilIsApart DEF LeafOf, Struct
<1>10. PICK s \in Seq(T) : s = m.availableGroup
  BY <1>3
<1>11. PICK told : told = ToldOf(m)
  OBVIOUS
<1>12. v["status"] = told /\ told # Nil
  BY <1>3, <1>4, <1>11, HeaderTold
<1>13. Listing(v, list) /\ v[list] = s
  BY <1>2, <1>4, <1>10, <1>12 DEF Struct, Listing
<1>14. PICK data : data = Complete(name, v)
  OBVIOUS
<1>15. data # Nil /\ data["status"] = told /\ CarriesEach(data[list], s)
  BY <1>7, <1>8, <1>9, <1>12, <1>13, <1>14, LeavesAnswer
<1>16. Faithful(f, m, data)
  BY <1>2, <1>3, <1>10, <1>11, <1>15 DEF Faithful, Nested, Payload
<1> QED
  BY <1>1, <1>14, <1>16 DEF Final

LEMMA TimesWhole ==
    ASSUME NilIsNoStruct, NEW f, f = "getBookingTimes", NEW m \in MessageTypes[LastCall[f]]
    PROVE  Faithful(f, m, Final(f, LastCall[f], m))
<1>1. PICK c, v, name : /\ c = LastCall[f] /\ v = Returned(c, DTO(c, m))
                        /\ name = RootFields[f].type
  OBVIOUS
<1>2. PICK type, list, T : /\ type = "BookingTimeFull" /\ list = "bookingTimes"
                           /\ T = [name : STRING]
  OBVIOUS
<1>3. c = "GetBookingTimes" /\ m \in [response : Header, bookingTimes : Seq(T)]
  BY <1>1, <1>2 DEF LastCall, MessageTypes
<1>4. v = [status |-> mapResponseStatusToGraphQL(StatusOf(m.response)),
           bookingTimes |-> m.bookingTimes]
  BY <1>1, <1>3 DEF Returned, DTO, GetBookingTimes, Told, ToBookingTimesResponse,
     ToBookingTimesDomain, FromGRPCGetBookingTimesResponse
<1>5. name = "GetBookingTimesResponse"
  BY <1>1 DEF RootFields, getBookingTimes, Field
<1>6. Types[name] = GetBookingTimesResponse /\ Types[type] = BookingTimeFull
  BY <1>2, <1>5 DEF Types
<1>7. HasList(name, list, type)
  BY <1>2, <1>6 DEF HasList, GetBookingTimesResponse, Type, None, Fields, GenericResponse
<1>8. IsLeaf(type) /\ "name" \in Fields(type)
  BY <1>6 DEF IsLeaf, BookingTimeFull, Leaf, Type, None, Fields
<1>9. ASSUME NEW e \in T PROVE LeafOf(type, e)
  BY <1>2, <1>8, NilIsApart DEF LeafOf, Struct
<1>10. PICK s \in Seq(T) : s = m.bookingTimes
  BY <1>3
<1>11. PICK told : told = ToldOf(m)
  OBVIOUS
<1>12. v["status"] = told /\ told # Nil
  BY <1>3, <1>4, <1>11, HeaderTold
<1>13. Listing(v, list) /\ v[list] = s
  BY <1>2, <1>4, <1>10, <1>12 DEF Struct, Listing
<1>14. PICK data : data = Complete(name, v)
  OBVIOUS
<1>15. data # Nil /\ data["status"] = told /\ CarriesEach(data[list], s)
  BY <1>7, <1>8, <1>9, <1>12, <1>13, <1>14, LeavesAnswer
<1>16. Faithful(f, m, data)
  BY <1>2, <1>3, <1>10, <1>11, <1>15 DEF Faithful, Nested, Payload
<1> QED
  BY <1>1, <1>14, <1>16 DEF Final

LEMMA StatusWhole ==
    ASSUME NilIsNoStruct, NEW f, f = "checkBookingStatus", NEW m \in MessageTypes[LastCall[f]]
    PROVE  Faithful(f, m, Final(f, LastCall[f], m))
<1>1. PICK c, v, name : /\ c = LastCall[f] /\ v = Returned(c, DTO(c, m))
                        /\ name = RootFields[f].type
  OBVIOUS
<1>2. PICK type : type = "BookingStatusData"
  OBVIOUS
<1>3. c = "CheckBookingStatus"
      /\ m \in [response : Header, booking : {Nil} \cup [currentCode : STRING]]
  BY <1>1 DEF LastCall, MessageTypes
<1>4. v = [status |-> mapResponseStatusToGraphQL(StatusOf(m.response)), booking |-> m.booking]
  BY <1>1, <1>3 DEF Returned, DTO, CheckBookingStatus, Told, ToBookingStatusResponse,
     ToBookingStatusDomain, FromGRPCCheckBookingStatusResponse
<1>5. name = "CheckBookingStatusResponse"
  BY <1>1 DEF RootFields, checkBookingStatus, Field
<1>6. Types[name] = CheckBookingStatusResponse /\ Types[type] = BookingStatusData
  BY <1>2, <1>5 DEF Types
<1>7. /\ Types[name].list = <<>> /\ DOMAIN Types[name].object = {"booking"}
      /\ Types[name].object["booking"] = type /\ "booking" \notin Types[name].required
      /\ {"status", "booking"} \subseteq Fields(name)
  BY <1>2, <1>6 DEF CheckBookingStatusResponse, Type, None, Fields, GenericResponse
<1>8. IsLeaf(type) /\ "currentCode" \in Fields(type)
  BY <1>6 DEF IsLeaf, BookingStatusData, Leaf, Type, None, Fields, Booking
<1>9. PICK told, b : told = ToldOf(m) /\ b = m.booking
  OBVIOUS
<1>10. v["status"] = told /\ told # Nil
  BY <1>3, <1>4, <1>9, HeaderTold
<1>11. Struct(v) /\ DOMAIN v = {"status", "booking"} /\ v["booking"] = b
  BY <1>4, <1>9 DEF Struct
<1>12. PICK shown : shown = Complete3(type, b)
  OBVIOUS
<1>13. CarriesPart(shown, b)
  <2>1. ASSUME b # Nil PROVE LeafOf(type, b)
    <3>1. b \in [currentCode : STRING]
      BY <1>3, <1>9, <2>1
    <3> QED
      BY <1>8, <3>1, NilIsApart DEF LeafOf, Struct
  <2> QED
    BY <1>8, <1>12, <2>1, NestedLeaf
<1>14. DOMAIN <<>> = {}
  BY SMT
<1>15. Field3(name, v, "status") = told
  BY <1>7, <1>10, <1>11, <1>14, Zenon DEF Field3
<1>16. Field3(name, v, "booking") = shown
  BY <1>7, <1>11, <1>12, <1>14, Zenon DEF Field3
<1>17. PICK data : data = Complete(name, v)
  OBVIOUS
<1>18. data # Nil /\ \A x \in DOMAIN v : data[x] = Field3(name, v, x)
  <2>1. \A x \in DOMAIN v : x \in Types[name].required => Field3(name, v, x) # Nil
    BY <1>7, <1>10, <1>11, <1>15
  <2>2. DOMAIN v \subseteq Fields(name)
    BY <1>7, <1>11
  <2> QED
    BY <1>11, <1>17, <2>1, <2>2, NestedAnswer
<1>19. data["status"] = told /\ data["booking"] = shown
  BY <1>11, <1>15, <1>16, <1>18
<1>20. Faithful(f, m, data)
  BY <1>3, <1>9, <1>13, <1>18, <1>19 DEF Faithful, Nested, Payload
<1> QED
  BY <1>1, <1>17, <1>20 DEF Final

\* The templates, four types deep.
Product == [groupId : Int]
Group == [products : Seq(Product)]
Template == [bookingGroups : Seq(Group)]

\* All that the mappers do to templates is copy them.
Copied(s) == Each(s, LAMBDA t :
                 [bookingGroups |-> Each(t.bookingGroups, LAMBDA g : [products |-> g.products])])

LEMMA CopiesAreEqual ==
    ASSUME NEW s \in Seq(Template)
    PROVE  Copied(s) = s
<1>1. ASSUME NEW t \in Template
      PROVE  [bookingGroups |-> Each(t.bookingGroups, LAMBDA g : [products |-> g.products])] = t
  <2>1. PICK groups \in Seq(Group) : groups = t.bookingGroups
    BY DEF Template
  <2>2. ASSUME NEW i \in DOMAIN groups PROVE [products |-> groups[i].products] = groups[i]
    <3>1. PICK g \in Group : g = groups[i]
      BY ElementOf
    <3>2. [products |-> g.products] = g
      BY DEF Group
    <3> QED
      BY <3>1, <3>2
  <2>3. PICK copy : copy = Each(groups, LAMBDA g : [products |-> g.products])
    OBVIOUS
  <2>4. copy = [i \in DOMAIN groups |-> [products |-> groups[i].products]]
    BY <2>3, Zenon DEF Each
  <2>5. PICK n \in Nat : DOMAIN groups = 1..n /\ groups = [i \in 1..n |-> groups[i]]
    OBVIOUS
  <2>6. copy = groups
    BY <2>2, <2>4, <2>5
  <2>7. [bookingGroups |-> groups] = t
    BY <2>1 DEF Template
  <2> QED
    BY <2>1, <2>3, <2>6, <2>7
<1>2. Copied(s) = [i \in DOMAIN s |->
          [bookingGroups |-> Each(s[i].bookingGroups, LAMBDA g : [products |-> g.products])]]
  BY Zenon DEF Copied, Each
<1>3. \A i \in DOMAIN s : Copied(s)[i] = s[i]
  <2> TAKE i \in DOMAIN s
  <2>1. PICK t \in Template : t = s[i]
    BY ElementOf
  <2>2. Copied(s)[i] =
            [bookingGroups |-> Each(t.bookingGroups, LAMBDA g : [products |-> g.products])]
    BY <1>2, <2>1, Zenon
  <2> QED
    BY <1>1, <2>1, <2>2, Zenon
<1>4. PICK copy : copy = Copied(s) /\ copy = [i \in DOMAIN s |-> copy[i]]
  BY <1>2, Zenon
<1>5. PICK n \in Nat : DOMAIN s = 1..n /\ s = [i \in 1..n |-> s[i]]
  OBVIOUS
<1> QED
  BY <1>3, <1>4, <1>5

\* Field f of a struct one level down, and two.
Listed2(type, s) == CompletedList(type, s, Complete2)
Listed1(type, s) == CompletedList(type, s, Complete1)
Field2(name, v, f) ==
    IF f \notin DOMAIN v THEN "scalar"
    ELSE IF f \in DOMAIN Types[name].list THEN Listed2(Types[name].list[f], v[f])
    ELSE IF f \in DOMAIN Types[name].object THEN Complete2(Types[name].object[f], v[f])
    ELSE v[f]
Field1(name, v, f) ==
    IF f \notin DOMAIN v THEN "scalar"
    ELSE IF f \in DOMAIN Types[name].list THEN Listed1(Types[name].list[f], v[f])
    ELSE IF f \in DOMAIN Types[name].object THEN Complete1(Types[name].object[f], v[f])
    ELSE v[f]

LEMMA WholeInner ==
    ASSUME NilIsNoStruct, NEW name, NEW v, v # Nil
    PROVE  /\ (\A f \in Types[name].required : Field2(name, v, f) # Nil) =>
                 /\ Complete3(name, v) # Nil
                 /\ \A f \in Fields(name) : Complete3(name, v)[f] = Field2(name, v, f)
           /\ (\A f \in Types[name].required : Field1(name, v, f) # Nil) =>
                 /\ Complete2(name, v) # Nil
                 /\ \A f \in Fields(name) : Complete2(name, v)[f] = Field1(name, v, f)
<1>1. ASSUME \A f \in Types[name].required : Field2(name, v, f) # Nil
      PROVE  /\ Complete3(name, v) # Nil
             /\ \A f \in Fields(name) : Complete3(name, v)[f] = Field2(name, v, f)
  <2>1. Complete3(name, v) = [f \in Fields(name) |-> Field2(name, v, f)]
    BY <1>1, Zenon DEF Complete3, CompletedObject, Field2, Fields, Listed2
  <2>2. PICK g : g = Complete3(name, v)
    OBVIOUS
  <2>3. g = [f \in Fields(name) |-> g[f]]
    BY <2>1, <2>2
  <2> QED
    BY <2>1, <2>2, <2>3, FunctionIsNotNil
<1>2. ASSUME \A f \in Types[name].required : Field1(name, v, f) # Nil
      PROVE  /\ Complete2(name, v) # Nil
             /\ \A f \in Fields(name) : Complete2(name, v)[f] = Field1(name, v, f)
  <2>1. Complete2(name, v) = [f \in Fields(name) |-> Field1(name, v, f)]
    BY <1>2, Zenon DEF Complete2, CompletedObject, Field1, Fields, Listed1
  <2>2. PICK g : g = Complete2(name, v)
    OBVIOUS
  <2>3. g = [f \in Fields(name) |-> g[f]]
    BY <2>1, <2>2
  <2> QED
    BY <2>1, <2>2, <2>3, FunctionIsNotNil
<1> QED
  BY <1>1, <1>2

LEMMA WholeInnerList ==
    ASSUME NilIsNoStruct, NEW type, NEW T, NEW s \in Seq(T)
    PROVE  /\ (\A i \in DOMAIN s : Complete2(type, s[i]) # Nil) =>
                 /\ Listed2(type, s) # Nil /\ Len(Listed2(type, s)) = Len(s)
                 /\ \A i \in DOMAIN s : Listed2(type, s)[i] = Complete2(type, s[i])
           /\ (\A i \in DOMAIN s : Complete1(type, s[i]) # Nil) =>
                 /\ Listed1(type, s) # Nil /\ Len(Listed1(type, s)) = Len(s)
                 /\ \A i \in DOMAIN s : Listed1(type, s)[i] = Complete1(type, s[i])
<1>1. ASSUME \A i \in DOMAIN s : Complete2(type, s[i]) # Nil
      PROVE  /\ Listed2(type, s) # Nil /\ Len(Listed2(type, s)) = Len(s)
             /\ \A i \in DOMAIN s : Listed2(type, s)[i] = Complete2(type, s[i])
  <2>1. Listed2(type, s) = [i \in DOMAIN s |-> Complete2(type, s[i])]
    BY <1>1, Zenon DEF Listed2, CompletedList
  <2>2. PICK g : g = Listed2(type, s)
    OBVIOUS
  <2>3. Struct(g) /\ DOMAIN g = DOMAIN s
    BY <2>1, <2>2 DEF Struct
  <2>4. g # Nil /\ Len(g) = Len(s)
    BY <2>3, StructIsNotNil, SameLen
  <2> QED
    BY <2>1, <2>2, <2>4
<1>2. ASSUME \A i \in DOMAIN s : Complete1(type, s[i]) # Nil
      PROVE  /\ Listed1(type, s) # Nil /\ Len(Listed1(type, s)) = Len(s)
             /\ \A i \in DOMAIN s : Listed1(type, s)[i] = Complete1(type, s[i])
  <2>1. Listed1(type, s) = [i \in DOMAIN s |-> Complete1(type, s[i])]
    BY <1>2, Zenon DEF Listed1, CompletedList
  <2>2. PICK g : g = Listed1(type, s)
    OBVIOUS
  <2>3. Struct(g) /\ DOMAIN g = DOMAIN s
    BY <2>1, <2>2 DEF Struct
  <2>4. g # Nil /\ Len(g) = Len(s)
    BY <2>3, StructIsNotNil, SameLen
  <2> QED
    BY <2>1, <2>2, <2>4
<1> QED
  BY <1>1, <1>2

LEMMA ProductShown ==
    ASSUME NilIsNoStruct, NEW e \in Product
    PROVE  /\ Complete1("PricingTemplateProduct", e) # Nil
           /\ Carries(Complete1("PricingTemplateProduct", e), e)
<1>1. PICK type : type = "PricingTemplateProduct"
  OBVIOUS
<1>2. Types[type] = PricingTemplateProduct
  BY <1>1 DEF Types
<1>3. IsLeaf(type) /\ "groupId" \in Fields(type)
  BY <1>2 DEF IsLeaf, PricingTemplateProduct, Leaf, Type, None, Fields
<1>4. LeafOf(type, e)
  BY <1>3, NilIsApart DEF Product, LeafOf, Struct
<1> QED
  BY <1>1, <1>3, <1>4, LeafShown

LEMMA GroupShown ==
    ASSUME NilIsNoStruct, NEW g \in Group
    PROVE  /\ Complete2("PricingTemplateBookingGroup", g) # Nil
           /\ CarriesEach(Complete2("PricingTemplateBookingGroup", g).products, g.products)
<1>1. PICK name, type : name = "PricingTemplateBookingGroup" /\ type = "PricingTemplateProduct"
  OBVIOUS
<1>2. Types[name] = PricingTemplateBookingGroup
  BY <1>1 DEF Types
<1>3. /\ DOMAIN Types[name].list = {"products"} /\ Types[name].list["products"] = type
      /\ "products" \in Fields(name)
  BY <1>1, <1>2 DEF PricingTemplateBookingGroup, Type, Fields
<1>4. PICK s \in Seq(Product) : s = g["products"]
  BY DEF Group
<1>5. Struct(g) /\ DOMAIN g = {"products"}
  BY DEF Group, Struct
<1>6. g # Nil
  BY <1>5, StructIsNotNil
<1>7. \A i \in DOMAIN s : Complete1(type, s[i]) # Nil /\ Carries(Complete1(type, s[i]), s[i])
  BY <1>1, ElementOf, ProductShown
<1>8. PICK l : l = Listed1(type, s)
  OBVIOUS
<1>9. l # Nil /\ CarriesEach(l, s)
  <2>1. l # Nil /\ Len(l) = Len(s) /\ \A i \in DOMAIN s : l[i] = Complete1(type, s[i])
    BY <1>7, <1>8, WholeInnerList
  <2> QED
    BY <1>7, <2>1 DEF CarriesEach
<1>10. Field1(name, g, "products") = l
  BY <1>3, <1>4, <1>5, <1>8, Zenon DEF Field1
<1>11. \A f : f \notin DOMAIN g => Field1(name, g, f) = "scalar"
  BY DEF Field1
<1>12. \A f \in Types[name].required : Field1(name, g, f) # Nil
  BY <1>5, <1>9, <1>10, <1>11, HistoryTypes
<1>13. Complete2(name, g) # Nil /\ Complete2(name, g)["products"] = l
  BY <1>3, <1>6, <1>10, <1>12, WholeInner
<1> QED
  BY <1>1, <1>4, <1>9, <1>13

LEMMA TemplateShown ==
    ASSUME NilIsNoStruct, NEW t \in Template
    PROVE  /\ Complete3("PricingTemplate", t) # Nil
           /\ CarriesGroups(Complete3("PricingTemplate", t).bookingGroups, t.bookingGroups)
<1>1. PICK name, type : name = "PricingTemplate" /\ type = "PricingTemplateBookingGroup"
  OBVIOUS
<1>2. Types[name] = PricingTemplate
  BY <1>1 DEF Types
<1>3. /\ DOMAIN Types[name].list = {"bookingGroups"} /\ Types[name].list["bookingGroups"] = type
      /\ "bookingGroups" \in Fields(name)
  BY <1>1, <1>2 DEF PricingTemplate, Type, Fields
<1>4. PICK s \in Seq(Group) : s = t["bookingGroups"]
  BY DEF Template
<1>5. Struct(t) /\ DOMAIN t = {"bookingGroups"}
  BY DEF Template, Struct
<1>6. t # Nil
  BY <1>5, StructIsNotNil
<1>7. \A i \in DOMAIN s : /\ Complete2(type, s[i]) # Nil
                          /\ CarriesEach(Complete2(type, s[i]).products, s[i].products)
  BY <1>1, ElementOf, GroupShown
<1>8. PICK l : l = Listed2(type, s)
  OBVIOUS
<1>9. l # Nil /\ CarriesGroups(l, s)
  <2>1. l # Nil /\ Len(l) = Len(s) /\ \A i \in DOMAIN s : l[i] = Complete2(type, s[i])
    BY <1>7, <1>8, WholeInnerList
  <2> QED
    BY <1>7, <2>1 DEF CarriesGroups
<1>10. Field2(name, t, "bookingGroups") = l
  BY <1>3, <1>4, <1>5, <1>8, Zenon DEF Field2
<1>11. \A f : f \notin DOMAIN t => Field2(name, t, f) = "scalar"
  BY DEF Field2
<1>12. \A f \in Types[name].required : Field2(name, t, f) # Nil
  BY <1>5, <1>9, <1>10, <1>11, HistoryTypes
<1>13. Complete3(name, t) # Nil /\ Complete3(name, t)["bookingGroups"] = l
  BY <1>3, <1>6, <1>10, <1>12, WholeInner
<1> QED
  BY <1>1, <1>4, <1>9, <1>13

LEMMA TemplatesWhole ==
    ASSUME NilIsNoStruct, NEW f, f = "getPricingTemplates", NEW m \in MessageTypes[LastCall[f]]
    PROVE  Faithful(f, m, Final(f, LastCall[f], m))
<1>1. PICK c, v, name : /\ c = LastCall[f] /\ v = Returned(c, DTO(c, m))
                        /\ name = RootFields[f].type
  OBVIOUS
<1>2. PICK type, list : type = "PricingTemplate" /\ list = "pricingTemplates"
  OBVIOUS
<1>3. c = "GetPricingTemplates" /\ m \in [response : Header, pricingTemplates : Seq(Template)]
  BY <1>1 DEF LastCall, MessageTypes, Template, Group, Product
<1>4. PICK s \in Seq(Template) : s = m.pricingTemplates
  BY <1>3
<1>5. v = [status |-> mapResponseStatusToGraphQL(StatusOf(m.response)), pricingTemplates |-> s]
  <2>1. DTO(c, m) = [response |-> m.response, pricingTemplates |-> Copied(m.pricingTemplates)]
    BY <1>3, Zenon DEF DTO, FromGRPCGetPricingTemplatesResponse, Copied
  <2>2. PICK r : r = DTO(c, m)
    OBVIOUS
  <2>3. r.response = m.response /\ r.pricingTemplates = s
    BY <1>4, <2>1, <2>2, CopiesAreEqual
  <2>4. v = ToPricingTemplatesResponse(ToPricingTemplatesDomain(r))
    BY <1>1, <1>3, <2>2 DEF Returned, GetPricingTemplates
  <2>5. ToPricingTemplatesDomain(r) =
            [status |-> StatusOf(r.response), pricingTemplates |-> Copied(r.pricingTemplates)]
    BY Zenon DEF ToPricingTemplatesDomain, Copied
  <2>6. PICK d : d = ToPricingTemplatesDomain(r)
    OBVIOUS
  <2>7. d.status = StatusOf(m.response) /\ d.pricingTemplates = s
    BY <2>3, <2>5, <2>6, CopiesAreEqual
  <2>8. v = [status |-> Told(d), pricingTemplates |-> Copied(d.pricingTemplates)]
    BY <2>4, <2>6, Zenon DEF ToPricingTemplatesResponse, Copied
  <2> QED
    BY <2>7, <2>8, CopiesAreEqual DEF Told
<1>6. name = "GetPricingTemplatesResponse"
  BY <1>1 DEF RootFields, getPricingTemplates, Field
<1>7. Types[name] = GetPricingTemplatesResponse
  BY <1>6 DEF Types
<1>8. HasList(name, list, type)
  BY <1>2, <1>7 DEF HasList, GetPricingTemplatesResponse, Type, None, Fields, GenericResponse
<1>9. PICK told : told = ToldOf(m)
  OBVIOUS
<1>10. v["status"] = told /\ told # Nil
  BY <1>3, <1>5, <1>9, HeaderTold
<1>11. Listing(v, list) /\ v[list] = s
  BY <1>2, <1>5, <1>10 DEF Struct, Listing
<1>12. PICK g : g = Listed(type, s)
  OBVIOUS
<1>13. g # Nil /\ g = [i \in DOMAIN s |-> Complete3(type, s[i])]
  <2>1. \A i \in DOMAIN s : Complete3(type, s[i]) # Nil
    BY <1>2, ElementOf, TemplateShown
  <2> QED
    BY <1>12, <2>1, WholeList
<1>14. CarriesTemplates(g, s)
  <2>1. Struct(g) /\ DOMAIN g = DOMAIN s
    BY <1>13 DEF Struct
  <2>2. Len(g) = Len(s)
    BY <2>1, SameLen
  <2>3. \A i \in DOMAIN s : CarriesGroups(Complete3(type, s[i]).bookingGroups, s[i].bookingGroups)
    BY <1>2, ElementOf, TemplateShown
  <2> QED
    BY <1>13, <2>2, <2>3 DEF CarriesTemplates
<1>15. PICK data : data = Complete(name, v)
  OBVIOUS
<1>16. data # Nil /\ data["status"] = told /\ data[list] = g
  <2>1. g = Listed(type, v[list]) /\ g # Nil
    BY <1>11, <1>12, <1>13
  <2>2. data # Nil /\ data["status"] = v["status"] /\ data[list] = g
    BY <1>8, <1>11, <1>15, <2>1, ListAnswer
  <2> QED
    BY <1>10, <2>2
<1>17. Faithful(f, m, data)
  BY <1>2, <1>3, <1>4, <1>9, <1>14, <1>16 DEF Faithful, Nested, Payload
<1> QED
  BY <1>1, <1>15, <1>17 DEF Final

\* The infrastructure behind a QR code.
TimeMessage == [name : STRING, unitMeasurement : Int]

LEMMA UnitsMapped ==
    /\ \A n : mapUnitMeasurement(n) \in Units
    /\ \A u \in Units : mapUnitMeasurementToGraphQL(u) # Nil
    /\ \A n \in Int : mapUnitMeasurementToGraphQL(mapUnitMeasurement(n)) =
                         Word(UnitNames, n, "UNSPECIFIED")
<1>1. \A n : mapUnitMeasurement(n) \in Units
  BY DEF mapUnitMeasurement, Units
<1>2. \A u \in Units : mapUnitMeasurementToGraphQL(u) \in
                           {"HOUR", "DAY", "WEEK", "MONTH", "UNSPECIFIED"}
  BY DEF mapUnitMeasurementToGraphQL, Units
<1>3. Nil \notin {"HOUR", "DAY", "WEEK", "MONTH", "UNSPECIFIED"}
  BY PeersAssumption
<1>4. \A n \in Int : mapUnitMeasurementToGraphQL(mapUnitMeasurement(n)) =
                       Word(UnitNames, n, "UNSPECIFIED")
  BY WordTables DEF mapUnitMeasurementToGraphQL, mapUnitMeasurement, Word
<1> QED
  BY <1>1, <1>2, <1>3, <1>4

\* The three mappers over the booking times of a message.
FromMessage(s) == Each(s, LAMBDA t : [name |-> t.name, unitMeasurement |-> t.unitMeasurement])
ForDomain(dto) ==
    Each(dto, LAMBDA t : [name |-> t.name,
                          unitMeasurement |-> mapUnitMeasurement(t.unitMeasurement)])

LEMMA TimesMapped ==
    ASSUME NEW s \in Seq(TimeMessage), NEW domain, domain = ForDomain(FromMessage(s))
    PROVE  /\ domain \in Seq(TimeModel) /\ DOMAIN domain = DOMAIN s /\ Len(domain) = Len(s)
           /\ \A i \in DOMAIN s :
                 /\ domain[i].name = s[i].name
                 /\ domain[i].unitMeasurement = mapUnitMeasurement(s[i].unitMeasurement)
<1>1. PICK dto : dto = FromMessage(s)
  OBVIOUS
<1>2. dto = [i \in DOMAIN s |-> [name |-> s[i].name, unitMeasurement |-> s[i].unitMeasurement]]
  BY <1>1, Zenon DEF FromMessage, Each
<1>3. domain = [i \in DOMAIN dto |->
                   [name |-> dto[i].name,
                    unitMeasurement |-> mapUnitMeasurement(dto[i].unitMeasurement)]]
  BY <1>1, Zenon DEF ForDomain, Each
<1>4. DOMAIN dto = DOMAIN s /\ \A i \in DOMAIN s : /\ dto[i].name = s[i].name
                                                  /\ dto[i].unitMeasurement = s[i].unitMeasurement
  BY <1>2
<1>5. /\ DOMAIN domain = DOMAIN s
      /\ \A i \in DOMAIN s :
            domain[i] = [name |-> s[i].name,
                         unitMeasurement |-> mapUnitMeasurement(s[i].unitMeasurement)]
  BY <1>3, <1>4
<1>6. ASSUME NEW i \in DOMAIN s PROVE domain[i] \in TimeModel
  <2>1. PICK e \in TimeMessage : e = s[i]
    BY ElementOf
  <2>2. e.name \in STRING
    BY DEF TimeMessage
  <2>3. PICK u \in Units : u = mapUnitMeasurement(s[i].unitMeasurement)
    BY UnitsMapped
  <2>4. domain[i] = [name |-> e.name, unitMeasurement |-> u]
    BY <1>5, <2>1, <2>3
  <2> QED
    BY <2>2, <2>3, <2>4 DEF TimeModel
<1>7. Struct(domain)
  BY <1>3 DEF Struct
<1>8. domain \in Seq(TimeModel)
  <2>1. PICK n \in Nat : DOMAIN s = 1..n
    OBVIOUS
  <2>2. domain = [i \in 1..n |-> domain[i]] /\ \A i \in 1..n : domain[i] \in TimeModel
    BY <1>5, <1>6, <1>7, <2>1 DEF Struct
  <2> QED
    BY <2>2
<1>9. Len(domain) = Len(s)
  BY <1>5, <1>7, SameLen
<1> QED
  BY <1>5, <1>8, <1>9

\* What the GraphQL mapper makes of the times that are left.
ForGraphQL(times) ==
    Each(times, LAMBDA t : [name |-> t.name, unitMeasurement |->
                                mapUnitMeasurementToGraphQL(t.unitMeasurement)])

LEMMA TimesShown ==
    ASSUME NilIsNoStruct, NEW times \in Seq(TimeModel),
           NEW shown, shown = ForGraphQL(times),
           NEW g, g = Listed("PaymentBookingTime", shown)
    PROVE  /\ g # Nil /\ DOMAIN g = DOMAIN times
           /\ \A i \in DOMAIN times :
                 /\ g[i].name = times[i].name
                 /\ g[i].unitMeasurement = mapUnitMeasurementToGraphQL(times[i].unitMeasurement)
<1>1. PICK type : type = "PaymentBookingTime"
  OBVIOUS
<1>2. Types[type] = PaymentBookingTime
  BY <1>1 DEF Types
<1>3. IsLeaf(type) /\ {"name", "unitMeasurement"} \subseteq Fields(type)
  BY <1>2 DEF IsLeaf, PaymentBookingTime, Leaf, Type, None, Fields
<1>4. shown = [i \in DOMAIN times |->
                  [name |-> times[i].name, unitMeasurement |->
                      mapUnitMeasurementToGraphQL(times[i].unitMeasurement)]]
  BY Zenon DEF ForGraphQL, Each
<1>5. /\ DOMAIN shown = DOMAIN times
      /\ \A i \in DOMAIN times :
            /\ DOMAIN shown[i] = {"name", "unitMeasurement"}
            /\ shown[i]["name"] = times[i].name
            /\ shown[i]["unitMeasurement"] = mapUnitMeasurementToGraphQL(times[i].unitMeasurement)
  BY <1>4
<1>6. ASSUME NEW i \in DOMAIN shown PROVE LeafOf(type, shown[i])
  <2>1. PICK e \in TimeModel : e = times[i]
    BY <1>5, ElementOf
  <2>2. e.name \in STRING /\ e.unitMeasurement \in Units
    BY DEF TimeModel
  <2>3. PICK u : u = mapUnitMeasurementToGraphQL(e.unitMeasurement)
    OBVIOUS
  <2>4. u # Nil
    BY <2>2, <2>3, UnitsMapped
  <2>5. PICK w : w = shown[i]
    OBVIOUS
  <2>6. w = [name |-> e.name, unitMeasurement |-> u]
    BY <1>4, <1>5, <2>1, <2>3, <2>5
  <2>7. Struct(w) /\ DOMAIN w = {"name", "unitMeasurement"}
    BY <2>6 DEF Struct
  <2>8. w["name"] # Nil /\ w["unitMeasurement"] # Nil
    BY <2>2, <2>4, <2>6, NilIsApart
  <2>9. LeafOf(type, w)
    BY <1>3, <2>7, <2>8 DEF LeafOf
  <2> QED
    BY <2>5, <2>9
<1>7. /\ g # Nil /\ DOMAIN g = DOMAIN shown
      /\ \A i \in DOMAIN shown : Carries(g[i], shown[i])
  BY <1>1, <1>3, <1>6, ListOfLeaves
<1>8. ASSUME NEW i \in DOMAIN times
      PROVE  /\ g[i]["name"] = shown[i]["name"]
             /\ g[i]["unitMeasurement"] = shown[i]["unitMeasurement"]
  <2>1. PICK x, y : x = g[i] /\ y = shown[i]
    OBVIOUS
  <2>2. Carries(x, y) /\ DOMAIN y = {"name", "unitMeasurement"}
    BY <1>5, <1>7, <2>1
  <2>3. x["name"] = y["name"] /\ x["unitMeasurement"] = y["unitMeasurement"]
    BY <2>2 DEF Carries
  <2> QED
    BY <2>1, <2>3
<1> QED
  BY <1>5, <1>7, <1>8

\* From the message to the client: what is left, where it stood, in words.
LEMMA TimesCarried ==
    ASSUME NilIsNoStruct, NEW s \in Seq(TimeMessage),
           NEW domain, domain = ForDomain(FromMessage(s)),
           NEW times, times = ForPayers(domain),
           NEW g, g = Listed("PaymentBookingTime", ForGraphQL(times))
    PROVE  g # Nil /\ CarriesTimes(g, s)
<1>1. /\ domain \in Seq(TimeModel) /\ DOMAIN domain = DOMAIN s /\ Len(domain) = Len(s)
      /\ \A i \in DOMAIN s :
            /\ domain[i].name = s[i].name
            /\ domain[i].unitMeasurement = mapUnitMeasurement(s[i].unitMeasurement)
  BY TimesMapped
<1>2. times \in Seq(TimeModel) /\ \E at : Picks(times, domain, Len(domain), at)
  BY <1>1, PayersTimes
<1>3. /\ g # Nil /\ DOMAIN g = DOMAIN times
      /\ \A i \in DOMAIN times :
            /\ g[i].name = times[i].name
            /\ g[i].unitMeasurement = mapUnitMeasurementToGraphQL(times[i].unitMeasurement)
  BY <1>2, TimesShown
<1>4. PICK at : Picks(times, domain, Len(domain), at)
  BY <1>2
<1>5. DOMAIN s = 1..Len(domain)
  BY <1>1
<1>6. at \in [DOMAIN g -> DOMAIN s]
  BY <1>3, <1>4, <1>5 DEF Picks
<1>7. \A i, j \in DOMAIN g : i < j => at[i] < at[j]
  BY <1>3, <1>4 DEF Picks
<1>8. {at[i] : i \in DOMAIN g} = {k \in DOMAIN s : s[k].name # "Admin"}
  <2>1. \A i \in DOMAIN g : at[i] \in DOMAIN s /\ s[at[i]].name # "Admin"
    BY <1>1, <1>3, <1>4, <1>6 DEF Picks
  <2>2. \A k \in DOMAIN s : s[k].name # "Admin" => \E i \in DOMAIN g : at[i] = k
    BY <1>1, <1>3, <1>4, <1>5 DEF Picks
  <2> QED
    BY <2>1, <2>2
<1>9. ASSUME NEW i \in DOMAIN g
      PROVE  /\ g[i].name = s[at[i]].name
             /\ g[i].unitMeasurement = Word(UnitNames, s[at[i]].unitMeasurement, "UNSPECIFIED")
  <2>1. PICK k \in DOMAIN s : k = at[i]
    BY <1>6
  <2>2. times[i] = domain[k]
    BY <1>3, <1>4, <2>1 DEF Picks
  <2>3. PICK e \in TimeMessage : e = s[k]
    BY ElementOf
  <2>4. PICK n \in Int : n = e.unitMeasurement
    BY DEF TimeMessage
  <2>5. g[i].name = e.name
    BY <1>1, <1>3, <2>2, <2>3
  <2>6. g[i].unitMeasurement = mapUnitMeasurementToGraphQL(mapUnitMeasurement(n))
    BY <1>1, <1>3, <2>2, <2>3, <2>4
  <2>7. g[i].unitMeasurement = Word(UnitNames, n, "UNSPECIFIED")
    BY <2>6, UnitsMapped
  <2> QED
    BY <2>1, <2>3, <2>4, <2>5, <2>7
<1>10. CarriesTimes(g, s)
  BY <1>6, <1>7, <1>8, <1>9, Zenon DEF CarriesTimes
<1> QED
  BY <1>3, <1>10

LEMMA InfraWhole ==
    ASSUME NilIsNoStruct, NEW f, f = "getPaymentInfraByQrValue", NEW m \in MessageTypes[LastCall[f]]
    PROVE  Faithful(f, m, Final(f, LastCall[f], m))
<1>1. PICK c, v, name : /\ c = LastCall[f] /\ v = Returned(c, DTO(c, m))
                        /\ name = RootFields[f].type
  OBVIOUS
<1>2. /\ c = "GetPaymentInfraByQrValue"
      /\ m \in [response : Header, paymentRack : {Nil} \cup [id : Int],
                installation : {Nil} \cup [id : Int], device : {Nil} \cup [name : STRING],
                bookingTimes : Seq(TimeMessage)]
  BY <1>1 DEF LastCall, MessageTypes, TimeMessage
<1>3. PICK s \in Seq(TimeMessage) : s = m.bookingTimes
  BY <1>2
<1>4. PICK domain : domain = ForDomain(FromMessage(s))
  OBVIOUS
<1>5. PICK times, shown : times = ForPayers(domain) /\ shown = ForGraphQL(times)
  OBVIOUS
<1>6. v = [status |-> mapResponseStatusToGraphQL(StatusOf(m.response)),
           paymentRack |-> m.paymentRack, installation |-> m.installation, device |-> m.device,
           bookingTimes |-> shown]
  <2>1. DTO(c, m) = [response |-> m.response, paymentRack |-> m.paymentRack,
                     installation |-> m.installation, device |-> m.device,
                     bookingTimes |-> FromMessage(m.bookingTimes)]
    BY <1>2, Zenon DEF DTO, FromGRPCGetPaymentInfraResponse, FromMessage
  <2>2. PICK r : r = DTO(c, m)
    OBVIOUS
  <2>3. PICK d : d = ToDomain(r)
    OBVIOUS
  <2>4. d = [status |-> StatusOf(r.response), paymentRack |-> r.paymentRack,
             installation |-> r.installation, device |-> r.device,
             bookingTimes |-> ForDomain(r.bookingTimes)]
    BY <2>3, Zenon DEF ToDomain, ForDomain
  <2>5. v = ToGraphQLResponse(d)
    BY <1>1, <1>2, <2>2, <2>3 DEF Returned, GetPaymentInfraByQRValue
  <2>6. v = [status |-> Told(d), paymentRack |-> d.paymentRack, installation |-> d.installation,
             device |-> d.device, bookingTimes |-> ForGraphQL(ForPayers(d.bookingTimes))]
    BY <2>5, Zenon DEF ToGraphQLResponse, ForGraphQL
  <2>7. /\ r.response = m.response /\ r.paymentRack = m.paymentRack
        /\ r.installation = m.installation /\ r.device = m.device
        /\ r.bookingTimes = FromMessage(s)
    BY <1>3, <2>1, <2>2
  <2>8. /\ d.status = StatusOf(m.response) /\ d.paymentRack = m.paymentRack
        /\ d.installation = m.installation /\ d.device = m.device /\ d.bookingTimes = domain
    BY <1>4, <2>4, <2>7
  <2> QED
    BY <1>5, <2>6, <2>8 DEF Told
<1>7. name = "PaymentInfraResponse"
  BY <1>1 DEF RootFields, getPaymentInfraByQrValue, Field
<1>8. PICK rack, installation, device, list :
          /\ rack = "PaymentRack" /\ installation = "PaymentInstallation"
          /\ device = "PaymentDevice" /\ list = "PaymentBookingTime"
  OBVIOUS
<1>9. /\ Types[name] = PaymentInfraResponse /\ Types[rack] = PaymentRack
      /\ Types[installation] = PaymentInstallation /\ Types[device] = PaymentDevice
  BY <1>7, <1>8 DEF Types
<1>10. /\ IsLeaf(rack) /\ IsLeaf(installation) /\ IsLeaf(device)
       /\ "id" \in Fields(rack) /\ "id" \in Fields(installation) /\ "name" \in Fields(device)
  BY <1>9 DEF IsLeaf, PaymentRack, PaymentInstallation, PaymentDevice, Leaf, Type, None, Fields
<1>11. /\ DOMAIN Types[name].list = {"bookingTimes"} /\ Types[name].list["bookingTimes"] = list
       /\ DOMAIN Types[name].object = {"paymentRack", "installation", "device"}
       /\ Types[name].object["paymentRack"] = rack
       /\ Types[name].object["installation"] = installation
       /\ Types[name].object["device"] = device
  BY <1>8, <1>9 DEF PaymentInfraResponse, Type
<1>12. /\ Types[name].required = GenericResponse \cup {"bookingTimes"}
       /\ {"status", "paymentRack", "installation", "device", "bookingTimes"} \subseteq Fields(name)
       /\ {"paymentRack", "installation", "device"} \cap Types[name].required = {}
  BY <1>9 DEF PaymentInfraResponse, Type, Fields, GenericResponse
<1>13. PICK told : told = ToldOf(m)
  OBVIOUS
<1>14. v["status"] = told /\ told # Nil
  BY <1>2, <1>6, <1>13, HeaderTold
<1>15. /\ Struct(v)
       /\ DOMAIN v = {"status", "paymentRack", "installation", "device", "bookingTimes"}
  BY <1>6 DEF Struct
<1>16. /\ v["paymentRack"] = m["paymentRack"] /\ v["installation"] = m["installation"]
       /\ v["device"] = m["device"] /\ v["bookingTimes"] = shown
  BY <1>6
<1>17. PICK g : g = Listed(list, shown)
  OBVIOUS
<1>18. g # Nil /\ CarriesTimes(g, s)
  BY <1>4, <1>5, <1>8, <1>17, TimesCarried
<1>19. /\ CarriesPart(Complete3(rack, m["paymentRack"]), m["paymentRack"])
       /\ CarriesPart(Complete3(installation, m["installation"]), m["installation"])
       /\ CarriesPart(Complete3(device, m["device"]), m["device"])
  <2>1. PICK x \in {Nil} \cup [id : Int], y \in {Nil} \cup [id : Int],
             z \in {Nil} \cup [name : STRING] :
            x = m["paymentRack"] /\ y = m["installation"] /\ z = m["device"]
    BY <1>2
  <2>2. x = Nil \/ LeafOf(rack, x)
    BY <1>10, NilIsApart DEF LeafOf, Struct
  <2>3. y = Nil \/ LeafOf(installation, y)
    BY <1>10, NilIsApart DEF LeafOf, Struct
  <2>4. z = Nil \/ LeafOf(device, z)
    BY <1>10, NilIsApart DEF LeafOf, Struct
  <2> QED
    BY <1>10, <2>1, <2>2, <2>3, <2>4, NestedLeaf
<1>20. /\ Field3(name, v, "status") = told
       /\ Field3(name, v, "bookingTimes") = g
       /\ Field3(name, v, "paymentRack") = Complete3(rack, m["paymentRack"])
       /\ Field3(name, v, "installation") = Complete3(installation, m["installation"])
       /\ Field3(name, v, "device") = Complete3(device, m["device"])
  BY <1>11, <1>14, <1>15, <1>16, <1>17 DEF Field3
<1>21. PICK data : data = Complete(name, v)
  OBVIOUS
<1>22. data # Nil /\ \A x \in DOMAIN v : data[x] = Field3(name, v, x)
  <2>1. \A x \in DOMAIN v : x \in Types[name].required => Field3(name, v, x) # Nil
    BY <1>12, <1>14, <1>15, <1>18, <1>20
  <2>2. DOMAIN v \subseteq Fields(name)
    BY <1>12, <1>15
  <2> QED
    BY <1>15, <1>21, <2>1, <2>2, NestedAnswer
<1>23. data["status"] = told /\ data["bookingTimes"] = g
  BY <1>15, <1>20, <1>22
<1>24. /\ CarriesPart(data["paymentRack"], m["paymentRack"])
       /\ CarriesPart(data["installation"], m["installation"])
       /\ CarriesPart(data["device"], m["device"])
  BY <1>15, <1>19, <1>20, <1>22
<1>25. DOMAIN m = {"response", "paymentRack", "installation", "device", "bookingTimes"}
       /\ m["bookingTimes"] = s
  BY <1>2, <1>3
<1>26. Faithful(f, m, data)
  BY <1>13, <1>18, <1>22, <1>23, <1>24, <1>25 DEF Faithful, Nested, Payload
<1> QED
  BY <1>1, <1>21, <1>26 DEF Final

-----------------------------------------------------------------------------
(* Every message that is not an error *)

LEMMA UnusableIsError ==
    ASSUME NEW c \in DOMAIN MessageTypes, NEW m \in MessageTypes[c], Unusable(c, m)
    PROVE  IsError(m) /\ c # "ValidateDiscountCoupon"
<1>1. ErrorOf(c) # "" /\ c # "ValidateDiscountCoupon" /\ c \notin LocalAccess
  BY DEF Unusable, ErrorOf, ValidateDiscountCouponError, LocalAccess
<1>2. c # "GetPurchaseOrderByPo"
  BY DEF MessageTypes
<1>3. c \in {"GetPaymentInfraByQrValue", "GetAvailableLockers", "GenerateCoupon",
             "GeneratePurchaseOrder", "GenerateBooking", "CheckBookingStatus",
             "GetPricingTemplates", "GetBookingTimes", "CreateRackPayment",
             "FindExactPricingTemplate", "CreatePricingTemplate", "UpdatePricingTemplate",
             "DeletePricingTemplate"}
  BY <1>1, <1>2 DEF MessageTypes, LocalAccess
<1>4. "response" \in DOMAIN m
  <2>1. CASE c = "GetPaymentInfraByQrValue"
    BY <2>1 DEF MessageTypes
  <2>2. CASE c = "GetAvailableLockers"
    BY <2>2 DEF MessageTypes
  <2>3. CASE c = "GenerateCoupon"
    BY <2>3 DEF MessageTypes
  <2>4. CASE c = "GeneratePurchaseOrder"
    BY <2>4 DEF MessageTypes
  <2>5. CASE c = "GenerateBooking"
    BY <2>5 DEF MessageTypes
  <2>6. CASE c = "CheckBookingStatus"
    BY <2>6 DEF MessageTypes
  <2>7. CASE c = "GetPricingTemplates"
    BY <2>7 DEF MessageTypes
  <2>8. CASE c = "GetBookingTimes"
    BY <2>8 DEF MessageTypes
  <2>9. CASE c = "CreateRackPayment"
    BY <2>9 DEF MessageTypes
  <2>10. CASE c = "FindExactPricingTemplate"
    BY <2>10 DEF MessageTypes
  <2>11. CASE c = "CreatePricingTemplate"
    BY <2>11 DEF MessageTypes
  <2>12. CASE c = "UpdatePricingTemplate"
    BY <2>12 DEF MessageTypes
  <2>13. CASE c = "DeletePricingTemplate"
    BY <2>13 DEF MessageTypes
  <2> QED
    BY <1>3, <2>1, <2>2, <2>3, <2>4, <2>5, <2>6, <2>7, <2>8, <2>9, <2>10, <2>11, <2>12, <2>13
<1>5. DTO(c, m).response = m.response
  BY <1>3 DEF DTO, FromGRPCGetPaymentInfraResponse,
     FromGRPCGetAvailableLockersByRackIDAndBookingTimeResponse, FromGRPCGenerateCouponResponse,
     FromGRPCGeneratePurchaseOrderResponse, FromGRPCGenerateBookingResponse,
     FromGRPCCheckBookingStatusResponse, FromGRPCGetPricingTemplatesResponse,
     FromGRPCGetBookingTimesResponse, FromGRPCCreateRackPaymentResponse,
     FromGRPCFindExactPricingTemplateResponse, FromGRPCCreatePricingTemplateResponse,
     FromGRPCUpdatePricingTemplateResponse, FromGRPCDeletePricingTemplateResponse
<1> QED
  BY <1>1, <1>4, <1>5 DEF Unusable, IsError

LEMMA EveryFieldFaithful ==
    ASSUME NilIsNoStruct, NEW f \in FieldNames \ {"getBookingPayment"},
           NEW m \in MessageTypes[LastCall[f]]
    PROVE  Faithful(f, m, Final(f, LastCall[f], m))
<1>1. f # "getPurchaseOrderByPo"
  BY DEF LastCall, MessageTypes
<1> QED
  BY <1>1, PlainFields, LocalAccessFields, LockersWhole, TimesWhole, StatusWhole, TemplatesWhole,
     InfraWhole DEF FieldNames

\* Every message that is not an error reaches the client whole, its payload, its
\* nested messages and its lists element by element, for any messages of the
\* types the peers have (MessageTypes; both payment_mapper.go, generated.go).
THEOREM MessagesArriveWhole ==
    ASSUME NilIsNoStruct
    PROVE  Spec => []FaithfulAnswer
<1>1. Good /\ Heard => FaithfulAnswer
  <2>1. SUFFICES ASSUME Good, Heard, Over, asked # "getBookingPayment",
                        LastCall[asked] \in DOMAIN said,
                        ~(/\ IsError(said[LastCall[asked]])
                          /\ LastCall[asked] # "ValidateDiscountCoupon")
                 PROVE  /\ response.status = 200
                        /\ Faithful(asked, said[LastCall[asked]], response.data)
    BY Zenon DEF FaithfulAnswer, Faithful, ToldOf, Shown, Nested
  <2>2. PICK f, c, m : f = query.field /\ c = LastCall[f] /\ m = said[c]
    OBVIOUS
  <2>3. f \in FieldNames \ {"getBookingPayment"}
    BY <2>1, <2>2 DEF Good, Asking, Asked, Over, asked
  <2>4. c \in DOMAIN said /\ HeardOf(f, c)
    BY <2>1, <2>2 DEF Heard, OfHistory, Over, asked
  <2>5. m \in Messages[c]
        /\ (Unusable(c, m) \/ (response.status = 200 /\ response.data = Final(f, c, m)))
    BY <2>1, <2>2, <2>4 DEF HeardOf, Over
  <2>6. c \in DOMAIN MessageTypes
    BY <2>2, <2>3 DEF FieldNames, LastCall, MessageTypes
  <2>7. m \in MessageTypes[c]
    BY <2>5, <2>6, PeersAssumption
  <2>8. ~Unusable(c, m)
    BY <2>1, <2>2, <2>6, <2>7, UnusableIsError DEF asked
  <2>9. Faithful(f, m, Final(f, c, m))
    BY <2>2, <2>3, <2>7, EveryFieldFaithful
  <2> QED
    BY <2>2, <2>5, <2>8, <2>9 DEF asked
<1> QED
  BY <1>1, GoodAlways, HeardAlways, PTL
=============================================================================
