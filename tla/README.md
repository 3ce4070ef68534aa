# Verification of bff-graphql-payment

TLA+ models of the payment BFF, model-checked with TLC and proved with TLAPS.
The BFF is a Go GraphQL server (gqlgen) in front of gRPC services: it asks an
APISIX Control Gateway whether the payment service may be used, forwards each
operation to the payment, booking, infrastructure or local-access service, and
streams the opening of a locker to a websocket client. Every query, mutation
and subscription of the schema is an action of some module here.

## Inventory

| part | source | state it keeps | operations | talks to |
|---|---|---|---|---|
| Control Gateway client | `outbound/gateway/control_gateway_client.go`, `gateway_errors.go` | an `http.Client` with a Timeout | `IsServiceAvailable` (POST `/validate/service`), `GetServiceStatus` (no caller) | the gateway, over HTTP |
| Availability cache | `outbound/gateway/gateway_cache.go` | `entries`, `refreshedAt` under an RWMutex; `ttl` | `IsServiceAvailable`, `GetServiceStatus` (delegates) | wraps the client; called by every request goroutine |
| Service validation middleware | `middleware/service_validation_middleware.go` | configuration only | `validateServiceAvailability` before 17 of the 18 operations | cache, application service |
| executeOpen subscription | `outbound/grpc/client/payment_client.go` 553-718, `resolver/schema.resolvers.go` 482-557 | two goroutines, `resultChan` (10), `outputChan` (5), ctx | open, forward, report, close | booking-manager's stream, gqlgen's websocket reader |
| Rack payments, pricing templates | `resolver/pricing_template_helpers.go`, `schema.resolvers.go` 127-234, service 391-536 | none here; the templates are the payment service's | find exact, create, update, delete, createRackPayment | payment service, several RPCs per request |
| Booking history | `schema.resolvers.go` 362-436, `payment_client.go` 1077-1314 | none | installations of the user, history, purchase order join | infrastructure, booking and payment services |
| Payment operations | resolvers, `payment_infra_service.go`, `payment_client.go` | none | QR, lockers, coupons, purchase orders, bookings, booking status | one unary RPC each, with a deadline |
| HTTP pipeline, authentication | `inbound/middleware/*.go`, `graph/directives/*.go` | claims in the request's context; a buffering ResponseWriter | AuthMiddleware, `@auth`, `@hasRole`, HTTPStatus | gateway headers, gqlgen |
| Error codes | `inbound/graphql/errors/gql_errors.go`, `mapGRPCError`, local access errors | none | gRPC status -> domain error -> code and HTTP status | every resolver |
| Local access | `local_access_client.go`, `resolver/local_access.go` | none | issue, connectivity; outside the service gate | local-access service |
| Mappers | `outbound/grpc/mapper`, `inbound/graphql/mapper` | none | proto <-> domain <-> GraphQL, int to int32 | every operation |
| Server, configuration, shutdown | `cmd/server/main.go`, `config/*.go` | configuration, connections | start, serve, signal, Shutdown, lifecycle | everything |
| Generated GraphQL runtime | `graph/generated`, `graph/model` | - | generated | - |

What is hard: request goroutines share one cache and hold no lock during the
HTTP call; the subscription has two goroutines, two bounded channels and a
context that may be done at any moment; a request makes several remote calls of
which any may fail after the earlier ones took effect; errors are classified by
their texts. `PROJECT.json` lists each of these as a hazard at its line.

What makes each part correct:

- client and cache: a verdict served is recent, a transient one is never shared;
- middleware: maintenance and its end take effect within a bounded time, every
  check ends;
- subscription: frames arrive once and in order, one result, a cut is reported,
  nothing is left running when the client goes;
- rack payments: the prices are those asked for, a template is not made twice by
  one administrator after another, what a failure leaves behind is known;
- booking history: an administrator never sees an installation that is not
  theirs (unless they have none and name none: then the code restricts nothing,
  see below), a booking keeps its place and its own purchase order, the orders'
  failure never takes the bookings along;
- pipeline: an operation runs only with the right claims, an error keeps its
  meaning up to the HTTP status, "done" means done, a client error means it
  never will be, every request is answered;
- mappers and schema: what a peer said reaches the client, element by element,
  whatever part of the message is missing;
- server: it serves with its peers connected, a clean exit leaves nobody without
  an answer and closes the three dialed connections, only a known kind of
  request can outlive the grace of Shutdown or lose its answer to the write
  timeout.

## Modules

| module | models | abstracts |
|---|---|---|
| `GatewayVerdict` | one HTTP answer to `(available, err)`, `isCacheable`, the middleware's classification; no state | texts to the words the code looks for |
| `AvailabilityOracle` | abstract: a verdict is one the gateway gave in the last `Window` ticks, or a failure | no cache, lock or call |
| `GatewayCache` | `CachedServiceChecker` over the client, many goroutines | time in ticks |
| `ServiceGate` | the middleware and the operations over `GatewayCache` | what an operation does |
| `OpenDelivery` | abstract: a lossless FIFO that only a client who cancelled may leave early | no goroutines |
| `OpenStream` | the subscription's two goroutines, channels and context | a frame is its number and open status |
| `AtMostOnce` | abstract: an effect happens at most once, "ok" and a definite error are true | no RPCs |
| `RackPricing` | createRackPayment and the template mutations, RPC by RPC, over the payment service's templates | a cell is a model value; the service gate is "may refuse" |
| `ErrorMapping` | gRPC code or response status -> domain error -> code -> HTTP status, with the catalogue of local access; no state | an error to its identity, its gateway code and one word of its text |
| `Claims` | the four headers to claims or none, `@auth`, `@hasRole`; no state | a token's other fields |
| `GraphQLSchema` | which fields of a type may be null, non-null propagation, the inputs, the directives of the root fields; no state | scalars that cannot be null |
| `Mappers` | proto message -> DTO -> domain -> GraphQL struct, the join of orders and bookings; no state | fields copied as they are, but for one payload per message |
| `PaymentOperations` | per call: the service layer's checks in their order, who is gated, the status check, the mock, the DTO, what the resolver returns; no state | an argument is right, blank or mistyped |
| `RequestPipeline` | one request of any query or mutation from headers to HTTP response, against peers that answer, refuse, fail, or execute after the deadline | one root field per request; the gate's verdict is "may refuse" |
| `Server` | the process: dialing, listening, signals, Shutdown, deferred closes, and the budgets of the requests in flight | time in ticks of 5 s; a request is its plan of waits |
| `MC*` | values for TLC | |
| `*_proofs` | theorems; `RackTemplates_proofs` holds those on templates and racks, `RequestAnswers_proofs` those on what a request is answered | |

`ServiceGate` extends `GatewayCache`, which extends `GatewayVerdict` and is shown
to implement `AvailabilityOracle`; `OpenStream` implements `OpenDelivery`;
`RackPricing` and `RequestPipeline` both implement `AtMostOnce`.
`RequestPipeline` extends `Claims` and `PaymentOperations`, which extends
`ErrorMapping` and `Mappers`, which extends `GraphQLSchema`.

The parts meet at four places, each modelled once in detail and once as what the
others see of it. The gate is `ServiceGate` over `GatewayCache`, and in
`RequestPipeline` an action that admits or refuses with any of the errors
`ServiceGate` can produce. The template store is `RackPricing`, and in
`RequestPipeline` a peer that may find or not. A request's waits are
`RequestPipeline`'s gate and calls, and `Server`'s `Plans`. The panic that
`OpenStream` finds is `Server`'s `Panic`.

### GatewayCache and ServiceGate

| model | code |
|---|---|
| `ttl`, `entries`, `refreshedAt` | the fields of `CachedServiceChecker`; `ttl = 0` stands for a container that does not wrap the client as well |
| `call[c].pc` | idle, in the HTTP call (`calling`), with a verdict (`answered`, `failed`), about to return (`returned`) |
| `call[c].cacheValid` | the local variable read under RLock and used under Lock |
| `Hit`, `Miss`, `PassThrough` | the section under RLock and the early return for `ttl == 0` |
| `GatewayAnswers`, `TransportFails`, `ClientTimeout` | the HTTP call: answered, failed (also after the gateway decided), or ended by `http.Client.Timeout` |
| `Store`, `Discard` | the section under Lock, or none for a verdict that is not cacheable |
| `task[c]` | the operation the goroutine serves: at the gate, running, refused |
| `past`, `obs` | history: what the gateway said when; when a verdict was decided. The code keeps neither, the properties need both |

An entry holds the Go pair `(available, err)`. The deployment asks about one
service name only; the cache is keyed by name, and the runs use two where
clearing the map matters.

*Time.* A tick is a unit of the order of the HTTP timeout. Steps that only touch
memory (`Store`, `Discard`, `Return`) happen within the tick they became possible
in, and no tick passes over `http.Client.Timeout`; this is what makes "TTL +
Timeout" a bound. The assumption is that a runnable goroutine runs within a
tick, and that the time between the response's last byte and the Lock is
included in it. The wall clock used by `time.Since` is monotonic in Go.

*Error texts.* A text is one of the middleware's four words, "Client.Timeout"
(what `net/http` says when the client's timeout expires), "context canceled", or
"wording" for anything else. `Faults` are the texts a transport may give.

### OpenStream

| model | code |
|---|---|
| `forwarder` | the goroutine of `ExecuteOpenStream`: in `Recv`, in its select (`emit`), in the unguarded send of the connection error (`report`), in the mock's sends, `closed` |
| `domainChan`, `outputChan` | `resultChan` (capacity `DomainCap`, 10 in the code) and `outputChan` (`OutCap`, 5) |
| `resolver` | the goroutine of `ExecuteOpen`: at the range, in its select, in the final sleep, `closed`, or `panicked` |
| `lastMessage` | the variable read after the loop |
| `client` | gqlgen's reader: reading, gone because ctx is done, or told of the end |
| `frames`, `cut`, `delivered` | what was received from booking-manager, how `Recv` ended, what the client was given |

A `select` with both cases ready takes either (`Emit`/`EmitCancelled`,
`Forward`/`ForwardCancelled`). A panic in a goroutine stops the process: no
action is enabled any more (`Alive`). A failed gate, validation, or opening of the
stream is the one action `Reject`, because each returns an error and starts
nothing. The open status goes through the mapper's switch (`mapOpenStatus`), with
its default, while the forwarder's terminal flag looks at the wire status. The
100 ms sleep is a step of its own without a duration.

### RackPricing

| model | code |
|---|---|
| `pc[r]`, `rpc[r]` | the service call the request's goroutine is at, and how far its RPC is: about to pass the gate and the argument checks, sent, answered |
| `input[r]`, `chosen[r]` | the mutation's input; `pricingTemplateID` and `groupProductBySize` of the resolver |
| `told[r]` | the response: "ok", the domain error, the gate's refusal, or the resolver's missing cells |
| `Begin` | the resolvers up to their first service call; a `pricingTemplateId` wins over `pricingCells` |
| `Refused`, `Invalid`, `Send` | middleware, service layer, client, for each call anew |
| `Fail` | the call's `context.WithTimeout`, a broken connection or a caller who left, while the RPC is anywhere |
| `Found`, `NoMatch`, `Created` | `resolvePricingTemplate` and the client's reading of `Found` |
| `Succeeded`, `Rejected` | the last answer, or an error: a gRPC code or a response with status ERROR |
| `wire` | RPCs on their way: they may arrive after their caller was answered |
| `templates`, `racks` | the payment service (external) |
| `done`, `over` | history: what was executed; who was entirely over when a request began |

The payment service is what the comments say of it (an exact match is found, a
template with racks is neither edited nor deleted) and may reject any call
without effect. A template's group products are identified with its cells: what
a rack is given are the prices it sells at. `cellsToDto` narrows a price from
float64 to float32; cells are a set, so a cell given twice is one. The name of a
template is blank or not; the wizard's never is. Mock mode is left out: it has no
store.

### RequestPipeline

| model | code |
|---|---|
| `query` | the request: root field, arguments, the four headers of APISIX |
| `pc` | where its goroutine is: received (middlewares, validator, directives), at the gate, ready to call, sent, answered, over |
| `call`, `reply` | the client method under way and the DTO it returned |
| `scope`, `page` | `domainInput.InstallationsName`; the bookings held while their orders are looked up |
| `response` | the status, the code of the first error and the data of the HTTP response |
| `Invalid`, `Forbidden` | gqlgen's validator (422), `auth_directives.go` |
| `Resolve*` | the resolvers up to their first call |
| `Admit`, `RefusedByGate` | `validateServiceAvailability`; `Gated` says for which calls |
| `RefusedByService` | the service layer's first failing check, after the gate; the wizard's template id, which a peer supplied, is checked like one that was sent (`NoSuchTemplate`) |
| `AnsweredByMock` | `payment_client_mock.go` and the methods that never leave the mock |
| `Send`, `Answer`, `RejectedByPeer`, `GivenUp` | a unary call with its deadline |
| `ErrorStatus` | the status check of a client method, with its own domain error |
| `Conclude`, `HideHistory`, `ReturnPage`, `ReturnHistory` | the resolvers' returns, through mappers and the executor |
| `AskHistory`, `AskOrders`, `TemplateFound`, `NoTemplate`, `TemplateCreated` | the calls that follow one another |
| `wire`, `done`, `refused`, `said` | history: what was sent, what the peers did, refused and said. `Execute` may happen after the client gave up |

What is assumed of the peers: a call is executed at most once; one that was
answered ERROR, NotFound, InvalidArgument or with a reason of the local access
catalogue was not executed and will not be; an issuer's message has no header
(its protobuf type has none). `MessageTypes` says what the messages are made of:
headers and nested messages may be nil, repeated fields and scalars never are.
An answer may be any message of its type, or never come; booking-manager and
payment-manager answer with any of their `Bookings` and `PurchaseOrders` that fit
the question, in any order. `poMap` is the map the client builds of the orders,
`ForPayers` the loop of the mapper that leaves out a booking time.

### Server

| model | code |
|---|---|
| `phase` | `main`: building the container, serving, in `server.Shutdown`, in the deferred `lifecycle.Shutdown`, over |
| `dialed`, `conns` | the blocking dials of `NewPaymentServiceGRPCClient`, and the connections that are made and not closed: the three dialed ones and the lazy one of local access |
| `Listen`, `LocalAccessFails` | the container is complete, or `NewLocalAccessGRPCClient` failed: `log.Fatalf` with the three dialed connections open |
| `notified` | `signal.Notify` was reached: before it a signal kills |
| `request[r]` | the plan of waits of its root field (`Plans`), the wait it is at and what is left of its budget, what is left of `WriteTimeout` |
| `Write` | the response is written; after the connection's write deadline it is lost |
| `Drained`, `Forced`, `Close`, `Exit` | `Shutdown` returning nil, or its deadline and `log.Fatalf`; the deferred closes in their order, which leave the local access connection open |
| `Panic` | a goroutine of a subscription panics: nothing recovers it |

The budgets are the defaults of `config.go` and `main.go`: 5 s for the gate, 10 s
for a call, 15 s to write, 30 s to drain, in ticks of 5 s. The environment can
change the first two; the README's deployment does not.

## Runs

| run | question | result |
|---|---|---|
| `cache` | verdicts served are recent; the oracle is implemented | holds |
| `gate` | maintenance, recovery, transient errors, every check ends | holds |
| `pipeline` | loss, order, single result, cuts, release of goroutines; the FIFO is implemented | holds |
| `rack` | racks are as asked, templates not repeated, orphans accounted for, effects at most once, every request answered | holds |
| `request` | who may ask what, what errors and successes promise, what of a message reaches the client, every request answered | holds |
| `server` | served with peers connected, what a clean exit leaves (only the local access connection), who can be forced out or lose its answer, everything ends | holds |
| `clear` | the doc's "cuando vence, se limpia": only an expired cache is cleared | violated |
| `timeout` | the comment's "timeout, etc." is bypassed | violated |
| `message` | a gateway message is never bypassed | violated |
| `crash` | the comment's "ya se enviaron todos los mensajes" | violated |
| `outcome` | the schema's "-> SUCCESS/ERROR" | violated |
| `cells` | the schema's "Ignorado si viene pricingCells" | violated |

The six violations are findings in `PROJECT.json`, each with the quoted line.
`crash` is a bug of the code: a client that unsubscribes before its first frame
was forwarded can bring the whole process down (nil `lastMessage`). The others
are places where a comment or the schema promises more than the code does.

Bounds, and why they are enough:

- `cache`: two goroutines (the races are between two), two services (a reset
  clears the other's entry), TTL 0 and 2 and Timeout 1 over 4 ticks (an entry
  is stored, ages to the last tick it may be served in, expires and is
  replaced), one change of a service. Goroutines and services are symmetric.
- `gate`: one service, as deployed; two goroutines, every class of answer: 200
  valid, 200 invalid, 503 with a message, 500 with a message that holds one of
  the words, any other status. No symmetry, because it checks liveness.
- `pipeline`: three frames as the protocol has, each not terminal, unknown to
  the BFF, SUCCESS or ERROR in any order; capacities 4 and 2 instead of 10 and
  5, so that `outputChan` fills up and `domainChan` has room for one frame more
  than there are, as in the code.
- `rack`: two requests (every property relates at most two: the one that made a
  template and the one that looks for it, edits it or retries), each of any
  kind: the wizard with three sets of cells of which two are one on the wire,
  the legacy id with and without cells, the three template mutations, and an
  input for each argument check that fails. There is no template at first, or
  one with the first cells; each request makes at most one, so three ids do. A
  retry is the second request with the first one's input. The service rejects
  with two codes that have a case of their own and with status ERROR.
- `request`: one request, as no two requests share state outside the cache and
  the peers' stores, which have modules of their own. Every root field, with all
  arguments right, each one in turn absent, blank or mistyped, and an unknown
  one; for a reserved query, a reserved mutation and the history, every
  combination of headers of two users, an absent one, the four sets of two roles,
  unreadable permissions, no claims, and a validated flag. An administrator of
  two installations and one of none; bookings in and out of scope; two orders
  of one booking, an order with a coupon, every subset and page of them. For every
  call, every message with its nested parts present or not, every status and
  enum number known, zero and unknown, lists of no, one and more elements (booking
  times with a name twice and every unit, around the one that is hidden; templates
  with groups and products and without), and template ids the wizard may not use.
  With mocks and without.
- `server`: two requests in flight (Shutdown waits for one or the other; all
  properties are about one request), of each of the six shapes a root field's
  waits can have, the default budgets.
- `MaxTime`, `MaxChanges`, `MaxTemplates` and `MaxFrames` bound the exploration only.

`CHECK_DEADLOCK FALSE` for `OpenStream`, `RackPricing`, `RequestPipeline` and
`Server`: a subscription, a request and a process end.

Fairness:

- `GateFairSpec`: `http.Client.Timeout` fires (a timer), memory steps finish,
  time passes. Time is strongly fair because a tick waits for memory steps of
  other goroutines, which take no noticeable time. The gateway is not obliged
  to answer, transport failures are not obliged to occur.
- `RackPricing`'s `FairSpec`: goroutines run and the deadline of a call fires. The
  payment service is not obliged to execute or answer anything.
- `RequestPipeline`'s `FairSpec`: the goroutine goes on where it can; the gate
  decides (`http.Client.Timeout`); a call that was sent ends, if only by its
  deadline. The peers are obliged to nothing.
- `Server`'s `FairSpec`: `main` goes on, a timer that is due fires, a handler
  whose last budget passed answers. Time is strongly fair, because handlers may
  act any number of times within a tick. Nobody has to send a request or a
  signal, and nobody has to answer a dial.
- `OpenStream`'s `FairSpec`: goroutines run; a client that is still there reads (gqlgen's reader
  loops on the channel); `Recv` returns once ctx is done (a property of gRPC
  streams). booking-manager is not obliged to send anything, and a client is
  not obliged to cancel.

## Proofs

| theorem | statement |
|---|---|
| `CacheTypeCorrect` | `Spec => []TypeOK` (`GatewayCache`) |
| `ServesRecent` | `Spec => []ServedIsRecent` |
| `SharesNoTransient` | `Spec => []TransientNeverShared` |
| `CacheIsAnOracle` | `Spec => ImplementsOracle`: `GatewayCache` implements `AvailabilityOracle` |
| `GateTypeCorrect` | `GateSpec => []GateTypeOK` |
| `HonoursMaintenance` | `GateSpec => MaintenanceHonoured` |
| `HonoursRecovery` | `GateSpec => RecoveryHonoured` |
| `TypeCorrect` | `Spec => []TypeOK` (`OpenStream`) |
| `NeverWaits` | `Spec => []ForwarderNeverWaits`, if `MaxFrames < DomainCap` and `3 < DomainCap` |
| `FramesPassOn` | `Spec => []NothingLost` |
| `OneResultOnly` | `Spec => []OneResult` |
| `CutReachesClient` | `Spec => []CutIsReported` |
| `DeliveryImplemented` | `Spec => ImplementsDelivery`: `OpenStream` implements `OpenDelivery` |
| `PricingTypeCorrect` | `Spec => []TypeOK` (`RackPricing`) |
| `PromiseKept` | `Spec => KeepsPromise`: `RackPricing` implements `AtMostOnce` |
| `SoldAsAsked` | `Spec => []RackAsAsked` |
| `TwinsExplained` | `Spec => []NoRepeatedTemplate` |
| `NoSilentOrphan` | `Spec => []OrphanAccounted` |
| `PipelineTypeCorrect` | `Spec => []TypeOK` (`RequestPipeline`) |
| `OnlyTheEntitledAsk` | `Spec => []OnlyEntitled` |
| `ClientErrorIsSafe` | `Spec => []ClientErrorMeansNoEffect` |
| `SuccessIsEarned` | `Spec => []SuccessWasEarned` |
| `EveryMutationKeepsItsPromise` | `Spec => KeepsPromise`: `RequestPipeline` implements `AtMostOnce` |
| `BookingsAreKept` | `Spec => []BookingsSurviveLookup`, if `NilIsNoStruct` |
| `OrdersAreOwn` | `Spec => []OrdersAreTheirOwn`, if `NilIsNoStruct` |
| `AdministratorsSeeTheirOwn` | `Spec => []AdminSeesOwn`, if `NilIsNoStruct` |
| `MessagesArriveWhole` | `Spec => []FaithfulAnswer`, if `NilIsNoStruct` |
| `ServerTypeCorrect` | `Spec => []TypeOK` (`Server`) |
| `AlwaysServesConnected` | `Spec => []ServesConnected` |
| `ExitsClean` | `Spec => []CleanExit` |
| `LosesOnlyAtTheLimit` | `Spec => []LostOnlyAtTheLimit` |
| `ForcesOnlyWizards` | `Spec => []ForcedOnlyByWizard` |

They hold for all values of the constants that meet the ASSUMEs of the modules, and
the hypothesis named. `NilIsNoStruct` is that Go's nil is not a struct, for any
fields: `Nil` is in no set of functions. A model value is not, but TLC has no way
to evaluate a quantifier over all sets, so this stands before the four theorems
that need it instead of in an ASSUME.

*The cache.* `ServedIsRecent` speaks of calls that are over, so it is not
inductive. `Inv` adds what happens before: an entry was decided at most `Timeout`
before `refreshedAt` (this is the fact that survives the race on `cacheValid`: a
goroutine that found the cache valid may store under a `refreshedAt` another one
has set since, but not one later than now, and its own call is at most
`Timeout` old); a call in flight is not older than `Timeout` and was told its
verdict since it started; a failure is not cacheable. `Hit` then gives an age
below `ttl + Timeout`, `Store` and `Discard` an age of at most `Timeout`. The
refinement rests on the same invariant: the step with which a call returns is the
oracle's `Serve`, because `ServedIsRecent` holds after it; every other one is its
`Take` (the caller goes on), its `Change` or `Tick`, or nothing to it.

*The gate.* Every step of `GateSpec` is a step or a stutter of `GatewayCache`
(`GateRefinesCache`), so `ServedIsRecent` holds in it. `DecisionIsJustified` then
follows a served verdict back to the gateway's answer: it is available exactly
when the answer was a valid 200 (`ValidIsAvailable`), so an operation that runs
without the bypass had a recent acceptance, and one that is refused had a recent
refusal or a failed check of its own.

*The subscription.* `TypeInv` adds why the two sends send a frame; `RoomInv`
that `domainChan` never holds more than was received, and less while the
forwarder is about to send. `NeverWaits` needs its hypothesis: with more frames
than the channel holds, and a resolver that left because ctx is done, the send
at `payment_client.go:672` blocks for ever. `NothingLost` says nothing once ctx is
done, and there the refinement still has to say where a frame may be. `FlowInv`
does: delivered, `outputChan`, what the resolver holds and `domainChan` (nothing,
once it has left), and then some sequence `lost`, make up what was emitted, and
`lost` is what the forwarder has in hand until one of the two gives up (`Lost`,
`Held`). `Places` adds who can be where: the resolver leaves a live subscription
only after the forwarder did and with `domainChan` empty, and the forwarder's
`terminal` says what `frames` does. One lemma per goroutine moves a frame from one
part of the line to the next (`Shift`, `Split`, `Grow`). Everything else is read off:
what the client has is a beginning of what was emitted, so the connection error,
the only frame of number 0, can only be its last; at the end of the channel a
client that stayed has all of it; and every step is one of `OpenDelivery` or none.

*The mutations.* `KeepsPromise` speaks of the last RPC of a request (`Last`): the
one its response is about. `Accountable` says what is known of it at any moment:
nothing was sent or executed before the goroutine is past its sending, it is
never both under way and executed, an "ok" answer means it was executed, and an
error answer that it neither was nor is under way. A deadline has no answer, and
`mapGRPCError` sends it to "service unavailable", which promises nothing; that is
where the proof needs the table. Each step is then a step of `AtMostOnce` or
leaves what it sees alone (`PricingProgress`). That a rejected RPC has no effect
is an assumption about the payment service.

*The templates.* What the wizard is answered it passes on in a later RPC, when it
may be stale. `ChoiceInv` follows it: an answer to "find" or "create", the choice
made of it and the rack created with it are all what was asked for, and so are the
cells of the template, unless it was edited alongside (`AsAsked`). Two requests
that both have something left to do are alongside each other (`ActiveConcurrent`),
because `over` only holds those that have nothing left to do and never will
(`OverInv`); and a template with a rack cannot be edited. `TwinsInv` adds what a
search without a match is worth later: every template with these cells was made
alongside the search, or edited since (`Searched`). That is all the wizard knows
when it creates one, and it decides `NoRepeatedTemplate`, because a new template
has the highest number (`IdsInv`). `OrphansInv` adds that a "create" on its way
has not been executed before, and that its sender waits for it or was not told
"ok" (`OnceMade`), so a request makes one template, and the wizard goes on with that
one (`Linked`). That the payment service finds an exact match, and refuses to
edit a template with racks, are assumptions about it.

*The pipeline.* Its forty actions fall into thirteen shapes (`Stepping`): a call
begins, follows another one, is sent, answered, given up, and so on; the proofs
are about the shapes. A failing step's status comes from the tables
(`StatusOfError`, `StatusOfFailure`, `StatusOfEffect`, `StatusOfLocalAccess`):
what the gate or the gRPC layer says is never about identity, and a call that
may have had its effect fails with 404 or 500, never as the client's fault.
`OnlyEntitled` is inductive with the types: a first call needs the directive of
its field (`ReservedTable`) or the role the resolver asks for, claims exist only
if all headers agree (`Identify`), and a following call needs what the one before
it needed. `Blameless` adds to `ClientErrorMeansNoEffect` that the call a mutation
is for is the last one it makes, so whatever fails before it leaves no trace of
it. `Paying` adds to `SuccessWasEarned` that a goroutine that goes on has an
answer without ERROR to everything it sent; `HeaderOfDTO` is where each client
method's status check is needed. The three together make every step one of
`AtMostOnce` or none (`PromiseStep`).

*The answers.* Four properties say what of a peer's message reaches the client.
None is inductive: they speak of the response, and the message was said some
steps before. Three invariants follow it there, over the sixteen shapes of step that
matter to it (`Moving`). `Heard`: the message the last call got is in the
resolver's hands, or was an error its client method noticed (`Unusable`), or the
response is what mapper and executor make of it (`Final`). `Track` does so for the
history: a page that was said is with the resolver, or waits in `page` while its
orders are asked for, or the response is `Page` of its join with the orders that
were said, with none if the lookup failed. `Own`: an administrator's names are
what the peer has for the email of the claims, the question carries no others,
and booking-manager answers within it. What is left is about data. One lemma per
call (`PlainFields`, `LocalAccessFields`, `LockersWhole`, `TimesWhole`, `StatusWhole`,
`TemplatesWhole`, `InfraWhole`) takes any message of its type through the three
mappers and the executor, and `ShownPage` does the page: a null can only spread
to where a field is required (`WholeObject`, `WholeList`), and no mapper leaves one
there. What is shown is compared field by field (`Carries`) and element by element
(`CarriesEach`), through three levels of lists for the templates (`ProductShown`,
`GroupShown`, `TemplateShown`). A number of an enum is compared with the schema's
own table (`Word`), not with the mappers' cases. The booking times of a QR code are
compared by an embedding: an increasing map from the positions shown onto those
whose name is not "Admin" (`CarriesTimes`, `Picks`), so order and repeats count. Two
facts need induction, over the order in which `poMap` is written
(`LastPosition`) and over the loop that hides booking times (`LoopExists`,
`LoopKeeps`); both get it from `LeastNumber`, that a set of naturals has a least
element, which takes no operator as a parameter.

*The server.* `ExitsClean` says which connections are left, and one is: a process
that listened without mocks has the local access connection for good. These
theorems are for the default budgets (`ServerAssumption`) and
any requests. `LostOnlyAtTheLimit` rests on `Ahead`: for every plan and position,
the ticks left to write are at least those of the budgets still to come, so an
answer is late only if every budget before it was used up, unless the plan is one
of the two whose sum exceeds `WriteTimeout`. `ForcedOnlyByWizard` rests on `Grace`:
what is left of the drain covers what is left of every plan but the wizard's.

Only model-checked: liveness (`EveryOperationDecided`, `CancelReleases`,
`EndIsSeen`, both `EveryRequestAnswered`, `EveryRequestEnds`, `ShutdownEnds`,
`StartEnds`), which needs fairness and ENABLED. Every other property of the passing
runs is what some theorem above states.

What the properties of `RackPricing` leave open is what the code leaves open: two
requests at the same time, or a retry while the first RPC is still under way, may
make the same template twice; a request that fails after its template was made
leaves it behind, also one whose rack reference or booking times are invalid,
because these are checked last; a template may be edited between its being found
and the rack's creation.

## What the code leaves open

Noted while modelling. The properties above hold because they are stated around
these cases, or say of them what the code does; where the code departs from one
of its own documents, the document is named.

- A deadline and most gRPC failures are answered with 404 (`mapGRPCError`,
  `payment_client.go`, with `gql_errors.go:70`): a 404 does not mean that nothing
  happened, which is why `ClientErrorMeansNoEffect` leaves it out.
- `README.md:181`, `:191` and `:398` give `getBookingPayment` to SUPER_ADMIN; the
  resolver serves an ADMIN too. `README.md:231` and `:354` promise 403 for a missing
  role; that resolver's own check answers 500, only the directives answer 403.
- An ADMIN of no installation who names none asks booking-manager with an empty
  list, which means all of them there: they are shown everybody's bookings.
  `AdminSeesOwn` and its theorem exclude this case and no other (one who names an
  installation is shown nothing); whether infra-manager lets such a user exist is not
  in this repository.
- `lifecycle.go:15` says `Shutdown` "cierra todos los recursos de forma ordenada"; it
  closes the three connections of the payment client and never the one of local
  access (`local_access_client.go:34`, kept by nobody who could close it). It lasts
  as long as the process, so the exit itself closes it. `CleanExit` states what is
  left instead of the document's claim.
- If that connection cannot be made (`container.go:73`), `NewContainer` returns an
  error, and `log.Fatalf` ends the process with the three dialed connections open
  (`LocalAccessFails`); the dials before it close what they had.
- `isAny` is described as `errors.Is` and compares texts: a wrapped domain error
  is not recognised (`Wrapped` in `ErrorMapping`).
- The budgets behind one request are never added up: the wizard's are 45 s and the
  history's of an administrator 25 s, against 15 s to write the answer and 30 s
  of grace. Both may do their work and lose the answer.

## Not modelled

- Tracing, logging, spans; the physical status and texts of a frame.
- `GetServiceStatus`: no caller in the repository.
- int to int32 in the request mappers (`payment_client.go:1189` and its likes): the
  values are copied to one place and compared with nothing here, so a model
  could only restate the conversion. A value beyond 2^31 passes the service's
  checks, which look at the int, and wraps after them. (The narrowing of prices
  to float32 is in `RackPricing`, where cells are compared.)
- gqlgen's introspection, complexity, argument parsing, and the concurrency of
  its fields: a document here is one root field. With several, the first error
  decides the status of the response.
- The header copy of `HTTPStatusMiddleware` (`http_status_middleware.go:91`): the
  buffering writer shares its header map with the real one, so each header of
  the handler is added to itself and sent twice; no property is about headers.
- A client of a query or mutation that disconnects: its context is cancelled, which
  ends a call like its deadline.
- CORS, the playground, `/ping`; the reading of environment variables.
- A deadline for a stream whose peer goes silent: the code has none.

## Plan

What is left: several root fields in one document, where the first error decides
the status of the response.
