------------------------------- MODULE Server -------------------------------
(***************************************************************************)
(* The life of the process: cmd/server/main.go, config/container.go and    *)
(* config/lifecycle.go, with the connections of payment_client.go.  It     *)
(* dials its three peers one after another, listens, serves, and on a      *)
(* signal drains what is in flight for a while and closes the              *)
(* connections.  Every request works under budgets of its own (the gate's  *)
(* HTTP timeout, a deadline per gRPC call) that nobody adds up, and its    *)
(* answer must be written before the server's WriteTimeout.                *)
(*                                                                         *)
(* Time is counted down in ticks of five seconds; what takes no time worth *)
(* a tick happens between two of them.  A thing that is due happens before *)
(* the next tick, and an answer that comes at the instant of its deadline  *)
(* may be in time or not.                                                  *)
(***************************************************************************)
EXTENDS Integers, Sequences, FiniteSets

CONSTANTS Requests,        \* HTTP requests, one goroutine each
          GateBudget,      \* cfg.ControlGateway.Timeout
          CallBudget,      \* cfg.GRPC.PaymentServiceTimeout
          WriteTimeout,    \* cfg.Server.WriteTimeout
          DrainTime        \* the deadline of server.Shutdown

\* The defaults of config.go and main.go: 5 s, 10 s, 15 s and 30 s.
ASSUME ServerAssumption ==
    /\ GateBudget = 1
    /\ CallBudget = 2
    /\ WriteTimeout = 3
    /\ DrainTime = 6

Peers == {"payment", "booking", "infra"}
DialOrder == <<"payment", "booking", "infra">>
LocalAccess == "localAccess"   \* its issuer: a lazy connection of its own

\* The waits behind a root field, one after another: RequestPipeline's gate and
\* calls.  The two calls of the history share one deadline.
\* (Mutant: the orders of the history have a deadline of their own.)
PlansOrdersApart ==
    [local |-> <<"call">>,
     single |-> <<"gate", "call">>,
     history |-> <<"gate", "call", "call">>,
     historyOfAdmin |-> <<"call", "gate", "call", "call">>,
     rack |-> <<"gate", "call">>,
     wizard |-> <<"gate", "call", "gate", "call", "gate", "call">>]
Plans ==
    [local |-> <<"call">>,
     single |-> <<"gate", "call">>,
     history |-> <<"gate", "call">>,
     historyOfAdmin |-> <<"call", "gate", "call">>,
     rack |-> <<"gate", "call">>,
     wizard |-> <<"gate", "call", "gate", "call", "gate", "call">>]
Kinds == DOMAIN Plans
Budget(wait) == IF wait = "gate" THEN GateBudget ELSE CallBudget

VARIABLES
    useMock,   \* config.General.UseMock
    phase,     \* how far main() is
    dialed,    \* dials that succeeded
    dialLeft,  \* ticks left of the dial under way
    conns,     \* connections that were made and not closed
    notified,  \* signal.Notify was called
    drainLeft, \* ticks left of server.Shutdown
    exit,      \* how the process ended, "" if it has not
    request    \* request[r]

vars == <<useMock, phase, dialed, dialLeft, conns, notified, drainLeft, exit, request>>

\* A request in flight: what it is, the wait it is at, the ticks left of that
\* wait and until its WriteTimeout, whether every wait so far was as long as
\* its budget.
Idle == [at |-> "none"]
Waiting == [at : {"wait"}, kind : Kinds, wait : 1..6, left : 0..CallBudget,
            write : -1..WriteTimeout, full : BOOLEAN]
Written == [at : {"answered", "lost"}, kind : Kinds, full : BOOLEAN]

Phases == {"dialing", "listening", "draining", "closing", "ended"}

\* Every variable keeps its type; the process has ended for one reason.
TypeOK ==
    /\ useMock \in BOOLEAN
    /\ phase \in Phases
    /\ dialed \in 0..Len(DialOrder)
    /\ dialLeft \in 0..CallBudget
    /\ conns \subseteq Peers \cup {LocalAccess}
    /\ notified \in BOOLEAN
    /\ drainLeft \in 0..DrainTime
    /\ exit \in {"", "fatal", "forced", "killed", "panic", "clean"}
    /\ request \in [Requests -> {Idle} \cup Waiting \cup Written]
    /\ phase = "ended" <=> exit # ""

Init ==
    /\ useMock \in BOOLEAN
    /\ phase = "dialing"
    /\ dialed = 0
    /\ dialLeft = CallBudget
    /\ conns = {}
    /\ notified = FALSE
    /\ drainLeft = DrainTime
    /\ exit = ""
    /\ request = [r \in Requests |-> Idle]

InFlight == {r \in Requests : request[r].at = "wait"}
Up == exit = ""

-----------------------------------------------------------------------------
(* Starting *)

\* grpc.Dial blocks until the connection is up or its timeout passes.
Dial ==
    /\ phase = "dialing"
    /\ ~useMock
    /\ dialed < Len(DialOrder)
    /\ conns' = conns \cup {DialOrder[dialed + 1]}
    /\ dialed' = dialed + 1
    /\ dialLeft' = CallBudget
    /\ UNCHANGED <<useMock, phase, notified, drainLeft, exit, request>>

\* (Mutant: the process is gone and nobody knows why.)
EndUnexplained(how) == phase' = "ended" /\ UNCHANGED exit
End(how) == phase' = "ended" /\ exit' = how

\* (Mutant: the connections made before are left open.)
DialFailsAlone ==
    /\ phase = "dialing"
    /\ ~useMock
    /\ dialed < Len(DialOrder)
    /\ dialLeft = 0
    /\ End("fatal")
    /\ UNCHANGED <<useMock, dialed, dialLeft, conns, notified, drainLeft, request>>

\* (Mutant: it dials again and again.)
DialAgain ==
    /\ phase = "dialing"
    /\ ~useMock
    /\ dialed < Len(DialOrder)
    /\ dialLeft = 0
    /\ dialLeft' = CallBudget
    /\ UNCHANGED <<useMock, phase, dialed, conns, notified, drainLeft, exit, request>>

\* The client closes what it had, main() ends in log.Fatalf.
DialFails ==
    /\ phase = "dialing"
    /\ ~useMock
    /\ dialed < Len(DialOrder)
    /\ dialLeft = 0
    /\ conns' = {}
    /\ End("fatal")
    /\ UNCHANGED <<useMock, dialed, dialLeft, notified, drainLeft, request>>

\* The connection to the issuer of local access is lazy: it waits for nobody.
\* The container is complete.
Listen ==
    /\ phase = "dialing"
    /\ useMock \/ dialed = Len(DialOrder)
    /\ conns' = IF useMock THEN conns ELSE conns \cup {LocalAccess}
    /\ phase' = "listening"
    /\ UNCHANGED <<useMock, dialed, dialLeft, notified, drainLeft, exit, request>>

\* It cannot be made (an address nobody can parse): main() ends in log.Fatalf,
\* and the three dialed connections are closed by nobody.
LocalAccessFails ==
    /\ phase = "dialing"
    /\ ~useMock
    /\ dialed = Len(DialOrder)
    /\ End("fatal")
    /\ UNCHANGED <<useMock, dialed, dialLeft, conns, notified, drainLeft, request>>

\* ListenAndServe returns an error: log.Fatalf in its goroutine, with no
\* request accepted yet.
ListenFails ==
    /\ phase = "listening"
    /\ \A r \in Requests : request[r] = Idle
    /\ End("fatal")
    /\ UNCHANGED <<useMock, dialed, dialLeft, conns, notified, drainLeft, request>>

Notify ==
    /\ phase = "listening"
    /\ ~notified
    /\ notified' = TRUE
    /\ UNCHANGED <<useMock, phase, dialed, dialLeft, conns, drainLeft, exit, request>>

-----------------------------------------------------------------------------
(* Requests *)

Serving == phase \in {"listening", "draining"}

\* A mock answers at once; the gate does not.
Wait(kind, i) == IF useMock /\ Plans[kind][i] = "call" THEN 0 ELSE Budget(Plans[kind][i])

Accept(r, kind) ==
    /\ phase = "listening"
    /\ request[r] = Idle
    /\ request' = [request EXCEPT ![r] =
                      [at |-> "wait", kind |-> kind, wait |-> 1, left |-> Wait(kind, 1),
                       write |-> WriteTimeout, full |-> TRUE]]
    /\ UNCHANGED <<useMock, phase, dialed, dialLeft, conns, notified, drainLeft, exit>>

Full(r) == request[r].full /\ request[r].left = 0

\* The handler writes the response: the connection's deadline has passed, or
\* has not, or is passing.
Write(r) ==
    \E at \in {"answered", "lost"} :
        /\ at = "answered" => request[r].write >= 0
        /\ at = "lost" => request[r].write <= 0
        /\ request' = [request EXCEPT ![r] = [at |-> at, kind |-> request[r].kind,
                                              full |-> Full(r)]]

\* The gate or a peer has answered and there is more to do.
GoOn(r) ==
    /\ Serving
    /\ request[r].at = "wait"
    /\ request[r].wait < Len(Plans[request[r].kind])
    /\ request' = [request EXCEPT ![r].wait = @ + 1,
                                  ![r].left = Wait(request[r].kind, request[r].wait + 1),
                                  ![r].full = Full(r)]
    /\ UNCHANGED <<useMock, phase, dialed, dialLeft, conns, notified, drainLeft, exit>>

\* (Mutant: a deadline that passes is no answer.)
ConcludeInTime(r) ==
    /\ Serving
    /\ request[r].at = "wait"
    /\ request[r].left > 0
    /\ Write(r)
    /\ UNCHANGED <<useMock, phase, dialed, dialLeft, conns, notified, drainLeft, exit>>

\* There is not, or the answer was an error: a template found or a page
\* without bookings skips what is left of the plan, too.
Conclude(r) ==
    /\ Serving
    /\ request[r].at = "wait"
    /\ Write(r)
    /\ UNCHANGED <<useMock, phase, dialed, dialLeft, conns, notified, drainLeft, exit>>

Forget(r) ==
    /\ Serving
    /\ request[r].at \in {"answered", "lost"}
    /\ request' = [request EXCEPT ![r] = Idle]
    /\ UNCHANGED <<useMock, phase, dialed, dialLeft, conns, notified, drainLeft, exit>>

\* A panic in a goroutine of an executeOpen subscription (OpenStream: the zero
\* value of a closed channel) has nobody to recover it.  Its connection was
\* hijacked: net/http does not know of it, and Shutdown does not wait for it.
Panic ==
    /\ Serving
    /\ End("panic")
    /\ UNCHANGED <<useMock, dialed, dialLeft, conns, notified, drainLeft, request>>

-----------------------------------------------------------------------------
(* Stopping *)

\* SIGINT or SIGTERM: until signal.Notify it simply kills.
Signal ==
    /\ phase \in {"dialing", "listening"}
    /\ IF notified THEN phase' = "draining" /\ UNCHANGED exit ELSE End("killed")
    /\ UNCHANGED <<useMock, dialed, dialLeft, conns, notified, drainLeft, request>>

\* (Mutant: Shutdown is not waited for.)
DrainedAnyway ==
    /\ phase = "draining"
    /\ phase' = "closing"
    /\ UNCHANGED <<useMock, dialed, dialLeft, conns, notified, drainLeft, exit, request>>

\* (Mutant: a connection that is kept alive counts as busy.)
DrainedWhenGone ==
    /\ phase = "draining"
    /\ \A r \in Requests : request[r] = Idle
    /\ phase' = "closing"
    /\ UNCHANGED <<useMock, dialed, dialLeft, conns, notified, drainLeft, exit, request>>

\* server.Shutdown returns nil: no request is in flight.
Drained ==
    /\ phase = "draining"
    /\ InFlight = {}
    /\ phase' = "closing"
    /\ UNCHANGED <<useMock, dialed, dialLeft, conns, notified, drainLeft, exit, request>>

\* Its deadline passes: log.Fatalf, and no deferred call runs.
Forced ==
    /\ phase = "draining"
    /\ drainLeft = 0
    /\ InFlight # {}
    /\ End("forced")
    /\ UNCHANGED <<useMock, dialed, dialLeft, conns, notified, drainLeft, request>>

\* The deferred lifecycle.Shutdown closes the client's three connections, and
\* not the one of local access.
Close ==
    /\ phase = "closing"
    /\ conns \cap Peers # {}
    /\ \E i \in DOMAIN DialOrder :
          /\ DialOrder[i] \in conns
          /\ \A j \in 1..(i - 1) : DialOrder[j] \notin conns
          /\ conns' = conns \ {DialOrder[i]}
    /\ UNCHANGED <<useMock, phase, dialed, dialLeft, notified, drainLeft, exit, request>>

Exit ==
    /\ phase = "closing"
    /\ conns \cap Peers = {}
    /\ End("clean")
    /\ UNCHANGED <<useMock, dialed, dialLeft, conns, notified, drainLeft, request>>

-----------------------------------------------------------------------------
(* Time *)

Later(n) == IF n > 0 THEN n - 1 ELSE n
TickOf(q) == IF q.at # "wait" THEN q
             ELSE [q EXCEPT !.left = Later(@), !.write = IF @ >= 0 THEN @ - 1 ELSE @]

\* Nothing is due: a dial, a wait, a write or Shutdown at its deadline.
Tick ==
    /\ phase \in {"dialing", "listening", "draining"}
    /\ phase = "dialing" => ~useMock /\ dialed < Len(DialOrder) /\ dialLeft > 0
    /\ phase = "draining" => drainLeft > 0 /\ InFlight # {}
    /\ \A r \in InFlight : request[r].left > 0
    /\ dialLeft' = IF phase = "dialing" THEN Later(dialLeft) ELSE dialLeft
    /\ drainLeft' = IF phase = "draining" THEN Later(drainLeft) ELSE drainLeft
    /\ request' = [r \in Requests |-> TickOf(request[r])]
    /\ UNCHANGED <<useMock, phase, dialed, conns, notified, exit>>

-----------------------------------------------------------------------------
Starting == Dial \/ DialFails \/ Listen \/ LocalAccessFails \/ ListenFails \/ Notify
Handler(r) == GoOn(r) \/ Conclude(r) \/ Forget(r)
Stopping == Drained \/ Forced \/ Close \/ Exit

Next == \/ Starting
        \/ \E r \in Requests : Handler(r) \/ \E kind \in Kinds : Accept(r, kind)
        \/ Panic
        \/ Signal
        \/ Stopping
        \/ Tick
Spec == Init /\ [][Next]_vars

\* Time passes, however busy the handlers are (SF: their steps at the instant
\* of a deadline take no time); what is due happens; main() goes on.  Nobody
\* has to send a request or a signal, no peer has to answer.
Fairness ==
    /\ SF_vars(Tick)
    /\ WF_vars(Listen \/ Notify)
    /\ WF_vars(DialFails)
    /\ WF_vars(Stopping)
    /\ \A r \in Requests : WF_vars(Conclude(r) /\ request[r].left = 0)
FairSpec == Spec /\ Fairness

-----------------------------------------------------------------------------
(* Correctness *)

\* The process serves requests only with its three peers connected, whether or
\* not the issuer of local access is there, and if one of them cannot be dialed
\* it ends with none of the connections it had made (payment_client.go:51-91,
\* "el BFF arranca aunque el emisor no esté desplegado", local_access_client.go:28).
ServesConnected ==
    /\ Serving /\ ~useMock => Peers \subseteq conns
    /\ exit = "fatal" /\ dialed < Len(DialOrder) => conns = {}

\* The grace of Shutdown is long enough for every request but the wizard's
\* createRackPayment, whose budgets add up to 45 s: whatever else is in flight
\* when the process is forced to end is there because it was accepted
\* (main.go:203-209).
ForcedOnlyByWizard ==
    exit = "forced" => \A r \in InFlight : request[r].kind = "wizard"

\* A clean exit leaves no request without its answer, and of the connections
\* the one to the issuer of local access and no other: the three dialed peers'
\* are closed, that one nobody closes, whatever lifecycle.go:15 says of "todos
\* los recursos" (main.go:50-55, lifecycle.go:16-32, container.go:68-75).
CleanExit ==
    exit = "clean" =>
        /\ InFlight = {}
        /\ conns = IF useMock THEN {} ELSE {LocalAccess}

\* The answer of a field with one call behind the gate is lost only if both its
\* budgets were used up to the last; that of a local access field never; the
\* others' because nobody adds up their budgets (main.go:178-184).
LostOnlyAtTheLimit ==
    \A r \in Requests :
        request[r].at = "lost" =>
            \/ request[r].kind \in {"historyOfAdmin", "wizard"}
            \/ request[r].kind \in {"single", "history", "rack"} /\ request[r].full

\* Every request that was accepted is answered or loses its connection, or the
\* process ends.
EveryRequestEnds == \A r \in Requests : request[r].at = "wait" ~> (request[r].at # "wait" \/ ~Up)

\* A process that was told to stop does, whatever its requests and its peers do (main.go:197-209).
ShutdownEnds == phase = "draining" ~> ~Up

\* Starting ends, too: the process listens or is gone.
StartEnds == phase = "dialing" ~> phase # "dialing"
=============================================================================
