---------------------------- MODULE Server_proofs ----------------------------
(***************************************************************************)
(* Proofs of Server's invariants, for any set of requests: the types, the  *)
(* connections, the clean exit, what the grace of Shutdown is enough for   *)
(* and what the WriteTimeout is.  The time budgets are the defaults of     *)
(* ServerAssumption.                                                       *)
(***************************************************************************)
EXTENDS Server, TLAPS

\* The plans, one kind after another: how many waits, and which.
LEMMA PlanTable ==
    /\ Kinds = {"local", "single", "history", "historyOfAdmin", "rack", "wizard"}
    /\ Plans["local"] = <<"call">>
    /\ Plans["single"] = <<"gate", "call">>
    /\ Plans["history"] = <<"gate", "call">>
    /\ Plans["historyOfAdmin"] = <<"call", "gate", "call">>
    /\ Plans["rack"] = <<"gate", "call">>
    /\ Plans["wizard"] = <<"gate", "call", "gate", "call", "gate", "call">>
  BY DEF Kinds, Plans

\* The three dials.
LEMMA DialTable ==
    /\ Len(DialOrder) = 3
    /\ DialOrder[1] = "payment" /\ DialOrder[2] = "booking" /\ DialOrder[3] = "infra"
    /\ DOMAIN DialOrder = 1..3
  BY DEF DialOrder

\* No plan has more than six waits.
LEMMA PlanLength == \A kind \in Kinds : Len(Plans[kind]) \in 1..6
<1>1. /\ Len(Plans["local"]) = 1
      /\ Len(Plans["single"]) = 2
      /\ Len(Plans["history"]) = 2
      /\ Len(Plans["historyOfAdmin"]) = 3
      /\ Len(Plans["rack"]) = 2
      /\ Len(Plans["wizard"]) = 6
  BY PlanTable
<1>2. 1 \in 1..6 /\ 2 \in 1..6 /\ 3 \in 1..6 /\ 6 \in 1..6
  OBVIOUS
<1>3. Kinds = {"local", "single", "history", "historyOfAdmin", "rack", "wizard"}
  BY PlanTable
<1> QED
  BY <1>1, <1>2, <1>3

\* A wait is of its budget, or of none where a mock answers.
LEMMA WaitBound ==
    ASSUME NEW kind, NEW i
    PROVE  /\ Wait(kind, i) \in 0..CallBudget
           /\ Wait(kind, i) <= Budget(Plans[kind][i])
  BY ServerAssumption DEF Wait, Budget

-----------------------------------------------------------------------------
(* Types *)

\* A tick leaves a request a request.
LEMMA TickOfType ==
    ASSUME NEW q \in {Idle} \cup Waiting \cup Written
    PROVE  TickOf(q) \in {Idle} \cup Waiting \cup Written
<1>1. CASE q = Idle
  BY <1>1 DEF TickOf, Idle
<1>2. CASE q \in Waiting
  <2>1. /\ q.at = "wait"
        /\ Later(q.left) \in 0..CallBudget
        /\ (IF q.write >= 0 THEN q.write - 1 ELSE q.write) \in -1..WriteTimeout
    BY <1>2, ServerAssumption DEF Waiting, Later
  <2> QED
    BY <1>2, <2>1 DEF TickOf, Waiting
<1>3. CASE q \in Written
  BY <1>3 DEF TickOf, Written
<1> QED
  BY <1>1, <1>2, <1>3

\* A request in flight is one that waits.
LEMMA InFlightWaiting ==
    ASSUME TypeOK, NEW r \in Requests, request[r].at = "wait"
    PROVE  request[r] \in Waiting
<1>1. request[r] \in {Idle} \cup Waiting \cup Written
  BY DEF TypeOK
<1>2. request[r] # Idle
  BY DEF Idle
<1>3. request[r] \notin Written
  BY DEF Written
<1> QED
  BY <1>1, <1>2, <1>3

\* A request that was written is one.
LEMMA WriteType ==
    ASSUME TypeOK, NEW r \in Requests, request[r].at = "wait", Write(r)
    PROVE  request' \in [Requests -> {Idle} \cup Waiting \cup Written]
<1>1. request[r] \in Waiting
  BY InFlightWaiting
<1>2. Full(r) \in BOOLEAN /\ request[r].kind \in Kinds
  BY <1>1 DEF Full, Waiting
<1>3. PICK at \in {"answered", "lost"} :
        request' = [request EXCEPT ![r] = [at |-> at, kind |-> request[r].kind, full |-> Full(r)]]
  BY DEF Write
<1>4. [at |-> at, kind |-> request[r].kind, full |-> Full(r)] \in Written
  BY <1>2 DEF Written
<1> QED
  BY <1>3, <1>4 DEF TypeOK

\* The type invariant is inductive.
LEMMA TypeStep == TypeOK /\ [Next]_vars => TypeOK'
<1> SUFFICES ASSUME TypeOK, [Next]_vars PROVE TypeOK'
  OBVIOUS
<1> USE ServerAssumption
<1>1. CASE Dial
  <2>1. DialOrder[dialed + 1] \in Peers /\ dialed + 1 \in 0..Len(DialOrder)
    <3>1. dialed \in 0..Len(DialOrder) /\ dialed < Len(DialOrder)
      BY <1>1 DEF Dial, TypeOK
    <3>2. dialed \in {0, 1, 2}
      BY <3>1, DialTable
    <3> QED
      BY <3>2, DialTable DEF Peers
  <2>2. conns' \subseteq Peers \cup {LocalAccess} /\ dialed' \in 0..Len(DialOrder)
    BY <1>1, <2>1 DEF Dial, TypeOK
  <2>3. dialLeft' \in 0..CallBudget
    BY <1>1 DEF Dial
  <2> QED
    BY <1>1, <2>2, <2>3 DEF Dial, TypeOK
<1>2. CASE DialFails \/ LocalAccessFails \/ ListenFails \/ Panic \/ Forced \/ Exit
  BY <1>2 DEF DialFails, LocalAccessFails, ListenFails, Panic, Forced, Exit, End, TypeOK, Phases
<1>3. CASE Listen \/ Notify \/ Drained
  BY <1>3 DEF Listen, Notify, Drained, TypeOK, Phases
<1>4. CASE Signal
  BY <1>4 DEF Signal, End, TypeOK, Phases
<1>5. CASE Close
  BY <1>5 DEF Close, TypeOK, Phases
<1>6. ASSUME NEW r \in Requests, NEW kind \in Kinds, Accept(r, kind) PROVE TypeOK'
  <2>1. [at |-> "wait", kind |-> kind, wait |-> 1, left |-> Wait(kind, 1),
         write |-> WriteTimeout, full |-> TRUE] \in Waiting
    BY WaitBound DEF Waiting
  <2>2. request' \in [Requests -> {Idle} \cup Waiting \cup Written]
    BY <1>6, <2>1 DEF Accept, TypeOK
  <2> QED
    BY <1>6, <2>2 DEF Accept, TypeOK
<1>7. ASSUME NEW r \in Requests, GoOn(r) PROVE TypeOK'
  <2>1. request[r] \in Waiting
    BY <1>7, InFlightWaiting DEF GoOn
  <2>2. request[r].wait + 1 \in 1..6
    <3>1. /\ request[r].wait \in 1..6
          /\ Len(Plans[request[r].kind]) \in 1..6
          /\ request[r].wait < Len(Plans[request[r].kind])
      BY <1>7, <2>1, PlanLength DEF GoOn, Waiting
    <3> DEFINE w == request[r].wait
               n == Len(Plans[request[r].kind])
    <3>2. w \in 1..6 /\ n \in 1..6 /\ w < n
      BY <3>1
    <3> HIDE DEF w, n
    <3>3. w + 1 \in 1..6
      BY <3>2
    <3> QED
      BY <3>3 DEF w
  <2>3. Wait(request[r].kind, request[r].wait + 1) \in 0..CallBudget /\ Full(r) \in BOOLEAN
    BY <2>1, WaitBound DEF Full, Waiting
  <2>4. [request[r] EXCEPT !.wait = request[r].wait + 1,
                           !.left = Wait(request[r].kind, request[r].wait + 1),
                           !.full = Full(r)] \in Waiting
    BY <2>1, <2>2, <2>3 DEF Waiting
  <2>5. request' = [request EXCEPT ![r] =
            [request[r] EXCEPT !.wait = request[r].wait + 1,
                               !.left = Wait(request[r].kind, request[r].wait + 1),
                               !.full = Full(r)]]
    BY <1>7, <2>1 DEF GoOn, TypeOK, Waiting
  <2>6. request' \in [Requests -> {Idle} \cup Waiting \cup Written]
    BY <2>4, <2>5 DEF TypeOK
  <2> QED
    BY <1>7, <2>6 DEF GoOn, TypeOK
<1>8. ASSUME NEW r \in Requests, Conclude(r) PROVE TypeOK'
  <2>1. request' \in [Requests -> {Idle} \cup Waiting \cup Written]
    BY <1>8, WriteType DEF Conclude
  <2> QED
    BY <1>8, <2>1 DEF Conclude, TypeOK
<1>9. ASSUME NEW r \in Requests, Forget(r) PROVE TypeOK'
  BY <1>9 DEF Forget, TypeOK
<1>10. CASE Tick
  <2>1. request' \in [Requests -> {Idle} \cup Waiting \cup Written]
    BY <1>10, TickOfType DEF Tick, TypeOK
  <2>2. dialLeft' \in 0..CallBudget /\ drainLeft' \in 0..DrainTime
    <3>1. dialLeft \in 0..2 /\ drainLeft \in 0..6
      BY DEF TypeOK
    <3>2. /\ dialLeft' \in {dialLeft, Later(dialLeft)}
          /\ drainLeft' \in {drainLeft, Later(drainLeft)}
      BY <1>10 DEF Tick
    <3> QED
      BY <3>1, <3>2 DEF Later
  <2> QED
    BY <1>10, <2>1, <2>2 DEF Tick, TypeOK
<1>11. CASE UNCHANGED vars
  BY <1>11 DEF vars, TypeOK
<1> QED
  BY <1>1, <1>2, <1>3, <1>4, <1>5, <1>6, <1>7, <1>8, <1>9, <1>10, <1>11
     DEF Next, Starting, Handler, Stopping

\* Every variable of the process keeps its type, whatever requests there are.
THEOREM ServerTypeCorrect == Spec => []TypeOK
<1>1. Init => TypeOK
  <2> SUFFICES ASSUME Init PROVE TypeOK
    OBVIOUS
  <2>1. request \in [Requests -> {Idle} \cup Waiting \cup Written]
    BY DEF Init
  <2>2. dialLeft \in 0..CallBudget /\ drainLeft \in 0..DrainTime
    <3>1. CallBudget \in 0..CallBudget /\ DrainTime \in 0..DrainTime
      BY ServerAssumption
    <3> QED
      BY <3>1 DEF Init
  <2>3. 0 \in 0..Len(DialOrder)
    BY DialTable
  <2>4. dialed \in 0..Len(DialOrder)
    BY <2>3 DEF Init
  <2> QED
    BY <2>1, <2>2, <2>4 DEF Init, TypeOK, Phases
<1> QED
  BY <1>1, TypeStep, PTL DEF Spec

-----------------------------------------------------------------------------
(* Connections *)

\* Of a dialing process the connections are the dials that succeeded; a mock
\* has none; a serving process has all three and the issuer's, which is left
\* when they are closed.  Signals are not heard before.
DialsDone(n) == {DialOrder[i] : i \in 1..n}
Connected ==
    /\ useMock => conns = {}
    /\ phase = "dialing" => conns = DialsDone(dialed)
    /\ Serving /\ ~useMock => conns = Peers \cup {LocalAccess} /\ dialed = 3
    /\ phase = "closing" /\ ~useMock => LocalAccess \in conns
    /\ exit = "fatal" /\ dialed # 3 => conns = {}
    /\ notified => phase # "dialing"

LEMMA ConnectedInit == Init => Connected
<1> SUFFICES ASSUME Init PROVE Connected
  OBVIOUS
<1>1. DialsDone(0) = {}
  BY DEF DialsDone
<1> QED
  BY <1>1 DEF Init, Connected, Serving

LEMMA ConnectedStep == TypeOK /\ Connected /\ [Next]_vars => Connected'
<1> SUFFICES ASSUME TypeOK, Connected, [Next]_vars PROVE Connected'
  OBVIOUS
<1>0. phase = "ended" <=> exit # ""
  BY DEF TypeOK
<1>d. dialed \in 0..3
  BY DialTable DEF TypeOK
<1>1. CASE Dial
  <2>1. dialed < 3 /\ dialed' = dialed + 1
    BY <1>1, DialTable DEF Dial
  <2>2. ASSUME NEW n \in {0, 1, 2}
        PROVE  DialsDone(n) \cup {DialOrder[n + 1]} = DialsDone(n + 1)
    BY DEF DialsDone
  <2>3. dialed \in {0, 1, 2}
    BY <1>d, <2>1
  <2>4. conns = DialsDone(dialed) /\ conns' = conns \cup {DialOrder[dialed + 1]}
    BY <1>1 DEF Dial, Connected
  <2>5. conns' = DialsDone(dialed')
    BY <2>1, <2>2, <2>3, <2>4
  <2> QED
    BY <1>0, <1>1, <2>5 DEF Dial, Connected, Serving
<1>2. CASE DialFails
  BY <1>2 DEF DialFails, End, Connected, Serving
<1>3. CASE Listen
  <2>1. ~useMock => dialed = 3
    BY <1>3, DialTable DEF Listen
  <2>2. ~useMock => conns = DialsDone(3)
    BY <1>3, <2>1 DEF Listen, Connected
  <2>3. DialsDone(3) = Peers
    <3>1. \A i \in 1..3 : i \in {1, 2, 3}
      OBVIOUS
    <3> QED
      BY <3>1, DialTable DEF Peers, DialsDone
  <2> QED
    BY <1>0, <1>3, <2>1, <2>2, <2>3 DEF Listen, Connected, Serving
<1>l. CASE LocalAccessFails
  <2>1. dialed = 3
    BY <1>l, DialTable DEF LocalAccessFails
  <2> QED
    BY <1>0, <1>l, <2>1 DEF LocalAccessFails, End, Connected, Serving
<1>4. CASE ListenFails
  BY <1>0, <1>4 DEF ListenFails, End, Connected, Serving
<1>5. CASE Signal
  <2>1. CASE notified
    <3>1. phase' = "draining" /\ UNCHANGED exit
      BY <1>5, <2>1 DEF Signal
    <3>2. phase = "listening"
      BY <1>5, <2>1 DEF Signal, Connected
    <3> QED
      BY <1>0, <1>5, <3>1, <3>2 DEF Signal, Connected, Serving
  <2>2. CASE ~notified
    <3>1. phase' = "ended" /\ exit' = "killed"
      BY <1>5, <2>2 DEF Signal, End
    <3> QED
      BY <1>5, <3>1 DEF Signal, Connected, Serving
  <2> QED
    BY <2>1, <2>2
<1>6. CASE Drained
  BY <1>0, <1>6 DEF Drained, Connected, Serving
<1>e. ASSUME NEW how \in {"forced", "panic", "clean"}, End(how),
             UNCHANGED <<useMock, dialed, conns, notified>>
      PROVE  Connected'
  <2>1. phase' = "ended" /\ exit' # "fatal"
    BY <1>e DEF End
  <2> QED
    BY <1>e, <2>1 DEF Connected, Serving
<1>f. CASE Forced \/ Panic \/ Exit
  BY <1>e, <1>f DEF Forced, Panic, Exit
<1>7. CASE Close
  <2>1. PICK i \in DOMAIN DialOrder : conns' = conns \ {DialOrder[i]}
    BY <1>7 DEF Close
  <2>2. DialOrder[i] # LocalAccess
    BY DialTable DEF LocalAccess
  <2> QED
    BY <1>0, <1>7, <2>1, <2>2 DEF Close, Connected, Serving
<1>8. CASE UNCHANGED <<useMock, phase, dialed, conns, notified, exit>>
  BY <1>8 DEF Connected, Serving
<1>9. ASSUME NEW r \in Requests, Handler(r) \/ \E kind \in Kinds : Accept(r, kind)
      PROVE  Connected'
  BY <1>8, <1>9 DEF Handler, GoOn, Conclude, Forget, Accept
<1>10. CASE Notify
  BY <1>0, <1>10 DEF Notify, Connected, Serving
<1>11. CASE Tick \/ UNCHANGED vars
  BY <1>8, <1>11 DEF Tick, vars
<1> QED
  BY <1>1, <1>2, <1>3, <1>l, <1>4, <1>5, <1>6, <1>f, <1>7, <1>9, <1>10, <1>11
     DEF Next, Starting, Stopping

\* Whoever is served is served with the three peers connected, and a failed
\* dial leaves no connection behind.
THEOREM AlwaysServesConnected == Spec => []ServesConnected
<1>1. Init => Connected
  BY ConnectedInit
<1>2. Connected => ServesConnected
  <2>1. dialed < Len(DialOrder) => dialed # 3
    BY DialTable
  <2> QED
    BY <2>1 DEF Connected, ServesConnected
<1> QED
  BY <1>1, <1>2, ConnectedStep, ServerTypeCorrect, PTL DEF Spec

-----------------------------------------------------------------------------
(* The clean exit *)

\* Shutdown returned because nothing was in flight, and nothing is since.
Drain ==
    /\ phase = "closing" => InFlight = {}
    /\ CleanExit

LEMMA DrainStep == TypeOK /\ Connected /\ Drain /\ [Next]_vars => Drain'
<1> SUFFICES ASSUME TypeOK, Connected, Drain, [Next]_vars PROVE Drain'
  OBVIOUS
<1>0. phase = "ended" <=> exit # ""
  BY DEF TypeOK
<1>2. CASE Dial
  BY <1>0, <1>2 DEF Dial, Drain, CleanExit
<1>3. CASE DialFails \/ LocalAccessFails \/ ListenFails \/ Panic \/ Forced
  BY <1>3 DEF DialFails, LocalAccessFails, ListenFails, Panic, Forced, End, Drain, CleanExit
<1>4. CASE Signal
  BY <1>0, <1>4 DEF Signal, End, Drain, CleanExit
<1>5. CASE Drained
  BY <1>0, <1>5 DEF Drained, Drain, CleanExit, InFlight
<1>6. CASE Close
  BY <1>0, <1>6 DEF Close, Drain, CleanExit, InFlight
<1>7. CASE Exit
  <2>1. conns = IF useMock THEN {} ELSE {LocalAccess}
    <3>1. conns \subseteq Peers \cup {LocalAccess} /\ conns \cap Peers = {}
      BY <1>7 DEF Exit, TypeOK
    <3>2. IF useMock THEN conns = {} ELSE LocalAccess \in conns
      BY <1>7 DEF Exit, Connected
    <3> QED
      BY <3>1, <3>2
  <2> QED
    BY <1>7, <2>1 DEF Exit, End, Drain, CleanExit, InFlight
<1>8. CASE UNCHANGED <<phase, exit>> /\ phase \in {"dialing", "listening", "draining"}
  BY <1>0, <1>8 DEF Drain, CleanExit
<1>9. ASSUME NEW r \in Requests, Handler(r) \/ \E kind \in Kinds : Accept(r, kind)
      PROVE  Drain'
  BY <1>8, <1>9 DEF Handler, GoOn, Conclude, Forget, Accept, Serving
<1>10. CASE Listen
  BY <1>0, <1>10 DEF Listen, Drain, CleanExit
<1>11. CASE Notify \/ Tick
  BY <1>8, <1>11 DEF Notify, Tick
<1>12. CASE UNCHANGED vars
  BY <1>12 DEF vars, Drain, CleanExit, InFlight
<1> QED
  BY <1>2, <1>3, <1>4, <1>5, <1>6, <1>7, <1>9, <1>10, <1>11, <1>12 DEF Next, Starting, Stopping

\* A process that exits by itself leaves no request unanswered, and none of the
\* dialed peers' connections open, only the lazy one to the issuer of local
\* access: a process that has one never closes it.
THEOREM ExitsClean == Spec => []CleanExit
<1>1. Init => Drain
  BY DEF Init, Drain, CleanExit
<1>2. Drain => CleanExit
  BY DEF Drain
<1> QED
  BY <1>1, <1>2, ConnectedInit, ConnectedStep, DrainStep, ServerTypeCorrect, PTL DEF Spec

-----------------------------------------------------------------------------
(* Time budgets *)

\* What can become of a request in one step.
Fresh(kind) == [at |-> "wait", kind |-> kind, wait |-> 1, left |-> Wait(kind, 1),
                write |-> WriteTimeout, full |-> TRUE]
Advanced(q, r) == [q EXCEPT !.wait = q.wait + 1, !.left = Wait(q.kind, q.wait + 1),
                            !.full = Full(r)]

LEMMA RequestStep ==
    ASSUME TypeOK, [Next]_vars, NEW r \in Requests
    PROVE  \/ request'[r] = request[r]
           \/ request'[r] = Idle
           \/ phase = "listening" /\ \E kind \in Kinds : request'[r] = Fresh(kind)
           \/ /\ request[r] \in Waiting
              /\ request[r].wait < Len(Plans[request[r].kind])
              /\ request'[r] = Advanced(request[r], r)
           \/ /\ request[r] \in Waiting
              /\ request'[r] = [at |-> "answered", kind |-> request[r].kind, full |-> Full(r)]
           \/ /\ request[r] \in Waiting
              /\ request[r].write <= 0
              /\ request'[r] = [at |-> "lost", kind |-> request[r].kind, full |-> Full(r)]
           \/ Tick /\ request[r] \in Waiting /\ request[r].left > 0
                   /\ request'[r] = TickOf(request[r])
<1>0. request \in [Requests -> {Idle} \cup Waiting \cup Written]
  BY DEF TypeOK
<1>1. CASE UNCHANGED request
  BY <1>1
<1>2. CASE Tick
  <2>1. request'[r] = TickOf(request[r])
    BY <1>2 DEF Tick
  <2>2. CASE request[r].at = "wait"
    BY <1>2, <2>1, <2>2, InFlightWaiting DEF Tick, InFlight
  <2>3. CASE request[r].at # "wait"
    BY <2>1, <2>3 DEF TickOf
  <2> QED
    BY <2>2, <2>3
<1>3. ASSUME NEW s \in Requests, NEW kind \in Kinds, Accept(s, kind)
      PROVE  \/ request'[r] = request[r]
             \/ phase = "listening" /\ request'[r] = Fresh(kind)
  BY <1>0, <1>3 DEF Accept, Fresh
<1>4. ASSUME NEW s \in Requests, GoOn(s)
      PROVE  \/ request'[r] = request[r]
             \/ /\ request[r] \in Waiting
                /\ request[r].wait < Len(Plans[request[r].kind])
                /\ request'[r] = Advanced(request[r], r)
  <2>1. request[s] \in Waiting
    BY <1>4, InFlightWaiting DEF GoOn
  <2>2. request' = [request EXCEPT ![s] = Advanced(request[s], s)]
    BY <1>0, <1>4, <2>1 DEF GoOn, Advanced, Waiting
  <2> QED
    BY <1>0, <1>4, <2>1, <2>2 DEF GoOn
<1>5. ASSUME NEW s \in Requests, Conclude(s)
      PROVE  \/ request'[r] = request[r]
             \/ /\ request[r] \in Waiting
                /\ request'[r] = [at |-> "answered", kind |-> request[r].kind, full |-> Full(r)]
             \/ /\ request[r] \in Waiting
                /\ request[r].write <= 0
                /\ request'[r] = [at |-> "lost", kind |-> request[r].kind, full |-> Full(r)]
  <2>1. request[s] \in Waiting
    BY <1>5, InFlightWaiting DEF Conclude
  <2>2. PICK at \in {"answered", "lost"} :
            /\ at = "lost" => request[s].write <= 0
            /\ request' = [request EXCEPT ![s] = [at |-> at, kind |-> request[s].kind,
                                                  full |-> Full(s)]]
    BY <1>5 DEF Conclude, Write
  <2> QED
    BY <1>0, <2>1, <2>2
<1>6. ASSUME NEW s \in Requests, Forget(s)
      PROVE  request'[r] = request[r] \/ request'[r] = Idle
  BY <1>0, <1>6 DEF Forget
<1> QED
  BY <1>1, <1>2, <1>3, <1>4, <1>5, <1>6
     DEF Next, Starting, Handler, Stopping, Dial, DialFails, Listen, LocalAccessFails,
         ListenFails, Notify, Panic, Signal, Drained, Forced, Close, Exit, vars

\* The write deadline of a request with one call, or with one behind the gate,
\* stays ahead of what is left of its waits; level with it only if the gate
\* took its whole budget.
BehindGate == {"single", "history", "rack"}
Ahead(q) ==
    q.at = "wait" =>
        /\ q.kind = "local" => q.wait = 1 /\ q.write >= q.left + 1
        /\ q.kind \in BehindGate =>
              \/ q.wait = 1 /\ q.full = TRUE /\ q.write >= q.left + 2
              \/ q.wait = 2 /\ q.write >= q.left /\ (q.full = FALSE => q.write >= q.left + 1)
LostLate(q) ==
    q.at = "lost" => \/ q.kind \in {"historyOfAdmin", "wizard"}
                     \/ q.kind \in BehindGate /\ q.full
Punctual == \A r \in Requests : Ahead(request[r]) /\ LostLate(request[r])

\* The waits of such a plan, by number.
LEMMA ShortPlan ==
    /\ Len(Plans["local"]) = 1 /\ Wait("local", 1) \in 0..2
    /\ \A kind \in BehindGate :
          /\ Len(Plans[kind]) = 2
          /\ Wait(kind, 1) \in 0..1
          /\ Wait(kind, 2) \in 0..2
<1>1. \A kind \in BehindGate : Plans[kind] = <<"gate", "call">>
  BY PlanTable DEF BehindGate
<1>2. ASSUME NEW kind \in BehindGate
      PROVE  Len(Plans[kind]) = 2 /\ Plans[kind][1] = "gate" /\ Plans[kind][2] = "call"
  BY <1>1
<1>3. Len(Plans["local"]) = 1 /\ Plans["local"][1] = "call"
  BY PlanTable
<1> QED
  BY <1>2, <1>3, ServerAssumption DEF Wait, Budget

\* A request is ahead, and not lost late, by what its fields are.
LEMMA StaysAhead ==
    ASSUME NEW q, q.at = "wait",
           q.kind = "local" => q.wait = 1 /\ q.write >= q.left + 1,
           q.kind \in BehindGate =>
              \/ q.wait = 1 /\ q.full = TRUE /\ q.write >= q.left + 2
              \/ q.wait = 2 /\ q.write >= q.left /\ (q.full = FALSE => q.write >= q.left + 1)
    PROVE  Ahead(q) /\ LostLate(q)
<1>1. q.at # "lost"
  OBVIOUS
<1> QED
  BY <1>1, Zenon DEF Ahead, LostLate

LEMMA PunctualStep == TypeOK /\ Punctual /\ [Next]_vars => Punctual'
<1> SUFFICES ASSUME TypeOK, Punctual, [Next]_vars, NEW r \in Requests
             PROVE  Ahead(request'[r]) /\ LostLate(request'[r])
  BY DEF Punctual
<1> DEFINE q == request[r]
           p == request'[r]
<1>0. Ahead(q) /\ LostLate(q)
  BY DEF Punctual
<1>1. CASE p = q
  BY <1>0, <1>1
<1>2. CASE p = Idle
  BY <1>2 DEF Idle, Ahead, LostLate
<1>3. ASSUME NEW kind \in Kinds, p = Fresh(kind) PROVE Ahead(p) /\ LostLate(p)
  <2>1. /\ p.at = "wait" /\ p.kind = kind /\ p.wait = 1 /\ p.left = Wait(kind, 1)
        /\ p.write = 3 /\ p.full = TRUE
    BY <1>3, ServerAssumption DEF Fresh
  <2>2. kind = "local" => Wait(kind, 1) \in 0..2
    BY ShortPlan
  <2>3. kind \in BehindGate => Wait(kind, 1) \in 0..1
    BY ShortPlan
  <2>4. kind = "local" => 3 >= Wait(kind, 1) + 1
    BY <2>2
  <2>5. kind \in BehindGate => 3 >= Wait(kind, 1) + 2
    BY <2>3
  <2> HIDE DEF p
  <2> QED
    BY <2>1, <2>4, <2>5 DEF Ahead, LostLate
<1>w. ASSUME q \in Waiting
      PROVE  /\ q.at = "wait" /\ q.kind \in Kinds /\ q.wait \in 1..6 /\ q.left \in 0..2
             /\ q.write \in -1..3 /\ q.full \in BOOLEAN
  BY <1>w, ServerAssumption DEF Waiting
<1>4. CASE q \in Waiting /\ q.wait < Len(Plans[q.kind]) /\ p = Advanced(q, r)
  <2>1. /\ p.at = "wait" /\ p.kind = q.kind /\ p.wait = q.wait + 1
        /\ p.left = Wait(q.kind, q.wait + 1) /\ p.write = q.write /\ p.full = Full(r)
    BY <1>4 DEF Advanced, Waiting
  <2>2. q.kind # "local"
    <3> DEFINE i == q.wait
               n == Len(Plans[q.kind])
    <3>1. i \in 1..6 /\ i < n
      BY <1>4, <1>w
    <3> HIDE DEF i, n
    <3>2. i # 1 \/ n # 1
      BY <3>1
    <3>3. q.kind = "local" => q.wait = 1 /\ Len(Plans[q.kind]) = 1
      BY <1>0, <1>4, <1>w, ShortPlan DEF Ahead
    <3> QED
      BY <3>2, <3>3 DEF i, n
  <2>3. ASSUME q.kind \in BehindGate
        PROVE  /\ p.wait = 2 /\ p.write >= p.left
               /\ p.full = FALSE => p.write >= p.left + 1
    <3>1. /\ q.wait \in 1..6 /\ q.wait < 2 /\ q.left \in 0..2 /\ q.write \in -1..3
      BY <1>4, <1>w, <2>3, ShortPlan
    <3>2. q.wait = 1
      BY <3>1
    <3>3. q.full = TRUE /\ q.write >= q.left + 2
      BY <1>0, <1>4, <1>w, <2>3, <3>2 DEF Ahead
    <3>4. p.full = FALSE => q.left # 0
      BY <2>1, <3>3 DEF Full
    <3>5. p.left \in 0..2 /\ p.wait = 2 /\ p.write = q.write
      BY <2>1, <2>3, <3>2, ShortPlan
    <3> DEFINE m == q.left
               n == q.write
               k == p.left
    <3>6. m \in 0..2 /\ n \in -1..3 /\ k \in 0..2 /\ n >= m + 2
      BY <3>1, <3>3, <3>5
    <3> HIDE DEF m, n, k
    <3>7. n >= k /\ (m # 0 => n >= k + 1)
      BY <3>6
    <3> QED
      BY <3>4, <3>5, <3>7 DEF m, n, k
  <2>4. /\ p.kind # "local"
        /\ p.kind \in BehindGate =>
              p.wait = 2 /\ p.write >= p.left /\ (p.full = FALSE => p.write >= p.left + 1)
    BY <2>1, <2>2, <2>3, Zenon
  <2> QED
    BY <2>1, <2>4, StaysAhead, Zenon
<1>5. CASE q \in Waiting /\ p = [at |-> "answered", kind |-> q.kind, full |-> Full(r)]
  BY <1>5 DEF Ahead, LostLate
<1>6. CASE q \in Waiting /\ q.write <= 0 /\ p = [at |-> "lost", kind |-> q.kind, full |-> Full(r)]
  <2>1. p.at = "lost" /\ p.kind = q.kind /\ p.full = (q.full /\ q.left = 0)
    BY <1>6 DEF Full
  <2>2. q.left \in 0..2 /\ q.write \in -1..0
    BY <1>6, <1>w
  <2>3. q.kind # "local"
    <3>1. ~(q.write >= q.left + 1)
      BY <2>2
    <3> QED
      BY <1>0, <1>6, <1>w, <3>1 DEF Ahead
  <2>4. q.kind \in BehindGate => q.left = 0 /\ q.full # FALSE
    <3>1. /\ ~(q.write >= q.left + 2) /\ ~(q.write >= q.left + 1)
          /\ q.write >= q.left => q.left = 0
      BY <2>2
    <3> QED
      BY <1>0, <1>6, <1>w, <3>1 DEF Ahead
  <2>5. q.kind \in BehindGate \cup {"historyOfAdmin", "wizard"}
    BY <1>6, <1>w, <2>3, PlanTable DEF BehindGate
  <2>6. q.full \in BOOLEAN
    BY <1>6, <1>w
  <2>7. q.kind \in BehindGate => p.full
    BY <2>1, <2>4, <2>6
  <2>8. p.at # "wait" /\ p.kind \in BehindGate \cup {"historyOfAdmin", "wizard"}
    BY <2>1, <2>5
  <2> QED
    BY <2>7, <2>1, <2>8, Zenon DEF Ahead, LostLate
<1>7. CASE q \in Waiting /\ q.left > 0 /\ p = TickOf(q)
  <2>1. /\ p.at = "wait" /\ p.kind = q.kind /\ p.wait = q.wait /\ p.full = q.full
        /\ p.left = Later(q.left)
        /\ p.write = IF q.write >= 0 THEN q.write - 1 ELSE q.write
    BY <1>7 DEF TickOf, Waiting
  <2>2. q.left \in 1..2 /\ q.write \in -1..3
    BY <1>7, <1>w
  <2>3. p.left = q.left - 1
    BY <2>1, <2>2 DEF Later
  <2>4. q.write >= q.left => p.write = q.write - 1
    BY <2>1, <2>2
  <2>5. /\ q.write >= q.left + 1 => p.write >= p.left + 1
        /\ q.write >= q.left + 2 => p.write >= p.left + 2
        /\ q.write >= q.left => p.write >= p.left
    BY <2>2, <2>3, <2>4
  <2>6. /\ p.kind = "local" => p.wait = 1 /\ p.write >= p.left + 1
        /\ p.kind \in BehindGate =>
              \/ p.wait = 1 /\ p.full = TRUE /\ p.write >= p.left + 2
              \/ p.wait = 2 /\ p.write >= p.left /\ (p.full = FALSE => p.write >= p.left + 1)
    BY <1>0, <1>7, <1>w, <2>1, <2>5, Zenon DEF Ahead
  <2> QED
    BY <2>1, <2>6, StaysAhead, Zenon
<1> QED
  BY <1>1, <1>2, <1>3, <1>4, <1>5, <1>6, <1>7, RequestStep

\* The answer of a field with one call is never lost, that of a field with one
\* call behind the gate only if both waits were as long as they may be.
THEOREM LosesOnlyAtTheLimit == Spec => []LostOnlyAtTheLimit
<1>1. Init => Punctual
  <2>1. Ahead(Idle) /\ LostLate(Idle)
    <3>1. Idle.at = "none"
      BY DEF Idle
    <3> QED
      BY <3>1 DEF Ahead, LostLate
  <2> QED
    BY <2>1 DEF Init, Punctual
<1>2. Punctual => LostOnlyAtTheLimit
  BY DEF Punctual, LostLate, BehindGate, LostOnlyAtTheLimit
<1> QED
  BY <1>1, <1>2, PunctualStep, ServerTypeCorrect, PTL DEF Spec

-----------------------------------------------------------------------------

\* The ticks a plan needs after its n-th wait, and that they fit into the grace
\* with the wait itself: of everything but the wizard.
Rest == [local |-> <<0>>, single |-> <<2, 0>>, history |-> <<2, 0>>, rack |-> <<2, 0>>,
         historyOfAdmin |-> <<3, 2, 0>>]
Plain == DOMAIN Rest
InGrace(q, n) ==
    q.at = "wait" /\ q.kind # "wizard" =>
        /\ q.kind \in Plain
        /\ q.wait \in 1..Len(Plans[q.kind])
        /\ q.left + Rest[q.kind][q.wait] < n
Grace ==
    /\ phase \in {"dialing", "listening"} => drainLeft = 6
    /\ phase \in {"dialing", "listening", "draining"} =>
          \A r \in Requests : InGrace(request[r], drainLeft)
    /\ ForcedOnlyByWizard

\* After a wait there is time for the next one and what is left then.
LEMMA RestOfPlan ==
    /\ Kinds = Plain \cup {"wizard"}
    /\ \A kind \in Plain :
          /\ Len(Plans[kind]) \in 1..3
          /\ Wait(kind, 1) \in 0..2 /\ Rest[kind][1] \in 0..3 /\ Wait(kind, 1) + Rest[kind][1] < 6
          /\ \A i \in 1..Len(Plans[kind]) : Rest[kind][i] \in 0..3
          /\ \A i \in 1..Len(Plans[kind]) :
                i < Len(Plans[kind]) =>
                    /\ Wait(kind, i + 1) \in 0..2
                    /\ Rest[kind][i + 1] \in 0..3
                    /\ Wait(kind, i + 1) + Rest[kind][i + 1] <= Rest[kind][i]
<1>1. /\ Kinds = Plain \cup {"wizard"}
      /\ Plain = {"local", "single", "history", "rack", "historyOfAdmin"}
  BY PlanTable DEF Plain, Rest
<1>2. ASSUME NEW kind \in {"single", "history", "rack"}
      PROVE  /\ Len(Plans[kind]) = 2
             /\ Rest[kind][1] = 2 /\ Rest[kind][2] = 0
             /\ Wait(kind, 1) \in 0..1 /\ Wait(kind, 2) \in 0..2
  <2>1. Plans[kind] = <<"gate", "call">> /\ Rest[kind] = <<2, 0>>
    BY PlanTable DEF Rest
  <2>2. /\ Len(Plans[kind]) = 2 /\ Plans[kind][1] = "gate" /\ Plans[kind][2] = "call"
        /\ Rest[kind][1] = 2 /\ Rest[kind][2] = 0
    BY <2>1
  <2> QED
    BY <2>2, ServerAssumption DEF Wait, Budget
<1>3. /\ Len(Plans["historyOfAdmin"]) = 3
      /\ Rest["historyOfAdmin"][1] = 3 /\ Rest["historyOfAdmin"][2] = 2
      /\ Rest["historyOfAdmin"][3] = 0
      /\ Wait("historyOfAdmin", 1) \in 0..2 /\ Wait("historyOfAdmin", 2) \in 0..1
      /\ Wait("historyOfAdmin", 3) \in 0..2
  <2>1. Plans["historyOfAdmin"] = <<"call", "gate", "call">> /\ Rest["historyOfAdmin"] = <<3, 2, 0>>
    BY PlanTable DEF Rest
  <2>2. /\ Len(Plans["historyOfAdmin"]) = 3
        /\ Plans["historyOfAdmin"][1] = "call" /\ Plans["historyOfAdmin"][2] = "gate"
        /\ Plans["historyOfAdmin"][3] = "call"
        /\ Rest["historyOfAdmin"][1] = 3 /\ Rest["historyOfAdmin"][2] = 2
        /\ Rest["historyOfAdmin"][3] = 0
    BY <2>1
  <2> QED
    BY <2>2, ServerAssumption DEF Wait, Budget
<1>4. Len(Plans["local"]) = 1 /\ Rest["local"][1] = 0 /\ Wait("local", 1) \in 0..2
  <2>1. Plans["local"] = <<"call">> /\ Rest["local"] = <<0>>
    BY PlanTable DEF Rest
  <2> QED
    BY <2>1, ShortPlan
<1>5. ASSUME NEW kind \in {"single", "history", "rack"}, NEW i \in 1..2
      PROVE  i = 1 \/ i = 2
  OBVIOUS
<1>6. ASSUME NEW kind \in Plain
      PROVE  /\ Len(Plans[kind]) \in 1..3
             /\ Wait(kind, 1) \in 0..2 /\ Rest[kind][1] \in 0..3
             /\ Wait(kind, 1) + Rest[kind][1] < 6
             /\ \A i \in 1..Len(Plans[kind]) : Rest[kind][i] \in 0..3
             /\ \A i \in 1..Len(Plans[kind]) :
                   i < Len(Plans[kind]) =>
                       /\ Wait(kind, i + 1) \in 0..2
                       /\ Rest[kind][i + 1] \in 0..3
                       /\ Wait(kind, i + 1) + Rest[kind][i + 1] <= Rest[kind][i]
  <2>1. CASE kind \in {"single", "history", "rack"}
    <3>1. /\ Len(Plans[kind]) = 2
          /\ Rest[kind][1] = 2 /\ Rest[kind][2] = 0
          /\ Wait(kind, 1) \in 0..1 /\ Wait(kind, 2) \in 0..2
      BY <1>2, <2>1
    <3>2. \A i \in 1..2 : i = 1 \/ i = 2
      OBVIOUS
    <3> QED
      BY <3>1, <3>2
  <2>2. CASE kind = "historyOfAdmin"
    <3> DEFINE W(i) == Wait(kind, i)
               R(i) == Rest[kind][i]
               n == Len(Plans[kind])
    <3>1. /\ n = 3 /\ R(1) = 3 /\ R(2) = 2 /\ R(3) = 0
          /\ W(1) \in 0..2 /\ W(2) \in 0..1 /\ W(3) \in 0..2
      BY <1>3, <2>2
    <3> HIDE DEF W, R, n
    <3>2. n \in 1..3 /\ W(1) \in 0..2 /\ R(1) \in 0..3 /\ W(1) + R(1) < 6
      BY <3>1
    <3>3. ASSUME NEW i \in 1..n
          PROVE  /\ R(i) \in 0..3
                 /\ i < n => /\ W(i + 1) \in 0..2 /\ R(i + 1) \in 0..3
                             /\ W(i + 1) + R(i + 1) <= R(i)
      <4>1. i = 1 \/ i = 2 \/ i = 3
        BY <3>1
      <4>2. CASE i = 1
        BY <3>1, <4>2
      <4>3. CASE i = 2
        BY <3>1, <4>3
      <4>4. CASE i = 3
        BY <3>1, <4>4
      <4> QED
        BY <4>1, <4>2, <4>3, <4>4
    <3> QED
      BY <3>2, <3>3 DEF W, R, n
  <2>3. CASE kind = "local"
    <3>1. /\ Len(Plans[kind]) = 1 /\ Rest[kind][1] = 0 /\ Wait(kind, 1) \in 0..2
          /\ \A i \in 1..1 : i = 1 /\ ~(i < 1)
      BY <1>4, <2>3
    <3>2. Len(Plans[kind]) \in 1..3 /\ Wait(kind, 1) + Rest[kind][1] < 6
      BY <3>1
    <3>3. Wait(kind, 1) \in 0..2 /\ Rest[kind][1] \in 0..3
      BY <3>1
    <3>4. \A i \in 1..Len(Plans[kind]) : i = 1 /\ ~(i < Len(Plans[kind]))
      BY <3>1
    <3> QED
      BY <3>2, <3>3, <3>4
  <2> QED
    BY <1>1, <2>1, <2>2, <2>3
<1> QED
  BY <1>1, <1>6

\* A request that is in the grace stays there: by its own steps, and by a tick
\* that lowers the grace by one at most.
LEMMA InGraceStep ==
    ASSUME TypeOK, [Next]_vars, NEW r \in Requests, InGrace(request[r], drainLeft),
           drainLeft \in 0..6, drainLeft' \in 0..6,
           phase = "listening" => drainLeft = 6,
           drainLeft' = drainLeft \/ (Tick /\ drainLeft' = drainLeft - 1)
    PROVE  InGrace(request'[r], drainLeft')
<1> DEFINE q == request[r]
           p == request'[r]
           d == drainLeft
<1>w. ASSUME q \in Waiting
      PROVE  /\ q.at = "wait" /\ q.kind \in Kinds /\ q.wait \in 1..6 /\ q.left \in 0..2
  BY <1>w, ServerAssumption DEF Waiting
<1>t. CASE Tick
  <2>1. p = TickOf(q)
    BY <1>t DEF Tick
  <2>2. CASE q.at # "wait"
    BY <2>1, <2>2 DEF TickOf, InGrace
  <2>3. CASE q.at = "wait"
    <3>1. q \in Waiting /\ q.left > 0
      BY <1>t, <2>3, InFlightWaiting DEF Tick, InFlight
    <3>2. p.at = "wait" /\ p.kind = q.kind /\ p.wait = q.wait /\ p.left = Later(q.left)
      BY <2>1, <3>1 DEF TickOf, Waiting
    <3>3. q.left \in 1..2
      BY <1>w, <3>1
    <3>4. p.left = q.left - 1
      BY <3>2, <3>3 DEF Later
    <3>5. ASSUME q.kind # "wizard"
          PROVE  /\ q.kind \in Plain /\ q.wait \in 1..Len(Plans[q.kind])
                 /\ q.left + Rest[q.kind][q.wait] < d
                 /\ Rest[q.kind][q.wait] \in 0..3
      <4>1. q.kind \in Plain /\ q.wait \in 1..Len(Plans[q.kind])
            /\ q.left + Rest[q.kind][q.wait] < d
        BY <2>3, <3>5 DEF InGrace
      <4> QED
        BY <4>1, RestOfPlan
    <3>6. ASSUME q.kind # "wizard" PROVE p.left + Rest[p.kind][p.wait] < drainLeft'
      <4> DEFINE m == q.left
                 k == Rest[q.kind][q.wait]
                 e == drainLeft'
      <4>1. m \in 1..2 /\ k \in 0..3 /\ d \in 0..6 /\ e \in 0..6 /\ m + k < d
            /\ (e = d \/ e = d - 1)
        BY <3>3, <3>5, <3>6
      <4> HIDE DEF m, k, d, e
      <4>2. (m - 1) + k < e
        BY <4>1
      <4> QED
        BY <3>2, <3>4, <4>2 DEF m, k, e
    <3>7. p.at = "wait" /\ p.kind # "wizard" =>
              /\ p.kind \in Plain
              /\ p.wait \in 1..Len(Plans[p.kind])
              /\ p.left + Rest[p.kind][p.wait] < drainLeft'
      BY <3>2, <3>5, <3>6
    <3> QED
      BY <3>7 DEF InGrace
  <2> QED
    BY <2>2, <2>3
<1>d. CASE drainLeft' = drainLeft /\ ~Tick
  <2>1. CASE p = q
    BY <1>d, <2>1
  <2>2. CASE p = Idle
    BY <2>2 DEF Idle, InGrace
  <2>3. ASSUME phase = "listening", NEW kind \in Kinds, p = Fresh(kind)
        PROVE  InGrace(p, drainLeft')
    <3>1. p.at = "wait" /\ p.kind = kind /\ p.wait = 1 /\ p.left = Wait(kind, 1)
      BY <2>3 DEF Fresh
    <3>2. drainLeft' = 6
      BY <1>d, <2>3
    <3>3. ASSUME kind # "wizard"
          PROVE  kind \in Plain /\ 1 \in 1..Len(Plans[kind]) /\ Wait(kind, 1) + Rest[kind][1] < 6
      <4>1. kind \in Plain
        BY <3>3, RestOfPlan
      <4>2. Len(Plans[kind]) \in 1..3 /\ Wait(kind, 1) + Rest[kind][1] < 6
        BY <4>1, RestOfPlan
      <4>3. \A n \in 1..3 : 1 \in 1..n
        OBVIOUS
      <4> QED
        BY <4>1, <4>2, <4>3, Zenon
    <3>4. p.at = "wait" /\ p.kind # "wizard" =>
              /\ p.kind \in Plain
              /\ p.wait \in 1..Len(Plans[p.kind])
              /\ p.left + Rest[p.kind][p.wait] < drainLeft'
      BY <3>1, <3>2, <3>3
    <3> QED
      BY <3>4 DEF InGrace
  <2>4. CASE q \in Waiting /\ q.wait < Len(Plans[q.kind]) /\ p = Advanced(q, r)
    <3>1. /\ p.at = "wait" /\ p.kind = q.kind /\ p.wait = q.wait + 1
          /\ p.left = Wait(q.kind, q.wait + 1)
      BY <2>4 DEF Advanced, Waiting
    <3>2. ASSUME q.kind # "wizard"
          PROVE  /\ q.kind \in Plain
                 /\ q.wait + 1 \in 1..Len(Plans[q.kind])
                 /\ Wait(q.kind, q.wait + 1) + Rest[q.kind][q.wait + 1] < d
      <4> DEFINE k == q.kind
                 i == q.wait
                 n == Len(Plans[q.kind])
                 m == q.left
      <4>1. k \in Plain /\ i \in 1..n /\ m + Rest[k][i] < d /\ m \in 0..2
        BY <1>w, <2>4, <3>2 DEF InGrace
      <4>2. i < n
        BY <2>4
      <4>3. /\ n \in 1..3 /\ Rest[k][i] \in 0..3
            /\ Wait(k, i + 1) \in 0..2 /\ Rest[k][i + 1] \in 0..3
            /\ Wait(k, i + 1) + Rest[k][i + 1] <= Rest[k][i]
        BY <4>1, <4>2, RestOfPlan
      <4> HIDE DEF k, i, n, m, d
      <4>4. i + 1 \in 1..n
        BY <4>1, <4>2, <4>3
      <4> DEFINE a == Wait(k, i + 1)
                 b == Rest[k][i + 1]
                 c == Rest[k][i]
      <4>5. a \in 0..2 /\ b \in 0..3 /\ c \in 0..3 /\ a + b <= c /\ m + c < d /\ m \in 0..2
            /\ d \in 0..6
        BY <4>1, <4>3 DEF d
      <4> HIDE DEF a, b, c
      <4>6. a + b < d
        BY <4>5
      <4> QED
        BY <4>1, <4>4, <4>6 DEF a, b, k, i, n
    <3>3. p.at = "wait" /\ p.kind # "wizard" =>
              /\ p.kind \in Plain
              /\ p.wait \in 1..Len(Plans[p.kind])
              /\ p.left + Rest[p.kind][p.wait] < drainLeft'
      BY <1>d, <3>1, <3>2
    <3> QED
      BY <3>3 DEF InGrace
  <2>5. CASE p = [at |-> "answered", kind |-> q.kind, full |-> Full(r)]
             \/ p = [at |-> "lost", kind |-> q.kind, full |-> Full(r)]
    BY <2>5 DEF InGrace
  <2> QED
    BY <1>d, <2>1, <2>2, <2>3, <2>4, <2>5, RequestStep
<1> QED
  BY <1>t, <1>d

LEMMA GraceStep == TypeOK /\ Grace /\ [Next]_vars => Grace'
<1> SUFFICES ASSUME TypeOK, Grace, [Next]_vars PROVE Grace'
  OBVIOUS
<1>0. (phase = "ended" <=> exit # "") /\ drainLeft \in 0..6
  BY ServerAssumption DEF TypeOK
<1>n. drainLeft' \in 0..6
  BY TypeStep, ServerAssumption DEF TypeOK
<1>s. ASSUME phase \in {"dialing", "listening", "draining"},
             drainLeft' = drainLeft \/ (Tick /\ drainLeft' = drainLeft - 1)
      PROVE  \A r \in Requests : InGrace(request'[r], drainLeft')
  <2> SUFFICES ASSUME NEW r \in Requests PROVE InGrace(request'[r], drainLeft')
    OBVIOUS
  <2>1. InGrace(request[r], drainLeft) /\ (phase = "listening" => drainLeft = 6)
    BY <1>s DEF Grace
  <2> QED
    BY <1>0, <1>n, <1>s, <2>1, InGraceStep
<1>q. ASSUME UNCHANGED exit, phase # "ended" PROVE ForcedOnlyByWizard'
  BY <1>0, <1>q DEF ForcedOnlyByWizard
<1>1. CASE UNCHANGED <<phase, drainLeft, exit>> /\ phase \in {"dialing", "listening", "draining"}
  BY <1>q, <1>s, <1>1 DEF Grace
<1>2. CASE Tick
  <2>1. phase \in {"dialing", "listening", "draining"} /\ UNCHANGED <<phase, exit>>
    BY <1>2 DEF Tick
  <2>2. /\ phase # "draining" => drainLeft' = drainLeft
        /\ phase = "draining" => drainLeft' = drainLeft - 1
    BY <1>0, <1>2 DEF Tick, Later
  <2> QED
    BY <1>2, <1>q, <1>s, <2>1, <2>2 DEF Grace
<1>3. CASE Listen \/ Notify
  <2>1. /\ phase \in {"dialing", "listening"} /\ phase' = "listening"
        /\ UNCHANGED <<drainLeft, exit>>
    BY <1>3 DEF Listen, Notify
  <2> QED
    BY <1>q, <1>s, <2>1 DEF Grace
<1>4. CASE Signal
  <2>1. CASE notified
    <3>1. /\ phase \in {"dialing", "listening"} /\ phase' = "draining"
          /\ UNCHANGED <<drainLeft, exit>>
      BY <1>4, <2>1 DEF Signal
    <3> QED
      BY <1>q, <1>s, <3>1 DEF Grace
  <2>2. CASE ~notified
    <3>1. phase' = "ended" /\ exit' = "killed"
      BY <1>4, <2>2 DEF Signal, End
    <3> QED
      BY <3>1 DEF Grace, ForcedOnlyByWizard
  <2> QED
    BY <2>1, <2>2
<1>5. CASE Forced
  <2>1. phase = "draining" /\ drainLeft = 0 /\ phase' = "ended" /\ UNCHANGED request
    BY <1>5 DEF Forced, End
  <2>2. ASSUME NEW r \in InFlight PROVE request[r].kind = "wizard"
    <3>1. r \in Requests /\ request[r] \in Waiting /\ request[r].at = "wait"
      BY <2>2, InFlightWaiting DEF InFlight
    <3>2. request[r].left \in 0..2
      BY <3>1, ServerAssumption DEF Waiting
    <3>3. InGrace(request[r], 0)
      BY <2>1, <3>1 DEF Grace
    <3>4. ASSUME request[r].kind # "wizard"
          PROVE  FALSE
      <4>1. /\ request[r].kind \in Plain
            /\ request[r].wait \in 1..Len(Plans[request[r].kind])
            /\ request[r].left + Rest[request[r].kind][request[r].wait] < 0
        BY <3>1, <3>3, <3>4 DEF InGrace
      <4>2. Rest[request[r].kind][request[r].wait] \in 0..3
        BY <4>1, RestOfPlan
      <4> QED
        BY <3>2, <4>1, <4>2
    <3> QED
      BY <3>4
  <2>3. InFlight' = InFlight
    BY <2>1 DEF InFlight
  <2>4. ForcedOnlyByWizard'
    BY <2>1, <2>2, <2>3 DEF ForcedOnlyByWizard
  <2> QED
    BY <2>1, <2>4 DEF Grace
<1>e. ASSUME NEW how \in {"fatal", "panic", "clean"}, End(how) PROVE Grace'
  BY <1>e DEF End, Grace, ForcedOnlyByWizard
<1>6. CASE DialFails \/ LocalAccessFails \/ ListenFails \/ Panic \/ Exit
  BY <1>6, <1>e DEF DialFails, LocalAccessFails, ListenFails, Panic, Exit
<1>7. CASE Drained \/ Close
  <2>1. phase' = "closing" /\ UNCHANGED exit /\ phase # "ended"
    BY <1>7 DEF Drained, Close
  <2> QED
    BY <1>q, <2>1 DEF Grace
<1>8. ASSUME NEW r \in Requests, Handler(r) \/ \E kind \in Kinds : Accept(r, kind)
      PROVE  Grace'
  BY <1>1, <1>8 DEF Handler, GoOn, Conclude, Forget, Accept, Serving
<1>9. CASE Dial
  BY <1>1, <1>9 DEF Dial
<1>10. CASE UNCHANGED vars
  BY <1>10 DEF vars, Grace, ForcedOnlyByWizard, InFlight
<1> QED
  BY <1>2, <1>3, <1>4, <1>5, <1>6, <1>7, <1>8, <1>9, <1>10 DEF Next, Starting, Stopping

\* The grace of Shutdown is enough for every request but the wizard's: nothing
\* else is cut off by it.
THEOREM ForcesOnlyWizards == Spec => []ForcedOnlyByWizard
<1>1. Init => Grace
  <2> SUFFICES ASSUME Init PROVE Grace
    OBVIOUS
  <2>1. InGrace(Idle, drainLeft)
    BY DEF InGrace, Idle
  <2> QED
    BY <2>1, ServerAssumption DEF Init, Grace, ForcedOnlyByWizard
<1>2. Grace => ForcedOnlyByWizard
  BY DEF Grace
<1> QED
  BY <1>1, <1>2, GraceStep, ServerTypeCorrect, PTL DEF Spec
=============================================================================
