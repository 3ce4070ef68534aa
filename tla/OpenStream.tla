----------------------------- MODULE OpenStream -----------------------------
(***************************************************************************)
(* One executeOpen subscription, from the gRPC stream of booking-manager   *)
(* to the websocket client:                                                *)
(*                                                                         *)
(*   stream -> forwarder -> domainChan -> resolver -> outputChan -> client *)
(*                                                                         *)
(* The forwarder is the goroutine ExecuteOpenStream starts                 *)
(* (payment_client.go, reenviarApertura; the mock's goroutine when         *)
(* UseMock); the resolver is the goroutine ExecuteOpen starts              *)
(* (schema.resolvers.go); the client is gqlgen's reader of the returned    *)
(* channel.  ctx is the subscription's context: it is done once the client *)
(* unsubscribes or its connection drops.                                   *)
(***************************************************************************)
EXTENDS Naturals, Sequences

CONSTANTS DomainCap,    \* capacity of resultChan (10)
          OutCap,       \* capacity of outputChan (5)
          MaxFrames,    \* bound: frames booking-manager sends on one stream
          FrameStatus   \* the open statuses it puts in them

\* The open statuses the BFF has a name for; a number of booking-manager's it
\* has none for stands as "UNKNOWN" on the wire.
Status == {"UNSPECIFIED", "RECEIVED", "REQUESTED", "EXECUTED", "ERROR", "SUCCESS"}
WireStatus == Status \cup {"UNKNOWN"}
Terminal == {"SUCCESS", "ERROR"}

\* The mapper's switch, with its default.
mapOpenStatus(wire) == IF wire \in Status THEN wire ELSE "UNSPECIFIED"

ASSUME OpenStreamAssumption ==
    /\ DomainCap \in Nat \ {0} /\ OutCap \in Nat \ {0} /\ MaxFrames \in Nat
    /\ FrameStatus \subseteq WireStatus

VARIABLES
    useMock,     \* config.General.UseMock, fixed when the process starts
    request,     \* "new", "rejected" (an error was returned), "open"
    ctx,         \* "live" or "done"
    frames,      \* every frame the forwarder has received (or the mock made up)
    cut,         \* how Recv ended: "no" (not yet), "eof", "error"
    forwarder,   \* where the forwarder is; it closes domainChan on its way out
    terminal,    \* the forwarder's flag: a terminal frame went by
    domainChan,
    resolver,    \* where the resolver is; it closes outputChan on its way out
    lastMessage, \* the resolver's lastMessage
    outputChan,
    client,      \* "reading", "stopped" (after ctx is done), "ended" (channel closed)
    delivered    \* what the client has received

subscription == <<useMock, request>>
forwarderVars == <<frames, cut, forwarder, terminal>>
resolverVars == <<resolver, lastMessage>>
clientVars == <<client, delivered>>
vars == <<subscription, ctx, forwarderVars, domainChan, resolverVars, outputChan, clientVars>>

\* A frame is its place in the stream and its open status; number 0 is the
\* frame the forwarder makes up when the connection is cut.
Frame == [number : Nat, status : Status]
ConnectionError == [number |-> 0, status |-> "ERROR"]
NoMessage == [number |-> 0, status |-> "none"]   \* nil

TypeOK ==
    /\ useMock \in BOOLEAN
    /\ request \in {"new", "rejected", "open"}
    /\ ctx \in {"live", "done"}
    /\ frames \in Seq(Frame)
    /\ cut \in {"no", "eof", "error"}
    /\ forwarder \in {"none", "recv", "emit", "report", "mock", "closed"}
    /\ terminal \in BOOLEAN
    /\ domainChan \in Seq(Frame)
    /\ resolver \in {"none", "range", "emit", "sleep", "closed", "panicked"}
    /\ lastMessage \in Frame \cup {NoMessage}
    /\ outputChan \in Seq(Frame)
    /\ client \in {"none", "reading", "stopped", "ended"}
    /\ delivered \in Seq(Frame)

Init ==
    /\ useMock \in BOOLEAN
    /\ request = "new"
    /\ ctx = "live"
    /\ frames = <<>>
    /\ cut = "no"
    /\ forwarder = "none"
    /\ terminal = FALSE
    /\ domainChan = <<>>
    /\ resolver = "none"
    /\ lastMessage = NoMessage
    /\ outputChan = <<>>
    /\ client = "none"
    /\ delivered = <<>>

\* A panic in a goroutine ends the process, with everything that runs in it.
Alive == resolver # "panicked"

-----------------------------------------------------------------------------
\* The gate, a validation, or opening, sending on or half-closing the stream
\* fails: ExecuteOpen returns an error and starts nothing.
Reject ==
    /\ request = "new"
    /\ request' = "rejected"
    /\ UNCHANGED <<useMock, ctx, forwarderVars, domainChan, resolverVars, outputChan, clientVars>>

Open ==
    /\ request = "new"
    /\ request' = "open"
    /\ forwarder' = IF useMock THEN "mock" ELSE "recv"
    /\ resolver' = "range"
    /\ client' = "reading"
    /\ UNCHANGED <<useMock, ctx, frames, cut, terminal, domainChan, lastMessage, outputChan, delivered>>

\* stream.Recv() returns a frame: reenviarApertura notes whether it is terminal
\* and goes to its select.
RecvFrame ==
    /\ Alive /\ forwarder = "recv"
    /\ Len(frames) < MaxFrames
    /\ \E status \in FrameStatus :
          /\ frames' = Append(frames, [number |-> Len(frames) + 1,
                                       status |-> mapOpenStatus(status)])
          /\ terminal' = (terminal \/ status \in Terminal)
    /\ forwarder' = "emit"
    /\ UNCHANGED <<subscription, ctx, cut, domainChan, resolverVars, outputChan, clientVars>>

RecvEOF ==
    /\ Alive /\ forwarder = "recv"
    /\ cut' = "eof"
    /\ forwarder' = "closed"
    /\ UNCHANGED <<subscription, ctx, frames, terminal, domainChan, resolverVars, outputChan,
                   clientVars>>

\* (Mutants: as before AL-BUG-29; and a cut that is never reported.)
RecvErrorReported ==
    /\ Alive /\ forwarder = "recv"
    /\ cut' = "error"
    /\ forwarder' = "report"
    /\ UNCHANGED <<subscription, ctx, frames, terminal, domainChan, resolverVars, outputChan,
                   clientVars>>
RecvErrorSilent ==
    /\ Alive /\ forwarder = "recv"
    /\ cut' = "error"
    /\ forwarder' = "closed"
    /\ UNCHANGED <<subscription, ctx, frames, terminal, domainChan, resolverVars, outputChan,
                   clientVars>>

\* stream.Recv() fails: after a terminal frame in silence (AL-BUG-29).
RecvError ==
    /\ Alive /\ forwarder = "recv"
    /\ cut' = "error"
    /\ forwarder' = IF terminal THEN "closed" ELSE "report"
    /\ UNCHANGED <<subscription, ctx, frames, terminal, domainChan, resolverVars, outputChan,
                   clientVars>>

\* (Mutant: a buffer of one.)
DomainRoomForOne == domainChan = <<>>
DomainRoom == Len(domainChan) < DomainCap

\* case resultChan <- domainResult
Emit ==
    /\ Alive /\ forwarder = "emit" /\ DomainRoom
    /\ domainChan' = Append(domainChan, frames[Len(frames)])
    /\ forwarder' = "recv"
    /\ UNCHANGED <<subscription, ctx, frames, cut, terminal, resolverVars, outputChan, clientVars>>

\* case <-ctx.Done(): also when there is room, select then picks either.
EmitCancelled ==
    /\ Alive /\ forwarder = "emit" /\ ctx = "done"
    /\ forwarder' = "closed"
    /\ UNCHANGED <<subscription, ctx, frames, cut, terminal, domainChan, resolverVars, outputChan,
                   clientVars>>

\* resultChan <- the connection error, outside any select.
Report ==
    /\ Alive /\ forwarder = "report" /\ DomainRoom
    /\ domainChan' = Append(domainChan, ConnectionError)
    /\ forwarder' = "closed"
    /\ UNCHANGED <<subscription, ctx, frames, cut, terminal, resolverVars, outputChan, clientVars>>

\* The mock sends its three frames, whatever ctx says, and closes.
MockFrames == <<"RECEIVED", "REQUESTED", "SUCCESS">>
MockSend ==
    /\ Alive /\ forwarder = "mock"
    /\ Len(frames) < Len(MockFrames) /\ DomainRoom
    /\ LET frame == [number |-> Len(frames) + 1, status |-> MockFrames[Len(frames) + 1]]
       IN frames' = Append(frames, frame) /\ domainChan' = Append(domainChan, frame)
    /\ UNCHANGED <<subscription, ctx, cut, forwarder, terminal, resolverVars, outputChan, clientVars>>
MockClose ==
    /\ Alive /\ forwarder = "mock"
    /\ Len(frames) = Len(MockFrames)
    /\ forwarder' = "closed"
    /\ UNCHANGED <<subscription, ctx, frames, cut, terminal, domainChan, resolverVars, outputChan,
                   clientVars>>

-----------------------------------------------------------------------------
\* for domainResult := range domainChan; ToExecuteOpenResponse gives each of the
\* six statuses its GraphQL name.
Take ==
    /\ Alive /\ resolver = "range" /\ domainChan # <<>>
    /\ lastMessage' = Head(domainChan)
    /\ domainChan' = Tail(domainChan)
    /\ resolver' = "emit"
    /\ UNCHANGED <<subscription, ctx, forwarderVars, outputChan, clientVars>>

\* (Mutant: the last message is sent once more, without a nil check.)
RangeEndsResending ==
    /\ Alive /\ resolver = "range" /\ domainChan = <<>> /\ forwarder = "closed"
    /\ resolver' = "emit"
    /\ UNCHANGED <<subscription, ctx, forwarderVars, domainChan, lastMessage, outputChan, clientVars>>

\* The channel is closed and empty: the log line reads lastMessage.OpenStatus.
RangeEnds ==
    /\ Alive /\ resolver = "range" /\ domainChan = <<>> /\ forwarder = "closed"
    /\ resolver' = IF lastMessage = NoMessage THEN "panicked" ELSE "sleep"
    /\ UNCHANGED <<subscription, ctx, forwarderVars, domainChan, lastMessage, outputChan, clientVars>>

\* (Mutant: a select with a default, which drops what does not fit.)
ForwardOrDrop ==
    /\ Alive /\ resolver = "emit"
    /\ outputChan' = IF Len(outputChan) < OutCap THEN Append(outputChan, lastMessage)
                                                 ELSE outputChan
    /\ resolver' = "range"
    /\ UNCHANGED <<subscription, ctx, forwarderVars, domainChan, lastMessage, clientVars>>

\* case outputChan <- graphQLResponse
Forward ==
    /\ Alive /\ resolver = "emit" /\ Len(outputChan) < OutCap
    /\ outputChan' = Append(outputChan, lastMessage)
    /\ resolver' = "range"
    /\ UNCHANGED <<subscription, ctx, forwarderVars, domainChan, lastMessage, clientVars>>

\* (Mutants: a send with a timeout; and one that does not watch ctx.)
ForwardTimesOut ==
    /\ Alive /\ resolver = "emit"
    /\ resolver' = "closed"
    /\ UNCHANGED <<subscription, ctx, forwarderVars, domainChan, lastMessage, outputChan, clientVars>>
ForwardUncancellable == ForwardTimesOut /\ FALSE

\* case <-ctx.Done()
ForwardCancelled ==
    /\ Alive /\ resolver = "emit" /\ ctx = "done"
    /\ resolver' = "closed"
    /\ UNCHANGED <<subscription, ctx, forwarderVars, domainChan, lastMessage, outputChan, clientVars>>

\* (Mutant: outputChan is not closed.)
WakeUpWithoutClose ==
    /\ Alive /\ resolver = "sleep"
    /\ resolver' = "none"
    /\ UNCHANGED <<subscription, ctx, forwarderVars, domainChan, lastMessage, outputChan, clientVars>>

\* time.Sleep(100ms), then the deferred close(outputChan).
WakeUp ==
    /\ Alive /\ resolver = "sleep"
    /\ resolver' = "closed"
    /\ UNCHANGED <<subscription, ctx, forwarderVars, domainChan, lastMessage, outputChan, clientVars>>

-----------------------------------------------------------------------------
Deliver ==
    /\ Alive /\ client = "reading" /\ outputChan # <<>>
    /\ delivered' = Append(delivered, Head(outputChan))
    /\ outputChan' = Tail(outputChan)
    /\ UNCHANGED <<subscription, ctx, forwarderVars, domainChan, resolverVars, client>>

SeeEnd ==
    /\ Alive /\ client = "reading" /\ outputChan = <<>> /\ resolver = "closed"
    /\ client' = "ended"
    /\ UNCHANGED <<subscription, ctx, forwarderVars, domainChan, resolverVars, outputChan, delivered>>

Stop ==
    /\ Alive /\ client = "reading" /\ ctx = "done"
    /\ client' = "stopped"
    /\ UNCHANGED <<subscription, ctx, forwarderVars, domainChan, resolverVars, outputChan, delivered>>

\* The client unsubscribes or disconnects.
Cancel ==
    /\ Alive /\ request = "open" /\ ctx = "live"
    /\ ctx' = "done"
    /\ UNCHANGED <<subscription, forwarderVars, domainChan, resolverVars, outputChan, clientVars>>

Forwarder ==
    \/ RecvFrame \/ RecvEOF \/ RecvError
    \/ Emit \/ EmitCancelled \/ Report
    \/ MockSend \/ MockClose
Resolver == Take \/ RangeEnds \/ Forward \/ ForwardCancelled \/ WakeUp
Client == Deliver \/ SeeEnd \/ Stop

Next == Reject \/ Open \/ Forwarder \/ Resolver \/ Client \/ Cancel

Spec == Init /\ [][Next]_vars

\* Goroutines run.  booking-manager need not send anything, but once ctx is
\* done a Recv returns, and a client that is still there reads.
Fairness ==
    /\ WF_vars(ctx = "done" /\ (RecvFrame \/ RecvEOF \/ RecvError))
    /\ WF_vars(Emit \/ EmitCancelled \/ Report \/ MockSend \/ MockClose)
    /\ WF_vars(Resolver)
    /\ WF_vars(Client)
FairSpec == Spec /\ Fairness

-----------------------------------------------------------------------------
HasTerminal(s) == \E i \in DOMAIN s : s[i].status \in Terminal

\* What the client should be told: every frame, then the connection error when
\* the stream broke before a terminal frame.
Emitted ==
    IF cut = "error" /\ ~HasTerminal(frames) THEN Append(frames, ConnectionError) ELSE frames

InForwarder ==
    CASE forwarder = "emit"   -> <<frames[Len(frames)]>>
      [] forwarder = "report" -> <<ConnectionError>>
      [] OTHER                -> <<>>
InResolver == IF resolver = "emit" THEN <<lastMessage>> ELSE <<>>

\* Two goroutines and two channels pass everything on, once and in order: while
\* ctx is live what the client has plus what is under way is what was emitted
\* (payment_client.go:656-717, schema.resolvers.go:517-541).
NothingLost ==
    ctx = "live" /\ Alive =>
        delivered \o outputChan \o InResolver \o domainChan \o InForwarder = Emitted

\* AL-BUG-29 (payment_client.go:651-652): a client that has its SUCCESS or ERROR
\* is never told afterwards that the connection failed, and nothing follows a
\* connection error.
OneResult ==
    \A i \in DOMAIN delivered : delivered[i] = ConnectionError =>
        /\ i = Len(delivered)
        /\ \A j \in 1..(i - 1) : delivered[j].status \notin Terminal

\* payment_client_test.go:79: a stream cut before its terminal frame reaches a
\* client that is still there as an ERROR.
CutIsReported ==
    client = "ended" /\ ctx = "live" /\ cut = "error" => HasTerminal(delivered)

\* The forwarder never waits for room in domainChan, so the send of the
\* connection error, which does not watch ctx (payment_client.go:672), cannot
\* strand it.  Needs MaxFrames < DomainCap.
ForwarderNeverWaits == forwarder \in {"emit", "report", "mock"} => DomainRoom

\* However the client leaves, both goroutines end.
CancelReleases ==
    ctx = "done" ~> (forwarder = "closed" /\ resolver = "closed") \/ ~Alive

\* However the stream ends, a client that stays sees its channel closed.
EndIsSeen ==
    (forwarder = "closed" ~> client # "reading" \/ ~Alive)

\* "El canal domainChan se cerro (ya se enviaron todos los mensajes)"
\* (schema.resolvers.go:543): if the stream carried a frame, the resolver has a
\* lastMessage to read when the channel is closed.
FrameSeenBeforeClose == frames # <<>> => Alive

\* "Emits 3 messages: RECEIVED -> REQUESTED -> SUCCESS/ERROR"
\* (graph/schema.graphqls:55): a client that stays to the end has the outcome.
EndsWithOutcome == client = "ended" /\ ctx = "live" => HasTerminal(delivered)

-----------------------------------------------------------------------------
Delivery == INSTANCE OpenDelivery
               WITH emitted <- Emitted, cancelled <- (ctx = "done"),
                    over <- (client \in {"stopped", "ended"})

\* The pipeline implements a lossless FIFO that may only be left early by a
\* client that cancelled.
ImplementsDelivery == Delivery!Spec
=============================================================================
