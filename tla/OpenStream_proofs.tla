-------------------------- MODULE OpenStream_proofs --------------------------
(***************************************************************************)
(* What holds of an executeOpen subscription for every capacity of the     *)
(* channels and every number of frames, checked by TLAPS.                  *)
(***************************************************************************)
EXTENDS OpenStream, SequenceTheorems, TLAPS

\* TypeOK is inductive only together with what makes the two sends send a
\* frame: the forwarder has received one, the resolver has taken one.
TypeInv ==
    /\ TypeOK
    /\ forwarder = "emit" => frames # <<>>
    /\ resolver = "emit" => lastMessage \in Frame

LEMMA FramesAreFrames ==
    /\ ConnectionError \in Frame
    /\ \A n \in Nat : \A s \in Status : [number |-> n, status |-> s] \in Frame
BY DEF ConnectionError, Frame, Status

(* The first state has the types. *)
LEMMA TypeInit == Init => TypeInv
<1> SUFFICES ASSUME Init PROVE TypeInv
  OBVIOUS
<1>1. <<>> \in Seq(Frame)
  OBVIOUS
<1> QED
  BY <1>1 DEF Init, TypeInv, TypeOK

(* Every step keeps the types. *)
LEMMA TypeStep == TypeInv /\ [Next]_vars => TypeInv'
<1> SUFFICES ASSUME TypeInv, [Next]_vars PROVE TypeInv'
  OBVIOUS
<1> USE DEF TypeInv, TypeOK, subscription, forwarderVars, resolverVars, clientVars
<1>1. CASE Reject
  BY <1>1 DEF Reject
<1>2. CASE Open
  BY <1>2 DEF Open
<1>3. CASE RecvFrame
  <2>1. PICK status \in FrameStatus :
           frames' = Append(frames, [number |-> Len(frames) + 1, status |-> mapOpenStatus(status)])
    BY <1>3 DEF RecvFrame
  <2>2. [number |-> Len(frames) + 1, status |-> mapOpenStatus(status)] \in Frame
    <3>1. mapOpenStatus(status) \in Status
      BY DEF mapOpenStatus, Status
    <3> QED
      BY <3>1, FramesAreFrames
  <2>3. frames' \in Seq(Frame) /\ frames' # <<>>
    BY <2>1, <2>2
  <2>4. terminal' \in BOOLEAN
    BY <1>3 DEF RecvFrame
  <2> QED
    BY <1>3, <2>3, <2>4 DEF RecvFrame
<1>4. CASE RecvEOF
  BY <1>4 DEF RecvEOF
<1>5. CASE RecvError
  BY <1>5 DEF RecvError
<1>6. CASE Emit
  <2>1. frames[Len(frames)] \in Frame
    BY <1>6 DEF Emit
  <2> QED
    BY <1>6, <2>1 DEF Emit
<1>7. CASE EmitCancelled
  BY <1>7 DEF EmitCancelled
<1>8. CASE Report
  BY <1>8, FramesAreFrames DEF Report
<1>9. CASE MockSend
  <2> DEFINE frame == [number |-> Len(frames) + 1, status |-> MockFrames[Len(frames) + 1]]
  <2>1. MockFrames[Len(frames) + 1] \in Status
    BY <1>9 DEF MockSend, MockFrames, Status
  <2>2. frame \in Frame
    BY <2>1, FramesAreFrames
  <2>3. frames' = Append(frames, frame) /\ domainChan' = Append(domainChan, frame)
    BY <1>9 DEF MockSend
  <2> HIDE DEF frame
  <2> QED
    BY <1>9, <2>2, <2>3 DEF MockSend
<1>10. CASE MockClose
  BY <1>10 DEF MockClose
<1>11. CASE Take
  BY <1>11 DEF Take
<1>12. CASE RangeEnds
  BY <1>12 DEF RangeEnds
<1>13. CASE Forward
  BY <1>13 DEF Forward
<1>14. CASE ForwardCancelled
  BY <1>14 DEF ForwardCancelled
<1>15. CASE WakeUp
  BY <1>15 DEF WakeUp
<1>16. CASE Deliver
  BY <1>16 DEF Deliver
<1>17. CASE SeeEnd
  BY <1>17 DEF SeeEnd
<1>18. CASE Stop
  BY <1>18 DEF Stop
<1>19. CASE Cancel
  BY <1>19 DEF Cancel
<1>20. CASE UNCHANGED vars
  BY <1>20 DEF vars
<1> QED
  BY <1>1, <1>2, <1>3, <1>4, <1>5, <1>6, <1>7, <1>8, <1>9, <1>10, <1>11, <1>12, <1>13,
     <1>14, <1>15, <1>16, <1>17, <1>18, <1>19, <1>20 DEF Next, Forwarder, Resolver, Client

(* The variables keep their types, whatever the capacities: in particular    *)
(* only frames, never nil, travel on the two channels (payment_client.go:572, *)
(* schema.resolvers.go:504).                                                 *)
THEOREM TypeCorrect == Spec => []TypeOK
<1>1. TypeInv => TypeOK
  BY DEF TypeInv
<1> QED
  BY TypeInit, TypeStep, <1>1, PTL DEF Spec

-----------------------------------------------------------------------------
(* Room in domainChan: nothing is sent on it that the forwarder has not      *)
(* received, but for the connection error, which is its last send.           *)

\* How many frames one forwarder can receive.
FrameLimit == IF useMock THEN 3 ELSE MaxFrames

RoomInv ==
    /\ TypeInv
    /\ request = "new" => forwarder = "none"
    /\ forwarder = "mock" => useMock
    /\ forwarder \in {"recv", "emit", "report"} => ~useMock
    /\ Len(frames) <= FrameLimit
    /\ forwarder \in {"none", "recv", "report", "mock"} => Len(domainChan) <= Len(frames)
    /\ forwarder = "emit" => Len(domainChan) < Len(frames)

LEMMA RoomInit == Init => RoomInv
<1> SUFFICES ASSUME Init PROVE RoomInv
  OBVIOUS
<1>1. TypeInv
  BY TypeInit
<1> QED
  BY <1>1, OpenStreamAssumption DEF Init, RoomInv, FrameLimit

LEMMA RoomStep == RoomInv /\ [Next]_vars => RoomInv'
<1> SUFFICES ASSUME RoomInv, [Next]_vars PROVE RoomInv'
  OBVIOUS
<1>1. TypeInv'
  BY TypeStep DEF RoomInv
<1>2. /\ frames \in Seq(Frame) /\ domainChan \in Seq(Frame)
      /\ Len(frames) \in Nat /\ Len(domainChan) \in Nat
  BY DEF RoomInv, TypeInv, TypeOK
<1> USE DEF RoomInv, FrameLimit, subscription, forwarderVars, resolverVars, clientVars
<1> USE OpenStreamAssumption
<1>3. CASE RecvFrame
  <2>1. Len(frames') = Len(frames) + 1
    BY <1>2, <1>3 DEF RecvFrame
  <2> QED
    BY <1>1, <1>2, <1>3, <2>1 DEF RecvFrame
<1>4. CASE Emit
  <2>1. Len(domainChan') = Len(domainChan) + 1
    BY <1>2, <1>4 DEF Emit
  <2> QED
    BY <1>1, <1>2, <1>4, <2>1 DEF Emit
<1>5. CASE MockSend
  <2>1. Len(frames') = Len(frames) + 1 /\ Len(domainChan') = Len(domainChan) + 1
    BY <1>2, <1>5 DEF MockSend
  <2>2. Len(MockFrames) = 3
    BY DEF MockFrames
  <2>3. forwarder = "mock" /\ Len(frames) < 3
    BY <1>5, <2>2 DEF MockSend
  <2> QED
    BY <1>1, <1>2, <1>5, <2>1, <2>3 DEF MockSend
<1>6. CASE Take
  <2>1. Len(domainChan') = Len(domainChan) - 1
    BY <1>2, <1>6 DEF Take
  <2> QED
    BY <1>1, <1>2, <1>6, <2>1 DEF Take
<1>7. CASE Report \/ RecvEOF \/ RecvError \/ EmitCancelled \/ MockClose
  BY <1>1, <1>2, <1>7 DEF Report, RecvEOF, RecvError, EmitCancelled, MockClose
<1>8. CASE Reject
  BY <1>1, <1>2, <1>8 DEF Reject
<1>9. CASE Open
  <2>1. /\ request' = "open" /\ forwarder' = IF useMock THEN "mock" ELSE "recv"
        /\ frames' = frames /\ domainChan' = domainChan /\ useMock' = useMock
    BY <1>9 DEF Open
  <2>2. Len(domainChan) <= Len(frames)
    BY <1>9 DEF Open
  <2> QED
    BY <1>1, <1>2, <2>1, <2>2
<1>10. CASE RangeEnds \/ Forward \/ ForwardCancelled \/ WakeUp \/ Client \/ Cancel
  BY <1>1, <1>2, <1>10
     DEF RangeEnds, Forward, ForwardCancelled, WakeUp, Client, Deliver, SeeEnd, Stop, Cancel
<1>11. CASE UNCHANGED vars
  BY <1>1, <1>2, <1>11 DEF vars
<1> QED
  BY <1>3, <1>4, <1>5, <1>6, <1>7, <1>8, <1>9, <1>10, <1>11 DEF Next, Forwarder, Resolver

(* With room for one frame more than booking-manager sends (and for the       *)
(* mock's three), the forwarder never waits on domainChan: its send of the    *)
(* connection error at payment_client.go:672, which does not watch ctx,       *)
(* cannot strand the goroutine.  The code's capacity is 10 and the protocol   *)
(* of graph/schema.graphqls:55 has three frames.                              *)
THEOREM NeverWaits ==
    ASSUME MaxFrames < DomainCap, 3 < DomainCap
    PROVE  Spec => []ForwarderNeverWaits
<1>1. RoomInv => ForwarderNeverWaits
  <2> SUFFICES ASSUME RoomInv, forwarder \in {"emit", "report", "mock"} PROVE DomainRoom
    BY DEF ForwarderNeverWaits
  <2>1. Len(frames) \in Nat /\ Len(domainChan) \in Nat
    BY DEF RoomInv, TypeInv, TypeOK
  <2>2. Len(domainChan) <= Len(frames) /\ Len(frames) <= FrameLimit
    BY <2>1 DEF RoomInv
  <2> QED
    BY <2>1, <2>2, OpenStreamAssumption DEF FrameLimit, DomainRoom
<1> QED
  BY RoomInit, RoomStep, <1>1, PTL DEF Spec

-----------------------------------------------------------------------------
(* Sequences: what moves an element from one part of a line to the next     *)

\* Concatenation is associative, among frames.
LEMMA Assoc ==
    ASSUME NEW s \in Seq(Frame), NEW t \in Seq(Frame), NEW u \in Seq(Frame)
    PROVE  (s \o t) \o u = s \o (t \o u)
BY ConcatAssociative

LEMMA Cat ==
    ASSUME NEW s \in Seq(Frame), NEW t \in Seq(Frame), NEW u \in Seq(Frame)
    PROVE  /\ s \o t \in Seq(Frame)
           /\ (s \o t) \o u = s \o (t \o u)
           /\ s \o <<>> = s
           /\ <<>> \o s = s
<1>1. s \o t \in Seq(Frame)
  BY ConcatProperties
<1>2. (s \o t) \o u = s \o (t \o u)
  BY Assoc
<1>3. s \o <<>> = s /\ <<>> \o s = s
  BY ConcatEmptySeq
<1> QED
  BY <1>1, <1>2, <1>3

LEMMA Single ==
    ASSUME NEW x \in Frame
    PROVE  <<x>> \in Seq(Frame)
OBVIOUS

(* The first of what follows becomes the last of what goes before. *)
LEMMA Shift ==
    ASSUME NEW s \in Seq(Frame), NEW x \in Frame, NEW t \in Seq(Frame)
    PROVE  Append(s, x) \o t = s \o (<<x>> \o t)
<1>1. Append(s, x) = s \o <<x>>
  BY AppendIsConcat
<1> QED
  BY <1>1, Single, Cat

\* What is not empty is its first element and the rest.
LEMMA Split ==
    ASSUME NEW s \in Seq(Frame), s # <<>>, NEW t \in Seq(Frame)
    PROVE  /\ Head(s) \in Frame /\ Tail(s) \in Seq(Frame)
           /\ s \o t = <<Head(s)>> \o (Tail(s) \o t)
<1>1. Head(s) \in Frame /\ Tail(s) \in Seq(Frame)
  BY HeadTailProperties
<1>2. s = <<Head(s)>> \o Tail(s)
  <2>1. Len(<<Head(s)>> \o Tail(s)) = Len(s)
    BY <1>1
  <2>2. \A i \in 1..Len(s) : (<<Head(s)>> \o Tail(s))[i] = s[i]
    BY <1>1
  <2>3. <<Head(s)>> \o Tail(s) \in Seq(Frame)
    BY <1>1, Single, Cat
  <2> QED
    BY <2>1, <2>2, <2>3, SeqEqual
<1> QED
  BY <1>1, <1>2, Single, Cat

\* What is put behind the second part is put behind the whole.
LEMMA Grow ==
    ASSUME NEW s \in Seq(Frame), NEW t \in Seq(Frame), NEW x \in Frame
    PROVE  s \o Append(t, x) = Append(s \o t, x) /\ s \o t \in Seq(Frame)
<1>1. <<x>> \in Seq(Frame) /\ s \o t \in Seq(Frame)
  BY Single, Cat
<1>2. Append(t, x) = t \o <<x>> /\ Append(s \o t, x) = (s \o t) \o <<x>>
  BY <1>1, AppendIsConcat
<1>3. s \o (t \o <<x>>) = (s \o t) \o <<x>>
  BY <1>1, Cat
<1> QED
  BY <1>1, <1>2, <1>3

-----------------------------------------------------------------------------
(* Where everything is.  What is on its way between the channels is what the  *)
(* resolver holds and domainChan, unless the resolver has left; what is lost, *)
(* or still with the forwarder, comes after it.                               *)

Sent == IF resolver = "closed" THEN <<>> ELSE InResolver \o domainChan

\* Nobody has given up yet.
Held == ctx = "live" \/ (forwarder # "closed" /\ resolver # "closed")

Lost(lost) ==
    /\ delivered \o (outputChan \o (Sent \o lost)) = Emitted
    /\ Held => lost = InForwarder

Places ==
    /\ request = "new" => forwarder = "none" /\ resolver = "none" /\ client = "none"
    /\ forwarder \in {"none", "recv", "emit", "mock"} => cut = "no"
    /\ forwarder = "report" => cut = "error" /\ ~HasTerminal(frames)
    /\ forwarder \in {"none", "recv", "emit"} => (terminal = TRUE <=> HasTerminal(frames))
    /\ \A i \in 1..Len(frames) : frames[i].number > 0
    /\ resolver = "sleep" => domainChan = <<>> /\ forwarder = "closed"
    /\ resolver \in {"closed", "panicked"} /\ ctx = "live" =>
           domainChan = <<>> /\ forwarder = "closed"
    /\ client = "ended" => resolver = "closed" /\ outputChan = <<>>
    /\ client = "stopped" => ctx = "done"

FlowInv == TypeInv /\ Places /\ \E lost \in Seq(Frame) : Lost(lost)

\* A frame more is a terminal one more.
LEMMA TerminalOfAppend ==
    ASSUME NEW s \in Seq(Frame), NEW x \in Frame
    PROVE  HasTerminal(Append(s, x)) <=> HasTerminal(s) \/ x.status \in Terminal
<1>1. /\ DOMAIN s = 1..Len(s) /\ DOMAIN Append(s, x) = 1..(Len(s) + 1)
      /\ \A i \in 1..Len(s) : Append(s, x)[i] = s[i]
      /\ Append(s, x)[Len(s) + 1] = x /\ Len(s) \in Nat
  OBVIOUS
<1> QED
  BY <1>1 DEF HasTerminal

\* What is received, and what it makes of what there is to tell.
LEMMA Received ==
    ASSUME TypeInv, Places, NEW x \in Frame, x.number > 0, cut = "no", cut' = cut,
           frames' = Append(frames, x)
    PROVE  /\ Emitted = frames /\ Emitted' = Append(Emitted, x)
           /\ frames' \in Seq(Frame) /\ frames'[Len(frames')] = x
           /\ \A i \in 1..Len(frames') : frames'[i].number > 0
<1>1. frames \in Seq(Frame) /\ \A i \in 1..Len(frames) : frames[i].number > 0
  BY DEF TypeInv, TypeOK, Places
<1>2. Emitted = frames /\ Emitted' = frames'
  BY DEF Emitted
<1>3. /\ frames' \in Seq(Frame) /\ Len(frames') = Len(frames) + 1
      /\ frames'[Len(frames) + 1] = x /\ \A i \in 1..Len(frames) : frames'[i] = frames[i]
  BY <1>1
<1> QED
  BY <1>1, <1>2, <1>3

\* What RecvFrame receives is a frame, and the flag says whether it is terminal.
LEMMA RecvFrameIs ==
    ASSUME TypeInv, RecvFrame
    PROVE  \E x \in Frame : /\ x.number > 0 /\ frames' = Append(frames, x)
                            /\ terminal' = TRUE <=> terminal = TRUE \/ x.status \in Terminal
<1>1. PICK status \in FrameStatus :
         /\ frames' = Append(frames, [number |-> Len(frames) + 1, status |-> mapOpenStatus(status)])
         /\ terminal' = (terminal \/ status \in Terminal)
  BY DEF RecvFrame
<1> DEFINE x == [number |-> Len(frames) + 1, status |-> mapOpenStatus(status)]
<1>2. mapOpenStatus(status) \in Status /\ (mapOpenStatus(status) \in Terminal <=> status \in Terminal)
  BY DEF mapOpenStatus, Status, Terminal
<1>3. Len(frames) \in Nat /\ terminal \in BOOLEAN
  BY DEF TypeInv, TypeOK
<1>4. x \in Frame /\ x.number > 0 /\ x.status = mapOpenStatus(status)
  BY <1>2, <1>3, FramesAreFrames
<1>5. terminal' = TRUE <=> terminal = TRUE \/ status \in Terminal
  BY <1>1, <1>3, Zenon
<1> HIDE DEF x
<1>6. frames' = Append(frames, x)
  BY <1>1 DEF x
<1> QED
  BY <1>2, <1>4, <1>5, <1>6

\* What the mock makes up is a frame, and goes straight to domainChan.
LEMMA MockSendIs ==
    ASSUME TypeInv, MockSend
    PROVE  \E x \in Frame : /\ x.number > 0 /\ frames' = Append(frames, x)
                            /\ domainChan' = Append(domainChan, x)
<1> DEFINE x == [number |-> Len(frames) + 1, status |-> MockFrames[Len(frames) + 1]]
<1>1. Len(frames) \in Nat
  BY DEF TypeInv, TypeOK
<1>2. MockFrames[Len(frames) + 1] \in Status
  BY <1>1 DEF MockSend, MockFrames, Status
<1>3. x \in Frame /\ x.number > 0
  BY <1>1, <1>2, FramesAreFrames
<1>4. frames' = Append(frames, x) /\ domainChan' = Append(domainChan, x)
  BY DEF MockSend
<1> HIDE DEF x
<1> QED
  BY <1>3, <1>4

\* Every step keeps what the places of the three say of the rest.
LEMMA PlacesStep == TypeInv /\ Places /\ [Next]_vars => Places'
<1> SUFFICES ASSUME TypeInv, Places, [Next]_vars PROVE Places'
  OBVIOUS
<1> USE DEF subscription, forwarderVars, resolverVars, clientVars
<1>1. CASE RecvFrame
  <2>1. PICK x \in Frame : /\ x.number > 0 /\ frames' = Append(frames, x)
                           /\ terminal' = TRUE <=> terminal = TRUE \/ x.status \in Terminal
    BY <1>1, RecvFrameIs
  <2>2. /\ forwarder = "recv" /\ forwarder' = "emit"
        /\ UNCHANGED <<request, ctx, cut, domainChan, resolver, outputChan, client>>
    BY <1>1 DEF RecvFrame
  <2>3. cut = "no" /\ (terminal = TRUE <=> HasTerminal(frames)) /\ frames \in Seq(Frame)
    BY <2>2 DEF Places, TypeInv, TypeOK
  <2>4. HasTerminal(frames') <=> HasTerminal(frames) \/ x.status \in Terminal
    BY <2>1, <2>3, TerminalOfAppend
  <2>5. HasTerminal(frames)' <=> HasTerminal(frames')
    BY DEF HasTerminal
  <2>6. \A i \in 1..Len(frames') : frames'[i].number > 0
    BY <2>1, <2>2, <2>3, Received
  <2> QED
    BY <2>1, <2>2, <2>3, <2>4, <2>5, <2>6 DEF Places
<1>2. CASE MockSend
  <2>1. PICK x \in Frame : x.number > 0 /\ frames' = Append(frames, x)
    BY <1>2, MockSendIs
  <2>2. /\ forwarder = "mock"
        /\ UNCHANGED <<request, ctx, cut, forwarder, resolver, outputChan, client>>
    BY <1>2 DEF MockSend
  <2>3. cut = "no"
    BY <2>2 DEF Places
  <2>4. \A i \in 1..Len(frames') : frames'[i].number > 0
    BY <2>1, <2>2, <2>3, Received
  <2> QED
    BY <2>2, <2>3, <2>4 DEF Places
<1>3. CASE RecvError
  <2>1. /\ forwarder = "recv" /\ cut' = "error"
        /\ UNCHANGED <<request, ctx, frames, terminal, domainChan, resolver, outputChan, client>>
    BY <1>3 DEF RecvError
  <2>2. forwarder' = "closed" \/ (forwarder' = "report" /\ terminal # TRUE)
    BY <1>3, Zenon DEF RecvError
  <2>3. (HasTerminal(frames)' <=> HasTerminal(frames)) /\ (terminal = TRUE <=> HasTerminal(frames))
    BY <2>1 DEF HasTerminal, Places
  <2> QED
    BY <2>1, <2>2, <2>3 DEF Places
<1>4. CASE Reject \/ RecvEOF \/ EmitCancelled \/ MockClose
  <2>1. HasTerminal(frames)' <=> HasTerminal(frames)
    BY <1>4 DEF HasTerminal, Reject, RecvEOF, EmitCancelled, MockClose
  <2> QED
    BY <1>4, <2>1 DEF Places, Reject, RecvEOF, EmitCancelled, MockClose
<1>5. CASE Open
  <2>1. HasTerminal(frames)' <=> HasTerminal(frames)
    BY <1>5 DEF HasTerminal, Open
  <2> QED
    BY <1>5, <2>1 DEF Places, Open
<1>6. CASE Emit
  <2>1. HasTerminal(frames)' <=> HasTerminal(frames)
    BY <1>6 DEF HasTerminal, Emit
  <2> QED
    BY <1>6, <2>1 DEF Places, Emit
<1>7. CASE Report
  <2>1. HasTerminal(frames)' <=> HasTerminal(frames)
    BY <1>7 DEF HasTerminal, Report
  <2> QED
    BY <1>7, <2>1 DEF Places, Report
<1>8. CASE Resolver
  <2>1. HasTerminal(frames)' <=> HasTerminal(frames)
    BY <1>8 DEF HasTerminal, Resolver, Take, RangeEnds, Forward, ForwardCancelled, WakeUp
  <2>2. CASE Take
    BY <2>1, <2>2 DEF Places, Take
  <2>3. CASE RangeEnds
    BY <2>1, <2>3 DEF Places, RangeEnds
  <2>4. CASE Forward
    BY <2>1, <2>4 DEF Places, Forward
  <2>5. CASE ForwardCancelled
    BY <2>1, <2>5 DEF Places, ForwardCancelled
  <2>6. CASE WakeUp
    BY <2>1, <2>6 DEF Places, WakeUp
  <2> QED
    BY <1>8, <2>2, <2>3, <2>4, <2>5, <2>6 DEF Resolver
<1>9. CASE Client \/ Cancel
  <2>1. HasTerminal(frames)' <=> HasTerminal(frames)
    BY <1>9 DEF HasTerminal, Client, Deliver, SeeEnd, Stop, Cancel
  <2>2. CASE Deliver
    BY <2>1, <2>2 DEF Places, Deliver
  <2>3. CASE SeeEnd \/ Stop
    BY <2>1, <2>3 DEF Places, SeeEnd, Stop
  <2>4. CASE Cancel
    BY <2>1, <2>4 DEF Places, Cancel
  <2> QED
    BY <1>9, <2>2, <2>3, <2>4 DEF Client
<1>10. CASE UNCHANGED vars
  <2>1. HasTerminal(frames)' <=> HasTerminal(frames)
    BY <1>10 DEF HasTerminal, vars
  <2> QED
    BY <1>10, <2>1 DEF Places, vars
<1> QED
  BY <1>1, <1>2, <1>3, <1>4, <1>5, <1>6, <1>7, <1>8, <1>9, <1>10 DEF Next, Forwarder

\* What the lines carry are frames.
LEMMA Lines ==
    ASSUME TypeInv
    PROVE  /\ delivered \in Seq(Frame) /\ outputChan \in Seq(Frame) /\ domainChan \in Seq(Frame)
           /\ InResolver \in Seq(Frame) /\ InForwarder \in Seq(Frame) /\ Sent \in Seq(Frame)
           /\ Emitted \in Seq(Frame)
<1>1. /\ delivered \in Seq(Frame) /\ outputChan \in Seq(Frame) /\ domainChan \in Seq(Frame)
      /\ frames \in Seq(Frame)
  BY DEF TypeInv, TypeOK
<1>2. <<>> \in Seq(Frame)
  OBVIOUS
<1>3. InResolver \in Seq(Frame)
  BY <1>2, Single DEF InResolver, TypeInv
<1>4. InForwarder \in Seq(Frame)
  <2>1. forwarder = "emit" => frames[Len(frames)] \in Frame
    BY <1>1 DEF TypeInv
  <2> QED
    BY <1>2, <2>1, Single, FramesAreFrames DEF InForwarder
<1>5. Sent \in Seq(Frame)
  BY <1>1, <1>2, <1>3, Cat DEF Sent
<1>6. Emitted \in Seq(Frame)
  BY <1>1, FramesAreFrames DEF Emitted
<1> QED
  BY <1>1, <1>3, <1>4, <1>5, <1>6

\* What is put behind whatever follows outputChan is put behind the whole line.
LEMMA GrowAll ==
    ASSUME TypeInv, NEW a \in Seq(Frame), NEW x \in Frame
    PROVE  delivered \o (outputChan \o Append(a, x)) = Append(delivered \o (outputChan \o a), x)
<1>1. delivered \in Seq(Frame)
  BY Lines
<1>2. outputChan \in Seq(Frame)
  BY Lines
<1>3. PICK b \in Seq(Frame) : b = outputChan \o a /\ outputChan \o Append(a, x) = Append(b, x)
  BY <1>2, Grow
<1>4. delivered \o Append(b, x) = Append(delivered \o b, x)
  BY <1>1, Grow
<1> QED
  BY <1>3, <1>4

\* A step that moves nothing from one line to another.
LEMMA LostSame ==
    ASSUME NEW lost \in Seq(Frame), Lost(lost), Sent' = Sent, Emitted' = Emitted,
           UNCHANGED <<delivered, outputChan>>, Held' => Held /\ InForwarder' = InForwarder
    PROVE  Lost(lost)'
BY DEF Lost

\* A frame more to tell, which the forwarder has in hand.
LEMMA LostGrows ==
    ASSUME TypeInv, NEW lost \in Seq(Frame), Lost(lost), NEW x \in Frame,
           Sent' = Sent, Emitted' = Append(Emitted, x), UNCHANGED <<delivered, outputChan>>,
           Held' => Held /\ InForwarder = <<>> /\ InForwarder' = <<x>>
    PROVE  \E l2 \in Seq(Frame) : Lost(l2)'
<1> DEFINE l2 == Append(lost, x)
<1>1. l2 \in Seq(Frame)
  OBVIOUS
<1>2. delivered \o (outputChan \o (Sent \o l2)) = Append(delivered \o (outputChan \o (Sent \o lost)), x)
  <2>1. Sent \in Seq(Frame)
    BY Lines
  <2>2. PICK a \in Seq(Frame) : a = Sent \o lost /\ Sent \o l2 = Append(a, x)
    BY <2>1, Grow
  <2> QED
    BY <2>2, GrowAll
<1>3. Held' => l2 = <<x>>
  BY DEF Lost
<1> HIDE DEF l2
<1>4. Lost(l2)'
  BY <1>2, <1>3 DEF Lost
<1> QED
  BY <1>1, <1>4

\* A send on domainChan, while the resolver is there to take it.
LEMMA LostIsSent ==
    ASSUME TypeInv, NEW lost \in Seq(Frame), Lost(lost), NEW x \in Frame,
           lost = <<x>>, resolver # "closed", resolver' = resolver,
           lastMessage' = lastMessage, domainChan' = Append(domainChan, x),
           Emitted' = Emitted, UNCHANGED <<delivered, outputChan>>, InForwarder' = <<>>
    PROVE  Lost(<<>>)'
<1>1. InResolver \in Seq(Frame) /\ domainChan \in Seq(Frame) /\ Sent \in Seq(Frame)
  BY Lines
<1>2. <<x>> \in Seq(Frame)
  BY Single
<1>3. domainChan' = domainChan \o <<x>>
  BY <1>1, AppendIsConcat
<1>4. InResolver' = InResolver
  BY DEF InResolver
<1>5. Sent' = InResolver \o (domainChan \o <<x>>) /\ Sent = InResolver \o domainChan
  BY <1>3, <1>4 DEF Sent
<1>6. Sent' = Sent \o lost
  BY <1>1, <1>2, <1>5, Cat
<1>7. Sent \o lost \in Seq(Frame)
  BY <1>1, <1>2, Cat
<1>8. Sent' \o <<>> = Sent \o lost
  BY <1>6, <1>7, ConcatEmptySeq
<1> QED
  BY <1>8 DEF Lost

\* The forwarder moves what it has in hand to domainChan, or leaves with it.
LEMMA LostByForwarder ==
    ASSUME TypeInv, Places, NEW lost \in Seq(Frame), Lost(lost), Forwarder
    PROVE  \E l2 \in Seq(Frame) : Lost(l2)'
<1> USE DEF subscription, forwarderVars, resolverVars, clientVars
<1>1. CASE RecvFrame
  <2>1. PICK x \in Frame : x.number > 0 /\ frames' = Append(frames, x)
    BY <1>1, RecvFrameIs
  <2>2. /\ forwarder = "recv" /\ forwarder' = "emit"
        /\ UNCHANGED <<ctx, cut, domainChan, resolver, lastMessage, outputChan, delivered>>
    BY <1>1 DEF RecvFrame
  <2>3. cut = "no" /\ cut' = cut
    BY <2>2 DEF Places
  <2>4. Emitted' = Append(Emitted, x) /\ frames'[Len(frames')] = x
    BY <2>1, <2>3, Received
  <2>5. Sent' = Sent
    BY <2>2 DEF Sent, InResolver
  <2>6. InForwarder = <<>> /\ InForwarder' = <<x>>
    BY <2>2, <2>4 DEF InForwarder
  <2>7. Held' => Held
    BY <2>2 DEF Held
  <2> QED
    BY <2>2, <2>4, <2>5, <2>6, <2>7, LostGrows
<1>2. CASE RecvEOF \/ EmitCancelled \/ MockClose
  <2>1. /\ forwarder \in {"recv", "emit", "mock"} /\ forwarder' = "closed"
        /\ UNCHANGED <<ctx, frames, domainChan, resolver, lastMessage, outputChan, delivered>>
        /\ cut' \in {cut, "eof"} /\ (forwarder = "emit" => ctx = "done")
    BY <1>2 DEF RecvEOF, EmitCancelled, MockClose
  <2>2. cut = "no"
    BY <2>1 DEF Places
  <2>3. Emitted' = Emitted
    BY <2>1, <2>2 DEF Emitted
  <2>4. Sent' = Sent
    BY <2>1 DEF Sent, InResolver
  <2>5. Held' => Held /\ InForwarder' = InForwarder
    BY <2>1 DEF Held, InForwarder
  <2>6. Lost(lost)'
    BY <2>1, <2>3, <2>4, <2>5, LostSame
  <2> QED
    BY <2>6
<1>3. CASE RecvError
  <2>1. /\ forwarder = "recv" /\ cut' = "error"
        /\ UNCHANGED <<ctx, frames, domainChan, resolver, lastMessage, outputChan, delivered>>
    BY <1>3 DEF RecvError
  <2>2. cut = "no" /\ (terminal = TRUE <=> HasTerminal(frames))
    BY <2>1 DEF Places
  <2>3. Emitted = frames
    BY <2>2 DEF Emitted
  <2>4. HasTerminal(frames)' <=> HasTerminal(frames)
    BY <2>1 DEF HasTerminal
  <2>5. Sent' = Sent /\ InForwarder = <<>>
    BY <2>1 DEF Sent, InResolver, InForwarder
  <2>6. CASE terminal = TRUE
    <3>1. forwarder' = "closed"
      BY <1>3, <2>6, Zenon DEF RecvError
    <3>2. Emitted' = Emitted
      BY <2>1, <2>2, <2>3, <2>4, <2>6 DEF Emitted
    <3>3. Held' => Held /\ InForwarder' = InForwarder
      BY <2>1, <2>5, <3>1 DEF Held, InForwarder
    <3>4. Lost(lost)'
      BY <2>1, <2>5, <3>2, <3>3, LostSame
    <3> QED
      BY <3>4
  <2>7. CASE terminal # TRUE
    <3>1. forwarder' = "report"
      BY <1>3, <2>7, Zenon DEF RecvError, TypeInv, TypeOK
    <3>2. Emitted' = Append(Emitted, ConnectionError)
      BY <2>1, <2>2, <2>3, <2>4, <2>7 DEF Emitted
    <3>3. Held' => Held /\ InForwarder' = <<ConnectionError>>
      BY <2>1, <3>1 DEF Held, InForwarder
    <3> QED
      BY <2>1, <2>5, <3>2, <3>3, LostGrows, FramesAreFrames
  <2> QED
    BY <2>6, <2>7
<1>4. CASE Emit \/ Report
  <2> DEFINE x == IF forwarder = "emit" THEN frames[Len(frames)] ELSE ConnectionError
  <2>1. /\ forwarder \in {"emit", "report"} /\ domainChan' = Append(domainChan, x)
        /\ forwarder' \in {"recv", "closed"}
        /\ UNCHANGED <<ctx, frames, cut, resolver, lastMessage, outputChan, delivered>>
    BY <1>4 DEF Emit, Report
  <2>2. frames \in Seq(Frame) /\ (forwarder = "emit" => frames # <<>>)
    BY DEF TypeInv, TypeOK
  <2>3. x \in Frame
    BY <2>1, <2>2, FramesAreFrames
  <2>4. InForwarder = <<x>> /\ InForwarder' = <<>>
    BY <2>1 DEF InForwarder
  <2>5. Emitted' = Emitted
    BY <2>1 DEF Emitted, HasTerminal
  <2>6. PICK y \in Frame : y = x
    BY <2>3
  <2> HIDE DEF x
  <2>7. CASE resolver = "closed"
    <3>1. ctx # "live"
      BY <2>1, <2>7 DEF Places
    <3>2. ~Held' /\ Sent' = Sent
      BY <2>1, <2>7, <3>1 DEF Held, Sent
    <3>3. Lost(lost)'
      BY <2>1, <2>5, <3>2, LostSame
    <3> QED
      BY <3>3
  <2>8. CASE resolver # "closed"
    <3>1. lost = <<y>>
      BY <2>1, <2>4, <2>6, <2>8 DEF Lost, Held
    <3>2. domainChan' = Append(domainChan, y)
      BY <2>1, <2>6
    <3>3. Lost(<<>>)'
      BY <2>1, <2>4, <2>5, <2>8, <3>1, <3>2, LostIsSent
    <3>4. <<>> \in Seq(Frame)
      OBVIOUS
    <3> QED
      BY <3>3, <3>4
  <2> QED
    BY <2>7, <2>8
<1>5. CASE MockSend
  <2>1. PICK x \in Frame : /\ x.number > 0 /\ frames' = Append(frames, x)
                           /\ domainChan' = Append(domainChan, x)
    BY <1>5, MockSendIs
  <2>2. /\ forwarder = "mock" /\ forwarder' = "mock"
        /\ UNCHANGED <<ctx, cut, resolver, lastMessage, outputChan, delivered>>
    BY <1>5 DEF MockSend
  <2>3. cut = "no"
    BY <2>2 DEF Places
  <2>4. Emitted' = Append(Emitted, x)
    BY <2>1, <2>2, <2>3, Received
  <2>5. InForwarder = <<>> /\ InForwarder' = <<>>
    BY <2>2 DEF InForwarder
  <2>6. CASE resolver = "closed"
    <3>1. ctx # "live"
      BY <2>2, <2>6 DEF Places
    <3>2. ~Held' /\ Sent' = Sent
      BY <2>2, <2>6, <3>1 DEF Held, Sent
    <3> QED
      BY <2>2, <2>4, <3>2, LostGrows
  <2>7. CASE resolver # "closed"
    <3>1. lost = <<>>
      BY <2>2, <2>5, <2>7 DEF Lost, Held
    <3>2. /\ delivered \in Seq(Frame) /\ outputChan \in Seq(Frame) /\ Sent \in Seq(Frame)
          /\ InResolver \in Seq(Frame) /\ domainChan \in Seq(Frame)
      BY Lines
    <3>3. InResolver' = InResolver
      BY <2>2 DEF InResolver
    <3>4. Sent' = InResolver \o Append(domainChan, x) /\ Sent = InResolver \o domainChan
      BY <2>1, <2>2, <2>7, <3>3 DEF Sent
    <3>5. delivered \o (outputChan \o (InResolver \o Append(domainChan, x)))
            = Append(delivered \o (outputChan \o (InResolver \o domainChan)), x)
      <4>1. PICK a \in Seq(Frame) : /\ a = InResolver \o domainChan
                                    /\ InResolver \o Append(domainChan, x) = Append(a, x)
        <5>1. InResolver \in Seq(Frame) /\ domainChan \in Seq(Frame)
          BY <3>2
        <5> QED
          BY <5>1, Grow
      <4> QED
        BY <4>1, GrowAll
    <3>6. Sent \o lost = Sent /\ Sent' \o <<>> = Sent'
      <4>1. Sent' \in Seq(Frame)
        BY <3>2, <3>4, Cat
      <4> QED
        BY <3>1, <3>2, <4>1, ConcatEmptySeq
    <3>7. Lost(<<>>)'
      BY <2>2, <2>4, <2>5, <3>4, <3>5, <3>6 DEF Lost
    <3>8. <<>> \in Seq(Frame)
      OBVIOUS
    <3> QED
      BY <3>7, <3>8
  <2> QED
    BY <2>6, <2>7
<1> QED
  BY <1>1, <1>2, <1>3, <1>4, <1>5 DEF Forwarder

\* The resolver moves what it takes to outputChan, or leaves with what is behind it.
LEMMA LostByResolver ==
    ASSUME TypeInv, Places, NEW lost \in Seq(Frame), Lost(lost), Resolver
    PROVE  \E l2 \in Seq(Frame) : Lost(l2)'
<1> USE DEF subscription, forwarderVars, resolverVars, clientVars
<1>0. /\ delivered \in Seq(Frame) /\ outputChan \in Seq(Frame) /\ domainChan \in Seq(Frame)
      /\ Sent \in Seq(Frame) /\ (resolver = "emit" => lastMessage \in Frame)
  BY Lines DEF TypeInv
<1>1. Emitted' = Emitted /\ InForwarder' = InForwarder /\ UNCHANGED <<ctx, forwarder, delivered>>
  <2>1. UNCHANGED <<ctx, frames, cut, forwarder, delivered>>
    BY DEF Resolver, Take, RangeEnds, Forward, ForwardCancelled, WakeUp
  <2> QED
    BY <2>1 DEF Emitted, HasTerminal, InForwarder
<1>2. CASE Take
  <2>1. /\ resolver = "range" /\ resolver' = "emit" /\ domainChan # <<>>
        /\ lastMessage' = Head(domainChan) /\ domainChan' = Tail(domainChan)
        /\ outputChan' = outputChan
    BY <1>2 DEF Take
  <2>2. <<>> \o domainChan = domainChan
    BY <1>0, Cat
  <2>3. domainChan = <<Head(domainChan)>> \o Tail(domainChan)
    <3>1. <<>> \in Seq(Frame)
      OBVIOUS
    <3>2. /\ Tail(domainChan) \in Seq(Frame)
          /\ domainChan \o <<>> = <<Head(domainChan)>> \o (Tail(domainChan) \o <<>>)
      BY <1>0, <2>1, <3>1, Split
    <3> QED
      BY <1>0, <3>2, ConcatEmptySeq
  <2>4. Sent' = Sent
    BY <2>1, <2>2, <2>3 DEF Sent, InResolver
  <2>5. Lost(lost)'
    BY <1>1, <2>1, <2>4, LostSame DEF Held
  <2> QED
    BY <2>5
<1>3. CASE RangeEnds
  <2>1. /\ resolver = "range" /\ resolver' \in {"panicked", "sleep"}
        /\ UNCHANGED <<domainChan, outputChan>>
    BY <1>3 DEF RangeEnds
  <2>2. Sent' = Sent
    BY <2>1 DEF Sent, InResolver
  <2>3. Lost(lost)'
    BY <1>1, <2>1, <2>2, LostSame DEF Held
  <2> QED
    BY <2>3
<1>4. CASE Forward
  <2>1. /\ resolver = "emit" /\ resolver' = "range" /\ domainChan' = domainChan
        /\ outputChan' = Append(outputChan, lastMessage)
    BY <1>4 DEF Forward
  <2>2. <<lastMessage>> \in Seq(Frame) /\ lastMessage \in Frame
    BY <1>0, <2>1, Single
  <2>3. Sent = <<lastMessage>> \o domainChan /\ Sent' = <<>> \o domainChan
    BY <2>1 DEF Sent, InResolver
  <2>4. <<>> \o domainChan = domainChan /\ domainChan \o lost \in Seq(Frame)
    BY <1>0, Cat
  <2>5. (<<lastMessage>> \o domainChan) \o lost = <<lastMessage>> \o (domainChan \o lost)
    BY <1>0, <2>2, Cat
  <2>6. Append(outputChan, lastMessage) \o (domainChan \o lost)
          = outputChan \o (<<lastMessage>> \o (domainChan \o lost))
    <3>1. PICK r \in Seq(Frame) : r = domainChan \o lost
      BY <2>4
    <3>2. Append(outputChan, lastMessage) \o r = outputChan \o (<<lastMessage>> \o r)
      BY <1>0, <2>2, Shift
    <3> QED
      BY <3>1, <3>2
  <2>7. outputChan' \o (Sent' \o lost) = outputChan \o (Sent \o lost)
    BY <2>1, <2>3, <2>4, <2>5, <2>6
  <2>8. Lost(lost)'
    BY <1>1, <2>1, <2>7 DEF Lost, Held
  <2> QED
    BY <2>8
<1>5. CASE ForwardCancelled
  <2>1. /\ resolver = "emit" /\ resolver' = "closed" /\ ctx = "done" /\ outputChan' = outputChan
    BY <1>5 DEF ForwardCancelled
  <2>2. Sent \o lost \in Seq(Frame)
    BY <1>0, Cat
  <2>3. PICK l2 \in Seq(Frame) : l2 = Sent \o lost
    BY <2>2
  <2>4. Sent' = <<>> /\ ~Held'
    BY <1>1, <2>1 DEF Sent, Held
  <2>5. Sent' \o l2 = l2
    BY <2>4, Cat
  <2>6. Lost(l2)'
    BY <1>1, <2>1, <2>3, <2>4, <2>5 DEF Lost
  <2> QED
    BY <2>6
<1>6. CASE WakeUp
  <2>1. /\ resolver = "sleep" /\ resolver' = "closed" /\ UNCHANGED <<domainChan, outputChan>>
    BY <1>6 DEF WakeUp
  <2>2. domainChan = <<>> /\ forwarder = "closed"
    BY <2>1 DEF Places
  <2>3. <<>> \o <<>> = <<>>
    OBVIOUS
  <2>4. Sent' = Sent
    BY <2>1, <2>2, <2>3 DEF Sent, InResolver
  <2>5. Lost(lost)'
    BY <1>1, <2>1, <2>2, <2>4, LostSame DEF Held
  <2> QED
    BY <2>5
<1> QED
  BY <1>2, <1>3, <1>4, <1>5, <1>6 DEF Resolver

\* The client moves what it receives; nobody else moves anything.
LEMMA LostByOthers ==
    ASSUME TypeInv, Places, NEW lost \in Seq(Frame), Lost(lost),
           Reject \/ Open \/ Client \/ Cancel \/ UNCHANGED vars
    PROVE  Lost(lost)'
<1> USE DEF subscription, forwarderVars, resolverVars, clientVars
<1>1. CASE Open
  <2>1. /\ forwarder = "none" /\ resolver = "none"
        /\ forwarder' \in {"mock", "recv"} /\ resolver' = "range"
        /\ UNCHANGED <<ctx, frames, cut, domainChan, lastMessage, outputChan, delivered>>
    BY <1>1 DEF Open, Places
  <2>2. Sent' = Sent /\ Emitted' = Emitted /\ InForwarder' = InForwarder /\ Held
    BY <2>1 DEF Sent, InResolver, Emitted, HasTerminal, InForwarder, Held
  <2> QED
    BY <2>1, <2>2, LostSame
<1>2. CASE Deliver
  <2>1. /\ outputChan # <<>> /\ delivered' = Append(delivered, Head(outputChan))
        /\ outputChan' = Tail(outputChan)
        /\ UNCHANGED <<ctx, frames, cut, forwarder, domainChan, resolver, lastMessage>>
    BY <1>2 DEF Deliver
  <2>2. /\ Sent' = Sent /\ Emitted' = Emitted /\ InForwarder' = InForwarder
        /\ (Held' <=> Held)
    BY <2>1 DEF Sent, InResolver, Emitted, HasTerminal, InForwarder, Held
  <2>3. delivered \in Seq(Frame) /\ outputChan \in Seq(Frame) /\ Sent \o lost \in Seq(Frame)
    <3>1. delivered \in Seq(Frame) /\ outputChan \in Seq(Frame) /\ Sent \in Seq(Frame)
      BY Lines
    <3> QED
      BY <3>1, Cat
  <2>4. PICK t \in Seq(Frame) : t = Sent \o lost
    BY <2>3
  <2>5. /\ Head(outputChan) \in Frame /\ Tail(outputChan) \in Seq(Frame)
        /\ outputChan \o t = <<Head(outputChan)>> \o (Tail(outputChan) \o t)
    BY <2>1, <2>3, Split
  <2>6. PICK h \in Frame, r \in Seq(Frame) : h = Head(outputChan) /\ r = Tail(outputChan) \o t
    BY <2>5, Cat
  <2>7. Append(delivered, h) \o r = delivered \o (<<h>> \o r)
    BY <2>3, Shift
  <2>8. delivered' \o (outputChan' \o t) = delivered \o (outputChan \o t)
    BY <2>1, <2>5, <2>6, <2>7
  <2> QED
    BY <2>2, <2>4, <2>8 DEF Lost
<1>3. CASE Reject \/ SeeEnd \/ Stop \/ Cancel \/ UNCHANGED vars
  <2>1. /\ UNCHANGED <<frames, cut, forwarder, domainChan, resolver, lastMessage, outputChan, delivered>>
        /\ ctx' = ctx \/ ctx' = "done"
    BY <1>3 DEF Reject, SeeEnd, Stop, Cancel, vars
  <2>2. /\ Sent' = Sent /\ Emitted' = Emitted /\ InForwarder' = InForwarder
        /\ (Held' => Held)
    BY <2>1 DEF Sent, InResolver, Emitted, HasTerminal, InForwarder, Held
  <2> QED
    BY <2>1, <2>2, LostSame
<1> QED
  BY <1>1, <1>2, <1>3 DEF Client

\* At first there is nothing anywhere.
LEMMA FlowInit == Init => FlowInv
<1> SUFFICES ASSUME Init PROVE FlowInv
  OBVIOUS
<1>1. TypeInv
  BY TypeInit
<1>2. Places
  <2>1. ~HasTerminal(<<>>)
    BY DEF HasTerminal
  <2> QED
    BY <2>1 DEF Init, Places
<1>3. Lost(<<>>) /\ <<>> \in Seq(Frame)
  <2>1. <<>> \o (<<>> \o ((<<>> \o <<>>) \o <<>>)) = <<>>
    OBVIOUS
  <2>2. Sent = <<>> \o <<>> /\ Emitted = <<>> /\ InForwarder = <<>>
    BY DEF Init, Sent, InResolver, Emitted, InForwarder
  <2> QED
    BY <2>1, <2>2 DEF Init, Lost
<1> QED
  BY <1>1, <1>2, <1>3 DEF FlowInv

\* Every step leaves everything somewhere.
LEMMA FlowStep == FlowInv /\ [Next]_vars => FlowInv'
<1> SUFFICES ASSUME FlowInv, [Next]_vars PROVE FlowInv'
  OBVIOUS
<1>1. TypeInv /\ Places
  BY DEF FlowInv
<1>2. PICK lost \in Seq(Frame) : Lost(lost)
  BY DEF FlowInv
<1>3. \E l2 \in Seq(Frame) : Lost(l2)'
  <2>1. CASE Forwarder
    BY <1>1, <1>2, <2>1, LostByForwarder
  <2>2. CASE Resolver
    BY <1>1, <1>2, <2>2, LostByResolver
  <2>3. CASE Reject \/ Open \/ Client \/ Cancel \/ UNCHANGED vars
    BY <1>1, <1>2, <2>3, LostByOthers
  <2> QED
    BY <2>1, <2>2, <2>3 DEF Next
<1> QED
  BY <1>1, <1>3, TypeStep, PlacesStep DEF FlowInv

-----------------------------------------------------------------------------
\* The line as NothingLost writes it, and as Lost does.
LEMMA Regroup ==
    ASSUME TypeInv
    PROVE  delivered \o outputChan \o InResolver \o domainChan \o InForwarder
             = delivered \o (outputChan \o ((InResolver \o domainChan) \o InForwarder))
<1> DEFINE front == delivered \o outputChan
           middle == front \o InResolver
           back == domainChan \o InForwarder
           rest == InResolver \o back
<1>1. delivered \in Seq(Frame)
  BY Lines
<1>2. outputChan \in Seq(Frame)
  BY Lines
<1>3. InResolver \in Seq(Frame)
  BY Lines
<1>4. domainChan \in Seq(Frame)
  BY Lines
<1>5. InForwarder \in Seq(Frame)
  BY Lines
<1>6. front \in Seq(Frame)
  BY <1>1, <1>2, Cat
<1>7. back \in Seq(Frame)
  BY <1>4, <1>5, Cat
<1>8. rest = (InResolver \o domainChan) \o InForwarder
  BY <1>3, <1>4, <1>5, Assoc
<1>9. front \o rest = delivered \o (outputChan \o rest)
  <2> HIDE DEF back
  <2>1. rest \in Seq(Frame)
    BY <1>3, <1>7, Cat
  <2> HIDE DEF rest
  <2> QED
    BY <1>1, <1>2, <2>1, Assoc
<1>10. front \o rest = middle \o back
  <2> HIDE DEF front, back
  <2> QED
    BY <1>3, <1>6, <1>7, Assoc
<1>11. middle \o back = (middle \o domainChan) \o InForwarder
  <2> HIDE DEF front
  <2>1. middle \in Seq(Frame)
    BY <1>3, <1>6, Cat
  <2> HIDE DEF middle
  <2> QED
    BY <1>4, <1>5, <2>1, Assoc
<1> HIDE DEF back, rest
<1> QED
  BY <1>8, <1>9, <1>10, <1>11

(* While the client stays, the two goroutines and the two channels pass every *)
(* frame on, once and in order, whatever the capacities, the number of frames *)
(* and the order in which the goroutines run (payment_client.go:656-717,      *)
(* schema.resolvers.go:517-541).                                              *)
THEOREM FramesPassOn == Spec => []NothingLost
<1>1. FlowInv => NothingLost
  <2> SUFFICES ASSUME FlowInv, ctx = "live"
               PROVE  delivered \o outputChan \o InResolver \o domainChan \o InForwarder = Emitted
    BY DEF NothingLost
  <2>1. TypeInv /\ Places
    BY DEF FlowInv
  <2>2. PICK lost \in Seq(Frame) : Lost(lost)
    BY DEF FlowInv
  <2>4. Sent = InResolver \o domainChan
    <3>1. resolver = "closed" => domainChan = <<>> /\ InResolver = <<>>
      BY <2>1 DEF Places, InResolver
    <3>2. <<>> \o <<>> = <<>>
      OBVIOUS
    <3> QED
      BY <3>1, <3>2 DEF Sent
  <2>5. delivered \o (outputChan \o ((InResolver \o domainChan) \o InForwarder)) = Emitted
    BY <2>2, <2>4 DEF Lost, Held
  <2>6. delivered \o outputChan \o InResolver \o domainChan \o InForwarder
          = delivered \o (outputChan \o ((InResolver \o domainChan) \o InForwarder))
    BY <2>1, Regroup
  <2> QED
    BY <2>5, <2>6
<1> QED
  BY FlowInit, FlowStep, <1>1, PTL DEF Spec

\* The client has the beginning of what there was to tell.
LEMMA DeliveredIsPrefix ==
    ASSUME FlowInv
    PROVE  /\ Emitted \in Seq(Frame) /\ delivered \in Seq(Frame)
           /\ Len(delivered) <= Len(Emitted)
           /\ \A i \in 1..Len(delivered) : delivered[i] = Emitted[i]
<1>1. TypeInv
  BY DEF FlowInv
<1>2. PICK lost \in Seq(Frame) : Lost(lost)
  BY DEF FlowInv
<1>3. /\ delivered \in Seq(Frame) /\ outputChan \in Seq(Frame) /\ Sent \in Seq(Frame)
      /\ Emitted \in Seq(Frame)
  BY <1>1, Lines
<1>4. PICK a \in Seq(Frame) : a = Sent \o lost
  BY <1>3, Cat
<1>5. PICK t \in Seq(Frame) : t = outputChan \o a
  BY <1>3, Cat
<1>6. delivered \o t = Emitted
  BY <1>2, <1>4, <1>5 DEF Lost
<1> QED
  BY <1>3, <1>6

(* AL-BUG-29 for every stream: the connection error is the last thing a client *)
(* hears, and never comes after a SUCCESS or an ERROR of booking-manager's     *)
(* (payment_client.go:651-652).                                                *)
THEOREM OneResultOnly == Spec => []OneResult
<1>1. FlowInv => OneResult
  <2> SUFFICES ASSUME FlowInv, NEW i \in DOMAIN delivered, delivered[i] = ConnectionError
               PROVE  /\ i = Len(delivered)
                      /\ \A j \in 1..(i - 1) : delivered[j].status \notin Terminal
    BY DEF OneResult
  <2>1. /\ Emitted \in Seq(Frame) /\ delivered \in Seq(Frame)
        /\ Len(delivered) <= Len(Emitted)
        /\ \A j \in 1..Len(delivered) : delivered[j] = Emitted[j]
    BY DeliveredIsPrefix
  <2>2. i \in 1..Len(delivered) /\ Emitted[i] = ConnectionError
    BY <2>1
  <2>3. frames \in Seq(Frame) /\ \A j \in 1..Len(frames) : frames[j].number > 0
    BY DEF FlowInv, TypeInv, TypeOK, Places
  <2>4. ConnectionError.number = 0
    BY DEF ConnectionError
  <2>5. Emitted # frames
    BY <2>1, <2>2, <2>3, <2>4
  <2>6. Emitted = Append(frames, ConnectionError) /\ ~HasTerminal(frames)
    BY <2>5 DEF Emitted
  <2>7. /\ Len(Emitted) = Len(frames) + 1 /\ Len(frames) \in Nat
        /\ \A j \in 1..Len(frames) : Emitted[j] = frames[j]
    BY <2>3, <2>6, FramesAreFrames
  <2>8. i = Len(frames) + 1
    BY <2>1, <2>2, <2>3, <2>4, <2>7
  <2>9. \A j \in 1..Len(frames) : frames[j].status \notin Terminal
    BY <2>3, <2>6 DEF HasTerminal
  <2>10. i = Len(delivered)
    BY <2>1, <2>2, <2>7, <2>8
  <2>11. \A j \in 1..(i - 1) : delivered[j] = frames[j] /\ j \in 1..Len(frames)
    BY <2>1, <2>7, <2>8, <2>10
  <2> QED
    BY <2>9, <2>10, <2>11
<1> QED
  BY FlowInit, FlowStep, <1>1, PTL DEF Spec

\* At the end of the channel, a client that stayed has everything.
LEMMA AllDelivered ==
    ASSUME FlowInv, ctx = "live", resolver = "closed", outputChan = <<>>
    PROVE  delivered = Emitted
<1>1. TypeInv /\ Places
  BY DEF FlowInv
<1>2. PICK lost \in Seq(Frame) : Lost(lost)
  BY DEF FlowInv
<1>3. domainChan = <<>> /\ forwarder = "closed"
  BY <1>1 DEF Places
<1>4. Sent = <<>> /\ lost = <<>>
  BY <1>2, <1>3 DEF Sent, Lost, Held, InForwarder
<1>5. <<>> \o (<<>> \o <<>>) = <<>>
  OBVIOUS
<1>6. delivered \o <<>> = delivered
  BY <1>1, ConcatEmptySeq DEF TypeInv, TypeOK
<1> QED
  BY <1>2, <1>3, <1>4, <1>5, <1>6 DEF Lost

(* A stream cut before its terminal frame reaches a client that is still there *)
(* as an ERROR (payment_client_test.go:79), however the goroutines interleave. *)
THEOREM CutReachesClient == Spec => []CutIsReported
<1>1. FlowInv => CutIsReported
  <2> SUFFICES ASSUME FlowInv, client = "ended", ctx = "live", cut = "error"
               PROVE  HasTerminal(delivered)
    BY DEF CutIsReported
  <2>1. resolver = "closed" /\ outputChan = <<>>
    BY DEF FlowInv, Places
  <2>2. delivered = Emitted
    BY <2>1, AllDelivered
  <2>3. frames \in Seq(Frame)
    BY DEF FlowInv, TypeInv, TypeOK
  <2>4. CASE HasTerminal(frames)
    BY <2>2, <2>4 DEF Emitted
  <2>5. CASE ~HasTerminal(frames)
    <3>1. delivered = Append(frames, ConnectionError)
      BY <2>2, <2>5 DEF Emitted
    <3>2. ConnectionError.status \in Terminal
      BY DEF ConnectionError, Terminal
    <3> QED
      BY <2>3, <3>1, <3>2, TerminalOfAppend, FramesAreFrames
  <2> QED
    BY <2>4, <2>5
<1> QED
  BY FlowInit, FlowStep, <1>1, PTL DEF Spec

-----------------------------------------------------------------------------
(* The pipeline implements what a subscription promises.                    *)

\* At first there is nothing to tell.
LEMMA AbstractInit == Init => Delivery!Init
<1> SUFFICES ASSUME Init PROVE Delivery!Init
  OBVIOUS
<1>1. Emitted = <<>> /\ delivered = <<>>
  BY DEF Init, Emitted
<1>2. ctx # "done" /\ client \notin {"stopped", "ended"}
  BY DEF Init
<1> QED
  BY <1>1, <1>2 DEF Delivery!Init

\* A step that the client and its request know nothing of.
LEMMA Stutters ==
    ASSUME Emitted' = Emitted, UNCHANGED <<delivered, ctx>>,
           client' = client \/ (client = "none" /\ client' = "reading")
    PROVE  UNCHANGED Delivery!vars
<1>1. (ctx = "done")' = (ctx = "done")
  OBVIOUS
<1>2. (client \in {"stopped", "ended"})' = (client \in {"stopped", "ended"})
  OBVIOUS
<1> QED
  BY <1>1, <1>2 DEF Delivery!vars

\* One thing more to tell.
LEMMA Emits ==
    ASSUME FlowInv, NEW x \in Frame, cut = "no", forwarder # "closed",
           Emitted = frames, Emitted' = Append(Emitted, x),
           x.number = 0 => ~HasTerminal(frames), UNCHANGED <<ctx, client, delivered>>
    PROVE  Delivery!EmitNext
<1>1. frames \in Seq(Frame) /\ ctx \in {"live", "done"}
  BY DEF FlowInv, TypeInv, TypeOK
<1>2. client \in {"stopped", "ended"} => ctx = "done"
  BY <1>1 DEF FlowInv, Places
<1>3. /\ Len(Emitted') = Len(Emitted) + 1 /\ Emitted'[Len(Emitted')] = x
      /\ SubSeq(Emitted', 1, Len(Emitted)) = Emitted
  <2>1. Len(Emitted') = Len(Emitted) + 1 /\ Emitted'[Len(Emitted')] = x
    BY <1>1
  <2>2. SubSeq(Append(frames, x), 1, Len(frames)) = frames
    BY <1>1, AppendProperties
  <2> QED
    BY <2>1, <2>2
<1>4. \A i \in DOMAIN Emitted : ~Delivery!Added(Emitted[i])
  <2>1. \A i \in 1..Len(frames) : frames[i].number > 0
    BY DEF FlowInv, Places
  <2>2. DOMAIN frames = 1..Len(frames)
    BY <1>1
  <2> QED
    BY <2>1, <2>2 DEF Delivery!Added
<1>5. Delivery!Added(Emitted'[Len(Emitted')]) => ~Delivery!HasOutcome(Emitted)
  BY <1>3 DEF Delivery!Added, Delivery!HasOutcome, HasTerminal, Terminal
<1>6. (ctx = "done")' = (ctx = "done")
  OBVIOUS
<1>7. (client \in {"stopped", "ended"})' = (client \in {"stopped", "ended"})
  OBVIOUS
<1> QED
  BY <1>2, <1>3, <1>4, <1>5, <1>6, <1>7 DEF Delivery!EmitNext

\* The forwarder adds to what there is to tell, or does nothing a client sees.
LEMMA ForwarderImplements ==
    ASSUME FlowInv, Forwarder
    PROVE  Delivery!EmitNext \/ UNCHANGED Delivery!vars
<1>1. TypeInv /\ Places
  BY DEF FlowInv
<1>2. forwarder # "closed" /\ UNCHANGED <<ctx, client, delivered>>
  BY DEF Forwarder, RecvFrame, RecvEOF, RecvError, Emit, EmitCancelled, Report, MockSend,
         MockClose, clientVars
<1> USE DEF subscription, forwarderVars, resolverVars, clientVars
<1>3. CASE RecvFrame \/ MockSend
  <2>1. PICK x \in Frame : x.number > 0 /\ frames' = Append(frames, x)
    BY <1>1, <1>3, RecvFrameIs, MockSendIs
  <2>2. forwarder \in {"recv", "mock"} /\ cut' = cut
    BY <1>3 DEF RecvFrame, MockSend
  <2>3. cut = "no"
    BY <1>1, <2>2 DEF Places
  <2>4. Emitted = frames /\ Emitted' = Append(Emitted, x)
    BY <1>1, <2>1, <2>2, <2>3, Received
  <2> QED
    BY <1>2, <2>1, <2>3, <2>4, Emits
<1>4. CASE RecvError
  <2>1. forwarder = "recv" /\ cut' = "error" /\ frames' = frames
    BY <1>4 DEF RecvError
  <2>2. cut = "no"
    BY <1>1, <2>1 DEF Places
  <2>3. HasTerminal(frames)' <=> HasTerminal(frames)
    BY <2>1 DEF HasTerminal
  <2>4. Emitted = frames
    BY <2>2 DEF Emitted
  <2>5. CASE HasTerminal(frames)
    <3>1. Emitted' = Emitted
      BY <2>1, <2>3, <2>4, <2>5 DEF Emitted
    <3> QED
      BY <1>2, <3>1, Stutters
  <2>6. CASE ~HasTerminal(frames)
    <3>1. Emitted' = Append(Emitted, ConnectionError)
      BY <2>1, <2>3, <2>4, <2>6 DEF Emitted
    <3> QED
      BY <1>2, <2>2, <2>4, <2>6, <3>1, Emits, FramesAreFrames
  <2> QED
    BY <2>5, <2>6
<1>5. CASE RecvEOF \/ EmitCancelled \/ MockClose \/ Emit \/ Report
  <2>1. frames' = frames
    BY <1>5 DEF RecvEOF, EmitCancelled, MockClose, Emit, Report
  <2>2. cut' = cut \/ (cut = "no" /\ cut' = "eof")
    BY <1>1, <1>5 DEF RecvEOF, EmitCancelled, MockClose, Emit, Report, Places
  <2>3. Emitted' = Emitted
    BY <2>1, <2>2 DEF Emitted, HasTerminal
  <2> QED
    BY <1>2, <2>3, Stutters
<1> QED
  BY <1>3, <1>4, <1>5 DEF Forwarder

\* The client receives the next of what there is to tell, ends or cancels.
LEMMA ClientImplements ==
    ASSUME FlowInv, Client \/ Cancel
    PROVE  Delivery!Next
<1> USE DEF subscription, forwarderVars, resolverVars, clientVars
<1>1. TypeInv
  BY DEF FlowInv
<1>2. Emitted' = Emitted
  <2>1. UNCHANGED <<frames, cut>>
    BY DEF Client, Deliver, SeeEnd, Stop, Cancel
  <2> QED
    BY <2>1 DEF Emitted, HasTerminal
<1>3. CASE Deliver
  <2>1. /\ client = "reading" /\ outputChan # <<>>
        /\ delivered' = Append(delivered, Head(outputChan)) /\ UNCHANGED <<ctx, client>>
    BY <1>3 DEF Deliver
  <2>2. PICK lost \in Seq(Frame) : Lost(lost)
    BY DEF FlowInv
  <2>3. delivered \in Seq(Frame) /\ outputChan \in Seq(Frame) /\ Sent \in Seq(Frame)
    BY <1>1, Lines
  <2>4. PICK t \in Seq(Frame) : t = Sent \o lost
    BY <2>3, Cat
  <2>5. delivered \o (outputChan \o t) = Emitted
    BY <2>2, <2>4 DEF Lost
  <2>6. /\ Len(delivered) < Len(Emitted)
        /\ Emitted[Len(delivered) + 1] = Head(outputChan)
    BY <2>1, <2>3, <2>5
  <2>7. (ctx = "done")' = (ctx = "done")
    BY <2>1
  <2>8. (client \in {"stopped", "ended"})' = (client \in {"stopped", "ended"})
    BY <2>1
  <2>9. client \notin {"stopped", "ended"}
    BY <2>1
  <2>10. Delivery!DeliverNext
    BY <1>2, <2>1, <2>6, <2>7, <2>8, <2>9 DEF Delivery!DeliverNext
  <2> QED
    BY <2>10 DEF Delivery!Next
<1>4. CASE SeeEnd \/ Stop
  <2>1. /\ client = "reading" /\ client' \in {"ended", "stopped"} /\ UNCHANGED <<ctx, delivered>>
        /\ ctx = "done" \/ (outputChan = <<>> /\ resolver = "closed")
    BY <1>4 DEF SeeEnd, Stop
  <2>2. ctx \in {"live", "done"}
    BY <1>1 DEF TypeInv, TypeOK
  <2>3. delivered = Emitted \/ ctx = "done"
    BY <2>1, <2>2, AllDelivered
  <2>4. (ctx = "done")' = (ctx = "done")
    BY <2>1
  <2>5. (client \in {"stopped", "ended"})' = TRUE /\ client \notin {"stopped", "ended"}
    BY <2>1
  <2>6. Delivery!Finish
    BY <1>2, <2>1, <2>3, <2>4, <2>5 DEF Delivery!Finish
  <2> QED
    BY <2>6 DEF Delivery!Next
<1>5. CASE Cancel
  <2>1. ctx # "done" /\ ctx' = "done" /\ UNCHANGED <<client, delivered>>
    BY <1>5 DEF Cancel
  <2>2. (ctx = "done")' = TRUE
    BY <2>1
  <2>3. (client \in {"stopped", "ended"})' = (client \in {"stopped", "ended"})
    BY <2>1
  <2>4. Delivery!CancelIt
    BY <1>2, <2>1, <2>2, <2>3 DEF Delivery!CancelIt
  <2> QED
    BY <2>4 DEF Delivery!Next
<1> QED
  BY <1>3, <1>4, <1>5 DEF Client

\* Every step is one of the abstract specification, or none.
LEMMA AbstractStep == FlowInv /\ [Next]_vars => [Delivery!Next]_(Delivery!vars)
<1> SUFFICES ASSUME FlowInv, [Next]_vars PROVE [Delivery!Next]_(Delivery!vars)
  OBVIOUS
<1>1. CASE Forwarder
  BY <1>1, ForwarderImplements DEF Delivery!Next
<1>2. CASE Client \/ Cancel
  BY <1>2, ClientImplements
<1>3. CASE Reject \/ Open \/ Resolver \/ UNCHANGED vars
  <2> USE DEF subscription, forwarderVars, resolverVars, clientVars
  <2>1. /\ UNCHANGED <<frames, cut, delivered, ctx>>
        /\ client' = client \/ (request = "new" /\ client' = "reading")
    BY <1>3 DEF Reject, Open, Resolver, Take, RangeEnds, Forward, ForwardCancelled, WakeUp, vars
  <2>2. request = "new" => client = "none"
    BY DEF FlowInv, Places
  <2>3. Emitted' = Emitted
    BY <2>1 DEF Emitted, HasTerminal
  <2> QED
    BY <2>1, <2>2, <2>3, Stutters
<1> QED
  BY <1>1, <1>2, <1>3 DEF Next

(* An executeOpen subscription keeps its promise, whatever the capacities and *)
(* the interleaving: it tells the client what was emitted, in order and once, *)
(* adds at most one connection error, at the end and not after an outcome,    *)
(* and is over only when the client has everything or has cancelled           *)
(* (payment_client.go:632-717, schema.resolvers.go:499-550).                  *)
THEOREM DeliveryImplemented == Spec => ImplementsDelivery
<1>1. Init => Delivery!Init
  BY AbstractInit
<1>2. FlowInv /\ [Next]_vars => [Delivery!Next]_(Delivery!vars)
  BY AbstractStep
<1> QED
  BY <1>1, <1>2, FlowInit, FlowStep, PTL DEF Spec, ImplementsDelivery, Delivery!Spec

=============================================================================
