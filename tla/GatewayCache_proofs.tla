------------------------- MODULE GatewayCache_proofs -------------------------
(***************************************************************************)
(* What holds of the cached gateway client for every set of services and   *)
(* goroutines, every TTL and every http.Client.Timeout, checked by TLAPS.  *)
(***************************************************************************)
EXTENDS GatewayCache, TLAPS

(* A complete response and a transport failure both give a well-formed       *)
(* (bool, error) pair (control_gateway_client.go:80-160).                    *)
LEMMA VerdictIsVerdict == \A a \in Answer : Verdict(a) \in VerdictType
<1> SUFFICES ASSUME NEW a \in Answer PROVE Verdict(a) \in VerdictType
  OBVIOUS
<1>1. /\ NoError \in Error
      /\ \A t \in Text : PlainError(t) \in Error
      /\ \A t \in Text : GatewayError("SERVICE_UNAVAILABLE", t) \in Error
      /\ \A t \in Text : GatewayError("INTERNAL_ERROR", t) \in Error
  BY DEF Error
<1>2. \A e \in Error : Refused(e) \in VerdictType
  BY DEF Refused, VerdictType
<1>3. \A b \in BOOLEAN : Available(b) \in VerdictType
  BY <1>1 DEF Available, VerdictType
<1>4. "wording" \in Text /\ (a.message # "" => a.message \in Text)
  BY DEF Text, Answer
<1>5. ResponseError(a) \in Error
  <2>1. HasMessage(a) => a.message \in Text
    BY <1>4 DEF HasMessage
  <2>2. \/ HasMessage(a) /\ ResponseError(a) = GatewayError("SERVICE_UNAVAILABLE", a.message)
        \/ HasMessage(a) /\ ResponseError(a) = GatewayError("INTERNAL_ERROR", a.message)
        \/ a.message # "" /\ ResponseError(a) = PlainError(a.message)
        \/ ResponseError(a) = PlainError("wording")
    BY DEF ResponseError
  <2> QED
    BY <1>1, <1>4, <2>1, <2>2
<1>6. a.valid \in BOOLEAN
  BY DEF Answer
<1> QED
  BY <1>1, <1>2, <1>3, <1>4, <1>5, <1>6 DEF Verdict

LEMMA FailureIsVerdict == \A t \in Text : Failure(t) \in VerdictType
BY DEF Failure, Refused, VerdictType, Error

(* A transport failure is transient (gateway_cache.go:81-92).                *)
LEMMA FailureIsTransient == \A t \in Text : ~IsCacheable(Failure(t).err)
BY DEF Failure, Refused, PlainError, IsCacheable, NoError

-----------------------------------------------------------------------------
\* The gateway decided the verdict about s in tick t.
Decided(s, t, verdict) == \E a \in Answers : <<s, t, a>> \in past /\ verdict = Verdict(a)
Failed(verdict) == \E text \in Faults \cup {"Client.Timeout"} : verdict = Failure(text)

\* Every entry is a verdict of the gateway that may be kept, decided at most
\* Timeout before the last reset, or after it.
EntriesInv ==
    \A s \in Services : entries[s] # NoEntry =>
        /\ entries[s].obs <= now
        /\ refreshedAt <= entries[s].obs + Timeout
        /\ IsCacheable(entries[s].verdict.err)
        /\ Decided(s, entries[s].obs, entries[s].verdict)

\* A call on its way is not older than http.Client.Timeout, and what it was
\* told it was told since it started.
InFlight(c) ==
    /\ call[c].pc \in {"calling", "answered", "failed"} =>
          call[c].started <= now /\ now <= call[c].started + Timeout
    /\ call[c].pc \in {"answered", "failed"} =>
          call[c].started <= call[c].obs /\ call[c].obs <= now
    /\ call[c].pc = "answered" =>
          Decided(call[c].service, call[c].obs, call[c].verdict)
    /\ call[c].pc = "failed" => Failed(call[c].verdict)

\* What a call that is over hands to its caller.
Served(c) ==
    call[c].pc = "returned" =>
        /\ \/ /\ now - call[c].obs <= Window
              /\ Decided(call[c].service, call[c].obs, call[c].verdict)
           \/ call[c].obs >= call[c].started /\ Failed(call[c].verdict)
        /\ IsCacheable(call[c].verdict.err) \/ call[c].obs >= call[c].started

CallsInv == \A c \in Calls : InFlight(c) /\ Served(c)

Inv ==
    /\ TypeOK
    /\ refreshedAt <= now
    /\ \A s \in Services : <<s, now, gateway[s]>> \in past
    /\ EntriesInv
    /\ CallsInv

LEMMA InvInit == Init => Inv
<1> SUFFICES ASSUME Init PROVE Inv
  OBVIOUS
<1>1. TypeOK
  <2>1. past \subseteq Services \X Nat \X Answers
    BY DEF Init
  <2>2. call \in [Calls -> {Idle} \cup Asking \cup Told]
    BY DEF Init
  <2> QED
    BY <2>1, <2>2 DEF Init, TypeOK
<1>2. CallsInv
  BY DEF Init, CallsInv, InFlight, Served, Idle
<1> QED
  BY <1>1, <1>2 DEF Init, Inv, EntriesInv

(* The fields of a call's record, by the place the goroutine is in.          *)
LEMMA CallFields ==
    ASSUME TypeOK, NEW c \in Calls
    PROVE  /\ call[c].pc = "calling" => call[c] \in Asking
           /\ call[c].pc \in {"answered", "failed", "returned"} => call[c] \in Told
BY DEF TypeOK, Idle, Asking, Told

(* A step that touches one goroutine only has to be looked at there.         *)
LEMMA OneCall ==
    ASSUME Inv, NEW c \in Calls, NEW r \in {Idle} \cup Asking \cup Told,
           call' = [call EXCEPT ![c] = r],
           now' = now, past' = past, ttl' = ttl,
           InFlight(c)', Served(c)'
    PROVE  CallsInv' /\ call' \in [Calls -> {Idle} \cup Asking \cup Told]
<1>1. call' \in [Calls -> {Idle} \cup Asking \cup Told]
  BY DEF Inv, TypeOK
<1>2. ASSUME NEW d \in Calls, d # c PROVE InFlight(d)' /\ Served(d)'
  <2>1. call'[d] = call[d]
    BY <1>2 DEF Inv, TypeOK
  <2>2. InFlight(d) /\ Served(d)
    BY DEF Inv, CallsInv
  <2> QED
    BY <2>1, <2>2 DEF InFlight, Served, Decided, Window
<1> QED
  BY <1>1, <1>2 DEF CallsInv

(* Nothing but the goroutine changes.                                        *)
LEMMA OnlyCall ==
    ASSUME Inv, NEW c \in Calls, NEW r \in {Idle} \cup Asking \cup Told,
           call' = [call EXCEPT ![c] = r], UNCHANGED <<now, gatewayVars, cacheVars>>,
           InFlight(c)', Served(c)'
    PROVE  Inv'
<1>1. CallsInv' /\ call' \in [Calls -> {Idle} \cup Asking \cup Told]
  BY OneCall DEF gatewayVars, cacheVars
<1> QED
  BY <1>1 DEF Inv, TypeOK, EntriesInv, Decided, gatewayVars, cacheVars

-----------------------------------------------------------------------------
(* The section under RLock.                                                  *)
LEMMA HitStep ==
    ASSUME Inv, NEW c \in Calls, NEW s \in Services, Hit(c, s)
    PROVE  Inv'
<1> DEFINE r == [pc |-> "returned", service |-> s, cacheValid |-> TRUE, started |-> now,
                 verdict |-> entries[s].verdict, obs |-> entries[s].obs]
<1>1. entries[s] \in Entry
  BY DEF Hit, Found, Inv, TypeOK
<1>2. r \in Told
  BY <1>1 DEF Told, Entry, Inv, TypeOK
<1>3. call' = [call EXCEPT ![c] = r] /\ UNCHANGED <<now, gatewayVars, cacheVars>>
  BY DEF Hit
<1>4. call'[c] = r
  BY <1>3 DEF Inv, TypeOK
<1>5. InFlight(c)'
  BY <1>4 DEF InFlight
<1>6. now - entries[s].obs <= Window
  <2>1. refreshedAt <= entries[s].obs + Timeout /\ now - refreshedAt < ttl /\ ttl # 0
    BY DEF Hit, CacheValid, Found, Inv, EntriesInv
  <2>2. /\ now \in Nat /\ refreshedAt \in Nat /\ entries[s].obs \in Nat
        /\ ttl \in Nat /\ Timeout \in Nat
    BY <1>1, TimesAssumption DEF Inv, TypeOK, Entry
  <2> QED
    BY <2>1, <2>2 DEF Window
<1>7. Decided(s, entries[s].obs, entries[s].verdict) /\ IsCacheable(entries[s].verdict.err)
  BY DEF Hit, Found, Inv, EntriesInv
<1>8. Served(c)'
  BY <1>3, <1>4, <1>6, <1>7 DEF Served, Decided, Window, gatewayVars, cacheVars
<1> QED
  BY <1>2, <1>3, <1>5, <1>8, OnlyCall

LEMMA AskStep ==
    ASSUME Inv, NEW c \in Calls, NEW s \in Services, NEW b \in BOOLEAN, Ask(c, s, b)
    PROVE  Inv'
<1> DEFINE r == [pc |-> "calling", service |-> s, cacheValid |-> b, started |-> now]
<1>1. r \in Asking
  BY DEF Asking, Inv, TypeOK
<1>2. call' = [call EXCEPT ![c] = r] /\ UNCHANGED <<now, gatewayVars, cacheVars>>
  BY DEF Ask
<1>3. call'[c] = r
  BY <1>2 DEF Inv, TypeOK
<1>4. InFlight(c)' /\ Served(c)'
  BY <1>2, <1>3, TimesAssumption DEF InFlight, Served, Inv, TypeOK
<1> QED
  BY <1>1, <1>2, <1>4, OnlyCall

LEMMA LookupStep ==
    ASSUME Inv, NEW c \in Calls, Lookup(c)
    PROVE  Inv'
<1>1. CacheValid \in BOOLEAN /\ FALSE \in BOOLEAN
  BY DEF CacheValid
<1> QED
  BY <1>1, HitStep, AskStep DEF Lookup, Miss, PassThrough

(* The HTTP call, without any lock.                                          *)
LEMMA AnswerStep ==
    ASSUME Inv, NEW c \in Calls, GatewayAnswers(c)
    PROVE  Inv'
<1> DEFINE s == call[c].service
           v == Verdict(gateway[s])
           r == [pc |-> "answered", service |-> s, cacheValid |-> call[c].cacheValid,
                 started |-> call[c].started, verdict |-> v, obs |-> now]
<1>1. call[c] \in Asking
  BY CallFields DEF GatewayAnswers, Inv
<1>2. s \in Services /\ gateway[s] \in Answers
  BY <1>1 DEF Asking, Inv, TypeOK
<1>3. v \in VerdictType
  BY <1>2, VerdictIsVerdict, AnswersAssumption
<1>4. r \in Told
  BY <1>1, <1>3 DEF Told, Asking, Inv, TypeOK
<1>5. call' = [call EXCEPT ![c] = r] /\ UNCHANGED <<now, gatewayVars, cacheVars>>
  BY DEF GatewayAnswers, Tell
<1>6. call'[c] = r
  BY <1>5 DEF Inv, TypeOK
<1>7. Decided(s, now, v)
  BY <1>2 DEF Decided, Inv
<1>8. call[c].started <= now /\ now <= call[c].started + Timeout
  BY DEF GatewayAnswers, Inv, CallsInv, InFlight
<1>9. InFlight(c)'
  <2> HIDE DEF v, s
  <2> QED
    BY <1>5, <1>6, <1>7, <1>8 DEF InFlight, Decided, gatewayVars, Inv, TypeOK
<1>10. Served(c)'
  BY <1>6 DEF Served
<1> QED
  BY <1>4, <1>5, <1>9, <1>10, OnlyCall

LEMMA FailStep ==
    ASSUME Inv, NEW c \in Calls, NEW text \in Faults \cup {"Client.Timeout"},
           call[c].pc \in {"calling", "answered"}, Tell(c, "failed", Failure(text)),
           UNCHANGED <<now, gatewayVars, cacheVars>>
    PROVE  Inv'
<1> DEFINE v == Failure(text)
           r == [pc |-> "failed", service |-> call[c].service, cacheValid |-> call[c].cacheValid,
                 started |-> call[c].started, verdict |-> v, obs |-> now]
<1>1. call[c] \in Asking \/ call[c] \in Told
  BY CallFields DEF Inv
<1>2. v \in VerdictType
  BY FailureIsVerdict, FaultsAssumption DEF Text
<1>3. r \in Told
  BY <1>1, <1>2 DEF Told, Asking, Inv, TypeOK
<1>4. call' = [call EXCEPT ![c] = r]
  BY DEF Tell
<1>5. call'[c] = r
  BY <1>4 DEF Inv, TypeOK
<1>6. call[c].started <= now /\ now <= call[c].started + Timeout
  BY DEF Inv, CallsInv, InFlight
<1>7. Failed(v)
  BY DEF Failed
<1>8. InFlight(c)'
  <2> HIDE DEF v
  <2> QED
    BY <1>5, <1>6, <1>7 DEF InFlight, Failed, Inv, TypeOK
<1>9. Served(c)'
  BY <1>5 DEF Served
<1> QED
  BY <1>3, <1>4, <1>8, <1>9, OnlyCall

(* A call with a verdict returns it: it is no older than the call, hence     *)
(* within the window, and was observed since the call started.               *)
LEMMA Returning ==
    ASSUME Inv, NEW c \in Calls, HasVerdict(c),
           call' = [call EXCEPT ![c].pc = "returned"],
           now' = now, past' = past, ttl' = ttl
    PROVE  CallsInv' /\ call' \in [Calls -> {Idle} \cup Asking \cup Told]
<1> DEFINE r == [call[c] EXCEPT !.pc = "returned"]
<1>1. call[c] \in Told
  BY CallFields DEF HasVerdict, Inv
<1>2. /\ r \in Told /\ r.pc = "returned"
      /\ r.service = call[c].service /\ r.verdict = call[c].verdict
      /\ r.obs = call[c].obs /\ r.started = call[c].started
  BY <1>1 DEF Told
<1>3. call' = [call EXCEPT ![c] = r]
  OBVIOUS
<1> HIDE DEF r
<1>4. call'[c] = r
  BY <1>3 DEF Inv, TypeOK
<1>5. /\ call[c].started <= now /\ now <= call[c].started + Timeout
      /\ call[c].started <= call[c].obs /\ call[c].obs <= now
      /\ Decided(call[c].service, call[c].obs, call[c].verdict) \/ Failed(call[c].verdict)
  BY DEF HasVerdict, Inv, CallsInv, InFlight
<1>6. now - call[c].obs <= Window
  <2>1. /\ now \in Nat /\ call[c].started \in Nat /\ call[c].obs \in Nat
        /\ ttl \in Nat /\ Timeout \in Nat
    BY <1>1, TimesAssumption DEF Told, Inv, TypeOK
  <2> QED
    BY <1>5, <2>1 DEF Window
<1>7. InFlight(c)'
  BY <1>2, <1>4 DEF InFlight
<1>8. Served(c)'
  <2>1. call[c].obs >= call[c].started
    BY <1>1, <1>5 DEF Told
  <2> QED
    BY <1>2, <1>4, <1>5, <1>6, <2>1, SMTT(30) DEF Served, Decided, Failed, Window
<1> QED
  BY <1>2, <1>3, <1>7, <1>8, OneCall

(* The section under Lock.                                                   *)
LEMMA StoreStep ==
    ASSUME Inv, NEW c \in Calls, Store(c)
    PROVE  Inv'
<1> DEFINE q == call[c].service
           entry == [verdict |-> call[c].verdict, obs |-> call[c].obs]
           kept == IF call[c].cacheValid THEN entries ELSE [s \in Services |-> NoEntry]
<1>1. /\ HasVerdict(c) /\ IsCacheable(call[c].verdict.err)
      /\ entries' = [kept EXCEPT ![q] = entry]
      /\ refreshedAt' = IF call[c].cacheValid THEN refreshedAt ELSE now
      /\ call' = [call EXCEPT ![c].pc = "returned"]
      /\ UNCHANGED <<ttl, now, gateway, changes, past>>
  BY DEF Store, gatewayVars
<1>2. CallsInv' /\ call' \in [Calls -> {Idle} \cup Asking \cup Told]
  BY <1>1, Returning
<1>3. call[c] \in Told
  BY <1>1, CallFields DEF HasVerdict, Inv
<1>4. /\ entry \in Entry /\ q \in Services
      /\ entry.obs = call[c].obs /\ entry.verdict = call[c].verdict
  BY <1>3 DEF Told, Entry
<1>5. /\ call[c].started <= now /\ now <= call[c].started + Timeout
      /\ call[c].started <= call[c].obs /\ call[c].obs <= now
  BY <1>1 DEF HasVerdict, Inv, CallsInv, InFlight
<1>6. /\ now \in Nat /\ call[c].started \in Nat /\ call[c].obs \in Nat
      /\ refreshedAt \in Nat /\ Timeout \in Nat /\ refreshedAt <= now
  BY <1>3, TimesAssumption DEF Told, Inv, TypeOK
<1>7. Decided(q, call[c].obs, call[c].verdict)
  <2>1. call[c].pc = "failed" => ~IsCacheable(call[c].verdict.err)
    BY FailureIsTransient, FaultsAssumption DEF Inv, CallsInv, InFlight, Failed, Text
  <2> QED
    BY <1>1, <2>1 DEF HasVerdict, Inv, CallsInv, InFlight
<1>8. refreshedAt' \in Nat /\ refreshedAt' <= now
  BY <1>1, <1>6
<1>9. kept \in [Services -> Entry \cup {NoEntry}]
  BY DEF Inv, TypeOK
<1> HIDE DEF entry
<1>10. entries' \in [Services -> Entry \cup {NoEntry}]
  BY <1>1, <1>4, <1>9
<1>11. ASSUME NEW s \in Services, entries'[s] # NoEntry
       PROVE  /\ entries'[s].obs <= now
              /\ refreshedAt' <= entries'[s].obs + Timeout
              /\ IsCacheable(entries'[s].verdict.err)
              /\ Decided(s, entries'[s].obs, entries'[s].verdict)
  <2>1. CASE s = q
    <3>1. entries'[s] = entry
      BY <1>1, <1>4, <1>9, <2>1
    <3>2. refreshedAt' <= call[c].obs + Timeout
      BY <1>5, <1>6, <1>8
    <3> QED
      BY <1>1, <1>4, <1>5, <1>7, <2>1, <3>1, <3>2
  <2>2. CASE s # q
    <3>1. entries'[s] = kept[s]
      BY <1>1, <1>9, <2>2
    <3>2. call[c].cacheValid /\ entries'[s] = entries[s] /\ refreshedAt' = refreshedAt
      BY <1>1, <1>11, <3>1
    <3> QED
      BY <1>11, <3>2 DEF Inv, EntriesInv
  <2> QED
    BY <2>1, <2>2
<1>12. EntriesInv'
  BY <1>1, <1>11 DEF EntriesInv, Decided
<1> QED
  BY <1>1, <1>2, <1>8, <1>10, <1>12 DEF Inv, TypeOK

LEMMA DiscardStep ==
    ASSUME Inv, NEW c \in Calls, Discard(c)
    PROVE  Inv'
<1>1. CallsInv' /\ call' \in [Calls -> {Idle} \cup Asking \cup Told]
  BY Returning DEF Discard, gatewayVars, cacheVars
<1> QED
  BY <1>1 DEF Discard, Inv, TypeOK, EntriesInv, Decided, gatewayVars, cacheVars

LEMMA ReturnStep ==
    ASSUME Inv, NEW c \in Calls, Return(c)
    PROVE  Inv'
<1>1. call' = [call EXCEPT ![c] = Idle] /\ UNCHANGED <<now, gatewayVars, cacheVars>>
  BY DEF Return
<1>2. call'[c] = Idle
  BY <1>1 DEF Inv, TypeOK
<1>3. InFlight(c)' /\ Served(c)'
  BY <1>2 DEF InFlight, Served, Idle
<1> QED
  BY <1>1, <1>3, OnlyCall

(* Operators and the clock.                                                  *)
LEMMA EnvironmentStep == Inv /\ Environment => Inv'
<1>1. ASSUME Inv, NEW s \in Services, NEW a \in Answers, SetGateway(s, a)
      PROVE  Inv'
  <2>1. /\ gateway' = [gateway EXCEPT ![s] = a] /\ changes' = changes + 1
        /\ past' = past \cup {<<s, now, a>>}
        /\ UNCHANGED <<now, ttl, entries, refreshedAt, call>>
    BY <1>1 DEF SetGateway, cacheVars
  <2>2. TypeOK'
    BY <1>1, <2>1 DEF Inv, TypeOK
  <2>3. \A z \in Services : <<z, now, gateway'[z]>> \in past'
    BY <1>1, <2>1 DEF Inv, TypeOK
  <2>4. EntriesInv' /\ CallsInv'
    BY <1>1, <2>1 DEF Inv, EntriesInv, CallsInv, InFlight, Served, Decided, Failed, Window
  <2> QED
    BY <1>1, <2>1, <2>2, <2>3, <2>4 DEF Inv
<1>2. ASSUME Inv, Tick PROVE Inv'
  <2>1. /\ now' = now + 1
        /\ past' = past \cup {<<s, now + 1, gateway[s]>> : s \in Services}
        /\ UNCHANGED <<gateway, changes, ttl, entries, refreshedAt, call>>
        /\ \A c \in Calls : MayWait(c)
    BY <1>2 DEF Tick, cacheVars
  <2>2. now \in Nat \ {0} /\ refreshedAt \in Nat /\ Timeout \in Nat
    BY <1>2, TimesAssumption DEF Inv, TypeOK
  <2>3. TypeOK'
    BY <1>2, <2>1 DEF Inv, TypeOK
  <2>4. past \subseteq past' /\ \A s \in Services : <<s, now', gateway'[s]>> \in past'
    BY <2>1
  <2>5. EntriesInv'
    <3>1. ASSUME NEW s \in Services, entries[s] # NoEntry PROVE entries[s].obs \in Nat
      BY <1>2, <3>1 DEF Inv, TypeOK, Entry
    <3>2. ASSUME NEW s \in Services, entries[s] # NoEntry
          PROVE  /\ entries[s].obs <= now' /\ refreshedAt <= entries[s].obs + Timeout
                 /\ IsCacheable(entries[s].verdict.err)
                 /\ Decided(s, entries[s].obs, entries[s].verdict)'
      <4>1. /\ entries[s].obs <= now /\ refreshedAt <= entries[s].obs + Timeout
            /\ IsCacheable(entries[s].verdict.err)
            /\ Decided(s, entries[s].obs, entries[s].verdict)
        BY <1>2, <3>2 DEF Inv, EntriesInv
      <4>2. entries[s].obs <= now'
        BY <2>1, <2>2, <3>1, <3>2, <4>1
      <4>3. Decided(s, entries[s].obs, entries[s].verdict)'
        BY <2>1, <2>4, <4>1 DEF Decided
      <4> QED
        BY <4>1, <4>2, <4>3
    <3> QED
      BY <2>1, <3>2 DEF EntriesInv, Decided
  <2>6. ASSUME NEW c \in Calls PROVE InFlight(c)' /\ Served(c)'
    <3>1. call[c].pc \notin {"failed", "returned"}
      BY <2>1 DEF MayWait
    <3>2. CASE call[c].pc \in {"calling", "answered"}
      <4>1. call[c] \in Asking \/ call[c] \in Told
        BY <1>2, <3>2, CallFields DEF Inv
      <4>2. /\ call[c].started \in Nat
            /\ call[c].pc = "answered" => call[c].obs \in Nat
        BY <1>2, <3>2, <4>1 DEF Asking, Told
      <4>3. now - call[c].started < Timeout
        BY <2>1, <3>2 DEF MayWait
      <4> QED
        BY <1>2, <2>1, <2>2, <2>4, <3>1, <4>2, <4>3
           DEF Inv, CallsInv, InFlight, Served, Decided
    <3>3. CASE call[c].pc \notin {"calling", "answered"}
      BY <2>1, <3>1, <3>3 DEF InFlight, Served
    <3> QED
      BY <3>2, <3>3
  <2> QED
    BY <2>1, <2>2, <2>3, <2>4, <2>5, <2>6, <1>2 DEF Inv, CallsInv
<1> QED
  BY <1>1, <1>2 DEF Environment

-----------------------------------------------------------------------------
LEMMA InvStep == Inv /\ [Next]_vars => Inv'
<1> SUFFICES ASSUME Inv, [Next]_vars PROVE Inv'
  OBVIOUS
<1>1. ASSUME NEW c \in Calls, Lookup(c) PROVE Inv'
  BY <1>1, LookupStep
<1>2. ASSUME NEW c \in Calls, Advance(c) PROVE Inv'
  <2>1. CASE GatewayAnswers(c)
    BY <2>1, AnswerStep
  <2>2. CASE TransportFails(c) \/ ClientTimeout(c)
    BY <2>2, FailStep DEF TransportFails, ClientTimeout
  <2>3. CASE Store(c)
    BY <2>3, StoreStep
  <2>4. CASE Discard(c)
    BY <2>4, DiscardStep
  <2> QED
    BY <1>2, <2>1, <2>2, <2>3, <2>4 DEF Advance
<1>3. ASSUME NEW c \in Calls, Return(c) PROVE Inv'
  BY <1>3, ReturnStep
<1>4. CASE Environment
  BY <1>4, EnvironmentStep
<1>5. CASE UNCHANGED vars
  <2>1. UNCHANGED <<now, gatewayVars, cacheVars, call>>
    BY <1>5 DEF vars
  <2> QED
    BY <2>1 DEF Inv, TypeOK, EntriesInv, CallsInv, InFlight, Served, Decided, Failed, Window,
                gatewayVars, cacheVars
<1> QED
  BY <1>1, <1>2, <1>3, <1>4, <1>5 DEF Next

(* What the invariant says of the answers handed out.                        *)
LEMMA InvServes == Inv => ServedIsRecent /\ TransientNeverShared
<1>1. Inv => ServedIsRecent
  BY DEF Inv, CallsInv, Served, ServedIsRecent, Decided, Failed
<1>2. \A err : IsCacheable(err) => err = NoError \/ err.code = "SERVICE_UNAVAILABLE"
  BY DEF IsCacheable
<1>3. Inv => TransientNeverShared
  BY <1>2 DEF Inv, CallsInv, Served, TransientNeverShared
<1> QED
  BY <1>1, <1>3

LEMMA InvAlways == Spec => []Inv
BY InvInit, InvStep, PTL DEF Spec

(* The cache's map, its time stamp and every call in progress keep their     *)
(* types, and only verdicts a response or a transport failure can give are   *)
(* in them (gateway_cache.go:12-32).                                         *)
THEOREM CacheTypeCorrect == Spec => []TypeOK
<1>1. Inv => TypeOK
  BY DEF Inv
<1> QED
  BY InvAlways, <1>1, PTL

(* However many goroutines interleave the RLock section, the HTTP call and   *)
(* the Lock section, a verdict IsServiceAvailable returns was the gateway's  *)
(* in the last TTL + Timeout, or is the failure of this very call            *)
(* (gateway_cache.go:46-74).                                                 *)
THEOREM ServesRecent == Spec => []ServedIsRecent
BY InvAlways, InvServes, PTL

(* A transient verdict (gateway_cache.go:81-92) is handed only to the        *)
(* request whose own HTTP call met it.                                       *)
THEOREM SharesNoTransient == Spec => []TransientNeverShared
BY InvAlways, InvServes, PTL

-----------------------------------------------------------------------------
(* The cache implements the oracle the rest of the BFF relies on.            *)

\* The oracle reads an answer of the gateway as the client does.
LEMMA SameVerdicts ==
    /\ \A a \in Answer : Oracle!Verdict(a) = Verdict(a)
    /\ \A text : Oracle!Failure(text) = Failure(text)
<1>1. /\ \A text : Oracle!PlainError(text) = PlainError(text)
      /\ \A code, text : Oracle!GatewayError(code, text) = GatewayError(code, text)
      /\ Oracle!NoError = NoError
  BY DEF Oracle!PlainError, PlainError, Oracle!GatewayError, GatewayError, Oracle!NoError, NoError
<1>2. /\ \A e : Oracle!Refused(e) = Refused(e)
      /\ \A b : Oracle!Available(b) = Available(b)
  BY <1>1 DEF Oracle!Refused, Refused, Oracle!Available, Available
<1>3. \A a \in Answer : Oracle!HasMessage(a) <=> HasMessage(a)
  BY DEF Oracle!HasMessage, HasMessage
<1>4. \A a \in Answer : Oracle!ResponseError(a) = ResponseError(a)
  <2> SUFFICES ASSUME NEW a \in Answer PROVE Oracle!ResponseError(a) = ResponseError(a)
    OBVIOUS
  <2>1. HasMessage(a) \/ ~HasMessage(a)
    OBVIOUS
  <2>2. /\ Oracle!PlainError(a.message) = PlainError(a.message)
        /\ Oracle!PlainError("wording") = PlainError("wording")
        /\ Oracle!GatewayError("SERVICE_UNAVAILABLE", a.message)
              = GatewayError("SERVICE_UNAVAILABLE", a.message)
        /\ Oracle!GatewayError("INTERNAL_ERROR", a.message)
              = GatewayError("INTERNAL_ERROR", a.message)
    BY <1>1
  <2>3. Oracle!HasMessage(a) <=> HasMessage(a)
    BY <1>3
  <2> QED
    BY <2>1, <2>2, <2>3, ZenonT(30) DEF Oracle!ResponseError, ResponseError
<1>5. \A a \in Answer : Oracle!Verdict(a) = Verdict(a)
  BY <1>1, <1>2, <1>4 DEF Oracle!Verdict, Verdict
<1>6. \A text : Oracle!Failure(text) = Failure(text)
  BY <1>1, <1>2 DEF Oracle!Failure, Failure
<1> QED
  BY <1>5, <1>6

\* What a caller is handed, by the place its goroutine is in.
LEMMA AnswerIs ==
    ASSUME NEW c \in Calls
    PROVE  /\ call[c].pc = "returned" =>
                 /\ answer[c] = [service |-> call[c].service, verdict |-> call[c].verdict]
                 /\ answer[c] # Oracle!Nothing
           /\ call[c].pc # "returned" => answer[c] = Oracle!Nothing
<1>1. call[c].pc # "returned" => answer[c] = Oracle!Nothing
  BY DEF answer, Oracle!Nothing
<1>2. call[c].pc = "returned" =>
         answer[c] = [service |-> call[c].service, verdict |-> call[c].verdict]
  BY DEF answer
<1>3. \A s, v : [service |-> s, verdict |-> v] # Oracle!Nothing
  <2> SUFFICES ASSUME NEW s, NEW v, [service |-> s, verdict |-> v] = Oracle!Nothing PROVE FALSE
    OBVIOUS
  <2>1. DOMAIN [service |-> s, verdict |-> v] = {"service", "verdict"}
    OBVIOUS
  <2>2. DOMAIN Oracle!Nothing = {"service"}
    BY DEF Oracle!Nothing
  <2> QED
    BY <2>1, <2>2
<1> QED
  BY <1>1, <1>2, <1>3

\* Nobody is handed anything or gives it back.
LEMMA AnswerSame ==
    ASSUME \A c \in Calls : call'[c] = call[c]
                            \/ (call[c].pc # "returned" /\ call'[c].pc # "returned")
    PROVE  answer' = answer
BY DEF answer

\* One goroutine's caller is.
LEMMA AnswerOne ==
    ASSUME NEW c \in Calls, \A d \in Calls \ {c} : call'[d] = call[d]
    PROVE  answer' = [answer EXCEPT ![c] = answer'[c]]
BY DEF answer

\* A call that returns hands out a verdict of the window, or its own failure.
LEMMA ServesAsOracle ==
    ASSUME Inv, Inv', NEW c \in Calls, call[c].pc # "returned", call'[c].pc = "returned",
           \A d \in Calls \ {c} : call'[d] = call[d],
           UNCHANGED <<ttl, now, gateway, changes, past>>
    PROVE  Oracle!Serve(c)
<1> DEFINE s == call'[c].service
           v == call'[c].verdict
<1>1. answer[c] = Oracle!Nothing /\ answer'[c] = [service |-> s, verdict |-> v]
  BY AnswerIs DEF answer
<1>2. s \in Services
  BY CallFields DEF Inv, TypeOK, Told, Idle, Asking
<1>3. v \in Oracle!RecentVerdicts(s) \cup Oracle!FailureVerdicts
  <2>1. \/ \E a \in Answers : /\ now - call'[c].obs <= Window /\ v = Verdict(a)
                              /\ <<s, call'[c].obs, a>> \in past
        \/ \E text \in Faults \cup {"Client.Timeout"} : v = Failure(text)
    BY DEF Inv, CallsInv, Served, Decided, Failed, Window
  <2> HIDE DEF s, v
  <2>2. ASSUME NEW a \in Answers, NEW t, now - t <= Window, v = Verdict(a), <<s, t, a>> \in past
        PROVE  v \in Oracle!RecentVerdicts(s)
    <3>1. v = Oracle!Verdict(a)
      BY <2>2, SameVerdicts, AnswersAssumption
    <3>2. <<s, t, a>> \in {q \in past : q[1] = s /\ now - q[2] <= Window}
      BY <2>2
    <3>3. <<s, t, a>>[3] = a
      OBVIOUS
    <3> QED
      BY <3>1, <3>2, <3>3 DEF Oracle!RecentVerdicts
  <2>3. ASSUME NEW text \in Faults \cup {"Client.Timeout"}, v = Failure(text)
        PROVE  v \in Oracle!FailureVerdicts
    BY <2>3, SameVerdicts DEF Oracle!FailureVerdicts
  <2> QED
    BY <2>1, <2>2, <2>3
<1>4. answer' = [answer EXCEPT ![c] = [service |-> s, verdict |-> v]]
  BY <1>1, AnswerOne
<1>5. Window' = Window
  BY DEF Window
<1> HIDE DEF s, v
<1> QED
  BY <1>1, <1>2, <1>3, <1>4, <1>5 DEF Oracle!Serve

LEMMA CallImplements ==
    ASSUME Inv, Inv', NEW c \in Calls, Lookup(c) \/ Advance(c) \/ Return(c)
    PROVE  Oracle!Serve(c) \/ Oracle!Take(c) \/ UNCHANGED Oracle!vars
<1> USE DEF gatewayVars, cacheVars
<1>0. /\ UNCHANGED <<ttl, now, gateway, changes, past>>
      /\ \A d \in Calls \ {c} : call'[d] = call[d]
      /\ call \in [Calls -> {Idle} \cup Asking \cup Told]
  <2>1. call \in [Calls -> {Idle} \cup Asking \cup Told]
    BY DEF Inv, TypeOK
  <2> QED
    BY <2>1 DEF Lookup, Advance, Return, Hit, Miss, PassThrough, Ask, GatewayAnswers, TransportFails,
        ClientTimeout, Tell, Store, Discard
<1>1. Window' = Window
  BY <1>0 DEF Window
<1>2. ASSUME call[c].pc # "returned", call'[c].pc # "returned"
      PROVE  UNCHANGED Oracle!vars
  <2>1. answer' = answer
    BY <1>0, <1>2, AnswerSame
  <2> QED
    BY <1>0, <1>1, <2>1 DEF Oracle!vars
<1>3. ASSUME call[c].pc # "returned", call'[c].pc = "returned"
      PROVE  Oracle!Serve(c)
  BY <1>0, <1>3, ServesAsOracle
<1>4. CASE Return(c)
  <2>1. call[c].pc = "returned" /\ call'[c] = Idle
    BY <1>0, <1>4 DEF Return
  <2>2. call'[c].pc # "returned"
    BY <2>1 DEF Idle
  <2>3. answer[c] # Oracle!Nothing /\ answer'[c] = Oracle!Nothing
    BY <2>1, <2>2, AnswerIs DEF answer, Oracle!Nothing
  <2>4. answer' = [answer EXCEPT ![c] = Oracle!Nothing]
    BY <1>0, <2>3, AnswerOne
  <2> QED
    BY <1>0, <1>1, <2>3, <2>4 DEF Oracle!Take
<1>5. CASE Lookup(c) \/ Advance(c)
  <2>1. call[c].pc # "returned"
    BY <1>5 DEF Lookup, Advance, Hit, Miss, PassThrough, Ask, GatewayAnswers, TransportFails,
       ClientTimeout, Store, Discard, HasVerdict, Idle
  <2> QED
    BY <1>2, <1>3, <2>1
<1> QED
  BY <1>4, <1>5

LEMMA EnvironmentImplements ==
    ASSUME Inv, Environment
    PROVE  Oracle!Next
<1> USE DEF cacheVars
<1>1. ASSUME NEW s \in Services, NEW a \in Answers, SetGateway(s, a) PROVE Oracle!Change(s, a)
  <2>1. answer' = answer /\ Window' = Window
    BY <1>1 DEF SetGateway, answer, Window
  <2> QED
    BY <1>1, <2>1 DEF SetGateway, Oracle!Change
<1>2. CASE Tick
  <2>1. answer' = answer /\ Window' = Window
    BY <1>2 DEF Tick, answer, Window
  <2>2. \A c \in Calls : answer[c] = Oracle!Nothing
    BY <1>2, AnswerIs DEF Tick, MayWait
  <2> QED
    BY <1>2, <2>1, <2>2 DEF Tick, Oracle!Tick, Oracle!Next
<1> QED
  BY <1>1, <1>2 DEF Environment, Oracle!Next

LEMMA OracleInit == Init => Oracle!Init
<1> SUFFICES ASSUME Init PROVE Oracle!Init
  OBVIOUS
<1>1. Window \in Nat
  BY TimesAssumption DEF Init, Window
<1>2. answer = [c \in Calls |-> Oracle!Nothing]
  BY DEF Init, answer, Idle, Oracle!Nothing
<1> QED
  BY <1>1, <1>2 DEF Init, Oracle!Init

LEMMA OracleStep == Inv /\ Inv' /\ [Next]_vars => [Oracle!Next]_(Oracle!vars)
<1> SUFFICES ASSUME Inv, Inv', [Next]_vars PROVE [Oracle!Next]_(Oracle!vars)
  OBVIOUS
<1>1. ASSUME NEW c \in Calls, Lookup(c) \/ Advance(c) \/ Return(c)
      PROVE  [Oracle!Next]_(Oracle!vars)
  BY <1>1, CallImplements DEF Oracle!Next
<1>2. CASE Environment
  BY <1>2, EnvironmentImplements
<1>3. CASE UNCHANGED vars
  <2>1. UNCHANGED <<ttl, now, gateway, changes, past, call>>
    BY <1>3 DEF vars, gatewayVars, cacheVars
  <2>2. answer' = answer /\ Window' = Window
    BY <2>1 DEF answer, Window
  <2> QED
    BY <2>1, <2>2 DEF Oracle!vars
<1> QED
  BY <1>1, <1>2, <1>3 DEF Next

(* Whoever asks IsServiceAvailable may forget the cache, its lock and the    *)
(* HTTP call: every behaviour of the goroutines is one of an oracle that     *)
(* hands out verdicts at most Window ticks old, or failures                  *)
(* (gateway_cache.go:17-74).                                                 *)
THEOREM CacheIsAnOracle == Spec => ImplementsOracle
<1>1. Init => Oracle!Init
  BY OracleInit
<1>2. Inv /\ Inv' /\ [Next]_vars => [Oracle!Next]_(Oracle!vars)
  BY OracleStep
<1> QED
  BY <1>1, <1>2, InvAlways, PTL DEF Spec, ImplementsOracle, Oracle!Spec
=============================================================================
