---------------------------- MODULE GatewayCache ----------------------------
(***************************************************************************)
(* CachedServiceChecker (gateway_cache.go) over ControlGatewayClient, used *)
(* by many request goroutines at once.  IsServiceAvailable is three steps  *)
(* that others interleave with: the section under RLock, the HTTP call     *)
(* without any lock, the section under Lock.  What the first step read     *)
(* (cacheValid) is used by the last one.                                   *)
(*                                                                         *)
(* Time is counted in ticks.  http.Client.Timeout bounds a call by Timeout *)
(* ticks; steps that only touch memory (Store, Discard, Return) are taken  *)
(* within the tick they become possible in.                                *)
(***************************************************************************)
EXTENDS GatewayVerdict

CONSTANTS Services,    \* service names asked about
          Calls,       \* request goroutines
          Answers,     \* the responses the gateway may give
          Faults,      \* the transport's error texts, http.Client.Timeout's excepted
          TTLs,        \* the values config.ControlGateway.CacheTTL may have
          Timeout,     \* http.Client.Timeout
          NoEntry,     \* "not in the map"
          MaxTime,     \* bound: the last tick
          MaxChanges   \* bound: how often operators change a service's state

ASSUME AnswersAssumption == Answers \subseteq Answer
ASSUME FaultsAssumption == Faults \subseteq Text
ASSUME TimesAssumption ==
    TTLs \subseteq Nat /\ Timeout \in Nat \ {0} /\ MaxTime \in Nat /\ MaxChanges \in Nat

VARIABLES
    ttl,          \* c.ttl: fixed when the process starts, 0 disables the cache
    now,          \* the clock; 0 stands for the zero time.Time
    gateway,      \* gateway[s]: what the gateway answers about s now
    changes,      \* how many times it changed
    past,         \* history: <<s, t, a>> if the gateway answered a about s in tick t
    entries,      \* c.entries
    refreshedAt,  \* c.refreshedAt
    call          \* call[c]: where goroutine c is in IsServiceAvailable

cacheVars == <<ttl, entries, refreshedAt>>
gatewayVars == <<gateway, changes, past>>
vars == <<now, gatewayVars, cacheVars, call>>

Entry == [verdict : VerdictType, obs : Nat]
ASSUME NoEntryAssumption == NoEntry \notin Entry

\* A verdict's obs is the tick the gateway decided it in (of a failed call,
\* the tick it failed in): the code does not keep it, the properties need it.
Idle == [pc |-> "idle"]
Asking == [pc : {"calling"}, service : Services, cacheValid : BOOLEAN, started : Nat]
Told == [pc : {"answered", "failed", "returned"}, service : Services,
         cacheValid : BOOLEAN, started : Nat, verdict : VerdictType, obs : Nat]

TypeOK ==
    /\ ttl \in TTLs
    /\ now \in Nat \ {0}
    /\ gateway \in [Services -> Answers]
    /\ changes \in Nat
    /\ past \subseteq Services \X Nat \X Answers
    /\ entries \in [Services -> Entry \cup {NoEntry}]
    /\ refreshedAt \in Nat
    /\ call \in [Calls -> {Idle} \cup Asking \cup Told]

-----------------------------------------------------------------------------
Init ==
    /\ ttl \in TTLs
    /\ now = 1
    /\ gateway \in [Services -> Answers]
    /\ changes = 0
    /\ past = {<<s, 1, gateway[s]>> : s \in Services}
    /\ entries = [s \in Services |-> NoEntry]
    /\ refreshedAt = 0
    /\ call = [c \in Calls |-> Idle]

\* (Mutants: the age test is <= ; the age is not tested.)
CacheValidInclusive == refreshedAt # 0 /\ now - refreshedAt <= ttl
CacheValidForever == refreshedAt # 0

\* !c.refreshedAt.IsZero() && time.Since(c.refreshedAt) < c.ttl
CacheValid == refreshedAt # 0 /\ now - refreshedAt < ttl
Found(s) == entries[s] # NoEntry

\* The RLock section finds a valid entry: IsServiceAvailable returns it.
Hit(c, s) ==
    /\ call[c] = Idle
    /\ ttl # 0
    /\ CacheValid /\ Found(s)
    /\ call' = [call EXCEPT ![c] =
                   [pc |-> "returned", service |-> s, cacheValid |-> TRUE, started |-> now,
                    verdict |-> entries[s].verdict, obs |-> entries[s].obs]]
    /\ UNCHANGED <<now, gatewayVars, cacheVars>>

Ask(c, s, cacheValid) ==
    /\ call[c] = Idle
    /\ call' = [call EXCEPT ![c] = [pc |-> "calling", service |-> s,
                                    cacheValid |-> cacheValid, started |-> now]]
    /\ UNCHANGED <<now, gatewayVars, cacheVars>>

\* It does not: the HTTP call starts, with the cacheValid just read.
Miss(c, s) ==
    /\ ttl # 0
    /\ ~(CacheValid /\ Found(s))
    /\ Ask(c, s, CacheValid)

\* if c.ttl == 0: straight to the gateway.
PassThrough(c, s) == ttl = 0 /\ Ask(c, s, FALSE)

Tell(c, pc, verdict) ==
    call' = [call EXCEPT ![c] = [pc |-> pc, service |-> call[c].service,
                                 cacheValid |-> call[c].cacheValid,
                                 started |-> call[c].started,
                                 verdict |-> verdict, obs |-> now]]

\* The gateway decides; its response is on the way, or already decoded.
GatewayAnswers(c) ==
    /\ call[c].pc = "calling"
    /\ Tell(c, "answered", Verdict(gateway[call[c].service]))
    /\ UNCHANGED <<now, gatewayVars, cacheVars>>

\* The transport fails, before the gateway decided or with the response lost.
TransportFails(c) ==
    /\ call[c].pc \in {"calling", "answered"}
    /\ \E text \in Faults : Tell(c, "failed", Failure(text))
    /\ UNCHANGED <<now, gatewayVars, cacheVars>>

\* (Mutant: an http.Client without a Timeout.)
NoClientTimeout(c) == FALSE /\ TransportFails(c)

\* http.Client.Timeout ends the call.
ClientTimeout(c) ==
    /\ call[c].pc \in {"calling", "answered"}
    /\ now - call[c].started >= Timeout
    /\ Tell(c, "failed", Failure("Client.Timeout"))
    /\ UNCHANGED <<now, gatewayVars, cacheVars>>

HasVerdict(c) == call[c].pc \in {"answered", "failed"}

\* (Mutant: a reset renews refreshedAt and keeps the old entries.)
StoreWithoutClearing(c) ==
    /\ HasVerdict(c)
    /\ ttl # 0
    /\ IsCacheable(call[c].verdict.err)
    /\ entries' = [entries EXCEPT ![call[c].service] =
                      [verdict |-> call[c].verdict, obs |-> call[c].obs]]
    /\ refreshedAt' = IF call[c].cacheValid THEN refreshedAt ELSE now
    /\ call' = [call EXCEPT ![c].pc = "returned"]
    /\ UNCHANGED <<ttl, now, gatewayVars>>

\* The Lock section: reset when the cache was not valid BEFORE the HTTP call.
Store(c) ==
    /\ HasVerdict(c)
    /\ ttl # 0
    /\ IsCacheable(call[c].verdict.err)
    /\ LET entry == [verdict |-> call[c].verdict, obs |-> call[c].obs]
           kept == IF call[c].cacheValid THEN entries ELSE [s \in Services |-> NoEntry]
       IN entries' = [kept EXCEPT ![call[c].service] = entry]
    /\ refreshedAt' = IF call[c].cacheValid THEN refreshedAt ELSE now
    /\ call' = [call EXCEPT ![c].pc = "returned"]
    /\ UNCHANGED <<ttl, now, gatewayVars>>

\* A verdict that may not be kept, or no cache to keep it in.
Discard(c) ==
    /\ HasVerdict(c)
    /\ ttl = 0 \/ ~IsCacheable(call[c].verdict.err)
    /\ call' = [call EXCEPT ![c].pc = "returned"]
    /\ UNCHANGED <<now, gatewayVars, cacheVars>>

\* (Mutant: the goroutine's state is not reset.)
ReturnWithoutReset(c) ==
    /\ call[c].pc = "returned"
    /\ call' = [call EXCEPT ![c].pc = "idle"]
    /\ UNCHANGED <<now, gatewayVars, cacheVars>>

\* The caller has the result.
Return(c) ==
    /\ call[c].pc = "returned"
    /\ call' = [call EXCEPT ![c] = Idle]
    /\ UNCHANGED <<now, gatewayVars, cacheVars>>

-----------------------------------------------------------------------------
\* Operators enable, disable or put a service in maintenance; or the gateway
\* starts to fail.
SetGateway(s, a) ==
    /\ changes < MaxChanges
    /\ a # gateway[s]
    /\ gateway' = [gateway EXCEPT ![s] = a]
    /\ changes' = changes + 1
    /\ past' = past \cup {<<s, now, a>>}
    /\ UNCHANGED <<now, cacheVars, call>>

\* Time passes, but not over a step on memory nor over http.Client.Timeout.
MayWait(c) ==
    /\ call[c].pc \notin {"failed", "returned"}
    /\ call[c].pc \in {"calling", "answered"} => now - call[c].started < Timeout
Tick ==
    /\ now < MaxTime
    /\ \A c \in Calls : MayWait(c)
    /\ now' = now + 1
    /\ past' = past \cup {<<s, now + 1, gateway[s]>> : s \in Services}
    /\ UNCHANGED <<gateway, changes, cacheVars, call>>

Lookup(c) == \E s \in Services : Hit(c, s) \/ Miss(c, s) \/ PassThrough(c, s)
Advance(c) ==
    \/ GatewayAnswers(c)
    \/ TransportFails(c)
    \/ ClientTimeout(c)
    \/ Store(c)
    \/ Discard(c)
Environment ==
    \/ \E s \in Services, a \in Answers : SetGateway(s, a)
    \/ Tick
Next ==
    \/ \E c \in Calls : Lookup(c) \/ Advance(c) \/ Return(c)
    \/ Environment

Spec == Init /\ [][Next]_vars

-----------------------------------------------------------------------------
\* How old a served verdict may be: an entry is served for less than TTL after
\* the reset that preceded its storing, and is stored at most Timeout after the
\* gateway decided it.
Window == IF ttl = 0 THEN Timeout ELSE ttl + Timeout - 1

\* No verdict out of thin air and none too old: what IsServiceAvailable returns
\* is what the gateway decided at some moment of the last TTL + Timeout
\* (gateway_cache.go:44-74), or the failure of this very call.
ServedIsRecent ==
    \A c \in Calls : call[c].pc = "returned" =>
        \/ /\ now - call[c].obs <= Window
           /\ \E a \in Answers : /\ <<call[c].service, call[c].obs, a>> \in past
                                 /\ call[c].verdict = Verdict(a)
        \/ /\ call[c].obs >= call[c].started
           /\ \E text \in Faults \cup {"Client.Timeout"} : call[c].verdict = Failure(text)

\* gateway_cache.go:81-83: INTERNAL_ERROR and infrastructure errors are
\* transient, so no request is ever answered with one another request met.
TransientNeverShared ==
    \A c \in Calls :
        /\ call[c].pc = "returned"
        /\ call[c].verdict.err # NoError
        /\ call[c].verdict.err.code # "SERVICE_UNAVAILABLE"
        => call[c].obs >= call[c].started

\* "Todos los valores comparten un unico TTL global: cuando vence, se limpia
\* todo el cache" (gateway_cache.go:18-19): an entry that is still being
\* served is not thrown away by a request about another service.
ClearedOnlyWhenExpired ==
    [][\A s \in Services : CacheValid /\ Found(s) => entries'[s] # NoEntry]_vars

-----------------------------------------------------------------------------
(* The promise the rest of the BFF relies on, and what stands for it here.   *)
answer == [c \in Calls |->
             IF call[c].pc = "returned"
             THEN [service |-> call[c].service, verdict |-> call[c].verdict]
             ELSE [service |-> "none"]]

Oracle == INSTANCE AvailabilityOracle

\* Cache, locks and HTTP calls together are an oracle whose verdicts are at most
\* Window ticks old (gateway_cache.go:17-25).
ImplementsOracle == Oracle!Spec
=============================================================================
