-------------------------- MODULE AvailabilityOracle --------------------------
(***************************************************************************)
(* What ports.ServiceStatusChecker.IsServiceAvailable promises to whoever  *)
(* asks, with no cache, lock or HTTP call in sight: the verdict handed out *)
(* is one the gateway would have given at some moment of the last Window   *)
(* ticks, or a failure of the transport.  GatewayCache implements it.      *)
(***************************************************************************)
EXTENDS GatewayVerdict

CONSTANTS Services, Calls, Answers, Faults,
          MaxTime, MaxChanges   \* bounds

VARIABLES Window,   \* how many ticks old a verdict may be; never changes
          now, gateway, changes, past,
          answer    \* answer[c]: the verdict goroutine c is being handed

vars == <<Window, now, gateway, changes, past, answer>>

Nothing == [service |-> "none"]

Init ==
    /\ Window \in Nat
    /\ now = 1
    /\ gateway \in [Services -> Answers]
    /\ changes = 0
    /\ past = {<<s, 1, gateway[s]>> : s \in Services}
    /\ answer = [c \in Calls |-> Nothing]

RecentVerdicts(s) ==
    {Verdict(p[3]) : p \in {q \in past : q[1] = s /\ now - q[2] <= Window}}
FailureVerdicts == {Failure(text) : text \in Faults \cup {"Client.Timeout"}}

Serve(c) ==
    /\ answer[c] = Nothing
    /\ \E s \in Services : \E v \in RecentVerdicts(s) \cup FailureVerdicts :
          answer' = [answer EXCEPT ![c] = [service |-> s, verdict |-> v]]
    /\ UNCHANGED <<Window, now, gateway, changes, past>>

Take(c) ==
    /\ answer[c] # Nothing
    /\ answer' = [answer EXCEPT ![c] = Nothing]
    /\ UNCHANGED <<Window, now, gateway, changes, past>>

Change(s, a) ==
    /\ changes < MaxChanges
    /\ a # gateway[s]
    /\ gateway' = [gateway EXCEPT ![s] = a]
    /\ changes' = changes + 1
    /\ past' = past \cup {<<s, now, a>>}
    /\ UNCHANGED <<Window, now, answer>>

Tick ==
    /\ now < MaxTime
    /\ \A c \in Calls : answer[c] = Nothing
    /\ now' = now + 1
    /\ past' = past \cup {<<s, now + 1, gateway[s]>> : s \in Services}
    /\ UNCHANGED <<Window, gateway, changes, answer>>

Next ==
    \/ \E c \in Calls : Serve(c) \/ Take(c)
    \/ \E s \in Services, a \in Answers : Change(s, a)
    \/ Tick

Spec == Init /\ [][Next]_vars
=============================================================================
