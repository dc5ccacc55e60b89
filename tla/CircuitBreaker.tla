--------------------------- MODULE CircuitBreaker ----------------------------
(***************************************************************************)
(* The plugin's circuit breaker (Api/CircuitBreaker.php) as Client::request  *)
(* uses it.  Its state is one option that every PHP request reads once and   *)
(* writes back whole, with nothing to serialise them.                        *)
(***************************************************************************)
EXTENDS Integers, FiniteSets

CONSTANTS Callers,   \* PHP requests at the same time
          Threshold, \* THRESHOLD
          Cooldown,  \* COOLDOWN, in ticks
          MaxClock,  \* bound: ticks
          MaxCount   \* bound: failures counted

VARIABLES circuit, \* OPTION_CIRCUIT_STATE
          clock,   \* time(); it starts past the first cooldown
          calls,   \* the requests
          probes,  \* history: when each probe since the circuit opened was let through
          raced    \* history: two requests were under way at once

vars == <<circuit, clock, calls, probes, raced>>

Closed == [failures |-> 0, openedAt |-> 0]
Waiting == [pc |-> "idle"]

Init ==
    /\ circuit = Closed /\ clock = Cooldown
    /\ calls = [r \in Callers |-> Waiting] /\ probes = {} /\ raced = FALSE

Calling(r, pc) == calls[r].pc = pc
Step(r, call) ==
    /\ calls' = [calls EXCEPT ![r] = call]
    /\ raced' = (raced \/ \E q \in Callers \ {r} : ~Calling(q, "idle"))

Tick ==
    /\ clock < MaxClock /\ clock' = clock + 1
    /\ UNCHANGED <<circuit, calls, probes, raced>>

(* allows_request reads the state, and re-stamps it for a probe.            *)
Ask(r) ==
    /\ Calling(r, "idle")
    /\ Step(r, IF circuit.failures < Threshold THEN [pc |-> "call", saw |-> circuit]
               ELSE IF clock - circuit.openedAt < Cooldown THEN Waiting
               ELSE [pc |-> "stamp", saw |-> circuit])
    /\ UNCHANGED <<circuit, clock, probes>>

(* Mutant: the probe leaves the clock alone. *)
Unstamped(saw) == saw
(* Mutant: it is stamped with the end of the cooldown. *)
StampedAhead(saw) == [saw EXCEPT !.openedAt = clock + Cooldown]
Stamped(saw) == [saw EXCEPT !.openedAt = clock]

Probe(r) ==
    /\ Calling(r, "stamp")
    /\ circuit' = Stamped(calls[r].saw)
    /\ Step(r, [pc |-> "call", saw |-> Stamped(calls[r].saw)])
    /\ probes' = probes \cup {<<r, clock>>}
    /\ UNCHANGED clock

(* The last attempt fails, and record_failure reads the state again ...      *)
Fails(r) ==
    /\ Calling(r, "call") /\ Step(r, [pc |-> "count", saw |-> circuit])
    /\ UNCHANGED <<circuit, clock, probes>>

(* Mutant: the circuit is stamped one failure late. *)
CountedLate(saw) ==
    [failures |-> saw.failures + 1,
     openedAt |-> IF saw.failures + 1 > Threshold /\ saw.openedAt = 0
                  THEN clock ELSE saw.openedAt]
Counted(saw) ==
    [failures |-> saw.failures + 1,
     openedAt |-> IF saw.failures + 1 >= Threshold /\ saw.openedAt = 0
                  THEN clock ELSE saw.openedAt]

(* ... and counts it. *)
Count(r) ==
    /\ Calling(r, "count") /\ calls[r].saw.failures < MaxCount
    /\ circuit' = Counted(calls[r].saw) /\ Step(r, Waiting)
    /\ UNCHANGED <<clock, probes>>

(* record_success, by what was read when the request was allowed.           *)
Succeeds(r) ==
    /\ Calling(r, "call") /\ Step(r, Waiting)
    /\ IF calls[r].saw.failures = 0 THEN UNCHANGED <<circuit, probes>>
       ELSE circuit' = Closed /\ probes' = {}
    /\ UNCHANGED clock

(* allow_deliberate_retry: a merchant asks. *)
DeliberateRetry ==
    /\ circuit.failures # 0 /\ circuit' = Closed /\ probes' = {}
    /\ UNCHANGED <<clock, calls, raced>>

Next ==
    \/ Tick \/ DeliberateRetry
    \/ \E r \in Callers : Ask(r) \/ Probe(r) \/ Fails(r) \/ Count(r) \/ Succeeds(r)

Spec == Init /\ [][Next]_vars
-----------------------------------------------------------------------------
(* Every variable has its type. *)
TypeOK ==
    /\ raced \in BOOLEAN
    /\ circuit \in [failures : 0 .. MaxCount, openedAt : 0 .. MaxClock]
    /\ clock \in Cooldown .. MaxClock
    /\ probes \subseteq Callers \X (Cooldown .. MaxClock)

(* An open circuit knows when it opened, whatever requests counted or closed  *)
(* it at the same time: the cooldown it enforces ends ("recovery is           *)
(* automatic and needs no intervention").                                    *)
OpenIsTimed == circuit.failures >= Threshold => circuit.openedAt \in Cooldown .. clock

(* While requests come one at a time, one of them probes an open circuit in   *)
(* each cooldown ("let exactly one probe through by re-stamping the clock").  *)
OneProbeEach ==
    ~raced => \A p, q \in probes : p # q => p[2] - q[2] \notin 1 - Cooldown .. Cooldown - 1

(* Refuted.  The same of requests at once: two that read the state before     *)
(* either has stamped it both go, and a failure counted late puts the old     *)
(* stamp back.                                                               *)
OneProbe ==
    \A p, q \in probes : p # q => p[2] - q[2] \notin 1 - Cooldown .. Cooldown - 1
=============================================================================
