------------------------------ MODULE Readiness ------------------------------
(***************************************************************************)
(* The Readiness Gate of ChatApplication (is_ready, get_policy_if_ready):  *)
(* request threads share one probe of the agent runtime at a time and a    *)
(* success cached for thirty seconds, under _readiness_lock.  A step is one *)
(* section of that lock, or the end of a wait outside it.  What the runtime *)
(* answers, and the digest of the profile it states, are the port's.       *)
(* The codes a refusal logs are left out, and the Gates that Bootstrap     *)
(* settles are one.                                                        *)
(***************************************************************************)
EXTENDS Naturals

CONSTANTS
    Threads,      \* request threads that ask
    Profiles,     \* values of provider_profile_digest
    MaxFlights,   \* bound: probes ever started
    MaxChanges    \* bound: times the port states another profile

ASSUME ReadinessAssumption ==
    /\ Profiles # {} /\ MaxFlights \in Nat /\ MaxChanges \in Nat

VARIABLES
    configured,   \* the Gates that only Bootstrap can open
    poisoned,     \* _integrity_poisoned
    profile,      \* _provider_profile_digest(_provider_binding), now
    changes,      \* how often it changed
    inflight,     \* _probe_inflight, 0 for None
    flight,       \* every _ProbeFlight
    cache,        \* the flight that filled the success cache, 0 for None
    thread        \* where each call is and what it answered

gateVars == <<configured, poisoned, profile, changes, inflight, flight, cache, thread>>

Flights == 1..MaxFlights

(* `good` is that the probe answered, and for all of Provider, wiki and context;
   `late` that the deadline passed before; `result` what _run_probe made of it;
   `old` that READINESS_CACHE_SECONDS have passed since.  `since`, the changes
   before it set out, is read by HealthyProbeAdmits only.                    *)
NoFlight == [state |-> "none", digest |-> CHOOSE p \in Profiles : TRUE, late |-> FALSE,
             good |-> FALSE, since |-> 0, result |-> FALSE, old |-> FALSE]

GateInit ==
    /\ configured \in BOOLEAN /\ poisoned = FALSE
    /\ profile = NoFlight.digest /\ changes = 0
    /\ inflight = 0 /\ cache = 0
    /\ flight = [k \in Flights |-> NoFlight]
    /\ thread = [t \in Threads |-> [at |-> "idle", on |-> 0]]

GatesPass == configured /\ ~poisoned

(* _cached_success_locked: the key is the profile, not the object.           *)
CachedSuccess ==
    /\ GatesPass /\ cache # 0
    /\ flight[cache].digest = profile /\ ~flight[cache].old

(* Every look at the Gates drops the cache if one of them refuses.           *)
AfterGates == IF GatesPass THEN cache ELSE 0

Answer(t, at) == thread' = [thread EXCEPT ![t] = [at |-> at, on |-> 0]]

-----------------------------------------------------------------------------
(* _probe_readiness, its first section: answer from the Gates or the cache,
   else join the probe in flight, else start one.                            *)
Refused(t) ==
    /\ thread[t].at = "idle" /\ ~GatesPass
    /\ cache' = 0
    /\ Answer(t, "refused")
    /\ UNCHANGED <<configured, poisoned, profile, changes, inflight, flight>>

Cached(t) ==
    /\ thread[t].at = "idle" /\ CachedSuccess
    /\ Answer(t, "ready")
    /\ UNCHANGED <<configured, poisoned, profile, changes, inflight, flight, cache>>

Join(t) ==
    /\ thread[t].at = "idle" /\ GatesPass /\ ~CachedSuccess
    /\ inflight # 0
    /\ thread' = [thread EXCEPT ![t] = [at |-> "waiting", on |-> inflight]]
    /\ UNCHANGED <<configured, poisoned, profile, changes, inflight, flight, cache>>

TakeOff(t) ==
    \E k \in Flights :
        /\ flight[k].state = "none" /\ \A j \in 1..k - 1 : flight[j].state # "none"
        /\ flight' = [flight EXCEPT ![k].state = "air", ![k].digest = profile,
                                   ![k].since = changes]
        /\ inflight' = k /\ cache' = 0
        /\ thread' = [thread EXCEPT ![t] = [at |-> "waiting", on |-> k]]

StartFault_NoCache(t) ==             \* the cached success is not consulted
    /\ thread[t].at = "idle" /\ GatesPass
    /\ inflight = 0
    /\ TakeOff(t)
    /\ UNCHANGED <<configured, poisoned, profile, changes>>
Start(t) ==
    /\ thread[t].at = "idle" /\ GatesPass /\ ~CachedSuccess
    /\ inflight = 0
    /\ TakeOff(t)
    /\ UNCHANGED <<configured, poisoned, profile, changes>>

StartFails(t) ==                     \* the loop takes no more work
    /\ thread[t].at = "idle" /\ GatesPass /\ ~CachedSuccess
    /\ inflight = 0
    /\ cache' = 0
    /\ Answer(t, "refused")
    /\ UNCHANGED <<configured, poisoned, profile, changes, inflight, flight>>

-----------------------------------------------------------------------------
(* _run_probe, once the probe has answered or failed: what it proves, it
   proves for the profile it set out with, if that is still the profile.     *)
Landed(k, good, result) ==
    [flight EXCEPT ![k].state = "landed", ![k].good = good, ![k].result = result]

RunProbeFault_Stays(k) ==            \* a flight nobody can use is left in place
    /\ flight[k].state = "air"
    /\ \E good \in BOOLEAN :
          LET result == /\ good /\ ~flight[k].late /\ GatesPass
                        /\ inflight = k /\ flight[k].digest = profile
          IN  /\ flight' = Landed(k, good, result)
              /\ cache' = IF result THEN k ELSE 0
              /\ inflight' = IF result THEN 0 ELSE inflight
    /\ UNCHANGED <<configured, poisoned, profile, changes, thread>>
RunProbe(k) ==
    /\ flight[k].state = "air"
    /\ \E good \in BOOLEAN :
          LET result == /\ good /\ ~flight[k].late /\ GatesPass
                        /\ inflight = k /\ flight[k].digest = profile
          IN  /\ flight' = Landed(k, good, result)
              /\ cache' = IF result THEN k ELSE 0
    /\ inflight' = IF inflight = k THEN 0 ELSE inflight
    /\ UNCHANGED <<configured, poisoned, profile, changes, thread>>

(* The wait of _probe_readiness ends with the flight's deadline, even if the
   probe answers before the thread runs again, ...                           *)
TimeOut(t) ==
    /\ thread[t].at = "waiting" /\ flight[thread[t].on].late
    /\ Answer(t, "refused")
    /\ UNCHANGED <<configured, poisoned, profile, changes, inflight, flight, cache>>

(* ... or with the probe, whose success must still be the cached one.        *)
WakeFault_Trusts(t) ==               \* the flight's word is enough
    /\ thread[t].at = "waiting" /\ flight[thread[t].on].state = "landed"
    /\ Answer(t, IF flight[thread[t].on].result THEN "ready" ELSE "refused")
    /\ UNCHANGED <<configured, poisoned, profile, changes, inflight, flight, cache>>
Wake(t) ==
    /\ thread[t].at = "waiting" /\ flight[thread[t].on].state = "landed"
    /\ LET result == flight[thread[t].on].result
       IN  /\ Answer(t, IF result /\ CachedSuccess THEN "ready" ELSE "refused")
           /\ cache' = IF result THEN AfterGates ELSE cache
    /\ UNCHANGED <<configured, poisoned, profile, changes, inflight, flight>>

(* get_policy_if_ready looks once more, in a section of its own, ...         *)
TakePolicy(t) ==
    /\ thread[t].at = "ready"
    /\ Answer(t, IF CachedSuccess THEN "policy" ELSE "refused")
    /\ cache' = AfterGates
    /\ UNCHANGED <<configured, poisoned, profile, changes, inflight, flight>>

(* ... is_ready does not, and either returns to its caller.                  *)
Return(t) ==
    /\ thread[t].at \in {"ready", "policy", "refused"}
    /\ Answer(t, "idle")
    /\ UNCHANGED <<configured, poisoned, profile, changes, inflight, flight, cache>>

-----------------------------------------------------------------------------
(* A generation met a ContextIntegrityError: for good, and outside the lock. *)
Poison ==
    /\ ~poisoned /\ poisoned' = TRUE
    /\ UNCHANGED <<configured, profile, changes, inflight, flight, cache, thread>>

ChangeProfile ==
    /\ changes < MaxChanges /\ changes' = changes + 1
    /\ profile' \in Profiles \ {profile}
    /\ UNCHANGED <<configured, poisoned, inflight, flight, cache, thread>>

(* The clock: the deadline of a probe, and the age of a success.             *)
DeadlinePasses(k) ==
    /\ flight[k].state = "air" /\ ~flight[k].late
    /\ flight' = [flight EXCEPT ![k].late = TRUE]
    /\ UNCHANGED <<configured, poisoned, profile, changes, inflight, cache, thread>>

SuccessAges(k) ==
    /\ flight[k].result /\ ~flight[k].old
    /\ flight' = [flight EXCEPT ![k].old = TRUE]
    /\ UNCHANGED <<configured, poisoned, profile, changes, inflight, cache, thread>>

GateNext ==
    \/ \E t \in Threads :
          \/ Refused(t) \/ Cached(t) \/ Join(t) \/ Start(t) \/ StartFails(t)
          \/ TimeOut(t) \/ Wake(t) \/ TakePolicy(t) \/ Return(t)
    \/ \E k \in Flights : RunProbe(k) \/ DeadlinePasses(k) \/ SuccessAges(k)
    \/ Poison \/ ChangeProfile

GateSpec == GateInit /\ [][GateNext]_gateVars

(* The loop bounds the probe with wait_for, the clock runs and a thread that
   may take its step takes it.                                               *)
FairSpec ==
    /\ GateSpec
    /\ \A k \in Flights : WF_gateVars(RunProbe(k)) /\ WF_gateVars(DeadlinePasses(k))
    /\ \A t \in Threads : WF_gateVars(TimeOut(t) \/ Wake(t))

-----------------------------------------------------------------------------
FlightType ==
    [state : {"none", "air", "landed"}, digest : Profiles, late : BOOLEAN,
     good : BOOLEAN, since : 0..MaxChanges, result : BOOLEAN, old : BOOLEAN]
CallType == [at : {"idle", "waiting", "ready", "policy", "refused"}, on : Flights \cup {0}]

(* Every variable keeps its type; one probe is in the air at a time, the one
   new callers are sent to ("never queues behind a generation").             *)
GateTypeOK ==
    /\ {configured, poisoned} \subseteq BOOLEAN
    /\ profile \in Profiles /\ changes \in 0..MaxChanges
    /\ inflight \in Flights \cup {0} /\ cache \in Flights \cup {0}
    /\ flight \in [Flights -> FlightType]
    /\ thread \in [Threads -> CallType]
    /\ \A k \in Flights : flight[k].state = "air" <=> k = inflight

(* What "ready" means when it is said: some probe of the profile bound now has
   answered for Provider, wiki and context, in time and at most thirty seconds
   ago, and no Gate refuses.                                                 *)
Earned(k) ==
    /\ flight[k].good /\ ~flight[k].late /\ ~flight[k].old
    /\ flight[k].digest = profile

ReadyIsEarned ==
    [][\A t \in Threads :
          thread'[t] # thread[t] /\ thread'[t].at \in {"ready", "policy"} =>
              GatesPass /\ \E k \in Flights : Earned(k)]_gateVars

Overtaken(k) ==
    flight[k].late \/ flight[k].old \/ poisoned \/ flight[k].since # changes

(* A probe that answered well and in time is not lost between the loop and the
   threads that wait for it: one of them is refused only if the profile, a Gate
   or the clock moved meanwhile.                                             *)
HealthyProbeAdmits ==
    [][\A t \in Threads :
          thread[t].at = "waiting" /\ thread'[t].at = "refused"
             /\ flight[thread[t].on].good => Overtaken(thread[t].on)]_gateVars

(* No probe, however it ends, leaves the Gate waiting for it: the place of the
   probe in flight always becomes free for the next one.                     *)
FlightsLand == \A k \in Flights : inflight = k ~> inflight # k
=============================================================================
