-------------------------- MODULE Admission_proofs --------------------------
(***************************************************************************)
(* What stands between a request and a Run, for every value of the limits: *)
(* the capacity ledger, whose counters are the populations they stand for  *)
(* and whose ceilings hold of the Runs themselves; the Readiness Gate,     *)
(* which says ready when a probe has shown it; and the settings the limits *)
(* come from.                                                              *)
(***************************************************************************)
EXTENDS CapacityLedger, Readiness, Bootstrap, FiniteSetTheorems, TLAPS

(* TypeOK, the counters and the finiteness the counting needs; Held is counted
   on its own so that the global ceiling needs no sum over disjoint sets.     *)
LedgerInv ==
    /\ TypeOK
    /\ IsFiniteSet(issued)
    /\ LedgerMatchesLeases
    /\ Cardinality(Held) = activeTotal + queuedTotal

LEMMA Populations ==
    ASSUME IsFiniteSet(issued), TypeOK
    PROVE  /\ IsFiniteSet(Queued) /\ IsFiniteSet(Active) /\ IsFiniteSet(Held)
           /\ \A c : IsFiniteSet(HeldBy(c))
<1>1. /\ Queued \subseteq issued /\ Active \subseteq issued /\ Held \subseteq issued
      /\ \A c : HeldBy(c) \subseteq issued
  BY DEF TypeOK, Queued, Active, Held, HeldBy
<1> QED  BY <1>1, FS_Subset

(* How the four populations move under each method.                          *)
LEMMA ReservePopulations ==
    ASSUME NEW l \in Leases, NEW elapsed \in BOOLEAN, ReserveRun(l, elapsed), TypeOK
    PROVE  /\ l \notin Queued /\ l \notin Held
           /\ Queued' = Queued \cup {l} /\ Active' = Active /\ Held' = Held \cup {l}
           /\ \A c : HeldBy(c)' = IF Conv[l] = c THEN HeldBy(c) \cup {l} ELSE HeldBy(c)
BY DEF ReserveRun, TypeOK, Queued, Active, Held, HeldBy

LEMMA StartPopulations ==
    ASSUME NEW l \in Leases, StartRun(l), TypeOK
    PROVE  /\ l \in Queued /\ l \notin Active
           /\ Queued' = Queued \ {l} /\ Active' = Active \cup {l} /\ Held' = Held
           /\ \A c : HeldBy(c)' = HeldBy(c)
BY DEF StartRun, TypeOK, Queued, Active, Held, HeldBy

LEMMA ReleasePopulations ==
    ASSUME NEW l \in Leases, ReleaseRun(l), TypeOK
    PROVE  /\ l \in Held /\ Held' = Held \ {l}
           /\ l \in started => l \in Active /\ l \notin Queued
           /\ l \notin started => l \in Queued /\ l \notin Active
           /\ Queued' = Queued \ {l} /\ Active' = Active \ {l}
           /\ \A c : HeldBy(c)' = IF Conv[l] = c THEN HeldBy(c) \ {l} ELSE HeldBy(c)
BY DEF ReleaseRun, TypeOK, Queued, Active, Held, HeldBy

LEMMA DropPopulations ==
    ASSUME NEW l \in Leases, DropLease(l), TypeOK
    PROVE  /\ Queued' = Queued /\ Active' = Active /\ Held' = Held
           /\ \A c : HeldBy(c)' = HeldBy(c)
BY DEF DropLease, TypeOK, Queued, Active, Held, HeldBy

LEMMA LedgerInit == Init => LedgerInv
<1> SUFFICES ASSUME Init PROVE LedgerInv
  OBVIOUS
<1>1. Queued = {} /\ Active = {} /\ Held = {} /\ \A c : HeldBy(c) = {}
  BY DEF Init, Queued, Active, Held, HeldBy
<1> QED
  BY <1>1, FS_EmptySet DEF Init, LedgerInv, TypeOK, LedgerMatchesLeases

LEMMA LedgerStep == LedgerInv /\ [Next]_vars => LedgerInv'
<1> SUFFICES ASSUME LedgerInv, [Next]_vars PROVE LedgerInv'
  OBVIOUS
<1> USE LimitsAssumption
<1>0. /\ TypeOK /\ IsFiniteSet(Queued) /\ IsFiniteSet(Active) /\ IsFiniteSet(Held)
      /\ \A c : IsFiniteSet(HeldBy(c))
      /\ \A c : Cardinality(HeldBy(c)) \in Nat
      /\ Cardinality(Queued) \in Nat /\ Cardinality(Active) \in Nat
      /\ Cardinality(Held) \in Nat
  BY Populations, FS_CardinalityType DEF LedgerInv
<1>1. ASSUME NEW l \in Leases, NEW elapsed \in BOOLEAN, ReserveRun(l, elapsed)
      PROVE  LedgerInv'
  <2>1. /\ Cardinality(Queued') = Cardinality(Queued) + 1
        /\ Cardinality(Held') = Cardinality(Held) + 1
        /\ Cardinality(Active') = Cardinality(Active)
    BY <1>0, <1>1, ReservePopulations, FS_AddElement
  <2>2. \A c \in Conversations : activeRuns'[c] = Cardinality(HeldBy(c)')
    <3> TAKE c \in Conversations
    <3>1. l \notin HeldBy(c)
      BY <1>0, <1>1, ReservePopulations DEF HeldBy
    <3>2. CASE Conv[l] = c
      <4>1. HeldBy(c)' = HeldBy(c) \cup {l}
        BY <1>0, <1>1, <3>2, ReservePopulations
      <4>2. Cardinality(HeldBy(c)') = Cardinality(HeldBy(c)) + 1
        BY <1>0, <3>1, <4>1, FS_AddElement
      <4> QED
        BY <1>1, <3>2, <4>2 DEF ReserveRun, LedgerInv, LedgerMatchesLeases, TypeOK
    <3>3. CASE Conv[l] # c
      BY <1>0, <1>1, <3>3, ReservePopulations
         DEF ReserveRun, LedgerInv, LedgerMatchesLeases, TypeOK
    <3> QED  BY <3>2, <3>3
  <2>3. IsFiniteSet(issued')
    BY <1>1, FS_AddElement DEF ReserveRun, LedgerInv
  <2>4. TypeOK'
    BY <1>0, <1>1 DEF ReserveRun, TypeOK, RolledSpend
  <2> QED
    BY <1>0, <1>1, <2>1, <2>2, <2>3, <2>4
       DEF LedgerInv, LedgerMatchesLeases, ReserveRun, TypeOK
<1>2. ASSUME NEW c \in Conversations, NEW elapsed \in BOOLEAN, RefuseRun(c, elapsed)
      PROVE  LedgerInv'
  BY <1>2 DEF LedgerInv, RefuseRun, RolledSpend, leaseVars, TypeOK, LedgerMatchesLeases,
              Queued, Active, Held, HeldBy
<1>3. ASSUME NEW l \in Leases, StartRun(l)
      PROVE  LedgerInv'
  <2>1. /\ Cardinality(Queued') = Cardinality(Queued) - 1
        /\ Cardinality(Active') = Cardinality(Active) + 1
    BY <1>0, <1>3, StartPopulations, FS_AddElement, FS_RemoveElement
  <2>2. Cardinality(Queued) # 0
    BY <1>0, <1>3, StartPopulations, FS_EmptySet
  <2>3. TypeOK'
    BY <1>0, <1>3, <2>2 DEF StartRun, TypeOK, LedgerInv, LedgerMatchesLeases, Queued
  <2> QED
    BY <1>0, <1>3, <2>1, <2>3, StartPopulations
       DEF LedgerInv, LedgerMatchesLeases, StartRun, TypeOK
<1>4. ASSUME NEW l \in Leases, ReleaseRun(l)
      PROVE  LedgerInv'
  <2>1. Cardinality(Held') = Cardinality(Held) - 1
    BY <1>0, <1>4, ReleasePopulations, FS_RemoveElement
  <2>2. \A c \in Conversations : /\ activeRuns'[c] = Cardinality(HeldBy(c)')
                                 /\ activeRuns'[c] \in Nat
    <3> TAKE c \in Conversations
    <3>1. CASE Conv[l] = c
      <4>1. l \in HeldBy(c)
        BY <1>0, <1>4, <3>1, ReleasePopulations DEF HeldBy
      <4>2. /\ Cardinality(HeldBy(c)') = Cardinality(HeldBy(c)) - 1
            /\ Cardinality(HeldBy(c)') \in Nat
        BY <1>0, <1>4, <3>1, <4>1, ReleasePopulations, FS_RemoveElement, FS_CardinalityType
      <4> QED
        BY <1>4, <3>1, <4>2 DEF ReleaseRun, LedgerInv, LedgerMatchesLeases, TypeOK
    <3>2. CASE Conv[l] # c
      BY <1>0, <1>4, <3>2, ReleasePopulations
         DEF ReleaseRun, LedgerInv, LedgerMatchesLeases, TypeOK
    <3> QED  BY <3>1, <3>2
  <2>3. activeRuns' \in [Conversations -> Nat]
    BY <1>0, <1>4, <2>2 DEF ReleaseRun, TypeOK
  <2>4. CASE l \in started
    <3>0. l \in Active /\ Active' = Active \ {l} /\ Queued' = Queued
      BY <1>0, <1>4, <2>4, ReleasePopulations
    <3>1. /\ Cardinality(Active') = Cardinality(Active) - 1 /\ Cardinality(Active') \in Nat
          /\ Queued' = Queued
      BY <1>0, <3>0, FS_RemoveElement, FS_CardinalityType
    <3> QED
      BY <1>0, <1>4, <2>1, <2>2, <2>3, <2>4, <3>1
         DEF ReleaseRun, LedgerInv, LedgerMatchesLeases, TypeOK, Held
  <2>5. CASE l \notin started
    <3>0. l \in Queued /\ Queued' = Queued \ {l} /\ Active' = Active
      BY <1>0, <1>4, <2>5, ReleasePopulations
    <3>1. /\ Cardinality(Queued') = Cardinality(Queued) - 1 /\ Cardinality(Queued') \in Nat
          /\ Active' = Active
      BY <1>0, <3>0, FS_RemoveElement, FS_CardinalityType
    <3> QED
      BY <1>0, <1>4, <2>1, <2>2, <2>3, <2>5, <3>1
         DEF ReleaseRun, LedgerInv, LedgerMatchesLeases, TypeOK, Held
  <2> QED  BY <2>4, <2>5
<1>5. ASSUME NEW l \in Leases, DropLease(l)
      PROVE  LedgerInv'
  <2>1. IsFiniteSet(issued')
    BY <1>5, FS_Subset DEF DropLease, LedgerInv
  <2>2. TypeOK'
    BY <1>0, <1>5 DEF DropLease, TypeOK, counterVars
  <2> QED
    BY <1>0, <1>5, <2>1, <2>2, DropPopulations
       DEF DropLease, LedgerInv, LedgerMatchesLeases, counterVars
<1>6. CASE UNCHANGED vars
  BY <1>6 DEF LedgerInv, vars, leaseVars, counterVars, TypeOK, LedgerMatchesLeases,
              Queued, Active, Held, HeldBy
<1> QED
  BY <1>1, <1>2, <1>3, <1>4, <1>5, <1>6 DEF Next

-----------------------------------------------------------------------------
(* The counters are the populations of leases they stand for, forever.       *)
THEOREM LedgerConsistent == Spec => [](TypeOK /\ LedgerMatchesLeases)
<1>1. Init => LedgerInv
  BY LedgerInit
<1>2. LedgerInv /\ [Next]_vars => LedgerInv'
  BY LedgerStep
<1>3. LedgerInv => TypeOK /\ LedgerMatchesLeases
  BY DEF LedgerInv
<1> QED  BY <1>1, <1>2, <1>3, PTL DEF Spec

LEMMA LedgerAlways == Spec => []LedgerInv
BY LedgerInit, LedgerStep, PTL DEF Spec

(* The ceilings as the code tests them, on its own counters.                 *)
CeilingInv ==
    /\ activeTotal + queuedTotal <= MaxGlobal
    /\ queuedTotal <= MaxQueued
    /\ \A c \in Conversations : activeRuns[c] <= MaxSession
    /\ SpendWithinLimit
    /\ ProviderOvershootBounded

LEMMA CeilingInit == Init => CeilingInv
BY LimitsAssumption DEF Init, CeilingInv, SpendWithinLimit, ProviderOvershootBounded

LEMMA CeilingStep == LedgerInv /\ LedgerInv' /\ CeilingInv /\ [Next]_vars => CeilingInv'
<1> SUFFICES ASSUME LedgerInv, LedgerInv', CeilingInv, [Next]_vars PROVE CeilingInv'
  OBVIOUS
<1> USE LimitsAssumption DEF CeilingInv, SpendWithinLimit, ProviderOvershootBounded
<1>0. TypeOK /\ TypeOK'
  BY DEF LedgerInv
<1>1. ASSUME NEW l \in Leases, NEW elapsed \in BOOLEAN, ReserveRun(l, elapsed)
      PROVE  CeilingInv'
  BY <1>0, <1>1 DEF ReserveRun, Fits, RolledSpend, TypeOK
<1>2. ASSUME NEW c \in Conversations, NEW elapsed \in BOOLEAN, RefuseRun(c, elapsed)
      PROVE  CeilingInv'
  BY <1>0, <1>2 DEF RefuseRun, RolledSpend, leaseVars, TypeOK
<1>3. ASSUME NEW l \in Leases, StartRun(l)
      PROVE  CeilingInv'
  BY <1>0, <1>3 DEF StartRun, TypeOK
<1>4. ASSUME NEW l \in Leases, ReleaseRun(l)
      PROVE  CeilingInv'
  <2>1. \A c \in Conversations : activeRuns'[c] <= activeRuns[c]
    BY <1>0, <1>4 DEF ReleaseRun, TypeOK
  <2> QED  BY <1>0, <1>4, <2>1 DEF ReleaseRun, TypeOK
<1>5. ASSUME NEW l \in Leases, DropLease(l)
      PROVE  CeilingInv'
  BY <1>5 DEF DropLease, counterVars
<1>6. CASE UNCHANGED vars
  BY <1>6 DEF vars, counterVars
<1> QED
  BY <1>1, <1>2, <1>3, <1>4, <1>5, <1>6 DEF Next

LEMMA CeilingAlways == Spec => []CeilingInv
<1>1. Spec => []LedgerInv
  BY LedgerAlways
<1> QED  BY <1>1, CeilingInit, CeilingStep, PTL DEF Spec

(* No ceiling on Runs is ever passed, counted on the Runs themselves.        *)
THEOREM RunCeilings == Spec => []RunCeilingsHold
<1>1. LedgerInv /\ CeilingInv => RunCeilingsHold
  BY DEF LedgerInv, CeilingInv, LedgerMatchesLeases, RunCeilingsHold
<1> QED  BY <1>1, LedgerAlways, CeilingAlways, PTL

(* The breaker: charged and promised units together stay within the limit.   *)
THEOREM SpendBreaker == Spec => []SpendWithinLimit
<1>1. CeilingInv => SpendWithinLimit
  BY DEF CeilingInv
<1> QED  BY <1>1, CeilingAlways, PTL

(* How far past MAX_PROVIDER_CONCURRENCY the process can go, at worst.       *)
THEOREM ProviderOvershoot == Spec => []ProviderOvershootBounded
<1>1. CeilingInv => ProviderOvershootBounded
  BY DEF CeilingInv
<1> QED  BY <1>1, CeilingAlways, PTL

(* Every step of the ledger is a step of RunSlots or leaves its view alone:
   deciding on the counters is deciding on the Runs.                         *)
THEOREM LedgerImplementsSlots == Spec => ImplementsRunSlots
<1>1. Init => Slots!Init
  BY DEF Init, Slots!Init, Queued, Active
<1>2. LedgerInv /\ [Next]_vars => [Slots!Next]_(Slots!slots)
  <2> SUFFICES ASSUME LedgerInv, [Next]_vars PROVE [Slots!Next]_(Slots!slots)
    OBVIOUS
  <2>0. TypeOK
    BY DEF LedgerInv
  <2>h. Held = Queued \cup Active
    BY <2>0 DEF TypeOK, Held, Queued, Active
  <2>1. ASSUME NEW l \in Leases, NEW elapsed \in BOOLEAN, ReserveRun(l, elapsed)
        PROVE  Slots!Admit(l)
    <3>1. Slots!Sharing(l) = HeldBy(Conv[l])
      BY <2>h DEF Slots!Sharing, HeldBy
    <3>2. Conv[l] \in Conversations
      BY LimitsAssumption
    <3>3. \A S : Slots!Cardinality(S) = Cardinality(S)
      BY DEF Slots!Cardinality, Cardinality
    <3> QED
      BY <2>0, <2>1, <2>h, <3>1, <3>2, <3>3, ReservePopulations
         DEF Slots!Admit, ReserveRun, Fits, LedgerInv, LedgerMatchesLeases
  <2>2. ASSUME NEW c \in Conversations, NEW elapsed \in BOOLEAN, RefuseRun(c, elapsed)
        PROVE  UNCHANGED Slots!slots
    BY <2>2 DEF RefuseRun, leaseVars, Slots!slots, Queued, Active
  <2>3. ASSUME NEW l \in Leases, StartRun(l)
        PROVE  Slots!Begin(l)
    BY <2>0, <2>3, StartPopulations DEF Slots!Begin
  <2>4. ASSUME NEW l \in Leases, ReleaseRun(l)
        PROVE  Slots!End(l)
    BY <2>0, <2>4, <2>h, ReleasePopulations DEF Slots!End
  <2>5. ASSUME NEW l \in Leases, DropLease(l)
        PROVE  UNCHANGED Slots!slots
    BY <2>0, <2>5, DropPopulations DEF Slots!slots
  <2>6. CASE UNCHANGED vars
    BY <2>6 DEF vars, leaseVars, Slots!slots, Queued, Active
  <2> QED
    BY <2>1, <2>2, <2>3, <2>4, <2>5, <2>6 DEF Next, Slots!Next
<1> QED  BY <1>1, <1>2, LedgerAlways, PTL DEF Spec, ImplementsRunSlots, Slots!Spec

-----------------------------------------------------------------------------
(* The Readiness Gate.                                                       *)
(* A flight set out behind open Gates for the profile of that moment; one that
   answered well has filled the cache, and the cache has it until something
   moves.                                                                    *)
FlightInv(k) ==
    /\ flight[k].state # "none" =>
          /\ configured /\ flight[k].since <= changes
          /\ flight[k].since = changes => flight[k].digest = profile
    /\ flight[k].result => flight[k].good /\ ~flight[k].late
    /\ flight[k].good => flight[k].state = "landed" /\ (flight[k].result \/ Overtaken(k))
    /\ flight[k].result => cache = k \/ Overtaken(k)

(* The cache holds a success, and is empty while a probe is in the air; who
   waits, waits for a probe that took off.                                   *)
GateInv ==
    /\ GateTypeOK
    /\ \A k \in Flights : FlightInv(k)
    /\ cache # 0 => flight[cache].result
    /\ inflight # 0 => cache = 0
    /\ \A t \in Threads : thread[t].at = "waiting" =>
          thread[t].on \in Flights /\ flight[thread[t].on].state # "none"

LEMMA GateStarts == GateInit => GateInv
<1> SUFFICES ASSUME GateInit PROVE GateInv
  OBVIOUS
<1>1. (CHOOSE p \in Profiles : TRUE) \in Profiles
  BY ReadinessAssumption
<1>2. GateTypeOK
  <2> DEFINE p == CHOOSE q \in Profiles : TRUE
  <2>1. p \in Profiles /\ 0 \in 0..MaxChanges
    BY <1>1, ReadinessAssumption
  <2>2. /\ profile = p /\ changes = 0 /\ inflight = 0 /\ cache = 0
        /\ configured \in BOOLEAN /\ poisoned = FALSE
        /\ thread = [t \in Threads |-> [at |-> "idle", on |-> 0]]
        /\ flight = [k \in Flights |->
               [state |-> "none", digest |-> p, late |-> FALSE, good |-> FALSE, since |-> 0,
                result |-> FALSE, old |-> FALSE]]
    BY DEF GateInit, NoFlight
  <2> HIDE DEF p
  <2>3. [state |-> "none", digest |-> p, late |-> FALSE, good |-> FALSE, since |-> 0,
         result |-> FALSE, old |-> FALSE] \in FlightType
    BY <2>1 DEF FlightType
  <2>4. \A k \in Flights : k # 0 /\ flight[k].state # "air"
    BY <2>2 DEF Flights
  <2> QED  BY <2>1, <2>2, <2>3, <2>4 DEF GateTypeOK, CallType
<1> QED
  BY <1>2 DEF GateInit, GateInv, FlightInv, NoFlight, Flights

(* A step that leaves the flights, the Gates and the profile alone may answer
   or drop the cache, the latter only when it is of no use any more.          *)
LEMMA CallStep ==
    ASSUME GateInv, thread' \in [Threads -> CallType],
           \A u \in Threads : thread'[u] # thread[u] /\ thread'[u].at = "waiting" =>
                                  thread'[u].on # 0 /\ thread'[u].on = inflight,
           cache' = cache \/ (cache' = 0 /\ ~CachedSuccess),
           UNCHANGED <<configured, poisoned, profile, changes, inflight, flight>>
    PROVE  GateInv'
<1>1. GateTypeOK'
  BY DEF GateInv, GateTypeOK, Flights
<1>2. ASSUME NEW k \in Flights PROVE FlightInv(k)'
  <2>1. cache = k /\ cache' = 0 => Overtaken(k)
    BY DEF GateInv, FlightInv, CachedSuccess, GatesPass, Overtaken, GateTypeOK, Flights
  <2> QED  BY <2>1 DEF GateInv, FlightInv, Overtaken, Flights
<1>3. ASSUME NEW u \in Threads, thread'[u].at = "waiting"
      PROVE  thread'[u].on \in Flights /\ flight'[thread'[u].on].state # "none"
  BY <1>3 DEF GateInv, GateTypeOK, Flights
<1> QED  BY <1>1, <1>2, <1>3 DEF GateInv

LEMMA GateStep == GateInv /\ [GateNext]_gateVars => GateInv'
<1> SUFFICES ASSUME GateInv, [GateNext]_gateVars PROVE GateInv'
  OBVIOUS
<1> USE ReadinessAssumption
<1>1. ASSUME NEW t \in Threads,
             \/ Refused(t) \/ Cached(t) \/ Join(t) \/ StartFails(t)
             \/ TimeOut(t) \/ Wake(t) \/ TakePolicy(t) \/ Return(t)
      PROVE  GateInv'
  <2>1. \A u \in Threads : thread'[u] # thread[u] /\ thread'[u].at = "waiting" =>
                               thread'[u].on # 0 /\ thread'[u].on = inflight
    BY <1>1 DEF Refused, Cached, Join, StartFails, TimeOut, Wake, TakePolicy, Return, Answer,
                GateInv, GateTypeOK
  <2>2. cache' = cache \/ (cache' = 0 /\ ~CachedSuccess)
    BY <1>1 DEF Refused, Cached, Join, StartFails, TimeOut, Wake, TakePolicy, Return,
                AfterGates, CachedSuccess
  <2>3. thread' \in [Threads -> CallType]
    BY <1>1 DEF Refused, Cached, Join, StartFails, TimeOut, Wake, TakePolicy, Return, Answer,
                GateInv, GateTypeOK, CallType
  <2>4. UNCHANGED <<configured, poisoned, profile, changes, inflight, flight>>
    BY <1>1 DEF Refused, Cached, Join, StartFails, TimeOut, Wake, TakePolicy, Return
  <2> QED  BY <2>1, <2>2, <2>3, <2>4, CallStep
<1>2. ASSUME NEW t \in Threads, Start(t) PROVE GateInv'
  <2>1. PICK k \in Flights :
            /\ flight[k].state = "none"
            /\ flight' = [flight EXCEPT ![k].state = "air", ![k].digest = profile,
                                       ![k].since = changes]
            /\ inflight' = k /\ cache' = 0
            /\ thread' = [thread EXCEPT ![t] = [at |-> "waiting", on |-> k]]
    BY <1>2 DEF Start, TakeOff
  <2>2. /\ GatesPass /\ ~CachedSuccess /\ inflight = 0
        /\ UNCHANGED <<configured, poisoned, profile, changes>>
    BY <1>2 DEF Start
  <2>3. \A j \in Flights : flight[j].state # "air"
    BY <2>2 DEF GateInv, GateTypeOK, Flights
  <2>4. GateTypeOK'
    <3>1. flight' \in [Flights -> FlightType]
      <4>1. [flight[k] EXCEPT !.state = "air", !.digest = profile, !.since = changes]
               \in FlightType
        BY DEF GateInv, GateTypeOK, FlightType
      <4> QED  BY <4>1, <2>1 DEF GateInv, GateTypeOK
    <3>2. thread' \in [Threads -> CallType]
      BY <2>1 DEF GateInv, GateTypeOK, CallType
    <3>3. \A j \in Flights : flight'[j].state = "air" <=> j = inflight'
      BY <2>1, <2>3 DEF GateInv, GateTypeOK
    <3> QED  BY <2>1, <2>2, <3>1, <3>2, <3>3 DEF GateInv, GateTypeOK
  <2>5. ASSUME NEW j \in Flights PROVE FlightInv(j)'
    <3>1. cache = j => Overtaken(j)
      BY <2>2 DEF GateInv, FlightInv, CachedSuccess, GatesPass, Overtaken, GateTypeOK, Flights
    <3>2. CASE j = k
      BY <2>1, <2>2, <3>2 DEF GateInv, FlightInv, GateTypeOK, GatesPass, Overtaken, Flights
    <3>3. CASE j # k
      <4>1. flight'[j] = flight[j]
        BY <2>1, <3>3 DEF GateInv, GateTypeOK
      <4> QED  BY <4>1, <3>1, <2>1, <2>2 DEF GateInv, FlightInv, Overtaken
    <3> QED  BY <3>2, <3>3
  <2>6. \A u \in Threads : thread'[u].at = "waiting" =>
            thread'[u].on \in Flights /\ flight'[thread'[u].on].state # "none"
    BY <2>1 DEF GateInv, GateTypeOK
  <2> QED  BY <2>1, <2>4, <2>5, <2>6 DEF GateInv
<1>3. ASSUME NEW k \in Flights, RunProbe(k) PROVE GateInv'
  <2>1. PICK good \in BOOLEAN :
            LET result == good /\ ~flight[k].late /\ GatesPass
                            /\ inflight = k /\ flight[k].digest = profile
            IN  flight' = Landed(k, good, result) /\ cache' = IF result THEN k ELSE 0
    BY <1>3 DEF RunProbe
  <2> DEFINE result == good /\ ~flight[k].late /\ GatesPass
                         /\ inflight = k /\ flight[k].digest = profile
  <2>2. /\ flight' = [flight EXCEPT ![k].state = "landed", ![k].good = good,
                                   ![k].result = result]
        /\ cache' = IF result THEN k ELSE 0
    BY <2>1 DEF Landed
  <2>3. /\ flight[k].state = "air" /\ inflight = k /\ inflight' = 0 /\ cache = 0
        /\ UNCHANGED <<configured, poisoned, profile, changes, thread>>
    BY <1>3 DEF RunProbe, GateInv, GateTypeOK, Flights
  <2>4. result \in BOOLEAN
    OBVIOUS
  <2>5. GateTypeOK'
    <3> HIDE DEF result
    <3>1. flight' \in [Flights -> FlightType]
      <4>1. [flight[k] EXCEPT !.state = "landed", !.good = good, !.result = result]
               \in FlightType
        BY <2>4 DEF GateInv, GateTypeOK, FlightType
      <4> QED  BY <4>1, <2>2 DEF GateInv, GateTypeOK
    <3>2. \A j \in Flights : flight'[j].state # "air"
      BY <2>2, <2>3 DEF GateInv, GateTypeOK
    <3>3. 0 \notin Flights
      BY DEF Flights
    <3> QED  BY <2>2, <2>3, <3>1, <3>2, <3>3 DEF GateInv, GateTypeOK
  <2>6. ASSUME NEW j \in Flights PROVE FlightInv(j)'
    <3>1. CASE j = k
      <4>1. flight'[k] = [flight[k] EXCEPT !.state = "landed", !.good = good, !.result = result]
        <5> HIDE DEF result
        <5> QED  BY <2>2 DEF GateInv, GateTypeOK
      <4>2. good => result \/ Overtaken(k)
        BY <2>3 DEF GateInv, FlightInv, GatesPass, Overtaken
      <4>3. result => good /\ ~flight[k].late
        OBVIOUS
      <4> HIDE DEF result
      <4> QED  BY <3>1, <4>1, <4>2, <4>3, <2>2, <2>3, <2>4 DEF GateInv, GateTypeOK, FlightInv, Overtaken
    <3>2. CASE j # k
      <4>1. flight'[j] = flight[j]
        <5> HIDE DEF result
        <5> QED  BY <2>2, <3>2 DEF GateInv, GateTypeOK
      <4> HIDE DEF result
      <4> QED  BY <4>1, <2>2, <2>3 DEF GateInv, FlightInv, Overtaken, Flights
    <3> QED  BY <3>1, <3>2
  <2>7. /\ cache' # 0 => flight'[cache'].result
        /\ \A u \in Threads : thread'[u].at = "waiting" =>
              thread'[u].on \in Flights /\ flight'[thread'[u].on].state # "none"
    <3> HIDE DEF result
    <3> QED  BY <2>2, <2>3 DEF GateInv, GateTypeOK, Flights
  <2> QED  BY <2>3, <2>5, <2>6, <2>7 DEF GateInv
<1>4. ASSUME NEW k \in Flights, DeadlinePasses(k) \/ SuccessAges(k) PROVE GateInv'
  <2>1. /\ \/ flight' = [flight EXCEPT ![k].late = TRUE] /\ flight[k].state = "air"
           \/ flight' = [flight EXCEPT ![k].old = TRUE]
        /\ UNCHANGED <<configured, poisoned, profile, changes, inflight, cache, thread>>
    BY <1>4 DEF DeadlinePasses, SuccessAges
  <2>2. GateTypeOK'
    <3>1. [flight[k] EXCEPT !.late = TRUE] \in FlightType
          /\ [flight[k] EXCEPT !.old = TRUE] \in FlightType
      BY DEF GateInv, GateTypeOK, FlightType
    <3>2. flight' \in [Flights -> FlightType]
      BY <2>1, <3>1 DEF GateInv, GateTypeOK
    <3>3. \A j \in Flights : flight'[j].state = flight[j].state
      BY <2>1 DEF GateInv, GateTypeOK, FlightType
    <3> QED  BY <2>1, <3>2, <3>3 DEF GateInv, GateTypeOK
  <2>3. ASSUME NEW j \in Flights PROVE FlightInv(j)'
    BY <2>1 DEF GateInv, GateTypeOK, FlightType, FlightInv, Overtaken
  <2>4. \A u \in Threads : thread'[u].at = "waiting" =>
            thread'[u].on \in Flights /\ flight'[thread'[u].on].state # "none"
    BY <2>1 DEF GateInv, GateTypeOK, FlightType
  <2>5. cache' # 0 => flight'[cache'].result
    BY <2>1 DEF GateInv, GateTypeOK, FlightType
  <2> QED  BY <2>1, <2>2, <2>3, <2>4, <2>5 DEF GateInv
<1>5. CASE Poison
  BY <1>5 DEF Poison, GateInv, GateTypeOK, FlightInv, Overtaken, Flights
<1>6. CASE ChangeProfile
  <2>1. /\ changes' = changes + 1 /\ changes < MaxChanges /\ profile' \in Profiles
        /\ UNCHANGED <<configured, poisoned, inflight, flight, cache, thread>>
    BY <1>6 DEF ChangeProfile
  <2>2. GateTypeOK'
    BY <2>1 DEF GateInv, GateTypeOK, Flights
  <2>3. ASSUME NEW j \in Flights PROVE FlightInv(j)'
    <3>1. flight[j].since \in Nat /\ changes \in Nat
      BY DEF GateInv, GateTypeOK, FlightType
    <3>2. FlightInv(j)
      BY DEF GateInv
    <3> QED  BY <2>1, <3>1, <3>2 DEF FlightInv, Overtaken
  <2> QED  BY <2>1, <2>2, <2>3 DEF GateInv
<1>7. CASE UNCHANGED gateVars
  BY <1>7 DEF gateVars, GateInv, GateTypeOK, FlightInv, Overtaken, Flights
<1> QED  BY <1>1, <1>2, <1>3, <1>4, <1>5, <1>6, <1>7 DEF GateNext

LEMMA GateAlways == GateSpec => []GateInv
BY GateStarts, GateStep, PTL DEF GateSpec

(* For every number of threads, probes and profiles: a thread is told "ready"
   only if some probe of the profile bound now answered for it, in time and not
   too long ago, and the Gates are open.                                     *)
THEOREM ReadinessIsEarned == GateSpec => ReadyIsEarned
<1>1. GateInv /\ [GateNext]_gateVars =>
        [\A t \in Threads :
            thread'[t] # thread[t] /\ thread'[t].at \in {"ready", "policy"} =>
                GatesPass /\ \E k \in Flights : Earned(k)]_gateVars
  <2> SUFFICES ASSUME GateInv, GateNext, NEW t \in Threads,
                      thread'[t] # thread[t], thread'[t].at \in {"ready", "policy"}
               PROVE  GatesPass /\ \E k \in Flights : Earned(k)
    BY DEF gateVars
  <2>1. ASSUME CachedSuccess PROVE GatesPass /\ \E k \in Flights : Earned(k)
    <3>1. cache \in Flights /\ flight[cache].result
      BY <2>1 DEF CachedSuccess, GateInv, GateTypeOK
    <3>2. Earned(cache)
      BY <2>1, <3>1 DEF CachedSuccess, Earned, GateInv, FlightInv
    <3> QED  BY <2>1, <3>1, <3>2 DEF CachedSuccess
  <2>2. ASSUME NEW u \in Threads,
               \/ Refused(u) \/ Cached(u) \/ Join(u) \/ Start(u) \/ StartFails(u)
               \/ TimeOut(u) \/ Wake(u) \/ TakePolicy(u) \/ Return(u)
        PROVE  CachedSuccess
    <3>1. CASE Start(u)
      <4>1. PICK k \in Flights : thread' = [thread EXCEPT ![u] = [at |-> "waiting", on |-> k]]
        BY <3>1 DEF Start, TakeOff
      <4> QED  BY <4>1 DEF GateInv, GateTypeOK
    <3>2. CASE Join(u)
      BY <2>2, <3>2 DEF Join, GateInv, GateTypeOK
    <3>3. CASE \/ Refused(u) \/ Cached(u) \/ StartFails(u)
               \/ TimeOut(u) \/ Wake(u) \/ TakePolicy(u) \/ Return(u)
      BY <2>2, <3>3 DEF Refused, Cached, StartFails, TimeOut, Wake, TakePolicy, Return, Answer,
                        GateInv, GateTypeOK
    <3> QED  BY <2>2, <3>1, <3>2, <3>3
  <2>3. ASSUME NEW k \in Flights, RunProbe(k) \/ DeadlinePasses(k) \/ SuccessAges(k)
        PROVE  FALSE
    BY <2>3 DEF RunProbe, DeadlinePasses, SuccessAges
  <2>4. ~Poison /\ ~ChangeProfile
    BY DEF Poison, ChangeProfile
  <2> QED  BY <2>1, <2>2, <2>3, <2>4 DEF GateNext
<1> QED  BY <1>1, GateAlways, PTL DEF GateSpec, ReadyIsEarned

(* For every number of threads and probes: who waits for a probe that answers
   well and in time is refused only if the profile, a Gate or the clock moved. *)
THEOREM HealthyProbesAdmit == GateSpec => HealthyProbeAdmits
<1>1. GateInv /\ [GateNext]_gateVars =>
        [\A t \in Threads :
            thread[t].at = "waiting" /\ thread'[t].at = "refused"
               /\ flight[thread[t].on].good => Overtaken(thread[t].on)]_gateVars
  <2> SUFFICES ASSUME GateInv, GateNext, NEW t \in Threads, thread[t].at = "waiting",
                      thread'[t].at = "refused", flight[thread[t].on].good
               PROVE  Overtaken(thread[t].on)
    BY DEF gateVars
  <2> DEFINE k == thread[t].on
  <2>1. k \in Flights /\ FlightInv(k) /\ flight[k].state # "none"
    BY DEF GateInv
  <2>2. TimeOut(t) \/ Wake(t)
    <3>1. ASSUME NEW u \in Threads,
                 \/ Refused(u) \/ Cached(u) \/ Join(u) \/ Start(u) \/ StartFails(u)
                 \/ TimeOut(u) \/ Wake(u) \/ TakePolicy(u) \/ Return(u)
          PROVE  u = t /\ (TimeOut(t) \/ Wake(t))
      BY <3>1 DEF Refused, Cached, Join, Start, TakeOff, StartFails, TimeOut, Wake, TakePolicy,
                  Return, Answer, GateInv, GateTypeOK
    <3>2. ASSUME NEW j \in Flights, RunProbe(j) \/ DeadlinePasses(j) \/ SuccessAges(j)
          PROVE  FALSE
      BY <3>2 DEF RunProbe, DeadlinePasses, SuccessAges
    <3>3. ~Poison /\ ~ChangeProfile
      BY DEF Poison, ChangeProfile
    <3> QED  BY <3>1, <3>2, <3>3 DEF GateNext
  <2>3. CASE TimeOut(t)
    BY <2>3 DEF TimeOut, Overtaken
  <2>4. CASE Wake(t)
    <3>1. CASE ~flight[k].result
      BY <2>1, <3>1 DEF FlightInv
    <3>2. CASE flight[k].result
      <4>1. ~CachedSuccess
        BY <2>4, <3>2 DEF Wake, Answer, GateInv, GateTypeOK
      <4> QED
        BY <2>1, <3>2, <4>1 DEF FlightInv, CachedSuccess, GatesPass, Overtaken, Flights
    <3> QED  BY <3>1, <3>2
  <2> QED  BY <2>2, <2>3, <2>4
<1> QED  BY <1>1, GateAlways, PTL DEF GateSpec, HealthyProbeAdmits

-----------------------------------------------------------------------------
(* What the ledger, the store and a Conversation assume of their limits, every
   deployment that starts provides.                                          *)
(* domain: EVENT_ENVELOPE_BYTES, and the room a Run keeps to end in.         *)
TERMINAL_EVENT_HEADROOM == 4
TERMINAL_EVENT_BYTE_HEADROOM == 1024

(* The parameters of the capacity ledger, the store and a Conversation.      *)
LedgerLimits(s) ==
    {s.max_global_active_runs, s.max_session_active_runs, s.max_queued_runs,
     s.max_provider_concurrency, s.spend_limit_units} \subseteq Nat \ {0}
StoreLimits(s) ==
    {s.max_resident_conversations, s.create_rate_per_minute} \subseteq Nat \ {0}
ConversationLimits(s, envelope) ==
    /\ {s.max_turns_per_conversation, s.max_attempts_per_lineage} \subseteq Nat \ {0}
    /\ s.max_replay_events >= TERMINAL_EVENT_HEADROOM + 2
    /\ s.max_replay_bytes >= TERMINAL_EVENT_BYTE_HEADROOM + 2 * envelope

(* Settings that pass DeploymentSettingsV1 meet the assumptions under which the
   ledger, the store and the Conversation are verified, provided the terminal
   events fit in their headroom.                                             *)
THEOREM AcceptedSettingsSuffice ==
    ASSUME NEW s, Accepted(s),
           NEW envelope \in Nat, 4 * envelope <= TERMINAL_EVENT_BYTE_HEADROOM
    PROVE  LedgerLimits(s) /\ StoreLimits(s) /\ ConversationLimits(s, envelope)
<1>1. InRange(s)
  BY DEF Accepted
<1>2. LedgerLimits(s)
  <2>1. /\ s.max_global_active_runs \in 1..10^3 /\ s.max_session_active_runs \in 1..16
        /\ s.max_queued_runs \in 1..10^3 /\ s.max_provider_concurrency \in 1..64
        /\ s.spend_limit_units \in 1..10^6
    BY <1>1 DEF InRange
  <2>2. \A n, m \in Nat : n \in 1..m => n \in Nat \ {0}
    OBVIOUS
  <2> QED  BY <2>1, <2>2 DEF LedgerLimits
<1>3. StoreLimits(s)
  <2>1. s.max_resident_conversations \in 1..10^5 /\ s.create_rate_per_minute \in 1..6 * 10^3
    BY <1>1 DEF InRange
  <2> QED  BY <2>1 DEF StoreLimits
<1>4. ConversationLimits(s, envelope)
  BY <1>1 DEF InRange, ConversationLimits, TERMINAL_EVENT_HEADROOM, TERMINAL_EVENT_BYTE_HEADROOM
<1> QED  BY <1>2, <1>3, <1>4
=============================================================================
