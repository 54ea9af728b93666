--------------------------- MODULE CapacityLedger ---------------------------
(***************************************************************************)
(* The capacity ledger of InMemoryConversationStore                        *)
(* (src/aidd_chat/adapters/memory.py): RunLease objects, the counters kept *)
(* under `_index_lock`, and the Spend Circuit Breaker.  Every method holds *)
(* `_index_lock` from its first read to its last write, so each is one     *)
(* action.  A lease names the conversation it was taken for; the identity  *)
(* of a dropped lease may be reused for a later one.                       *)
(***************************************************************************)
EXTENDS Integers, FiniteSets

CONSTANTS
    Leases,           \* identities of RunLease objects
    Conversations,    \* conversation ids
    Conv,             \* Conv[l]: lease.conversation_id
    MaxGlobal,        \* limits.max_global_active_runs
    MaxSession,       \* limits.max_session_active_runs
    MaxQueued,        \* limits.max_queued_runs
    MaxProvider,      \* limits.max_provider_concurrency
    SpendLimit        \* limits.spend_limit_units

ASSUME LimitsAssumption ==
    /\ Conv \in [Leases -> Conversations]
    /\ {MaxGlobal, MaxSession, MaxQueued, MaxProvider, SpendLimit} \subseteq Nat

VARIABLES
    issued,         \* leases a caller holds
    started,        \* lease.started
    released,       \* lease.released
    activeRuns,     \* _active_runs: leases per conversation
    activeTotal,    \* _active_total
    queuedTotal,    \* _queued_total
    reservedUnits,  \* _reserved_units
    providerCalls,  \* _provider_calls
    spendUnits      \* _spend_units of the current window

leaseVars   == <<issued, started, released>>
counterVars == <<activeRuns, activeTotal, queuedTotal, reservedUnits,
                 providerCalls, spendUnits>>
vars        == <<leaseVars, counterVars>>

Queued   == issued \ (started \cup released)
Active   == started \ released
Held     == issued \ released
HeldBy(c) == {l \in Held : Conv[l] = c}

Init ==
    /\ issued = {} /\ started = {} /\ released = {}
    /\ activeRuns = [c \in Conversations |-> 0]
    /\ activeTotal = 0 /\ queuedTotal = 0 /\ reservedUnits = 0
    /\ providerCalls = 0 /\ spendUnits = 0

-----------------------------------------------------------------------------
(* _roll_spend_window_locked: whether the window has elapsed is the clock's
   choice, and it is read on every reservation, refused or not.              *)
RolledSpend(elapsed) == IF elapsed THEN 0 ELSE spendUnits

(* Faulty variants, each a plausible slip in the methods below; no action of
   the specification uses one.                                               *)
FitsFault_NoReserved(c, spend) ==      \* breaker ignores uncharged reservations
    /\ spend < SpendLimit
    /\ activeTotal + queuedTotal < MaxGlobal
    /\ activeRuns[c] < MaxSession
    /\ queuedTotal < MaxQueued
    /\ providerCalls < MaxProvider
FitsFault_ActiveOnly(c, spend) ==      \* global ceiling counts started Runs only
    /\ spend + reservedUnits < SpendLimit
    /\ activeTotal < MaxGlobal
    /\ activeRuns[c] < MaxSession
    /\ queuedTotal < MaxQueued
    /\ providerCalls < MaxProvider
ReleaseFault_Twice(l) ==               \* lease.released not consulted
    /\ l \in issued
    /\ released' = released \cup {l}
    /\ \/ /\ l \in started
          /\ activeTotal' = activeTotal - 1
          /\ providerCalls' = providerCalls - 1
          /\ UNCHANGED <<queuedTotal, reservedUnits>>
       \/ /\ l \notin started
          /\ queuedTotal' = queuedTotal - 1
          /\ reservedUnits' = reservedUnits - 1
          /\ UNCHANGED <<activeTotal, providerCalls>>
    /\ activeRuns' = [activeRuns EXCEPT ![Conv[l]] = @ - 1]
    /\ UNCHANGED <<issued, started, spendUnits>>

(* Every ceiling of reserve_run has room for conversation c.                 *)
Fits(c, spend) ==
    /\ spend + reservedUnits < SpendLimit
    /\ activeTotal + queuedTotal < MaxGlobal
    /\ activeRuns[c] < MaxSession
    /\ queuedTotal < MaxQueued
    /\ providerCalls < MaxProvider

ReserveRun(l, elapsed) ==
    /\ l \notin issued
    /\ Fits(Conv[l], RolledSpend(elapsed))
    /\ spendUnits' = RolledSpend(elapsed)
    /\ queuedTotal' = queuedTotal + 1
    /\ reservedUnits' = reservedUnits + 1
    /\ activeRuns' = [activeRuns EXCEPT ![Conv[l]] = @ + 1]
    /\ issued' = issued \cup {l}
    /\ UNCHANGED <<started, released, activeTotal, providerCalls>>

(* A refused reservation raises CapacityExceeded; it has rolled the window.  *)
RefuseRun(c, elapsed) ==
    /\ ~Fits(c, RolledSpend(elapsed))
    /\ spendUnits' = RolledSpend(elapsed)
    /\ UNCHANGED <<leaseVars, activeRuns, activeTotal, queuedTotal,
                   reservedUnits, providerCalls>>

StartRun(l) ==
    /\ l \in Queued
    /\ started' = started \cup {l}
    /\ queuedTotal' = queuedTotal - 1
    /\ activeTotal' = activeTotal + 1
    /\ reservedUnits' = reservedUnits - 1
    /\ providerCalls' = providerCalls + 1
    /\ spendUnits' = spendUnits + 1
    /\ UNCHANGED <<issued, released, activeRuns>>

(* release_run of a started lease, and of one that never started; a second
   release is refused by lease.released and changes nothing.                 *)
ReleaseRun(l) ==
    /\ l \in Held
    /\ released' = released \cup {l}
    /\ \/ /\ l \in started
          /\ activeTotal' = activeTotal - 1
          /\ providerCalls' = providerCalls - 1
          /\ UNCHANGED <<queuedTotal, reservedUnits>>
       \/ /\ l \notin started
          /\ queuedTotal' = queuedTotal - 1
          /\ reservedUnits' = reservedUnits - 1
          /\ UNCHANGED <<activeTotal, providerCalls>>
    /\ activeRuns' = [activeRuns EXCEPT ![Conv[l]] = @ - 1]
    /\ UNCHANGED <<issued, started, spendUnits>>

(* The last reference to a released lease goes away with its caller.         *)
DropLease(l) ==
    /\ l \in released
    /\ issued' = issued \ {l}
    /\ started' = started \ {l}
    /\ released' = released \ {l}
    /\ UNCHANGED counterVars

Next ==
    \/ \E l \in Leases, elapsed \in BOOLEAN : ReserveRun(l, elapsed)
    \/ \E c \in Conversations, elapsed \in BOOLEAN : RefuseRun(c, elapsed)
    \/ \E l \in Leases : StartRun(l) \/ ReleaseRun(l) \/ DropLease(l)

Spec == Init /\ [][Next]_vars

-----------------------------------------------------------------------------
TypeOK ==
    /\ issued \subseteq Leases /\ started \subseteq issued /\ released \subseteq issued
    /\ activeRuns \in [Conversations -> Nat]
    /\ {activeTotal, queuedTotal, reservedUnits, providerCalls, spendUnits} \subseteq Nat

(* Every counter is the size of the population it stands for, so a refusal is
   decided by the Runs that exist and never by a count a double or a missed
   release has bent (docstrings of InMemoryConversationStore and RunLease).  *)
LedgerMatchesLeases ==
    /\ queuedTotal   = Cardinality(Queued)
    /\ reservedUnits = Cardinality(Queued)
    /\ activeTotal   = Cardinality(Active)
    /\ providerCalls = Cardinality(Active)
    /\ \A c \in Conversations : activeRuns[c] = Cardinality(HeldBy(c))

(* The Run ceilings are never exceeded, whichever order leases start and end. *)
RunCeilingsHold ==
    /\ Cardinality(Held) <= MaxGlobal
    /\ Cardinality(Queued) <= MaxQueued
    /\ \A c \in Conversations : Cardinality(HeldBy(c)) <= MaxSession

(* The Spend Circuit Breaker: what one window has charged, together with what
   the reservations already admitted will still charge, stays within the limit
   although the charge lands later than the decision (reserve_run's comment). *)
SpendWithinLimit == spendUnits + reservedUnits <= SpendLimit

(* reserve_run reads `_provider_calls` but start_run increments it, so the
   ceiling can be passed; the overshoot is at most the queue behind it.       *)
ProviderOvershootBounded ==
    providerCalls + queuedTotal > 0 =>
        providerCalls + queuedTotal < MaxProvider + MaxQueued

(* The counters decide exactly what counting the Runs themselves would.       *)
Slots == INSTANCE RunSlots WITH waiting <- Queued, running <- Active
ImplementsRunSlots == Slots!Spec
=============================================================================
