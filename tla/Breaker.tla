------------------------------- MODULE Breaker -------------------------------
(***************************************************************************)
(* The lock-free circuit breaker of crates/core/src/breaker.rs.            *)
(*                                                                         *)
(* One step of a thread is one access to shared memory (a load, store,     *)
(* swap, fetch_add or compare_exchange of one atomic, or the setting of    *)
(* one gauge) or one reading of the clock, so that every interleaving of   *)
(* the real operations is a behaviour of Spec.  Atomics are sequentially   *)
(* consistent here.                                                        *)
(*                                                                         *)
(* Three kinds of thread use a breaker: request handlers (Callers), the    *)
(* health probes of one upstream (Checkers), which report with a Probe     *)
(* ticket nobody granted them, and hot reloads (Reloaders).                *)
(***************************************************************************)
EXTENDS Integers, FiniteSets

CONSTANTS
  Callers,      \* request handlers
  Checkers,     \* health probes
  Reloaders,    \* hot reloads
  Configs,      \* records [cooldown, threshold] a reload may bring
  Gauges,       \* does this breaker write the metric gauges?
  MaxTime,      \* the clock stops here (bound)
  Never         \* u64::MAX in rearmed_at_millis: no re-arm so far

Threads == Callers \cup Checkers \cup Reloaders

\* BreakerConfig::validate: both fields are at least 1.
ASSUME ConfigsAssumption ==
  /\ Configs # {}
  /\ \A c \in Configs : c.cooldown \in Nat \ {0} /\ c.threshold \in Nat \ {0}

ASSUME ConstantsAssumption ==
  /\ MaxTime \in Nat
  /\ Gauges \in BOOLEAN
  /\ Never \notin Nat

CircuitState == {"Closed", "Open", "HalfOpen"}
Admission    == {"Normal", "Probe"}

VARIABLES
  state,       \* state
  failures,    \* consecutive_failures
  openedAt,    \* opened_at_millis
  rearmedAt,   \* rearmed_at_millis
  cooldown,    \* cooldown_millis
  threshold,   \* failure_threshold
  stateGauge,  \* ferryman_circuit_state
  aliveGauge,  \* ferryman_upstream_alive
  now,         \* what now_millis() returns
  pc,          \* the next atomic access of each thread
  ticket,      \* the Admission each thread holds, or "None"
  loc          \* the local variables of each thread's current call

atomics == <<state, failures, openedAt, rearmedAt>>
config  == <<cooldown, threshold>>
gauges  == <<stateGauge, aliveGauge>>
thread  == <<pc, ticket, loc>>
vars    == <<atomics, config, gauges, now, thread>>

\* The locals of a call: state, opened_at, clock, cooldown, rearmed_at and
\* failure count as this thread last read them.
Locals == [seen : CircuitState, stamp : Nat, at : Nat, cd : Nat,
           last : Nat \cup {Never}, n : Nat]

Blank == [seen |-> "Closed", stamp |-> 0, at |-> 0, cd |-> 0,
          last |-> Never, n |-> 0]

Labels == {"idle", "held",
           "claim_load", "claim_clock", "claim_check", "claim_cas", "half_cas",
           "rel_clock", "rel_load", "rel_state", "rel_last", "rel_cap", "rel_arm",
           "ok_zero", "ok_swap", "ok_reset",
           "fail_add", "fail_check", "fail_clock", "fail_store", "fail_cas",
           "conf_threshold", "gauge_load", "gauge_state", "gauge_alive"}

SaturatingSub(a, b) == IF a >= b THEN a - b ELSE 0

Alive(s) == IF s = "Closed" THEN 1 ELSE 0

TypeOK ==
  /\ state \in CircuitState
  /\ failures \in Nat
  /\ openedAt \in Nat
  /\ rearmedAt \in Nat \cup {Never}
  /\ cooldown \in Nat \ {0}
  /\ threshold \in Nat \ {0}
  /\ stateGauge \in CircuitState
  /\ aliveGauge \in {0, 1}
  /\ now \in Nat
  /\ pc \in [Threads -> Labels]
  /\ ticket \in [Threads -> Admission \cup {"None"}]
  /\ loc \in [Threads -> Locals]

\* Breaker::unchecked: a closed breaker that was never opened or re-armed.
Init ==
  /\ state = "Closed"
  /\ failures = 0
  /\ openedAt = 0
  /\ rearmedAt = Never
  /\ \E c \in Configs : cooldown = c.cooldown /\ threshold = c.threshold
  /\ stateGauge = "Closed"
  /\ aliveGauge = 1
  /\ now = 0
  /\ pc = [t \in Threads |-> "idle"]
  /\ ticket = [t \in Threads |-> "None"]
  /\ loc = [t \in Threads |-> Blank]

-----------------------------------------------------------------------------
(* Control flow of a thread *)

At(t, label) == pc[t] = label

InCall(t) == pc[t] \notin {"idle", "held"}

Goto(t, label) == pc' = [pc EXCEPT ![t] = label] /\ UNCHANGED ticket

Rest(tk) == IF tk = "None" THEN "idle" ELSE "held"

\* The call returns; tk is the ticket its thread is left with.
Return(t, tk) ==
  /\ pc' = [pc EXCEPT ![t] = Rest(tk)]
  /\ ticket' = [ticket EXCEPT ![t] = tk]
  /\ loc' = [loc EXCEPT ![t] = Blank]

\* The call returns after set_gauges, whose early return is ~Gauges.
PublishAndReturn(t, tk) ==
  /\ pc' = [pc EXCEPT ![t] = IF Gauges THEN "gauge_load" ELSE Rest(tk)]
  /\ ticket' = [ticket EXCEPT ![t] = tk]
  /\ loc' = [loc EXCEPT ![t] = Blank]

\* compare_exchange(from, to) of state, then log_transition and set_gauges
\* when it succeeds.  won and lost are the tickets in either case.
Transition(t, from, to, won, lost) ==
  \/ /\ state = from
     /\ state' = to
     /\ PublishAndReturn(t, won)
  \/ /\ state # from
     /\ UNCHANGED state
     /\ Return(t, lost)

-----------------------------------------------------------------------------
(* try_acquire and claim_probe_slot *)

TryAcquire(t) ==
  /\ t \in Callers
  /\ At(t, "idle")
  /\ \/ /\ state = "Closed"
        /\ Return(t, "Normal")
     \/ /\ state # "Closed"
        /\ Goto(t, "claim_load")
        /\ loc' = [loc EXCEPT ![t].seen = state]
  /\ UNCHANGED <<atomics, config, gauges, now>>

ClaimLoad(t) ==
  /\ At(t, "claim_load")
  /\ Goto(t, "claim_clock")
  /\ loc' = [loc EXCEPT ![t].stamp = openedAt]
  /\ UNCHANGED <<atomics, config, gauges, now>>

ClaimClock(t) ==
  /\ At(t, "claim_clock")
  /\ Goto(t, "claim_check")
  /\ loc' = [loc EXCEPT ![t].at = now]
  /\ UNCHANGED <<atomics, config, gauges, now>>

ClaimCheck(t) ==
  /\ At(t, "claim_check")
  /\ \/ /\ SaturatingSub(loc[t].at, loc[t].stamp) < cooldown
        /\ Return(t, "None")
     \/ /\ SaturatingSub(loc[t].at, loc[t].stamp) >= cooldown
        /\ Goto(t, "claim_cas")
        /\ loc' = [loc EXCEPT ![t].cd = cooldown]
  /\ UNCHANGED <<atomics, config, gauges, now>>

\* Mutant: a store where the code has a compare_exchange.
ClaimCasStores(t) ==
  /\ At(t, "claim_cas")
  /\ openedAt' = loc[t].at
  /\ \/ loc[t].seen = "Open" /\ Goto(t, "half_cas") /\ UNCHANGED loc
     \/ loc[t].seen = "HalfOpen" /\ Return(t, "Probe")
  /\ UNCHANGED <<state, failures, rearmedAt, config, gauges, now>>

\* The winner of the stamp goes on to half-open the circuit it saw open; in a
\* circuit it saw half-open it is the replacement of a lost probe.
ClaimCas(t) ==
  /\ At(t, "claim_cas")
  /\ \/ /\ openedAt # loc[t].stamp
        /\ Return(t, "None")
        /\ UNCHANGED openedAt
     \/ /\ openedAt = loc[t].stamp
        /\ openedAt' = loc[t].at
        /\ \/ loc[t].seen = "Open" /\ Goto(t, "half_cas") /\ UNCHANGED loc
           \/ loc[t].seen = "HalfOpen" /\ Return(t, "Probe")
  /\ UNCHANGED <<state, failures, rearmedAt, config, gauges, now>>

HalfCas(t) ==
  /\ At(t, "half_cas")
  /\ Transition(t, "Open", "HalfOpen", "Probe", "Normal")
  /\ UNCHANGED <<failures, openedAt, rearmedAt, config, gauges, now>>

-----------------------------------------------------------------------------
(* release *)

Release(t) ==
  /\ t \in Callers
  /\ At(t, "held")
  /\ \/ ticket[t] = "Normal" /\ Return(t, "None")
     \/ /\ ticket[t] = "Probe"
        /\ Goto(t, "rel_clock")
        /\ loc' = [loc EXCEPT ![t].cd = cooldown]
  /\ UNCHANGED <<atomics, config, gauges, now>>

ReleaseClock(t) ==
  /\ At(t, "rel_clock")
  /\ Goto(t, "rel_load")
  /\ loc' = [loc EXCEPT ![t].at = now]
  /\ UNCHANGED <<atomics, config, gauges, now>>

ReleaseLoad(t) ==
  /\ At(t, "rel_load")
  /\ Goto(t, "rel_state")
  /\ loc' = [loc EXCEPT ![t].stamp = openedAt]
  /\ UNCHANGED <<atomics, config, gauges, now>>

ReleaseState(t) ==
  /\ At(t, "rel_state")
  /\ \/ state # "HalfOpen" /\ Return(t, "None")
     \/ state = "HalfOpen" /\ Goto(t, "rel_last") /\ UNCHANGED loc
  /\ UNCHANGED <<atomics, config, gauges, now>>

\* A re-arm less than a cooldown ago ends the call.
RearmTooSoon(at, last, cd) == last # Never /\ SaturatingSub(at, last) < cd

ReleaseLast(t) ==
  /\ At(t, "rel_last")
  /\ \/ RearmTooSoon(loc[t].at, rearmedAt, loc[t].cd) /\ Return(t, "None")
     \/ /\ ~RearmTooSoon(loc[t].at, rearmedAt, loc[t].cd)
        /\ Goto(t, "rel_cap")
        /\ loc' = [loc EXCEPT ![t].last = rearmedAt]
  /\ UNCHANGED <<atomics, config, gauges, now>>

\* Mutant: the re-arm is stamped by a store where the code has a compare_exchange.
ReleaseCapStores(t) ==
  /\ At(t, "rel_cap")
  /\ rearmedAt' = loc[t].at
  /\ Goto(t, "rel_arm")
  /\ UNCHANGED <<loc, state, failures, openedAt, config, gauges, now>>

ReleaseCap(t) ==
  /\ At(t, "rel_cap")
  /\ \/ rearmedAt # loc[t].last /\ Return(t, "None") /\ UNCHANGED rearmedAt
     \/ /\ rearmedAt = loc[t].last
        /\ rearmedAt' = loc[t].at
        /\ Goto(t, "rel_arm")
        /\ UNCHANGED loc
  /\ UNCHANGED <<state, failures, openedAt, config, gauges, now>>

\* Mutant: a subtraction that does not saturate.
ReleaseArmUnsaturated(t) ==
  /\ At(t, "rel_arm")
  /\ openedAt' = IF openedAt = loc[t].stamp THEN loc[t].at - loc[t].cd ELSE openedAt
  /\ Return(t, "None")
  /\ UNCHANGED <<state, failures, rearmedAt, config, gauges, now>>

ReleaseArm(t) ==
  /\ At(t, "rel_arm")
  /\ openedAt' = IF openedAt = loc[t].stamp
                   THEN SaturatingSub(loc[t].at, loc[t].cd) ELSE openedAt
  /\ Return(t, "None")
  /\ UNCHANGED <<state, failures, rearmedAt, config, gauges, now>>

-----------------------------------------------------------------------------
(* record_success *)

\* Mutant: a success closes the half-open circuit only.
RecordSuccessHalfOpen(t) ==
  /\ At(t, "held")
  /\ \/ ticket[t] = "Probe" /\ state # "HalfOpen" /\ Return(t, "None")
     \/ ticket[t] = "Probe" /\ state = "HalfOpen" /\ Goto(t, "ok_zero") /\ UNCHANGED loc
     \/ ticket[t] = "Normal" /\ state = "Closed" /\ Goto(t, "ok_reset") /\ UNCHANGED loc
     \/ ticket[t] = "Normal" /\ state # "Closed" /\ Return(t, "None")
  /\ UNCHANGED <<atomics, config, gauges, now>>

RecordSuccess(t) ==
  /\ At(t, "held")
  /\ \/ ticket[t] = "Probe" /\ state = "Closed" /\ Return(t, "None")
     \/ ticket[t] = "Probe" /\ state # "Closed" /\ Goto(t, "ok_zero") /\ UNCHANGED loc
     \/ ticket[t] = "Normal" /\ state = "Closed" /\ Goto(t, "ok_reset") /\ UNCHANGED loc
     \/ ticket[t] = "Normal" /\ state # "Closed" /\ Return(t, "None")
  /\ UNCHANGED <<atomics, config, gauges, now>>

SuccessZero(t) ==
  /\ At(t, "ok_zero")
  /\ failures' = 0
  /\ Goto(t, "ok_swap")
  /\ UNCHANGED <<state, openedAt, rearmedAt, loc, config, gauges, now>>

SuccessSwap(t) ==
  /\ At(t, "ok_swap")
  /\ state' = "Closed"
  /\ IF state # "Closed" THEN PublishAndReturn(t, "None") ELSE Return(t, "None")
  /\ UNCHANGED <<failures, openedAt, rearmedAt, config, gauges, now>>

SuccessReset(t) ==
  /\ At(t, "ok_reset")
  /\ failures' = 0
  /\ Return(t, "None")
  /\ UNCHANGED <<state, openedAt, rearmedAt, config, gauges, now>>

-----------------------------------------------------------------------------
(* record_failure; loc.seen is the state the failure is judged by *)

\* Mutant: the ticket is not looked at.
RecordFailureOfAnyTicket(t) ==
  /\ At(t, "held")
  /\ \/ /\ state # "Open"
        /\ Goto(t, IF state = "Closed" THEN "fail_add" ELSE "fail_clock")
        /\ loc' = [loc EXCEPT ![t].seen = state]
     \/ state = "Open" /\ Return(t, "None")
  /\ UNCHANGED <<atomics, config, gauges, now>>

RecordFailure(t) ==
  /\ At(t, "held")
  /\ \/ /\ state = "Closed"
        /\ Goto(t, "fail_add")
        /\ loc' = [loc EXCEPT ![t].seen = state]
     \/ /\ state = "HalfOpen" /\ ticket[t] = "Probe"
        /\ Goto(t, "fail_clock")
        /\ loc' = [loc EXCEPT ![t].seen = state]
     \/ /\ state = "Open" \/ (state = "HalfOpen" /\ ticket[t] = "Normal")
        /\ Return(t, "None")
  /\ UNCHANGED <<atomics, config, gauges, now>>

FailureAdd(t) ==
  /\ At(t, "fail_add")
  /\ failures' = failures + 1
  /\ loc' = [loc EXCEPT ![t].n = failures + 1]
  /\ Goto(t, "fail_check")
  /\ UNCHANGED <<state, openedAt, rearmedAt, config, gauges, now>>

FailureCheck(t) ==
  /\ At(t, "fail_check")
  /\ \/ loc[t].n < threshold /\ Return(t, "None")
     \/ loc[t].n >= threshold /\ Goto(t, "fail_clock") /\ UNCHANGED loc
  /\ UNCHANGED <<atomics, config, gauges, now>>

FailureClock(t) ==
  /\ At(t, "fail_clock")
  /\ Goto(t, "fail_store")
  /\ loc' = [loc EXCEPT ![t].at = now]
  /\ UNCHANGED <<atomics, config, gauges, now>>

\* Mutant: the stamp is the end of the cooldown, not the opening.
FailureStoresDeadline(t) ==
  /\ At(t, "fail_store")
  /\ openedAt' = loc[t].at + cooldown
  /\ Goto(t, "fail_cas")
  /\ UNCHANGED <<state, failures, rearmedAt, loc, config, gauges, now>>

FailureStore(t) ==
  /\ At(t, "fail_store")
  /\ openedAt' = loc[t].at
  /\ Goto(t, "fail_cas")
  /\ UNCHANGED <<state, failures, rearmedAt, loc, config, gauges, now>>

FailureCas(t) ==
  /\ At(t, "fail_cas")
  /\ Transition(t, loc[t].seen, "Open", "None", "None")
  /\ UNCHANGED <<failures, openedAt, rearmedAt, config, gauges, now>>

-----------------------------------------------------------------------------
(* set_gauges, reconfigure and the users of the breaker *)

GaugeLoad(t) ==
  /\ At(t, "gauge_load")
  /\ Goto(t, "gauge_state")
  /\ loc' = [loc EXCEPT ![t].seen = state]
  /\ UNCHANGED <<atomics, config, gauges, now>>

GaugeState(t) ==
  /\ At(t, "gauge_state")
  /\ stateGauge' = loc[t].seen
  /\ Goto(t, "gauge_alive")
  /\ UNCHANGED <<atomics, config, aliveGauge, now, loc>>

GaugeAlive(t) ==
  /\ At(t, "gauge_alive")
  /\ aliveGauge' = Alive(loc[t].seen)
  /\ Return(t, ticket[t])
  /\ UNCHANGED <<atomics, config, stateGauge, now>>

\* The handler's future is dropped: its ticket is neither recorded nor released.
Drop(t) ==
  /\ t \in Callers
  /\ At(t, "held")
  /\ Return(t, "None")
  /\ UNCHANGED <<atomics, config, gauges, now>>

\* Mutant: the health loop does not publish the gauges.
HealthTickSilent(t) ==
  /\ t \in Checkers
  /\ At(t, "idle")
  /\ Return(t, "Probe")
  /\ UNCHANGED <<atomics, config, gauges, now>>

\* health_loop: publish_gauges, then one probe whose result is reported with
\* a Probe ticket.
HealthTick(t) ==
  /\ t \in Checkers
  /\ At(t, "idle")
  /\ PublishAndReturn(t, "Probe")
  /\ UNCHANGED <<atomics, config, gauges, now>>

Reconfigure(t) ==
  /\ t \in Reloaders
  /\ At(t, "idle")
  /\ \E c \in Configs :
       /\ cooldown' = c.cooldown
       /\ loc' = [loc EXCEPT ![t].n = c.threshold]
  /\ Goto(t, "conf_threshold")
  /\ UNCHANGED <<atomics, threshold, gauges, now>>

\* The second store of reconfigure; the reload then publishes the gauges.
ReconfigureThreshold(t) ==
  /\ At(t, "conf_threshold")
  /\ threshold' = loc[t].n
  /\ PublishAndReturn(t, "None")
  /\ UNCHANGED <<atomics, cooldown, gauges, now>>

Tick ==
  /\ now < MaxTime
  /\ now' = now + 1
  /\ UNCHANGED <<atomics, config, gauges, thread>>

-----------------------------------------------------------------------------

\* Inside a call, a thread has exactly one next access.
Advance(t) ==
  \/ ClaimLoad(t) \/ ClaimClock(t) \/ ClaimCheck(t) \/ ClaimCas(t) \/ HalfCas(t)
  \/ ReleaseClock(t) \/ ReleaseLoad(t) \/ ReleaseState(t) \/ ReleaseLast(t)
  \/ ReleaseCap(t) \/ ReleaseArm(t)
  \/ SuccessZero(t) \/ SuccessSwap(t) \/ SuccessReset(t)
  \/ FailureAdd(t) \/ FailureCheck(t) \/ FailureClock(t) \/ FailureStore(t)
  \/ FailureCas(t)
  \/ GaugeLoad(t) \/ GaugeState(t) \/ GaugeAlive(t)
  \/ ReconfigureThreshold(t)

\* The calls a thread may start.
Call(t) ==
  \/ TryAcquire(t) \/ Release(t) \/ RecordSuccess(t) \/ RecordFailure(t)
  \/ Drop(t) \/ HealthTick(t) \/ Reconfigure(t)

Next == Tick \/ \E t \in Threads : Call(t) \/ Advance(t)

Spec == Init /\ [][Next]_vars

\* The health loop runs for ever: each round publishes, probes and reports.
\* Its calls are wait-free.  No other thread need take a step, or finish one.
Fairness ==
  \A t \in Checkers :
    WF_vars(HealthTick(t) \/ RecordSuccess(t) \/ RecordFailure(t) \/ Advance(t))

FairSpec == Spec /\ Fairness

-----------------------------------------------------------------------------
(* Properties *)

\* The step is thread t's access at this label.
StepAt(t, label) == At(t, label) /\ pc'[t] # label

\* A claim that wins a probe slot moves opened_at on by a whole configured
\* cooldown, whatever happened between its load and its compare_exchange: no
\* two callers win the same window (claim_probe_slot).
SlotsAreACooldownApart ==
  [][\A t \in Threads :
       StepAt(t, "claim_cas") /\ pc'[t] \in {"half_cas", "held"}
         => \E c \in Configs : openedAt' >= openedAt + c.cooldown]_vars

\* Two re-arms by release are stamped at least a configured cooldown apart,
\* however many releases race (the once-per-cooldown cap of release).
RearmsAreACooldownApart ==
  [][rearmedAt # Never => \E c \in Configs : rearmedAt' >= rearmedAt + c.cooldown]_rearmedAt

\* The circuit only moves along the edges of the state machine, and only a
\* thread with a Probe ticket, or the winner of a probe slot, moves it while
\* it is open or half-open: late results of ordinary requests never do
\* (record_success, record_failure, try_acquire).
OnlyProbesMoveAnOpenCircuit ==
  [][\/ state = "Closed" /\ state' = "Open"
     \/ /\ state = "Open" /\ state' = "HalfOpen"
        /\ \E t \in Threads : StepAt(t, "half_cas")
     \/ /\ state = "HalfOpen" /\ state' = "Open"
        /\ \E t \in Threads : StepAt(t, "fail_cas") /\ ticket[t] = "Probe"
     \/ /\ state # "Closed" /\ state' = "Closed"
        /\ \E t \in Threads : StepAt(t, "ok_swap") /\ ticket[t] = "Probe"]_state

\* No stamp, shared or local, is ahead of the clock, so that an elapsed time
\* is never computed from a stamp of the future (now_millis, claim_probe_slot,
\* release, record_failure).
NoStampAheadOfClock ==
  /\ openedAt <= now
  /\ rearmedAt # Never => rearmedAt <= now
  /\ \A t \in Threads : loc[t].at <= now /\ loc[t].stamp <= now

\* Once the circuit settles the gauges show it, whatever stale value a racing
\* set_gauges left in them: the health loop publishes again (health_loop,
\* publish_gauges, set_gauges).
GaugesConverge ==
  <>[][FALSE]_state => <>[](stateGauge = state /\ aliveGauge = Alive(state))

\* Health checks that keep passing close the circuit again and again, without
\* any request and without waiting for the cooldown (probe_one, record_success).
HealthChecksCloseTheCircuit ==
  []<><<\E t \in Checkers : RecordSuccess(t)>>_vars => []<>(state = "Closed")

=============================================================================
